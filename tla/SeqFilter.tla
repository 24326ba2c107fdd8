----------------------------- MODULE SeqFilter -----------------------------
(***************************************************************************)
(* The elements of a sequence that are in a set, in the sequence's order:  *)
(* how a loop drops entries from a slice or a linked list.  It is SelectSeq *)
(* with membership as its test, written as a recursive function because    *)
(* the prover has no definition of SelectSeq.                              *)
(***************************************************************************)
EXTENDS Naturals, Sequences

Keep(s, S) ==
    LET kept[i \in 0..Len(s)] ==
            IF i = 0 THEN <<>>
            ELSE IF s[i] \in S THEN Append(kept[i - 1], s[i]) ELSE kept[i - 1]
    IN  kept[Len(s)]
=============================================================================
