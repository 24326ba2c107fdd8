-------------------------- MODULE MCDelayingQueue --------------------------
(***************************************************************************)
(* DelayingQueue for TLC.  A channel of one entry lets a caller block, and *)
(* a width of three bits lets the delay overflow.                          *)
(***************************************************************************)
EXTENDS DelayingQueue
=============================================================================
