---------------------------- MODULE MCRunQueue ----------------------------
(***************************************************************************)
(* Instances of RunQueue for TLC. A local array of four goroutines is the  *)
(* smallest from which a batch of the global queue has more than its first *)
(* goroutine; with six goroutines it overflows.                            *)
(***************************************************************************)
EXTENDS RunqRing, TLC

CONSTANTS g1, g2, g3, g4, g5, g6

Six == {g1, g2, g3, g4, g5, g6}
=============================================================================
