------------------------------- MODULE MCBufNet -------------------------------
(***************************************************************************)
(* An instance of BufNet for TLC: three nodes, one loop each.              *)
(***************************************************************************)
EXTENDS BufNet

OwnLoop == [n \in Node |-> n]
=============================================================================
