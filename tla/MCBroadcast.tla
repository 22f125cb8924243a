---------------------------- MODULE MCBroadcast ----------------------------
(* Model-checking instance of Broadcast: clients are interchangeable.      *)
EXTENDS Broadcast, TLC

MCSymmetry == Permutations(Clients)
=============================================================================
