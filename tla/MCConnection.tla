---------------------------- MODULE MCConnection ----------------------------
(* Model-checking instance of Connection: callers are interchangeable.     *)
EXTENDS Connection, TLC

MCSymmetry == Permutations(Callers)
=============================================================================
