----------------------------- MODULE MCPairing -----------------------------
(* Model-checking instances of Pairing: callers, speakers and PINs are     *)
(* interchangeable.                                                        *)
EXTENDS Pairing, TLC

MCSymmetry == Permutations(Callers) \cup Permutations(Addresses) \cup Permutations(Pins)
=============================================================================
