----------------------------- MODULE MCSettings -----------------------------
(* Model-checking instances of Settings.                                   *)
EXTENDS Settings, TLC

MCSymmetry == Permutations(Speakers) \cup Permutations(Configured)
=============================================================================
