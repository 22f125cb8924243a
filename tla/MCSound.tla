------------------------------ MODULE MCSound ------------------------------
(* Model-checking instances of Sound.                                      *)
EXTENDS Sound
=============================================================================
