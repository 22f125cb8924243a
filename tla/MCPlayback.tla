----------------------------- MODULE MCPlayback -----------------------------
(* Model-checking instance of Playback: commands are interchangeable.      *)
EXTENDS Playback

MCSymmetry == Permutations(Commands)
=============================================================================
