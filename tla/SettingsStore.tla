--------------------------- MODULE SettingsStore ---------------------------
(***************************************************************************)
(* What the settings store promises: the program holds one document and    *)
(* the disk keeps one; keeping is atomic, and a restart finds what was     *)
(* kept last.  Keeping may fail, and a crash loses what was not kept.      *)
(***************************************************************************)
CONSTANTS
    Documents,      \* the settings
    Others,         \* what else the disk may hold at first
    Loaded(_),      \* the documents a start may make of what it finds
    Off             \* held while the program is not running

VARIABLES held, kept

Init == held = Off /\ kept \in Documents \cup Others

Change == held # Off /\ held' \in Documents /\ UNCHANGED kept

Keep == held # Off /\ kept' = held /\ UNCHANGED held

Crash == held' = Off /\ UNCHANGED kept

Restart == held = Off /\ held' \in Loaded(kept) /\ UNCHANGED kept

Next == Change \/ Keep \/ Crash \/ Restart

Spec == Init /\ [][Next]_<<held, kept>>
=============================================================================
