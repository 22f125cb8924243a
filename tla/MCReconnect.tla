---------------------------- MODULE MCReconnect ----------------------------
(* Model-checking instance of Reconnect: the delays come from Backoff.     *)
EXTENDS Reconnect

MCBackoff == INSTANCE Backoff WITH
    InitialBackoff <- 1, Multiplier <- 2, MaxBackoff <- 2, MinBackoff <- 1, JitterPercent <- 50

(* A table, so that TLC evaluates the delays once.                         *)
MCDelayTable == [step \in 0 .. MaxFailures |-> MCBackoff!BackoffDelays(step)]

MCDelays(step) == MCDelayTable[step]

(* Without growth or jitter, for the run about late drops.                        *)
MCSteadyDelays(step) == {1}
=============================================================================
