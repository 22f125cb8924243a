------------------------------ MODULE Backoff ------------------------------
(***************************************************************************)
(* The retry delay of bluetooth/reconnect.py.  Delays are in whole time    *)
(* units; the random jitter, which only lengthens a delay, is a choice     *)
(* from a range.                                                           *)
(***************************************************************************)
EXTENDS Integers, FiniteSetsExt

CONSTANTS
    InitialBackoff,     \* first delay
    Multiplier,         \* growth per failed attempt
    MaxBackoff,         \* cap of every delay, jitter included
    MinBackoff,         \* floor of a delay, unless InitialBackoff is below it
    JitterPercent       \* longest jitter, in percent of the delay

(* The constructor refuses a negative InitialBackoff, a Multiplier below   *)
(* one and a MaxBackoff that is not positive.                              *)
-----------------------------------------------------------------------------
(* The exponential delay, by the cases of the code: a zero or an already   *)
(* capped first delay, no growth, growth beyond the cap (the code compares *)
(* logarithms so that a large step never builds a large power), growth.    *)
GrownDelay(step) ==
    CASE InitialBackoff = 0 -> 0
      [] InitialBackoff >= MaxBackoff -> MaxBackoff
      [] InitialBackoff \in 1 .. MaxBackoff - 1 /\ (Multiplier = 1 \/ step = 0) -> InitialBackoff
      [] OTHER -> Min({MaxBackoff, InitialBackoff * Multiplier ^ step})

BaseDelay(step) ==
    LET floor == Min({MinBackoff, InitialBackoff})
    IN  Max({floor, GrownDelay(Max({0, step}))})

(* Every delay _calculate_backoff_delay can return for a step.             *)
BackoffDelays(step) ==
    {Min({MaxBackoff, BaseDelay(step) + (BaseDelay(step) * j) \div 100}) : j \in 0 .. JitterPercent}
=============================================================================
