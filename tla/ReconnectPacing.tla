-------------------------- MODULE ReconnectPacing --------------------------
(***************************************************************************)
(* What automatic reconnection promises the radio, without the mechanism:  *)
(* per speaker one attempt at a time, and after f consecutive failures no  *)
(* attempt before a backoff delay for f has passed, nor before the circuit *)
(* breaker's cooldown once f is at the limit.  Only a link that is up, or  *)
(* a new registration, forgives the failures (DOCS.md, "Stability").       *)
(***************************************************************************)
EXTENDS Integers

CONSTANTS
    Speakers,
    MaxFailures, BreakerCooldown,
    Delays(_),          \* the backoff delays a failure count may earn
    LongestRest         \* rests are counted up to this value

VARIABLES
    failures,           \* consecutive failures, counted up to MaxFailures
    rest,               \* time since the last of them
    attempting          \* an attempt is connecting

vars == <<failures, rest, attempting>>

-----------------------------------------------------------------------------
Init ==
    /\ failures = [s \in Speakers |-> 0]
    /\ rest = [s \in Speakers |-> LongestRest]
    /\ attempting = [s \in Speakers |-> FALSE]

(* A failure count f has been rested for t.                                *)
Rested(f, t) ==
    f = 0 \/ /\ \E d \in Delays(f) : t >= d
             /\ f >= MaxFailures => t >= BreakerCooldown

Begin(s) ==
    /\ ~attempting[s] /\ Rested(failures[s], rest[s])
    /\ attempting'[s]
    /\ failures'[s] = failures[s] /\ rest'[s] = rest[s]

Fail(s) ==
    /\ attempting[s] /\ ~attempting'[s]
    /\ failures'[s] = (IF failures[s] < MaxFailures THEN failures[s] + 1 ELSE MaxFailures)
    /\ rest'[s] = 0

(* A busy adapter or a cancellation ends an attempt without a verdict.     *)
GiveUp(s) ==
    /\ attempting[s] /\ ~attempting'[s]
    /\ failures'[s] = failures[s] /\ rest'[s] = rest[s]

(* A connection, or the end of the registration.                           *)
Forgive(s) ==
    /\ failures'[s] = 0 /\ rest'[s] = LongestRest
    /\ attempting'[s] => attempting[s]

Elapse(s) ==
    /\ rest'[s] = (IF rest[s] < LongestRest THEN rest[s] + 1 ELSE LongestRest)
    /\ failures'[s] = failures[s] /\ attempting'[s] = attempting[s]

Stay(s) ==
    failures'[s] = failures[s] /\ rest'[s] = rest[s] /\ attempting'[s] = attempting[s]

(* The functions keep their domain; each speaker makes a move of its own.  *)
Next ==
    /\ failures' \in [Speakers -> 0 .. MaxFailures]
    /\ rest' \in [Speakers -> 0 .. LongestRest]
    /\ attempting' \in [Speakers -> BOOLEAN]
    /\ \A s \in Speakers :
         Begin(s) \/ Fail(s) \/ GiveUp(s) \/ Forgive(s) \/ Elapse(s) \/ Stay(s)

Spec == Init /\ [][Next]_vars
=============================================================================
