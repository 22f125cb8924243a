-------------------------- MODULE ReconnectProofs --------------------------
(***************************************************************************)
(* Theorems about Reconnect, for every set of speakers, every bound on     *)
(* tasks and every choice of delays that satisfies ReconnectAssumption.    *)
(***************************************************************************)
EXTENDS Reconnect, TLAPS

(* A task that is created or connecting is the one _inflight holds, and it *)
(* works on the registered profile: OneAttempt, made inductive.            *)
LiveIsOwned ==
    \A s \in Speakers : \A k \in Slots :
      Live(s, k) => inflight[s] = k /\ task[s][k].own

(* The deadlines of a profile still owe what the failures have not rested. *)
Rested(f, t) ==
    f = 0 \/ /\ \E d \in Delays(f) : t >= d
             /\ f >= MaxFailures => t >= BreakerCooldown

OwesRest(p, t) ==
    /\ p.step = p.failures
    /\ p.failures > 0 => \E d \in Delays(p.failures) : t + p.retryIn >= d
    /\ p.failures >= MaxFailures => t + p.brokenFor >= BreakerCooldown

Paced ==
    \A s \in Speakers :
      /\ OwesRest(profile[s], calm[s])
      /\ \A k \in Slots : task[s][k].phase = "created" => Rested(profile[s].failures, calm[s])

IInv == TypeOK /\ LiveIsOwned /\ Paced

-----------------------------------------------------------------------------
(* The constants, as the provers use them.                                 *)
LEMMA Constants ==
    /\ MaxFailures \in Nat /\ MaxFailures > 0
    /\ BreakerCooldown \in Nat /\ MaxBackoff \in Nat
    /\ Grace \in Nat /\ Grace > 0 /\ Settle \in Nat /\ FlapCooldown \in Nat /\ FlapWindow \in Nat
    /\ LongestWait \in Nat /\ LongestWait >= MaxBackoff /\ LongestWait >= Settle
    /\ LongestWait >= FlapCooldown /\ LongestWait >= BreakerCooldown
    /\ Longest \in Nat /\ Longest >= BreakerCooldown /\ Longest >= MaxBackoff
    /\ NoTask \notin Slots
    /\ \A f \in 0 .. MaxFailures : \A d \in Delays(f) : d \in Nat /\ d <= MaxBackoff
BY ReconnectAssumption DEF ReconnectAssumption, Longest, LongestWait, Larger, NoTask, Slots

(* Larger is an upper bound, and one of its arguments.                     *)
LEMMA LargerIs ==
    ASSUME NEW a \in Nat, NEW b \in Nat
    PROVE  Larger(a, b) \in Nat /\ Larger(a, b) >= a /\ Larger(a, b) >= b
BY DEF Larger

(* A new profile is well formed.                                           *)
LEMMA FreshIs == Fresh \in Profile /\ Fresh.failures = 0 /\ Fresh.step = 0
BY Constants DEF Fresh, Profile, States, NoDrop

(* A delay, alone or raised to the settle time, fits in a deadline.        *)
LEMMA DelayFits ==
    ASSUME NEW f \in 0 .. MaxFailures, NEW d \in Delays(f)
    PROVE  /\ d \in Nat /\ d \in 0 .. MaxBackoff /\ d \in 0 .. LongestWait
           /\ Larger(d, Settle) \in 0 .. LongestWait
<1>1. d \in Nat /\ d <= MaxBackoff
  BY Constants
<1> QED BY <1>1, Constants DEF Larger

(* Scheduling a retry keeps the failures and never shortens the deadline.  *)
LEMMA RetryIs ==
    ASSUME NEW p \in Profile, NEW d \in 0 .. LongestWait
    PROVE  /\ Retry(p, d) \in Profile
           /\ Retry(p, d).failures = p.failures /\ Retry(p, d).step = p.step
           /\ Retry(p, d).brokenFor = p.brokenFor
           /\ Retry(p, d).retryIn >= p.retryIn /\ Retry(p, d).retryIn >= d
<1> DEFINE later == Larger(Larger(p.retryIn, d), Larger(p.coolFor, p.brokenFor))
<1>1. later \in 0 .. LongestWait /\ later >= p.retryIn /\ later >= d
  BY Constants DEF Larger, Profile
<1>2. "backoff" \in States
  BY DEF States
<1>3. Retry(p, d) = [p EXCEPT !.state = "backoff", !.retryIn = later]
  BY DEF Retry
<1> HIDE DEF later
<1> QED BY <1>1, <1>2, <1>3 DEF Profile

LEMMA ForgetDropIs ==
    ASSUME NEW p \in Profile
    PROVE  LET q == [p EXCEPT !.down = NoDrop]
           IN  /\ q \in Profile
               /\ q.failures = p.failures /\ q.step = p.step
               /\ q.brokenFor = p.brokenFor /\ q.retryIn = p.retryIn
<1>1. NoDrop \in NoDrop .. Grace
  BY Constants DEF NoDrop
<1> QED BY <1>1 DEF Profile

(* So does _arm_backoff.                                                   *)
LEMMA ArmBackoffIs ==
    ASSUME NEW p \in Profile, NEW d \in 0 .. MaxBackoff
    PROVE  LET q == ArmBackoff(p, d)
           IN  /\ q \in Profile
               /\ q.failures = p.failures /\ q.step = p.step
               /\ q.brokenFor = p.brokenFor
               /\ q.retryIn >= p.retryIn
<1> DEFINE r == RecordFlap(p)
           t == [r EXCEPT !.down = NoDrop]
<1>0. {0} \in SUBSET (0 .. FlapWindow) /\ FlapCooldown \in 0 .. FlapCooldown
  BY Constants
<1>1. /\ r \in Profile /\ r.failures = p.failures /\ r.step = p.step
      /\ r.brokenFor = p.brokenFor /\ r.retryIn = p.retryIn
  <2>1. CASE Cardinality(p.flaps \cup {0}) < FlapLimit
    BY <2>1, <1>0 DEF RecordFlap, Profile
  <2>2. CASE ~(Cardinality(p.flaps \cup {0}) < FlapLimit)
    BY <2>2, <1>0 DEF RecordFlap, Profile
  <2> QED BY <2>1, <2>2
<1> HIDE DEF r
<1>2. /\ t \in Profile /\ t.failures = r.failures /\ t.step = r.step
      /\ t.brokenFor = r.brokenFor /\ t.retryIn = r.retryIn
  BY <1>1, ForgetDropIs
<1>3. ArmBackoff(p, d) = Retry(t, d)
  BY DEF ArmBackoff, r
<1> HIDE DEF t
<1>4. d \in 0 .. LongestWait
  BY Constants
<1> QED BY <1>1, <1>2, <1>3, <1>4, RetryIs

(* So does a whole iteration of _tick.                                     *)
LEMMA TickedIs ==
    ASSUME NEW p \in Profile, NEW d \in 0 .. MaxBackoff
    PROVE  LET q == Ticked(p, d)
           IN  /\ q \in Profile
               /\ q.failures = p.failures /\ q.step = p.step
               /\ q.brokenFor = p.brokenFor
               /\ q.retryIn >= p.retryIn
<1> DEFINE q == IF p.state = "circuit_broken" THEN [p EXCEPT !.state = "backoff"] ELSE p
<1>1. /\ q \in Profile /\ q.failures = p.failures /\ q.step = p.step
      /\ q.brokenFor = p.brokenFor /\ q.retryIn = p.retryIn
  BY DEF Profile, States
<1>2. Ticked(p, d) \in {p, ArmBackoff(q, d), q}
  BY DEF Ticked
<1> HIDE DEF q
<1>3. p.retryIn >= p.retryIn
  BY DEF Profile
<1> QED BY <1>1, <1>2, <1>3, ArmBackoffIs

(* The two branches of a device event keep a profile well formed.          *)
LEMMA SeenIs ==
    ASSUME NEW p \in Profile
    PROVE  /\ SeenConnected(p) \in Profile
           /\ SeenConnected(p).failures = 0 /\ SeenConnected(p).step = 0
           /\ SeenConnected(p).state = "connected"
           /\ SeenDisconnected(p) \in Profile
           /\ SeenDisconnected(p).failures = p.failures /\ SeenDisconnected(p).step = p.step
           /\ SeenDisconnected(p).brokenFor = p.brokenFor /\ SeenDisconnected(p).retryIn = p.retryIn
<1>1. /\ NoDrop \in NoDrop .. Grace /\ 0 \in NoDrop .. Grace /\ 0 \in 0 .. Settle
      /\ 0 \in 0 .. MaxFailures /\ 0 \in 0 .. LongestWait /\ 0 \in 0 .. BreakerCooldown
      /\ "connected" \in States
  BY Constants DEF NoDrop, States
<1>2. /\ SeenConnected(p) \in Profile /\ SeenConnected(p).failures = 0 /\ SeenConnected(p).step = 0
      /\ SeenConnected(p).state = "connected"
  BY <1>1 DEF SeenConnected, Profile
<1>3. /\ SeenDisconnected(p) \in Profile
      /\ SeenDisconnected(p).failures = p.failures /\ SeenDisconnected(p).step = p.step
      /\ SeenDisconnected(p).brokenFor = p.brokenFor /\ SeenDisconnected(p).retryIn = p.retryIn
  BY <1>1 DEF SeenDisconnected, Profile
<1> QED BY <1>2, <1>3

(* A time unit shortens each deadline by at most one.                      *)
LEMMA AgedIs ==
    ASSUME NEW p \in Profile
    PROVE  /\ Aged(p) \in Profile
           /\ Aged(p).failures = p.failures /\ Aged(p).step = p.step
           /\ Aged(p).brokenFor + 1 >= p.brokenFor
           /\ Aged(p).retryIn + 1 >= p.retryIn
<1>1. /\ Left(p.retryIn) \in 0 .. LongestWait /\ Left(p.brokenFor) \in 0 .. BreakerCooldown
      /\ Left(p.coolFor) \in 0 .. FlapCooldown
      /\ Left(p.retryIn) + 1 >= p.retryIn /\ Left(p.brokenFor) + 1 >= p.brokenFor
  BY Constants DEF Left, Profile
<1>2. Smaller(p.up + 1, Settle) \in 0 .. Settle
  BY Constants DEF Smaller, Profile
<1>3. (IF p.down = NoDrop THEN p.down ELSE Smaller(p.down + 1, Grace)) \in NoDrop .. Grace
  BY Constants DEF Smaller, Profile, NoDrop
<1>4. {age \in 0 .. FlapWindow : age - 1 \in p.flaps} \in SUBSET (0 .. FlapWindow)
  OBVIOUS
<1> QED BY <1>1, <1>2, <1>3, <1>4 DEF Aged, Profile

(* A cancelled task is no longer live.                                     *)
LEMMA CancelledIs ==
    ASSUME NEW t \in Task
    PROVE  /\ Cancelled(t) \in Task
           /\ Cancelled(t).phase \notin {"created", "connecting"}
BY DEF Cancelled, Task, Phases

-----------------------------------------------------------------------------
(* Initially.                                                              *)
LEMMA InitIInv == Init => IInv
<1> SUFFICES ASSUME Init PROVE IInv
  OBVIOUS
<1>1. TypeOK
  BY FreshIs, Constants DEF Init, TypeOK, FreeTask, Task, Phases
<1>2. LiveIsOwned
  BY DEF Init, LiveIsOwned, Live, FreeTask
<1>3. Paced
  BY FreshIs, Constants DEF Init, Paced, OwesRest, Rested, FreeTask
<1> QED BY <1>1, <1>2, <1>3 DEF IInv

-----------------------------------------------------------------------------
(* One step.  Each lemma takes the inductive invariant through one action. *)

(* What every outcome of an attempt has in common: one task is done, one   *)
(* profile and its history change.                                         *)
LEMMA FinishIs ==
    ASSUME TypeOK, NEW s \in Speakers, NEW k \in Slots, Finish(s, k)
    PROVE  /\ task' \in [Speakers -> [Slots -> Task]]
           /\ task'[s][k].phase = "done"
           /\ \A t \in Speakers, j \in Slots : (t # s \/ j # k) => task'[t][j] = task[t][j]
<1> DEFINE ended == [task[s][k] EXCEPT !.phase = "done"]
           row == [task[s] EXCEPT ![k] = ended]
<1>1. ended \in Task /\ ended.phase = "done"
  <2>1. task[s][k] \in Task
    BY DEF TypeOK
  <2> QED BY <2>1 DEF Task, Phases
<1>2. task' = [task EXCEPT ![s] = row]
  BY DEF Finish
<1> HIDE DEF ended
<1>3. row \in [Slots -> Task] /\ row[k] = ended /\ \A j \in Slots : j # k => row[j] = task[s][j]
  BY <1>1 DEF TypeOK
<1> HIDE DEF row
<1> QED BY <1>1, <1>2, <1>3 DEF TypeOK

LEMMA FinishKeeps ==
    ASSUME IInv, NEW s \in Speakers, NEW k \in Slots, Finish(s, k),
           NEW p \in Profile, NEW c \in 0 .. Longest, OwesRest(p, c),
           profile' = [profile EXCEPT ![s] = p], calm' = [calm EXCEPT ![s] = c],
           \A j \in Slots : task[s][j].phase = "created" => Rested(p.failures, c),
           upAge' \in [Speakers -> 0 .. Settle],
           UNCHANGED <<loop, globallyEnabled, tracked, inflight, link>>
    PROVE  IInv'
<1>1. TypeOK'
  BY FinishIs DEF IInv, TypeOK
<1>2. \A t \in Speakers, j \in Slots :
        task'[t][j].phase \in {"created", "connecting"} => task'[t][j] = task[t][j]
  BY FinishIs DEF IInv
<1>3. LiveIsOwned'
  BY <1>2 DEF IInv, LiveIsOwned, Live
<1>4. Paced'
  <2> SUFFICES ASSUME NEW t \in Speakers
               PROVE  /\ OwesRest(profile'[t], calm'[t])
                      /\ \A j \in Slots : task'[t][j].phase = "created"
                                           => Rested(profile'[t].failures, calm'[t])
    BY DEF Paced, OwesRest, Rested
  <2>1. CASE t = s
    BY <2>1, <1>2 DEF IInv, TypeOK
  <2>2. CASE t # s
    BY <2>2, <1>2 DEF IInv, TypeOK, Paced
  <2> QED BY <2>1, <2>2
<1> QED BY <1>1, <1>3, <1>4 DEF IInv

(* The same when the profile is not the task's own: only the task changes. *)
LEMMA FinishAlone ==
    ASSUME IInv, NEW s \in Speakers, NEW k \in Slots, Finish(s, k),
           UNCHANGED <<loop, globallyEnabled, tracked, profile, inflight, link, calm, upAge>>
    PROVE  IInv'
<1>1. profile[s] \in Profile /\ calm[s] \in 0 .. Longest /\ OwesRest(profile[s], calm[s])
  BY DEF IInv, TypeOK, Paced
<1>2. profile' = [profile EXCEPT ![s] = profile[s]] /\ calm' = [calm EXCEPT ![s] = calm[s]]
  BY DEF IInv, TypeOK
<1>3. \A j \in Slots : task[s][j].phase = "created" => Rested(profile[s].failures, calm[s])
  BY DEF IInv, Paced
<1>4. upAge' \in [Speakers -> 0 .. Settle]
  BY DEF IInv, TypeOK
<1> QED BY <1>1, <1>2, <1>3, <1>4, FinishKeeps

(* While a task connects, the speaker has no created task and the profile  *)
(* is the task's own.                                                      *)
LEMMA ConnectingIsAlone ==
    ASSUME IInv, NEW s \in Speakers, NEW k \in Slots, task[s][k].phase = "connecting"
    PROVE  /\ task[s][k].own
           /\ inflight[s] = k
           /\ \A j \in Slots : task[s][j].phase # "created"
BY DEF IInv, LiveIsOwned, Live

(* The profile and the history of a speaker, as facts.                     *)
LEMMA SpeakerIs ==
    ASSUME IInv, NEW s \in Speakers
    PROVE  /\ profile[s] \in Profile
           /\ calm[s] \in 0 .. Longest /\ calm[s] \in Nat
           /\ OwesRest(profile[s], calm[s])
           /\ profile[s].step \in 0 .. MaxFailures
           /\ profile[s].failures \in 0 .. MaxFailures
BY Constants DEF IInv, TypeOK, Paced, Profile

LEMMA SucceedsKeeps ==
    ASSUME IInv, NEW s \in Speakers, NEW k \in Slots, AttemptSucceeds(s, k)
    PROVE  IInv'
<1> DEFINE p == Connected(profile[s])
<1>1. p \in Profile /\ p.failures = 0 /\ p.step = 0
  <2> DEFINE q == SeenConnected(profile[s])
  <2>1. q \in Profile /\ q.failures = 0 /\ q.step = 0
    BY SpeakerIs, SeenIs
  <2>2. p = [q EXCEPT !.up = 0]
    BY DEF Connected
  <2> HIDE DEF q
  <2> QED BY <2>1, <2>2, Constants DEF Profile
<1>2. /\ profile' = [profile EXCEPT ![s] = p] /\ calm' = [calm EXCEPT ![s] = Longest]
      /\ upAge' = [upAge EXCEPT ![s] = 0]
  BY ConnectingIsAlone DEF AttemptSucceeds
<1> HIDE DEF p
<1>3. OwesRest(p, Longest) /\ Longest \in 0 .. Longest /\ upAge' \in [Speakers -> 0 .. Settle]
  BY <1>1, <1>2, Constants DEF OwesRest, IInv, TypeOK
<1> QED BY <1>1, <1>2, <1>3, FinishKeeps, ConnectingIsAlone DEF AttemptSucceeds

(* Moving only the deadline later keeps what is owed.                      *)
LEMMA LaterKeepsOwed ==
    ASSUME NEW p \in Profile, NEW q \in Profile, NEW c \in Nat, OwesRest(p, c),
           q.failures = p.failures, q.step = p.step, q.brokenFor = p.brokenFor,
           q.retryIn >= p.retryIn
    PROVE  OwesRest(q, c)
<1>1. p.failures > 0 => \E d \in Delays(p.failures) : c + q.retryIn >= d
  <2> SUFFICES ASSUME p.failures > 0
               PROVE  \E d \in Delays(p.failures) : c + q.retryIn >= d
    OBVIOUS
  <2>1. PICK d \in Delays(p.failures) : c + p.retryIn >= d
    BY DEF OwesRest
  <2>2. d \in Nat /\ p.retryIn \in Nat /\ q.retryIn \in Nat
    BY <2>1, Constants DEF Profile
  <2>3. c + q.retryIn >= d
    BY <2>1, <2>2
  <2> QED BY <2>1, <2>3
<1> QED BY <1>1 DEF OwesRest

LEMMA FindsBusyKeeps ==
    ASSUME IInv, NEW s \in Speakers, NEW k \in Slots, AttemptFindsBusy(s, k)
    PROVE  IInv'
<1>1. PICK delay \in Delays(profile[s].step) :
        profile' = [profile EXCEPT ![s] = Deferred(profile[s], delay)]
  BY ConnectingIsAlone DEF AttemptFindsBusy
<1>2. Larger(delay, Settle) \in 0 .. LongestWait
  BY SpeakerIs, DelayFits
<1> DEFINE p == Deferred(profile[s], delay)
<1>3. /\ p \in Profile /\ p.failures = profile[s].failures /\ p.step = profile[s].step
      /\ p.brokenFor = profile[s].brokenFor /\ p.retryIn >= profile[s].retryIn
  <2> DEFINE q == [profile[s] EXCEPT !.down = NoDrop]
  <2>1. /\ q \in Profile /\ q.failures = profile[s].failures /\ q.step = profile[s].step
        /\ q.brokenFor = profile[s].brokenFor /\ q.retryIn = profile[s].retryIn
    BY SpeakerIs, ForgetDropIs
  <2>2. p = Retry(q, Larger(delay, Settle))
    BY DEF Deferred
  <2> HIDE DEF q, p
  <2> QED BY <1>2, <2>1, <2>2, RetryIs
<1>4. profile' = [profile EXCEPT ![s] = p] /\ calm' = [calm EXCEPT ![s] = calm[s]]
      /\ upAge' \in [Speakers -> 0 .. Settle]
  BY <1>1 DEF IInv, TypeOK, AttemptFindsBusy
<1> HIDE DEF p
<1>5. OwesRest(p, calm[s])
  BY <1>3, SpeakerIs, LaterKeepsOwed
<1>6. task[s][k].phase = "connecting"
  BY DEF AttemptFindsBusy
<1>7. \A j \in Slots : task[s][j].phase # "created"
  BY <1>6, ConnectingIsAlone
<1>8. calm[s] \in 0 .. Longest
  BY SpeakerIs
<1>9. Finish(s, k) /\ UNCHANGED <<loop, globallyEnabled, tracked, inflight, link>>
  BY DEF AttemptFindsBusy
<1> QED BY <1>3, <1>4, <1>5, <1>7, <1>8, <1>9, FinishKeeps

(* A failure is counted once, and opens the breaker at the limit.          *)
LEMMA FailedIs ==
    ASSUME NEW old \in Profile, old.step = old.failures, NEW delay \in Delays(OneMore(old.step))
    PROVE  LET n == OneMore(old.failures)
               p == Failed(old, delay)
           IN  /\ n \in 0 .. MaxFailures /\ delay \in Delays(n) /\ delay \in 0 .. MaxBackoff
               /\ p \in Profile /\ p.failures = n /\ p.step = n
               /\ p.retryIn >= delay /\ p.retryIn >= old.retryIn
               /\ n >= MaxFailures => p.brokenFor >= BreakerCooldown
<1> DEFINE n == OneMore(old.failures)
           counted == [old EXCEPT !.failures = OneMore(old.failures), !.step = OneMore(old.step)]
           broken == [counted EXCEPT !.brokenFor = Larger(old.brokenFor, BreakerCooldown)]
           p == Failed(old, delay)
<1>1. old.failures \in 0 .. MaxFailures
  BY DEF Profile
<1>2. n \in 0 .. MaxFailures /\ OneMore(old.step) = n
  BY <1>1, Constants DEF OneMore, Smaller
<1>3. delay \in Delays(n) /\ delay \in 0 .. MaxBackoff /\ delay \in 0 .. LongestWait
  BY <1>2, DelayFits
<1>4. /\ counted \in Profile /\ counted.failures = n /\ counted.step = n
      /\ counted.brokenFor = old.brokenFor /\ counted.retryIn = old.retryIn
  BY <1>2 DEF Profile
<1>5. /\ broken \in Profile /\ broken.failures = n /\ broken.step = n
      /\ broken.brokenFor >= BreakerCooldown /\ broken.retryIn = old.retryIn
  <2>1. /\ Larger(old.brokenFor, BreakerCooldown) \in 0 .. BreakerCooldown
        /\ Larger(old.brokenFor, BreakerCooldown) >= BreakerCooldown
    BY Constants DEF Larger, Profile
  <2> HIDE DEF counted
  <2> QED BY <1>4, <2>1 DEF Profile
<1>6. p = IF n < MaxFailures THEN Retry(counted, delay)
          ELSE [Retry(broken, delay) EXCEPT !.state = "circuit_broken"]
  BY <1>4 DEF Failed
<1> HIDE DEF n, counted, broken, p
<1>7. /\ p \in Profile /\ p.failures = n /\ p.step = n
      /\ p.retryIn >= delay /\ p.retryIn >= old.retryIn
      /\ n >= MaxFailures => p.brokenFor >= BreakerCooldown
  <2>1. CASE n < MaxFailures
    <3>1. p = Retry(counted, delay)
      BY <2>1, <1>6
    <3> QED BY <2>1, <3>1, <1>2, <1>3, <1>4, RetryIs, Constants
  <2>2. CASE ~(n < MaxFailures)
    <3> DEFINE r == Retry(broken, delay)
    <3>1. /\ r \in Profile /\ r.failures = n /\ r.step = n
          /\ r.retryIn >= delay /\ r.retryIn >= old.retryIn /\ r.brokenFor >= BreakerCooldown
      BY <1>3, <1>5, RetryIs
    <3>2. p = [r EXCEPT !.state = "circuit_broken"] /\ "circuit_broken" \in States
      BY <2>2, <1>6 DEF States
    <3> HIDE DEF r
    <3> QED BY <3>1, <3>2 DEF Profile
  <2> QED BY <2>1, <2>2
<1> QED BY <1>2, <1>3, <1>7 DEF n, p

LEMMA FailsKeeps ==
    ASSUME IInv, NEW s \in Speakers, NEW k \in Slots, AttemptFails(s, k)
    PROVE  IInv'
<1>1. PICK delay \in Delays(OneMore(profile[s].step)) :
        profile' = [profile EXCEPT ![s] = Failed(profile[s], delay)]
  BY ConnectingIsAlone DEF AttemptFails
<1> DEFINE n == OneMore(profile[s].failures)
           p == Failed(profile[s], delay)
<1>2. /\ n \in 0 .. MaxFailures /\ delay \in Delays(n) /\ delay \in Nat
      /\ p \in Profile /\ p.failures = n /\ p.step = n /\ p.retryIn >= delay
      /\ n >= MaxFailures => p.brokenFor >= BreakerCooldown
  <2>1. profile[s] \in Profile /\ profile[s].step = profile[s].failures
    BY SpeakerIs DEF OwesRest
  <2>2. delay \in 0 .. MaxBackoff => delay \in Nat
    BY Constants
  <2> QED BY <2>1, <2>2, <1>1, FailedIs
<1>3. profile' = [profile EXCEPT ![s] = p] /\ calm' = [calm EXCEPT ![s] = 0]
      /\ upAge' \in [Speakers -> 0 .. Settle] /\ 0 \in 0 .. Longest
  BY <1>1, ConnectingIsAlone, Constants DEF IInv, TypeOK, AttemptFails
<1> HIDE DEF n, p
<1>4. OwesRest(p, 0)
  <2>1. p.retryIn \in Nat /\ p.brokenFor \in Nat
    BY <1>2 DEF Profile
  <2> QED BY <2>1, <1>2, Constants DEF OwesRest
<1> QED BY <1>2, <1>3, <1>4, FinishKeeps, ConnectingIsAlone DEF AttemptFails

LEMMA CancelledKeeps ==
    ASSUME IInv, NEW s \in Speakers, NEW k \in Slots, AttemptCancelled(s, k)
    PROVE  IInv'
<1>1. CASE task[s][k].phase = "cancelled" /\ task[s][k].own
  <2>1. PICK delay \in Delays(profile[s].step) :
          profile' = [profile EXCEPT ![s] = Retry(profile[s], delay)]
    BY <1>1 DEF AttemptCancelled
  <2> DEFINE p == Retry(profile[s], delay)
  <2>2. /\ p \in Profile /\ p.failures = profile[s].failures /\ p.step = profile[s].step
        /\ p.brokenFor = profile[s].brokenFor /\ p.retryIn >= profile[s].retryIn
    BY SpeakerIs, DelayFits, RetryIs
  <2>3. profile' = [profile EXCEPT ![s] = p] /\ calm' = [calm EXCEPT ![s] = calm[s]]
        /\ upAge' \in [Speakers -> 0 .. Settle]
    BY <2>1 DEF IInv, TypeOK, AttemptCancelled
  <2> HIDE DEF p
  <2>4. OwesRest(p, calm[s])
    BY <2>2, SpeakerIs, LaterKeepsOwed
  <2>5. \A j \in Slots : task[s][j].phase = "created" => Rested(p.failures, calm[s])
    BY <2>2 DEF IInv, Paced
  <2> QED BY <2>2, <2>3, <2>4, <2>5, SpeakerIs, FinishKeeps DEF AttemptCancelled
<1>2. CASE ~(task[s][k].phase = "cancelled" /\ task[s][k].own)
  BY <1>2, FinishAlone DEF AttemptCancelled
<1> QED BY <1>1, <1>2

LEMMA BeginsKeeps ==
    ASSUME IInv, NEW s \in Speakers, NEW k \in Slots, AttemptBegins(s, k)
    PROVE  IInv'
<1>1. CASE task[s][k].own /\ profile[s].enabled /\ profile[s].brokenFor = 0
  <2> DEFINE p == [profile[s] EXCEPT !.state = "reconnecting"]
             t == [phase |-> "connecting", own |-> TRUE, reached |-> link[s]]
             row == [task[s] EXCEPT ![k] = t]
  <2>1. profile' = [profile EXCEPT ![s] = p] /\ task' = [task EXCEPT ![s] = row]
    BY <1>1 DEF AttemptBegins
  <2>2. t \in Task /\ t.phase = "connecting" /\ t.own
    BY DEF Task, Phases, IInv, TypeOK
  <2>3. /\ p \in Profile /\ p.failures = profile[s].failures /\ p.step = profile[s].step
        /\ p.brokenFor = profile[s].brokenFor /\ p.retryIn = profile[s].retryIn
    BY SpeakerIs DEF Profile, States
  <2> HIDE DEF p, t
  <2>4. row \in [Slots -> Task] /\ row[k] = t /\ \A j \in Slots : j # k => row[j] = task[s][j]
    BY <2>2 DEF IInv, TypeOK
  <2> HIDE DEF row
  <2>5. TypeOK'
    BY <2>1, <2>3, <2>4 DEF IInv, TypeOK, AttemptBegins
  <2>6. inflight[s] = k
    BY DEF AttemptBegins, IInv, LiveIsOwned, Live
  <2>7. LiveIsOwned'
    BY <2>1, <2>2, <2>4, <2>6 DEF IInv, TypeOK, LiveIsOwned, Live, AttemptBegins
  <2>8. Paced'
    <3> SUFFICES ASSUME NEW u \in Speakers
                 PROVE  /\ OwesRest(profile'[u], calm[u])
                        /\ \A j \in Slots : task'[u][j].phase = "created"
                                             => Rested(profile'[u].failures, calm[u])
      BY DEF Paced, OwesRest, Rested, AttemptBegins
    <3>1. CASE u = s
      <4>1. profile'[u] = p /\ task'[u] = row
        BY <2>1, <3>1 DEF IInv, TypeOK
      <4>2. OwesRest(p, calm[s])
        BY <2>3, SpeakerIs DEF OwesRest
      <4> QED BY <4>1, <4>2, <3>1, <2>2, <2>3, <2>4 DEF IInv, Paced
    <3>2. CASE u # s
      BY <3>2, <2>1 DEF IInv, TypeOK, Paced
    <3> QED BY <3>1, <3>2
  <2> QED BY <2>5, <2>7, <2>8 DEF IInv
<1>2. CASE ~(task[s][k].own /\ profile[s].enabled /\ profile[s].brokenFor = 0)
  BY <1>2, FinishAlone DEF AttemptBegins
<1> QED BY <1>1, <1>2

LEMMA ReleaseKeeps ==
    ASSUME IInv, NEW s \in Speakers, NEW k \in Slots, ReleaseInflight(s, k)
    PROVE  IInv'
<1> DEFINE row == [task[s] EXCEPT ![k] = FreeTask]
<1>1. task' = [task EXCEPT ![s] = row]
  BY DEF ReleaseInflight
<1>2. FreeTask \in Task /\ FreeTask.phase = "none"
  BY DEF FreeTask, Task, Phases
<1>3. row \in [Slots -> Task] /\ row[k] = FreeTask /\ \A j \in Slots : j # k => row[j] = task[s][j]
  BY <1>2 DEF IInv, TypeOK
<1> HIDE DEF row
<1>4. \A t \in Speakers, j \in Slots :
        task'[t][j].phase \in {"created", "connecting"} => task'[t][j] = task[t][j] /\ (t # s \/ j # k)
  BY <1>1, <1>2, <1>3 DEF IInv, TypeOK
<1>5. TypeOK'
  BY <1>1, <1>3 DEF IInv, TypeOK, ReleaseInflight, NoTask
<1>6. LiveIsOwned'
  BY <1>4 DEF IInv, TypeOK, LiveIsOwned, Live, ReleaseInflight
<1>7. Paced'
  BY <1>4 DEF IInv, Paced, OwesRest, Rested, ReleaseInflight
<1> QED BY <1>5, <1>6, <1>7 DEF IInv

LEMMA RegisterKeeps ==
    ASSUME IInv, NEW s \in Speakers, NEW e \in EnabledArgs, Register(s, e)
    PROVE  IInv'
<1> DEFINE p == [profile[s] EXCEPT !.enabled = e]
<1>1. profile' = [profile EXCEPT ![s] = p]
  BY DEF Register
<1>2. /\ p \in Profile /\ p.failures = profile[s].failures /\ p.step = profile[s].step
      /\ p.brokenFor = profile[s].brokenFor /\ p.retryIn = profile[s].retryIn
  <2>1. e \in BOOLEAN
    BY ReconnectAssumption DEF ReconnectAssumption
  <2> QED BY <2>1, SpeakerIs DEF Profile
<1> HIDE DEF p
<1>3. TypeOK'
  BY <1>1, <1>2 DEF IInv, TypeOK, Register
<1>4. LiveIsOwned'
  BY DEF IInv, LiveIsOwned, Live, Register
<1>5. Paced'
  <2> SUFFICES ASSUME NEW t \in Speakers
               PROVE  /\ OwesRest(profile'[t], calm[t])
                      /\ \A j \in Slots : task[t][j].phase = "created"
                                           => Rested(profile'[t].failures, calm[t])
    BY DEF Paced, OwesRest, Rested, Register
  <2>1. CASE t = s
    BY <2>1, <1>1, <1>2 DEF IInv, TypeOK, Paced, OwesRest
  <2>2. CASE t # s
    BY <2>2, <1>1 DEF IInv, TypeOK, Paced
  <2> QED BY <2>1, <2>2
<1> QED BY <1>3, <1>4, <1>5 DEF IInv

(* Unregistering cancels what is live and forgets what is owed.            *)
LEMMA DroppedTasks ==
    ASSUME IInv, NEW gone, Dropped(gone)
    PROVE  /\ task' \in [Speakers -> [Slots -> Task]]
           /\ \A s \in Speakers : s \notin gone => task'[s] = task[s]
           /\ \A s \in Speakers : s \in gone =>
                \A k \in Slots : task'[s][k].phase \notin {"created", "connecting"}
<1> SUFFICES ASSUME NEW s \in Speakers
             PROVE  /\ task'[s] \in [Slots -> Task]
                    /\ s \notin gone => task'[s] = task[s]
                    /\ s \in gone =>
                         \A k \in Slots : task'[s][k].phase \notin {"created", "connecting"}
  BY DEF Dropped
<1>1. CASE s \notin gone
  BY <1>1 DEF Dropped, IInv, TypeOK
<1>2. CASE s \in gone
  <2> SUFFICES ASSUME NEW k \in Slots
               PROVE  /\ task'[s][k] \in Task
                      /\ task'[s][k].phase \notin {"created", "connecting"}
    BY <1>2 DEF Dropped
  <2> DEFINE t == [task[s][k] EXCEPT !.own = FALSE]
  <2>1. task[s][k] \in Task
    BY DEF IInv, TypeOK
  <2>2. t \in Task /\ t.phase = task[s][k].phase
    BY <2>1 DEF Task
  <2>3. task'[s][k] = IF inflight[s] = k THEN Cancelled(t) ELSE t
    BY <1>2 DEF Dropped
  <2> HIDE DEF t
  <2>4. inflight[s] # k => task[s][k].phase \notin {"created", "connecting"}
    BY DEF IInv, LiveIsOwned, Live
  <2> QED BY <2>2, <2>3, <2>4, CancelledIs
<1> QED BY <1>1, <1>2

LEMMA DroppedKeeps ==
    ASSUME IInv, NEW gone, Dropped(gone), globallyEnabled' \in BOOLEAN,
           UNCHANGED <<loop, link>>
    PROVE  IInv'
<1>1. TypeOK'
  <2>1. tracked' \in SUBSET Speakers /\ inflight' \in [Speakers -> Slots \cup {NoTask}]
    BY DEF IInv, TypeOK, Dropped
  <2>2. profile' \in [Speakers -> Profile]
    BY FreshIs DEF IInv, TypeOK, Dropped
  <2>3. calm' \in [Speakers -> 0 .. Longest] /\ upAge' \in [Speakers -> 0 .. Settle]
    BY Constants DEF IInv, TypeOK, Dropped
  <2> QED BY <2>1, <2>2, <2>3, DroppedTasks DEF IInv, TypeOK
<1>2. LiveIsOwned'
  <2> SUFFICES ASSUME NEW s \in Speakers, NEW k \in Slots,
                      task'[s][k].phase \in {"created", "connecting"}
               PROVE  inflight'[s] = k /\ task'[s][k].own
    BY DEF LiveIsOwned, Live
  <2>1. s \notin gone /\ task'[s] = task[s]
    BY DroppedTasks
  <2>2. inflight'[s] = inflight[s]
    BY <2>1 DEF Dropped
  <2> QED BY <2>1, <2>2 DEF IInv, LiveIsOwned, Live
<1>3. Paced'
  <2> SUFFICES ASSUME NEW s \in Speakers
               PROVE  /\ OwesRest(profile'[s], calm'[s])
                      /\ \A k \in Slots : task'[s][k].phase = "created"
                                           => Rested(profile'[s].failures, calm'[s])
    BY DEF Paced, OwesRest, Rested
  <2>1. CASE s \in gone
    <3>1. profile'[s] = Fresh
      BY <2>1 DEF Dropped
    <3>2. profile'[s].failures = 0 /\ profile'[s].step = 0
      BY <3>1, FreshIs
    <3> QED BY <2>1, <3>2, DroppedTasks, Constants DEF OwesRest
  <2>2. CASE s \notin gone
    BY <2>2, DroppedTasks DEF IInv, Paced, Dropped
  <2> QED BY <2>1, <2>2
<1> QED BY <1>1, <1>2, <1>3 DEF IInv

(* A device event either forgives the speaker's failures or leaves what it *)
(* owes alone, and it moves no task from one phase to another.             *)
LEMMA DeviceEventIs ==
    ASSUME IInv, NEW s \in Speakers, NEW connected \in BOOLEAN,
           NEW bond \in {"trusted", "paired", "none"}, DeviceEvent(s, connected, bond)
    PROVE  /\ \E q \in Profile :
                /\ profile' = [profile EXCEPT ![s] = q]
                /\ \/ /\ q.failures = 0 /\ q.step = 0 /\ q.state = "connected"
                      /\ calm' = [calm EXCEPT ![s] = Longest]
                   \/ /\ q.failures = profile[s].failures /\ q.step = profile[s].step
                      /\ q.brokenFor = profile[s].brokenFor /\ q.retryIn = profile[s].retryIn
                      /\ calm' = calm
           /\ task' \in [Speakers -> [Slots -> Task]]
           /\ \A t \in Speakers, k \in Slots :
                task'[t][k].phase = task[t][k].phase /\ task'[t][k].own = task[t][k].own
<1>1. PICK p \in {profile[s], [profile[s] EXCEPT !.enabled = TRUE]} :
        \/ profile' = [profile EXCEPT ![s] = p] /\ calm' = calm
        \/ profile' = [profile EXCEPT ![s] = SeenConnected(p)] /\ calm' = [calm EXCEPT ![s] = Longest]
        \/ profile' = [profile EXCEPT ![s] = SeenDisconnected(p)] /\ calm' = calm
  BY DEF DeviceEvent
<1>2. /\ p \in Profile /\ p.failures = profile[s].failures /\ p.step = profile[s].step
      /\ p.brokenFor = profile[s].brokenFor /\ p.retryIn = profile[s].retryIn
  BY <1>1, SpeakerIs DEF Profile
<1>3. \E q \in Profile :
        /\ profile' = [profile EXCEPT ![s] = q]
        /\ \/ /\ q.failures = 0 /\ q.step = 0 /\ q.state = "connected"
              /\ calm' = [calm EXCEPT ![s] = Longest]
           \/ /\ q.failures = profile[s].failures /\ q.step = profile[s].step
              /\ q.brokenFor = profile[s].brokenFor /\ q.retryIn = profile[s].retryIn
              /\ calm' = calm
  BY <1>1, <1>2, SeenIs
<1> DEFINE row == [k \in Slots |-> IF connected /\ task[s][k].phase = "connecting"
                                     THEN [task[s][k] EXCEPT !.reached = TRUE] ELSE task[s][k]]
<1>4. task' = [task EXCEPT ![s] = row]
  BY DEF DeviceEvent
<1>5. \A k \in Slots : /\ row[k] \in Task /\ row[k].phase = task[s][k].phase
                       /\ row[k].own = task[s][k].own
  <2> SUFFICES ASSUME NEW k \in Slots
               PROVE  /\ row[k] \in Task /\ row[k].phase = task[s][k].phase
                      /\ row[k].own = task[s][k].own
    OBVIOUS
  <2>1. task[s][k] \in Task
    BY DEF IInv, TypeOK
  <2> QED BY <2>1 DEF Task
<1>6. row \in [Slots -> Task]
  BY <1>5
<1> HIDE DEF row
<1> QED BY <1>3, <1>4, <1>5, <1>6 DEF IInv, TypeOK

LEMMA DeviceEventKeeps ==
    ASSUME IInv, NEW s \in Speakers, NEW connected \in BOOLEAN,
           NEW bond \in {"trusted", "paired", "none"}, DeviceEvent(s, connected, bond)
    PROVE  IInv'
<1>1. PICK q \in Profile :
        /\ profile' = [profile EXCEPT ![s] = q]
        /\ \/ q.failures = 0 /\ q.step = 0 /\ calm' = [calm EXCEPT ![s] = Longest]
           \/ /\ q.failures = profile[s].failures /\ q.step = profile[s].step
              /\ q.brokenFor = profile[s].brokenFor /\ q.retryIn = profile[s].retryIn
              /\ calm' = calm
  BY DeviceEventIs
<1>2. /\ task' \in [Speakers -> [Slots -> Task]]
      /\ \A t \in Speakers, k \in Slots :
           task'[t][k].phase = task[t][k].phase /\ task'[t][k].own = task[t][k].own
  BY DeviceEventIs
<1>3. TypeOK'
  <2>1. /\ tracked' \in SUBSET Speakers /\ link' \in [Speakers -> BOOLEAN]
        /\ UNCHANGED <<loop, globallyEnabled, inflight>>
    BY DEF DeviceEvent, IInv, TypeOK
  <2>2. profile' \in [Speakers -> Profile] /\ calm' \in [Speakers -> 0 .. Longest]
    BY <1>1, Constants DEF IInv, TypeOK
  <2>3. upAge' = [upAge EXCEPT ![s] = 0] \/ upAge' = upAge
    BY DEF DeviceEvent
  <2>4. upAge' \in [Speakers -> 0 .. Settle]
    BY <2>3, Constants DEF IInv, TypeOK
  <2> QED BY <1>2, <2>1, <2>2, <2>4 DEF IInv, TypeOK
<1>4. LiveIsOwned'
  <2>1. inflight' = inflight
    BY DEF DeviceEvent
  <2> QED BY <2>1, <1>2 DEF IInv, LiveIsOwned, Live
<1>5. Paced'
  <2> SUFFICES ASSUME NEW t \in Speakers
               PROVE  /\ OwesRest(profile'[t], calm'[t])
                      /\ \A k \in Slots : task'[t][k].phase = "created"
                                           => Rested(profile'[t].failures, calm'[t])
    BY DEF Paced, OwesRest, Rested
  <2>1. CASE t = s /\ q.failures = 0 /\ q.step = 0 /\ calm' = [calm EXCEPT ![s] = Longest]
    <3>1. profile'[t] = q /\ calm'[t] = Longest
      BY <1>1, <2>1 DEF IInv, TypeOK
    <3> QED BY <2>1, <3>1, Constants DEF OwesRest, Rested
  <2>2. CASE /\ t = s /\ q.failures = profile[s].failures /\ q.step = profile[s].step
             /\ q.brokenFor = profile[s].brokenFor /\ q.retryIn = profile[s].retryIn
             /\ calm' = calm
    <3>1. profile'[t] = q /\ calm'[t] = calm[s]
      BY <1>1, <2>2 DEF IInv, TypeOK
    <3>2. OwesRest(q, calm[s])
      BY <2>2, SpeakerIs DEF OwesRest
    <3>3. \A k \in Slots : task[s][k].phase = "created" => Rested(q.failures, calm[s])
      BY <2>2 DEF IInv, Paced
    <3> QED BY <1>2, <2>2, <3>1, <3>2, <3>3
  <2>3. CASE t # s
    <3>1. profile'[t] = profile[t] /\ calm'[t] = calm[t]
      BY <1>1, <2>3 DEF IInv, TypeOK
    <3> QED BY <3>1, <1>2 DEF IInv, Paced
  <2> QED BY <1>1, <2>1, <2>2, <2>3
<1> QED BY <1>3, <1>4, <1>5 DEF IInv

(* What a retry that is due says about the profile.                        *)
LEMMA DueIsRested ==
    ASSUME NEW p \in Profile, NEW c \in Nat, OwesRest(p, c), Due(p)
    PROVE  Rested(p.failures, c)
<1>1. p.retryIn = 0 /\ p.brokenFor = 0 /\ p.failures \in 0 .. MaxFailures
  BY DEF Due, Profile
<1>2. CASE p.failures = 0
  BY <1>2 DEF Rested
<1>3. CASE p.failures > 0
  <2>1. PICK d \in Delays(p.failures) : c + p.retryIn >= d
    BY <1>3 DEF OwesRest
  <2>2. c >= d
    BY <2>1, <1>1, Constants
  <2>3. p.failures >= MaxFailures => c >= BreakerCooldown
    BY <1>1, Constants DEF OwesRest
  <2> QED BY <2>1, <2>2, <2>3 DEF Rested
<1> QED BY <1>1, <1>2, <1>3

LEMMA TickKeeps ==
    ASSUME IInv, Tick
    PROVE  IInv'
<1>1. PICK delay \in [Speakers -> 0 .. MaxBackoff], slot \in [Speakers -> Slots] :
        /\ \A s \in Speakers : Spawns(s, delay[s]) => task[s][slot[s]].phase = "none"
        /\ profile' = [s \in Speakers |->
                         IF s \in tracked THEN Ticked(profile[s], delay[s]) ELSE profile[s]]
        /\ inflight' = [s \in Speakers |-> IF Spawns(s, delay[s]) THEN slot[s] ELSE inflight[s]]
        /\ task' = [s \in Speakers |->
                      IF Spawns(s, delay[s])
                        THEN [task[s] EXCEPT ![slot[s]] = [FreeTask EXCEPT !.phase = "created", !.own = TRUE]]
                        ELSE task[s]]
  BY DEF Tick
<1> DEFINE new == [FreeTask EXCEPT !.phase = "created", !.own = TRUE]
<1>2. new \in Task /\ new.phase = "created" /\ new.own
  BY DEF FreeTask, Task, Phases
<1> HIDE DEF new
<1>3. UNCHANGED <<loop, globallyEnabled, tracked, link, calm, upAge>>
  BY DEF Tick
<1>4. \A s \in Speakers :
        /\ profile'[s] \in Profile
        /\ profile'[s].failures = profile[s].failures
        /\ OwesRest(profile'[s], calm[s])
  <2> SUFFICES ASSUME NEW s \in Speakers
               PROVE  /\ profile'[s] \in Profile
                      /\ profile'[s].failures = profile[s].failures
                      /\ OwesRest(profile'[s], calm[s])
    OBVIOUS
  <2>1. CASE s \in tracked
    <3>1. profile'[s] = Ticked(profile[s], delay[s]) /\ delay[s] \in 0 .. MaxBackoff
      BY <1>1, <2>1, Constants
    <3>2. /\ profile'[s] \in Profile
          /\ profile'[s].failures = profile[s].failures /\ profile'[s].step = profile[s].step
          /\ profile'[s].brokenFor = profile[s].brokenFor
          /\ profile'[s].retryIn >= profile[s].retryIn
      <4>1. profile[s] \in Profile
        BY SpeakerIs
      <4> DEFINE r == Ticked(profile[s], delay[s])
      <4>2. /\ r \in Profile /\ r.failures = profile[s].failures /\ r.step = profile[s].step
            /\ r.brokenFor = profile[s].brokenFor /\ r.retryIn >= profile[s].retryIn
        BY <3>1, <4>1, TickedIs
      <4> HIDE DEF r
      <4>3. profile'[s] = r
        BY <3>1 DEF r
      <4> QED BY <4>2, <4>3
    <3> DEFINE q == profile'[s]
    <3>3. OwesRest(q, calm[s])
      <4> HIDE DEF q
      <4>1. profile[s] \in Profile /\ calm[s] \in Nat /\ OwesRest(profile[s], calm[s])
        BY SpeakerIs
      <4>2. /\ q \in Profile /\ q.failures = profile[s].failures /\ q.step = profile[s].step
            /\ q.brokenFor = profile[s].brokenFor /\ q.retryIn >= profile[s].retryIn
        BY <3>2 DEF q
      <4> QED BY <4>1, <4>2, LaterKeepsOwed
    <3> QED BY <3>2, <3>3
  <2>2. CASE s \notin tracked
    BY <1>1, <2>2, SpeakerIs
  <2> QED BY <2>1, <2>2
(* A spawned task finds no live one, and its profile is rested.            *)
<1>5. ASSUME NEW s \in Speakers, Spawns(s, delay[s])
      PROVE  /\ inflight'[s] = slot[s]
             /\ task'[s] \in [Slots -> Task] /\ task'[s][slot[s]] = new
             /\ \A k \in Slots : k # slot[s] => task'[s][k] = task[s][k]
             /\ \A k \in Slots : task[s][k].phase \notin {"created", "connecting"}
             /\ Rested(profile'[s].failures, calm[s])
  <2>1. inflight'[s] = slot[s] /\ task'[s] = [task[s] EXCEPT ![slot[s]] = new]
    BY <1>1, <1>5 DEF new
  <2>2. \A k \in Slots : task[s][k].phase \notin {"created", "connecting"}
    BY <1>5, Constants DEF Spawns, Busy, IInv, LiveIsOwned, Live
  <2>3. profile'[s] = Ticked(profile[s], delay[s]) /\ Due(profile'[s])
    BY <1>1, <1>5 DEF Spawns
  <2>4. Rested(profile'[s].failures, calm[s])
    BY <2>3, <1>4, SpeakerIs, DueIsRested
  <2>5. task[s] \in [Slots -> Task] /\ slot[s] \in Slots
    BY <1>1 DEF IInv, TypeOK
  <2> QED BY <1>2, <2>1, <2>2, <2>4, <2>5
<1>6. ASSUME NEW s \in Speakers, ~Spawns(s, delay[s])
      PROVE  inflight'[s] = inflight[s] /\ task'[s] = task[s]
  BY <1>1, <1>6
<1>7. TypeOK'
  <2>1. profile' \in [Speakers -> Profile]
    BY <1>1, <1>4
  <2>2. inflight' \in [Speakers -> Slots \cup {NoTask}]
    BY <1>1 DEF IInv, TypeOK
  <2>3. task' \in [Speakers -> [Slots -> Task]]
    <3>1. \A s \in Speakers : task[s] \in [Slots -> Task]
      BY DEF IInv, TypeOK
    <3>2. \A s \in Speakers : task'[s] \in [Slots -> Task]
      BY <1>5, <1>6, <3>1
    <3> QED BY <1>1, <3>2
  <2> QED BY <1>3, <2>1, <2>2, <2>3 DEF IInv, TypeOK
<1>8. LiveIsOwned'
  <2> SUFFICES ASSUME NEW s \in Speakers, NEW k \in Slots,
                      task'[s][k].phase \in {"created", "connecting"}
               PROVE  inflight'[s] = k /\ task'[s][k].own
    BY DEF LiveIsOwned, Live
  <2>1. CASE Spawns(s, delay[s])
    <3>1. k = slot[s]
      BY <1>5, <2>1
    <3> QED BY <1>2, <1>5, <2>1, <3>1
  <2>2. CASE ~Spawns(s, delay[s])
    BY <1>6, <2>2 DEF IInv, LiveIsOwned, Live
  <2> QED BY <2>1, <2>2
<1>9. Paced'
  <2> SUFFICES ASSUME NEW s \in Speakers, NEW k \in Slots, task'[s][k].phase = "created"
               PROVE  Rested(profile'[s].failures, calm[s])
    BY <1>3, <1>4 DEF Paced, OwesRest, Rested
  <2>1. CASE Spawns(s, delay[s])
    BY <1>5, <2>1
  <2>2. CASE ~Spawns(s, delay[s])
    BY <1>4, <1>6, <2>2 DEF IInv, Paced
  <2> QED BY <2>1, <2>2
<1> QED BY <1>7, <1>8, <1>9 DEF IInv

LEMMA StopKeeps ==
    ASSUME IInv, Stop
    PROVE  IInv'
<1>1. \A s \in Speakers, k \in Slots :
        /\ task'[s][k] \in Task
        /\ task'[s][k].phase \in {"created", "connecting"} => task'[s][k] = task[s][k]
  <2> SUFFICES ASSUME NEW s \in Speakers, NEW k \in Slots
               PROVE  /\ task'[s][k] \in Task
                      /\ task'[s][k].phase \in {"created", "connecting"}
                           => task'[s][k] = task[s][k]
    OBVIOUS
  <2>1. task[s][k] \in Task
    BY DEF IInv, TypeOK
  <2>2. task'[s][k] \in {task[s][k], Cancelled(task[s][k])}
    BY DEF Stop
  <2> QED BY <2>1, <2>2, CancelledIs
<1>2. TypeOK'
  <2>1. task' \in [Speakers -> [Slots -> Task]]
    BY <1>1 DEF Stop
  <2> QED BY <2>1 DEF Stop, IInv, TypeOK
<1>3. LiveIsOwned'
  BY <1>1 DEF Stop, IInv, LiveIsOwned, Live
<1>4. Paced'
  BY <1>1 DEF Stop, IInv, Paced, OwesRest, Rested
<1> QED BY <1>2, <1>3, <1>4 DEF IInv

LEMMA AdvanceKeeps ==
    ASSUME IInv, Advance
    PROVE  IInv'
<1>1. \A s \in Speakers :
        /\ profile'[s] \in Profile
        /\ profile'[s].failures = profile[s].failures /\ profile'[s].step = profile[s].step
        /\ profile'[s].retryIn + 1 >= profile[s].retryIn
        /\ profile'[s].brokenFor + 1 >= profile[s].brokenFor
  <2> SUFFICES ASSUME NEW s \in Speakers
               PROVE  /\ profile'[s] \in Profile
                      /\ profile'[s].failures = profile[s].failures
                      /\ profile'[s].step = profile[s].step
                      /\ profile'[s].retryIn + 1 >= profile[s].retryIn
                      /\ profile'[s].brokenFor + 1 >= profile[s].brokenFor
    OBVIOUS
  <2>1. profile'[s] \in {profile[s], Aged(profile[s])}
    BY DEF Advance
  <2>2. profile[s].retryIn + 1 >= profile[s].retryIn /\ profile[s].brokenFor + 1 >= profile[s].brokenFor
    BY SpeakerIs DEF Profile
  <2> QED BY <2>1, <2>2, SpeakerIs, AgedIs
<1>2. \A s \in Speakers :
        /\ calm'[s] \in 0 .. Longest
        /\ calm'[s] >= calm[s] /\ (calm'[s] = Longest \/ calm'[s] = calm[s] + 1)
  BY SpeakerIs, Constants DEF Advance, Smaller
<1>3. TypeOK'
  <2>1. profile' \in [Speakers -> Profile]
    BY <1>1 DEF Advance
  <2>2. calm' \in [Speakers -> 0 .. Longest]
    BY <1>2 DEF Advance
  <2>3. upAge' \in [Speakers -> 0 .. Settle]
    BY Constants DEF Advance, Smaller, IInv, TypeOK
  <2> QED BY <2>1, <2>2, <2>3 DEF Advance, IInv, TypeOK
<1>4. LiveIsOwned'
  BY DEF Advance, IInv, LiveIsOwned, Live
<1>5. Paced'
  <2> SUFFICES ASSUME NEW s \in Speakers
               PROVE  /\ OwesRest(profile'[s], calm'[s])
                      /\ \A k \in Slots : task[s][k].phase = "created"
                                           => Rested(profile'[s].failures, calm'[s])
    BY DEF Paced, OwesRest, Rested, Advance
  <2> DEFINE f == profile[s].failures
  <2>1. /\ f \in 0 .. MaxFailures /\ profile'[s].failures = f /\ profile'[s].step = profile[s].step
        /\ profile'[s].retryIn \in Nat /\ profile[s].retryIn \in Nat
        /\ profile'[s].brokenFor \in Nat /\ profile[s].brokenFor \in Nat
        /\ calm[s] \in Nat /\ calm'[s] \in Nat
    BY <1>1, <1>2, SpeakerIs, Constants DEF Profile
  <2>2. \A d \in Delays(f) : calm[s] + profile[s].retryIn >= d => calm'[s] + profile'[s].retryIn >= d
    <3> SUFFICES ASSUME NEW d \in Delays(f), calm[s] + profile[s].retryIn >= d
                 PROVE  calm'[s] + profile'[s].retryIn >= d
      OBVIOUS
    <3>1. d \in Nat /\ d <= Longest
      BY <2>1, Constants
    <3> HIDE DEF f
    <3> QED BY <1>1, <1>2, <2>1, <3>1, Constants
  <2>3. f >= MaxFailures => calm'[s] + profile'[s].brokenFor >= BreakerCooldown
    <3> SUFFICES ASSUME f >= MaxFailures PROVE calm'[s] + profile'[s].brokenFor >= BreakerCooldown
      OBVIOUS
    <3>1. calm[s] + profile[s].brokenFor >= BreakerCooldown
      BY SpeakerIs DEF OwesRest
    <3> HIDE DEF f
    <3> QED BY <1>1, <1>2, <2>1, <3>1, Constants
  <2>4. OwesRest(profile'[s], calm'[s])
    BY <2>1, <2>2, <2>3, SpeakerIs DEF OwesRest
  <2>5. Rested(f, calm[s]) => Rested(f, calm'[s])
    <3> HIDE DEF f
    <3>1. \A d \in Delays(f) : calm[s] >= d => calm'[s] >= d
      BY <1>2, <2>1, Constants
    <3>2. calm[s] >= BreakerCooldown => calm'[s] >= BreakerCooldown
      BY <1>2, <2>1, Constants
    <3> QED BY <3>1, <3>2 DEF Rested
  <2> QED BY <2>1, <2>4, <2>5 DEF IInv, Paced
<1> QED BY <1>3, <1>4, <1>5 DEF IInv

-----------------------------------------------------------------------------
(* Every step keeps the invariant.                                         *)
LEMMA NextKeeps == IInv /\ [Next]_vars => IInv'
<1> SUFFICES ASSUME IInv, [Next]_vars PROVE IInv'
  OBVIOUS
<1>1. CASE Start
  BY <1>1 DEF Start, IInv, TypeOK, LiveIsOwned, Live, Paced, OwesRest, Rested
<1>2. CASE Stop
  BY <1>2, StopKeeps
<1>3. CASE Tick
  BY <1>3, TickKeeps
<1>4. CASE Advance
  BY <1>4, AdvanceKeeps
<1>5. ASSUME NEW s \in Speakers, NEW e \in EnabledArgs, Register(s, e) PROVE IInv'
  BY <1>5, RegisterKeeps
<1>6. ASSUME NEW s \in Speakers, Unregister(s) PROVE IInv'
  <2>1. globallyEnabled' \in BOOLEAN
    BY <1>6 DEF Unregister, IInv, TypeOK
  <2> QED BY <1>6, <2>1, DroppedKeeps DEF Unregister
<1>7. ASSUME NEW e \in BOOLEAN, SetGlobalEnabled(e) PROVE IInv'
  <2>1. CASE e
    BY <1>7, <2>1 DEF SetGlobalEnabled, IInv, TypeOK, LiveIsOwned, Live, Paced, OwesRest, Rested
  <2>2. CASE ~e
    BY <1>7, <2>2, DroppedKeeps DEF SetGlobalEnabled
  <2> QED BY <2>1, <2>2
<1>8. ASSUME NEW s \in Speakers, NEW c \in BOOLEAN, NEW b \in {"trusted", "paired", "none"},
             DeviceEvent(s, c, b)
      PROVE  IInv'
  BY <1>8, DeviceEventKeeps
<1>9. ASSUME NEW s \in Speakers, NEW k \in Slots, AttemptStep(s, k) PROVE IInv'
  BY <1>9, BeginsKeeps, SucceedsKeeps, FindsBusyKeeps, FailsKeeps, CancelledKeeps, ReleaseKeeps
     DEF AttemptStep
<1>10. CASE UNCHANGED vars
  BY <1>10 DEF vars, IInv, TypeOK, LiveIsOwned, Live, Paced, OwesRest, Rested
<1> QED BY <1>1, <1>2, <1>3, <1>4, <1>5, <1>6, <1>7, <1>8, <1>9, <1>10 DEF Next

(* The inductive invariant holds in every state of the engine.             *)
THEOREM Invariance == Spec => []IInv
<1> QED BY InitIInv, NextKeeps, PTL DEF Spec

(* Type correctness of the engine.                                         *)
THEOREM TypeCorrect == Spec => []TypeOK
<1>1. IInv => TypeOK
  BY DEF IInv
<1> QED BY <1>1, Invariance, PTL

(* A speaker has one attempt at a time, and it can be cancelled.           *)
THEOREM OneAttemptAlways == Spec => []OneAttempt
<1>1. IInv => OneAttempt
  BY DEF IInv, LiveIsOwned, OneAttempt
<1> QED BY <1>1, Invariance, PTL

-----------------------------------------------------------------------------
(* Only the tick brings a task to life.                                    *)
LEMMA OnlyTickSpawns ==
    ASSUME IInv, Next, ~Tick, NEW s \in Speakers, NEW k \in Slots, Live(s, k)'
    PROVE  Live(s, k)
<1>1. CASE Start \/ Advance \/ \E u \in Speakers, e \in EnabledArgs : Register(u, e)
  BY <1>1 DEF Start, Advance, Register, Live
<1>2. CASE Stop
  <2>1. task[s][k] \in Task
    BY DEF IInv, TypeOK
  <2>2. task'[s][k] \in {task[s][k], Cancelled(task[s][k])}
    BY <1>2 DEF Stop
  <2> QED BY <2>1, <2>2, CancelledIs DEF Live
<1>3. ASSUME NEW gone, Dropped(gone) PROVE Live(s, k)
  BY <1>3, DroppedTasks DEF Live
<1>4. CASE \E u \in Speakers : Unregister(u)
  BY <1>3, <1>4 DEF Unregister
<1>5. ASSUME NEW e \in BOOLEAN, SetGlobalEnabled(e) PROVE Live(s, k)
  BY <1>3, <1>5 DEF SetGlobalEnabled, Live
<1>6. ASSUME NEW u \in Speakers, NEW c \in BOOLEAN, NEW b \in {"trusted", "paired", "none"},
             DeviceEvent(u, c, b)
      PROVE  Live(s, k)
  <2>1. task'[s][k].phase = task[s][k].phase
    BY <1>6, DeviceEventIs
  <2> QED BY <2>1 DEF Live
<1>7. ASSUME NEW u \in Speakers, NEW j \in Slots, AttemptStep(u, j) PROVE Live(s, k)
  <2>1. CASE Finish(u, j)
    BY <2>1, FinishIs DEF IInv, Live
  <2>2. CASE AttemptBegins(u, j) /\ ~Finish(u, j)
    <3> DEFINE new == [phase |-> "connecting", own |-> TRUE, reached |-> link[u]]
               row == [task[u] EXCEPT ![j] = new]
    <3>1. task' = [task EXCEPT ![u] = row] /\ Live(u, j)
      BY <2>2 DEF AttemptBegins, Live
    <3> HIDE DEF new
    <3>2. \A i \in Slots : i # j => row[i] = task[u][i]
      BY DEF IInv, TypeOK
    <3> HIDE DEF row
    <3> QED BY <3>1, <3>2 DEF Live, IInv, TypeOK
  <2>3. CASE ReleaseInflight(u, j)
    <3> DEFINE row == [task[u] EXCEPT ![j] = FreeTask]
    <3>1. task' = [task EXCEPT ![u] = row]
      BY <2>3 DEF ReleaseInflight
    <3>2. row[j].phase = "none" /\ \A i \in Slots : i # j => row[i] = task[u][i]
      BY DEF IInv, TypeOK, FreeTask
    <3> HIDE DEF row
    <3> QED BY <3>1, <3>2 DEF Live, IInv, TypeOK
  <2> QED BY <1>7, <2>1, <2>2, <2>3
      DEF AttemptStep, AttemptSucceeds, AttemptFindsBusy, AttemptFails, AttemptCancelled
<1> QED BY <1>1, <1>2, <1>4, <1>5, <1>6, <1>7 DEF Next

(* After stop nothing is created or connecting: the tasks stop cancels are *)
(* all there are, because each of them is the one in _inflight.            *)
THEOREM StoppedIsQuietAlways == Spec => []StoppedIsQuiet
<1>1. Init => StoppedIsQuiet
  BY DEF Init, StoppedIsQuiet, Live, FreeTask
<1>2. IInv /\ StoppedIsQuiet /\ [Next]_vars => StoppedIsQuiet'
  <2> SUFFICES ASSUME IInv, StoppedIsQuiet, [Next]_vars, ~running',
                      NEW s \in Speakers, NEW k \in Slots, Live(s, k)'
               PROVE  FALSE
    BY DEF StoppedIsQuiet
  <2>1. CASE Stop
    <3>1. task[s][k] \in Task
      BY DEF IInv, TypeOK
    <3>2. task'[s][k] = IF inflight[s] = k THEN Cancelled(task[s][k]) ELSE task[s][k]
      BY <2>1 DEF Stop
    <3> QED BY <3>1, <3>2, CancelledIs DEF IInv, LiveIsOwned, Live
  <2>2. CASE Next /\ ~Stop
    <3>1. ~running /\ ~Tick
      <4>1. Start \/ Tick \/ Advance => loop' = loop \/ loop' = "running"
        BY DEF Start, Tick, Advance
      <4>2. ASSUME NEW u \in Speakers
            PROVE  /\ \A e \in EnabledArgs : Register(u, e) => loop' = loop
                   /\ Unregister(u) => loop' = loop
                   /\ \A c \in BOOLEAN, b \in {"trusted", "paired", "none"} :
                        DeviceEvent(u, c, b) => loop' = loop
                   /\ \A j \in Slots : AttemptStep(u, j) => loop' = loop
        BY DEF Register, Unregister, DeviceEvent, AttemptStep, AttemptBegins, AttemptSucceeds,
               AttemptFindsBusy, AttemptFails, AttemptCancelled, ReleaseInflight
      <4>3. \A e \in BOOLEAN : SetGlobalEnabled(e) => loop' = loop
        BY DEF SetGlobalEnabled
      <4>4. loop' = loop
        BY <2>2, <4>1, <4>2, <4>3 DEF Next, running
      <4>5. ~Tick
        BY <4>4 DEF Tick, running
      <4> QED BY <4>4, <4>5 DEF running
    <3>2. Live(s, k)
      BY <2>2, <3>1, OnlyTickSpawns
    <3> QED BY <3>1, <3>2 DEF StoppedIsQuiet
  <2>3. CASE UNCHANGED vars
    BY <2>3 DEF vars, StoppedIsQuiet, running, Live
  <2> QED BY <2>1, <2>2, <2>3
<1> QED BY <1>1, <1>2, Invariance, PTL DEF Spec

-----------------------------------------------------------------------------
(* A pending retry deadline is never brought forward.                       *)

(* DeadlineOnlyLater for one speaker.                                      *)
DeadlineKept(s) ==
    (s \in tracked /\ s \in tracked' /\ profile'[s].retryIn < profile[s].retryIn)
      => \/ profile'[s].state = "connected"
         \/ Advance /\ profile'[s].retryIn = Left(profile[s].retryIn)

LEMMA LaterIsKept ==
    ASSUME IInv, IInv', NEW s \in Speakers, profile'[s].retryIn >= profile[s].retryIn
    PROVE  DeadlineKept(s)
<1>1. profile[s].retryIn \in Nat /\ profile'[s].retryIn \in Nat
  BY DEF IInv, TypeOK, Profile
<1> QED BY <1>1 DEF DeadlineKept

LEMMA SameIsKept ==
    ASSUME IInv, IInv', NEW s \in Speakers, profile'[s].retryIn = profile[s].retryIn
    PROVE  DeadlineKept(s)
<1>1. profile[s].retryIn \in Nat
  BY DEF IInv, TypeOK, Profile
<1> QED BY <1>1, LaterIsKept

-----------------------------------------------------------------------------
(* A step that writes one profile concerns only its speaker.               *)
LEMMA OneProfileKept ==
    ASSUME IInv, IInv', NEW s \in Speakers, NEW p, profile' = [profile EXCEPT ![s] = p],
           p.state = "connected" \/ p.retryIn >= profile[s].retryIn,
           NEW t \in Speakers
    PROVE  DeadlineKept(t)
<1>1. CASE t = s
  <2>1. profile'[t] = p
    BY <1>1 DEF IInv, TypeOK
  <2> QED BY <1>1, <2>1, LaterIsKept DEF DeadlineKept
<1>2. CASE t # s
  <2>1. profile'[t] = profile[t]
    BY <1>2 DEF IInv, TypeOK
  <2> QED BY <2>1, SameIsKept
<1> QED BY <1>1, <1>2

LEMMA AttemptDeadline ==
    ASSUME IInv, IInv', NEW s \in Speakers, NEW k \in Slots, AttemptStep(s, k), NEW t \in Speakers
    PROVE  DeadlineKept(t)
<1>1. CASE UNCHANGED profile
  BY <1>1, SameIsKept
<1>2. CASE AttemptBegins(s, k) /\ ~UNCHANGED profile
  <2> DEFINE p == [profile[s] EXCEPT !.state = "reconnecting"]
  <2>1. profile' = [profile EXCEPT ![s] = p]
    BY <1>2 DEF AttemptBegins
  <2>2. p.retryIn >= profile[s].retryIn
    BY SpeakerIs DEF Profile
  <2> HIDE DEF p
  <2> QED BY <2>1, <2>2, OneProfileKept
<1>3. CASE AttemptSucceeds(s, k) /\ ~UNCHANGED profile
  <2> DEFINE q == SeenConnected(profile[s])
             p == Connected(profile[s])
  <2>1. profile' = [profile EXCEPT ![s] = p]
    BY <1>3 DEF AttemptSucceeds
  <2>2. q \in Profile /\ q.state = "connected" /\ p = [q EXCEPT !.up = 0]
    BY SpeakerIs, SeenIs DEF Connected
  <2> HIDE DEF q, p
  <2>3. p.state = "connected"
    BY <2>2 DEF Profile
  <2> QED BY <2>1, <2>3, OneProfileKept
<1>4. CASE AttemptFindsBusy(s, k) /\ ~UNCHANGED profile
  <2>1. PICK delay \in Delays(profile[s].step) :
          profile' = [profile EXCEPT ![s] = Deferred(profile[s], delay)]
    BY <1>4 DEF AttemptFindsBusy
  <2> DEFINE q == [profile[s] EXCEPT !.down = NoDrop]
             p == Deferred(profile[s], delay)
  <2>2. q \in Profile /\ q.retryIn = profile[s].retryIn
    BY SpeakerIs, ForgetDropIs
  <2>3. p = Retry(q, Larger(delay, Settle)) /\ Larger(delay, Settle) \in 0 .. LongestWait
    BY SpeakerIs, DelayFits DEF Deferred
  <2> HIDE DEF q, p
  <2>4. p.retryIn >= profile[s].retryIn
    BY <2>2, <2>3, RetryIs
  <2> QED BY <2>1, <2>4, OneProfileKept DEF p
<1>5. CASE AttemptFails(s, k) /\ ~UNCHANGED profile
  <2>1. PICK delay \in Delays(OneMore(profile[s].step)) :
          profile' = [profile EXCEPT ![s] = Failed(profile[s], delay)]
    BY <1>5 DEF AttemptFails
  <2>2. profile[s] \in Profile /\ profile[s].step = profile[s].failures
    BY SpeakerIs DEF OwesRest
  <2>3. Failed(profile[s], delay).retryIn >= profile[s].retryIn
    BY <2>1, <2>2, FailedIs
  <2> QED BY <2>1, <2>3, OneProfileKept
<1>6. CASE AttemptCancelled(s, k) /\ ~UNCHANGED profile
  <2>1. PICK delay \in Delays(profile[s].step) :
          profile' = [profile EXCEPT ![s] = Retry(profile[s], delay)]
    BY <1>6 DEF AttemptCancelled
  <2>2. profile[s] \in Profile /\ delay \in 0 .. LongestWait
    BY SpeakerIs, DelayFits
  <2>3. Retry(profile[s], delay).retryIn >= profile[s].retryIn
    BY <2>2, RetryIs
  <2> QED BY <2>1, <2>3, OneProfileKept
<1> QED BY <1>1, <1>2, <1>3, <1>4, <1>5, <1>6 DEF AttemptStep, ReleaseInflight

LEMMA DroppedDeadline ==
    ASSUME IInv, IInv', NEW gone, Dropped(gone), NEW t \in Speakers
    PROVE  DeadlineKept(t)
<1>1. CASE t \in gone
  BY <1>1 DEF Dropped, DeadlineKept
<1>2. CASE t \notin gone
  BY <1>2, SameIsKept DEF Dropped
<1> QED BY <1>1, <1>2

LEMMA StepDeadline ==
    ASSUME IInv, IInv', [Next]_vars, NEW t \in Speakers
    PROVE  DeadlineKept(t)
<1>1. CASE UNCHANGED profile
  BY <1>1, SameIsKept
<1>2. CASE Tick
  <2>1. PICK delay \in [Speakers -> 0 .. MaxBackoff] :
          profile' = [s \in Speakers |->
                        IF s \in tracked THEN Ticked(profile[s], delay[s]) ELSE profile[s]]
    BY <1>2 DEF Tick
  <2>2. CASE t \in tracked
    <3>1. profile[t] \in Profile /\ delay[t] \in 0 .. MaxBackoff
      BY SpeakerIs, Constants
    <3>2. Ticked(profile[t], delay[t]).retryIn >= profile[t].retryIn
      BY <3>1, TickedIs
    <3> QED BY <2>1, <2>2, <3>2, LaterIsKept
  <2>3. CASE t \notin tracked
    BY <2>3 DEF DeadlineKept
  <2> QED BY <2>2, <2>3
<1>3. CASE Advance
  <2>1. CASE t \in tracked
    <3>1. profile'[t] = Aged(profile[t]) /\ profile[t] \in Profile
      BY <1>3, <2>1, SpeakerIs DEF Advance
    <3>2. Aged(profile[t]).retryIn = Left(profile[t].retryIn)
      BY <3>1 DEF Aged, Profile
    <3> QED BY <1>3, <3>1, <3>2 DEF DeadlineKept
  <2>2. CASE t \notin tracked
    BY <2>2 DEF DeadlineKept
  <2> QED BY <2>1, <2>2
<1>4. ASSUME NEW s \in Speakers, NEW e \in EnabledArgs, Register(s, e) PROVE DeadlineKept(t)
  <2> DEFINE p == [profile[s] EXCEPT !.enabled = e]
  <2>1. profile' = [profile EXCEPT ![s] = p]
    BY <1>4 DEF Register
  <2>2. p.retryIn >= profile[s].retryIn
    BY SpeakerIs DEF Profile
  <2> HIDE DEF p
  <2> QED BY <2>1, <2>2, OneProfileKept
<1>5. ASSUME NEW s \in Speakers, Unregister(s) PROVE DeadlineKept(t)
  BY <1>5, DroppedDeadline DEF Unregister
<1>6. ASSUME NEW e \in BOOLEAN, SetGlobalEnabled(e) PROVE DeadlineKept(t)
  BY <1>6, SameIsKept, DroppedDeadline DEF SetGlobalEnabled
<1>7. ASSUME NEW s \in Speakers, NEW c \in BOOLEAN, NEW b \in {"trusted", "paired", "none"},
             DeviceEvent(s, c, b)
      PROVE  DeadlineKept(t)
  <2>1. PICK q \in Profile :
          /\ profile' = [profile EXCEPT ![s] = q]
          /\ q.state = "connected" \/ q.retryIn = profile[s].retryIn
    BY <1>7, DeviceEventIs
  <2>2. profile[s].retryIn >= profile[s].retryIn
    BY SpeakerIs DEF Profile
  <2> QED BY <2>1, <2>2, OneProfileKept
<1>8. ASSUME NEW s \in Speakers, NEW k \in Slots, AttemptStep(s, k) PROVE DeadlineKept(t)
  BY <1>8, AttemptDeadline
<1>9. Start \/ Stop \/ UNCHANGED vars => UNCHANGED profile
  BY DEF Start, Stop, vars
<1> QED BY <1>1, <1>2, <1>3, <1>4, <1>5, <1>6, <1>7, <1>8, <1>9 DEF Next

(* A pending retry deadline moves later or elapses, unless the link is     *)
(* connected or the registration ends: no busy answer, presence event,     *)
(* cancellation, failure or stale task brings it forward.                  *)
THEOREM DeadlineOnlyLaterAlways == Spec => DeadlineOnlyLater
<1>1. IInv /\ IInv' /\ [Next]_vars => \A s \in Speakers : DeadlineKept(s)
  BY StepDeadline
<1>2. (\A s \in Speakers : DeadlineKept(s))
        => [\A s \in Speakers :
              (s \in tracked /\ s \in tracked' /\ profile'[s].retryIn < profile[s].retryIn)
                => \/ profile'[s].state = "connected"
                   \/ Advance /\ profile'[s].retryIn = Left(profile[s].retryIn)]_vars
  BY DEF DeadlineKept
<1> QED BY <1>1, <1>2, Invariance, PTL DEF Spec, DeadlineOnlyLater

-----------------------------------------------------------------------------
(* A retry is spawned only after the link has had its settle window.       *)

(* The timing the code's constants give: the grace window and the first    *)
(* delay, or any later delay, are at least the settle window               *)
(* (constants.py: 5 + 10, and 20, against 15).                             *)
LongEnough ==
    /\ \A d \in Delays(0) : d + Grace >= Settle
    /\ \A step \in 1 .. MaxFailures : \A d \in Delays(step) : d >= Settle

(* What keeps a retry from a link that came up u ago: nothing while the    *)
(* profile says connected and no drop is noted; then the age of the drop;  *)
(* then the deadline, which covers what is left of the window.             *)
Settled(p, u) ==
    /\ p.state = "idle" => u >= Settle
    /\ (p.state = "connected" /\ p.down # NoDrop) => (u >= p.down \/ u >= Settle)
    /\ p.state \in {"backoff", "circuit_broken"} => u + p.retryIn >= Settle

(* While the engine runs, a task that is being cancelled has lost its      *)
(* profile: only stop cancels a task that would still schedule a retry, at *)
(* the delay of a step the link's return may have reset.                   *)
LetGo(s) == \A k \in Slots : task[s][k].phase = "cancelled" => ~task[s][k].own

Settling ==
    loop # "stopped" => \A s \in Speakers : Settled(profile[s], upAge[s]) /\ LetGo(s)

(* The settle window, and the age of a link, as facts.                     *)
LEMMA UpAgeIs ==
    ASSUME IInv, NEW s \in Speakers
    PROVE  upAge[s] \in Nat /\ upAge[s] <= Settle
BY Constants DEF IInv, TypeOK

LEMMA SeenSettled ==
    ASSUME NEW p \in Profile, NEW u \in Nat
    PROVE  /\ Settled(SeenConnected(p), u) /\ Settled(Connected(p), u)
           /\ Settled(p, u) => Settled(SeenDisconnected(p), u)
<1>1. Settled(SeenConnected(p), u)
  BY DEF SeenConnected, Settled, Profile
<1>2. Settled(Connected(p), u)
  BY DEF Connected, SeenConnected, Settled, Profile
<1>3. Settled(p, u) => Settled(SeenDisconnected(p), u)
  BY DEF SeenDisconnected, Settled, Profile
<1> QED BY <1>1, <1>2, <1>3

(* A deadline that covers the window covers it in either waiting state.    *)
LEMMA CoveredIsSettled ==
    ASSUME NEW p, NEW u \in Nat, p.state \in {"backoff", "circuit_broken"}, p.retryIn \in Nat,
           u + p.retryIn >= Settle
    PROVE  Settled(p, u)
BY DEF Settled

LEMMA RetrySettled ==
    ASSUME NEW p \in Profile, NEW d \in 0 .. LongestWait, NEW u \in Nat, u + d >= Settle
    PROVE  Settled(Retry(p, d), u)
<1> DEFINE q == Retry(p, d)
<1>1. q \in Profile /\ q.retryIn >= d
  BY RetryIs
<1>2. q.state = "backoff"
  BY DEF Retry, Profile
<1> HIDE DEF q
<1>3. q.retryIn \in Nat
  BY <1>1 DEF Profile
<1>4. u + q.retryIn >= Settle
  BY <1>1, <1>3, Constants
<1> QED BY <1>2, <1>3, <1>4, CoveredIsSettled DEF q

(* A tick arms a retry only when the drop has outlived the grace window,   *)
(* and the retry of a waiting profile is only looked at.                   *)
LEMMA TickedSettled ==
    ASSUME LongEnough, NEW p \in Profile, NEW u \in Nat, Settled(p, u), NEW d \in Delays(p.step)
    PROVE  Settled(Ticked(p, d), u)
<1> DEFINE q == IF p.state = "circuit_broken" THEN [p EXCEPT !.state = "backoff"] ELSE p
<1>1. q \in Profile /\ q.step = p.step /\ q.down = p.down
  BY DEF Profile, States
<1>2. Settled(q, u)
  BY DEF Settled, Profile
<1>3. q.state \in {"connected", "idle"} => q.state = p.state
  BY DEF Profile
<1>4. Ticked(p, d) = IF ~p.enabled \/ p.brokenFor > 0 THEN p
                     ELSE IF q.state \in {"connected", "idle"} /\ q.down >= Grace
                       THEN ArmBackoff(q, d) ELSE q
  BY DEF Ticked
<1> HIDE DEF q
<1>5. CASE q.state \in {"connected", "idle"} /\ q.down >= Grace
  <2>1. /\ d \in Nat /\ d \in 0 .. LongestWait
        /\ p.step \in 0 .. MaxFailures /\ q.down \in NoDrop .. Grace
    <3>1. p.step \in 0 .. MaxFailures /\ q.down \in NoDrop .. Grace
      BY <1>1 DEF Profile
    <3> QED BY <3>1, DelayFits
  <2>2. d + Grace >= Settle
    <3>1. CASE p.step = 0
      BY <3>1 DEF LongEnough
    <3>2. CASE p.step # 0
      <4>1. p.step \in 1 .. MaxFailures
        BY <2>1, <3>2, Constants
      <4>2. d >= Settle
        BY <4>1 DEF LongEnough
      <4> QED BY <4>2, <2>1, Constants
    <3> QED BY <3>1, <3>2
  <2>3. q.down # NoDrop
    BY <1>5, Constants DEF NoDrop
  <2>4. u >= Grace \/ u >= Settle
    BY <1>2, <1>5, <2>1, <2>3, Constants DEF Settled, NoDrop
  <2>5. u + d >= Settle
    BY <2>1, <2>2, <2>4, Constants
  <2> DEFINE r == [RecordFlap(q) EXCEPT !.down = NoDrop]
  <2>6. r \in Profile
    <3>1. RecordFlap(q) \in Profile
      <4>0. {0} \in SUBSET (0 .. FlapWindow) /\ FlapCooldown \in 0 .. FlapCooldown
        BY Constants
      <4>1. CASE Cardinality(q.flaps \cup {0}) < FlapLimit
        BY <1>1, <4>0, <4>1 DEF RecordFlap, Profile
      <4>2. CASE ~(Cardinality(q.flaps \cup {0}) < FlapLimit)
        BY <1>1, <4>0, <4>2 DEF RecordFlap, Profile
      <4> QED BY <4>1, <4>2
    <3> QED BY <3>1, ForgetDropIs
  <2>7. ArmBackoff(q, d) = Retry(r, d)
    BY DEF ArmBackoff
  <2> HIDE DEF r
  <2>8. Settled(ArmBackoff(q, d), u)
    BY <2>1, <2>5, <2>6, <2>7, RetrySettled
  <2> QED BY <1>4, <1>5, <2>8
<1>6. CASE ~(q.state \in {"connected", "idle"} /\ q.down >= Grace)
  BY <1>2, <1>4, <1>6
<1> QED BY <1>5, <1>6

(* Time wears a deadline down no faster than it ages the link.             *)
LEMMA AgedSettled ==
    ASSUME NEW p \in Profile, NEW u \in Nat, u <= Settle, Settled(p, u)
    PROVE  LET v == Smaller(u + 1, Settle)
           IN  Settled(p, v) /\ Settled(Aged(p), v)
<1> DEFINE v == Smaller(u + 1, Settle)
           q == Aged(p)
<1>1. v \in Nat /\ v >= u /\ (v = u + 1 \/ v = Settle)
  BY Constants DEF Smaller
<1>2. /\ q.state = p.state /\ q.retryIn = Left(p.retryIn)
      /\ q.down = IF p.down = NoDrop THEN p.down ELSE Smaller(p.down + 1, Grace)
  BY DEF Aged, Profile
<1> HIDE DEF v, q
<1>3. /\ p.retryIn \in Nat /\ q.retryIn \in Nat /\ q.retryIn + 1 >= p.retryIn
      /\ p.down \in NoDrop .. Grace
  BY <1>2 DEF Left, Profile
<1>4. p.down # NoDrop => q.down <= p.down + 1
  BY <1>2, <1>3, Constants DEF Smaller, NoDrop
<1>5. q.down # NoDrop => p.down # NoDrop
  BY <1>2
<1>6. Settled(p, v)
  BY <1>1, <1>3, Constants DEF Settled, NoDrop
<1>7. q.state = "idle" => v >= Settle
  BY <1>1, <1>2, Constants DEF Settled
<1>8. (q.state = "connected" /\ q.down # NoDrop) => (v >= q.down \/ v >= Settle)
  <2> SUFFICES ASSUME q.state = "connected", q.down # NoDrop PROVE v >= q.down \/ v >= Settle
    OBVIOUS
  <2>1. u >= p.down \/ u >= Settle
    BY <1>2, <1>5 DEF Settled
  <2>2. q.down \in Int
    BY <1>2, <1>3, Constants DEF Smaller, NoDrop
  <2> QED BY <1>1, <1>3, <1>4, <1>5, <2>1, <2>2, Constants DEF NoDrop
<1>9. q.state \in {"backoff", "circuit_broken"} => v + q.retryIn >= Settle
  BY <1>1, <1>2, <1>3, Constants DEF Settled
<1>10. Settled(q, v)
  BY <1>7, <1>8, <1>9 DEF Settled
<1> QED BY <1>6, <1>10 DEF v, q

(* A step that writes one profile, and lets no task be cancelled that      *)
(* still owns it.                                                          *)
LEMMA OneSettles ==
    ASSUME IInv, Settling, NEW s \in Speakers, NEW p, NEW u,
           profile' = [profile EXCEPT ![s] = p], upAge' = [upAge EXCEPT ![s] = u],
           loop # "stopped" => Settled(p, u), loop' = loop,
           \A t \in Speakers, k \in Slots :
             (task'[t][k].phase = "cancelled" /\ task'[t][k].own)
               => task[t][k].phase = "cancelled" /\ task[t][k].own
    PROVE  Settling'
<1> SUFFICES ASSUME loop # "stopped", NEW t \in Speakers
             PROVE  Settled(profile'[t], upAge'[t]) /\ LetGo(t)'
  BY DEF Settling, Settled, LetGo
<1>1. LetGo(t)'
  BY DEF Settling, LetGo
<1>2. CASE t = s
  <2>1. profile'[t] = p /\ upAge'[t] = u
    BY <1>2 DEF IInv, TypeOK
  <2> QED BY <1>1, <2>1
<1>3. CASE t # s
  <2>1. profile'[t] = profile[t] /\ upAge'[t] = upAge[t]
    BY <1>3 DEF IInv, TypeOK
  <2> QED BY <1>1, <2>1 DEF Settling
<1> QED BY <1>2, <1>3

(* The same when no profile changes.                                       *)
LEMMA NoneSettles ==
    ASSUME Settling, UNCHANGED <<profile, upAge>>, loop # "stopped" \/ loop' = loop,
           \A t \in Speakers, k \in Slots :
             (task'[t][k].phase = "cancelled" /\ task'[t][k].own)
               => task[t][k].phase = "cancelled" /\ task[t][k].own
    PROVE  Settling'
BY DEF Settling, Settled, LetGo

(* A finished task is not being cancelled.                                 *)
LEMMA FinishLetsGo ==
    ASSUME IInv, NEW s \in Speakers, NEW k \in Slots, Finish(s, k)
    PROVE  \A t \in Speakers, j \in Slots :
             (task'[t][j].phase = "cancelled" /\ task'[t][j].own)
               => task[t][j].phase = "cancelled" /\ task[t][j].own
<1> SUFFICES ASSUME NEW t \in Speakers, NEW j \in Slots, task'[t][j].phase = "cancelled"
             PROVE  task'[t][j] = task[t][j]
  OBVIOUS
<1>1. t # s \/ j # k
  BY FinishIs DEF IInv
<1> QED BY <1>1, FinishIs DEF IInv

(* While the engine runs, an attempt that ends in a retry has its delay    *)
(* from a failure, or from a busy answer that waits out the window.        *)
LEMMA AttemptSettles ==
    ASSUME IInv, LongEnough, Settling, NEW s \in Speakers, NEW k \in Slots, AttemptStep(s, k)
    PROVE  Settling'
<1>1. loop' = loop
  BY DEF AttemptStep, AttemptBegins, AttemptSucceeds, AttemptFindsBusy, AttemptFails,
         AttemptCancelled, ReleaseInflight
<1>2. profile[s] \in Profile /\ upAge[s] \in Nat
  BY SpeakerIs, UpAgeIs
<1>3. upAge' = upAge => upAge' = [upAge EXCEPT ![s] = upAge[s]]
  BY DEF IInv, TypeOK
<1>4. CASE Finish(s, k) /\ UNCHANGED <<profile, upAge>>
  BY <1>1, <1>4, FinishLetsGo, NoneSettles
<1>5. CASE AttemptBegins(s, k) /\ ~(Finish(s, k) /\ UNCHANGED <<profile, upAge>>)
  <2> DEFINE p == [profile[s] EXCEPT !.state = "reconnecting"]
             row == [task[s] EXCEPT ![k] = [phase |-> "connecting", own |-> TRUE, reached |-> link[s]]]
  <2>1. profile' = [profile EXCEPT ![s] = p] /\ upAge' = upAge /\ task' = [task EXCEPT ![s] = row]
    BY <1>5 DEF AttemptBegins
  <2>2. Settled(p, upAge[s])
    BY <1>2 DEF Settled, Profile
  <2>3. row[k].phase = "connecting" /\ \A j \in Slots : j # k => row[j] = task[s][j]
    BY DEF IInv, TypeOK
  <2> HIDE DEF p, row
  <2>4. \A t \in Speakers, j \in Slots :
          task'[t][j].phase = "cancelled" => task'[t][j] = task[t][j]
    BY <2>1, <2>3 DEF IInv, TypeOK
  <2>5. \A t \in Speakers, j \in Slots :
          (task'[t][j].phase = "cancelled" /\ task'[t][j].own)
            => task[t][j].phase = "cancelled" /\ task[t][j].own
    BY <2>4
  <2>6. upAge' = [upAge EXCEPT ![s] = upAge[s]]
    BY <1>3, <2>1
  <2> QED BY <1>1, <2>1, <2>2, <2>5, <2>6, OneSettles
<1>6. CASE AttemptSucceeds(s, k) /\ task[s][k].own
  <2>1. /\ profile' = [profile EXCEPT ![s] = Connected(profile[s])]
        /\ upAge' = [upAge EXCEPT ![s] = 0] /\ Finish(s, k)
    BY <1>6 DEF AttemptSucceeds
  <2>2. Settled(Connected(profile[s]), 0)
    BY <1>2, SeenSettled
  <2> QED BY <1>1, <2>1, <2>2, FinishLetsGo, OneSettles
<1>7. CASE AttemptFindsBusy(s, k) /\ ~UNCHANGED profile
  <2>1. PICK delay \in Delays(profile[s].step) :
          profile' = [profile EXCEPT ![s] = Deferred(profile[s], delay)]
    BY <1>7 DEF AttemptFindsBusy
  <2> DEFINE q == [profile[s] EXCEPT !.down = NoDrop]
             late == Larger(delay, Settle)
  <2>2. q \in Profile
    BY <1>2, ForgetDropIs
  <2>3. late \in 0 .. LongestWait /\ late >= Settle
    <3>1. late \in 0 .. LongestWait
      BY SpeakerIs, DelayFits
    <3> QED BY <3>1, SpeakerIs, DelayFits, Constants, LargerIs
  <2>4. Deferred(profile[s], delay) = Retry(q, late)
    BY DEF Deferred
  <2> HIDE DEF q, late
  <2>5. upAge[s] + late >= Settle
    BY <1>2, <2>3, Constants
  <2>6. Settled(Deferred(profile[s], delay), upAge[s])
    BY <1>2, <2>2, <2>3, <2>4, <2>5, RetrySettled
  <2>7. Finish(s, k) /\ upAge' = upAge
    BY <1>7 DEF AttemptFindsBusy
  <2> QED BY <1>1, <1>3, <2>1, <2>6, <2>7, FinishLetsGo, OneSettles
<1>8. CASE AttemptFails(s, k) /\ ~UNCHANGED profile
  <2>1. PICK delay \in Delays(OneMore(profile[s].step)) :
          profile' = [profile EXCEPT ![s] = Failed(profile[s], delay)]
    BY <1>8 DEF AttemptFails
  <2> DEFINE p == Failed(profile[s], delay)
  <2>2. profile[s].step = profile[s].failures
    BY SpeakerIs DEF OwesRest
  <2>3. p \in Profile /\ p.retryIn >= delay /\ delay \in 0 .. MaxBackoff
    BY <1>2, <2>1, <2>2, FailedIs
  <2>4. OneMore(profile[s].step) \in 1 .. MaxFailures
    BY SpeakerIs, Constants DEF OneMore, Smaller
  <2>5. delay >= Settle
    BY <2>1, <2>4 DEF LongEnough
  <2>6. p.state \in {"backoff", "circuit_broken"}
    <3> DEFINE counted == [profile[s] EXCEPT !.failures = OneMore(profile[s].failures),
                                             !.step = OneMore(profile[s].step)]
               open == [counted EXCEPT !.brokenFor = Larger(profile[s].brokenFor, BreakerCooldown)]
    <3>1. \/ p = Retry(counted, delay)
          \/ p = [Retry(open, delay) EXCEPT !.state = "circuit_broken"]
      BY DEF Failed
    <3>2. \A r \in Profile : Retry(r, delay).state = "backoff"
      BY DEF Retry, Profile
    <3>3. counted \in Profile
      <4> DEFINE n == OneMore(profile[s].failures)
      <4>1. n \in 0 .. MaxFailures /\ OneMore(profile[s].step) = n
        BY <2>2, <2>4, Constants
      <4> HIDE DEF n
      <4>2. counted = [profile[s] EXCEPT !.failures = n, !.step = n]
        BY <4>1 DEF n
      <4> QED BY <1>2, <4>1, <4>2 DEF Profile
    <3>4. DOMAIN Retry(open, delay) = DOMAIN open /\ DOMAIN open = DOMAIN counted
      BY DEF Retry
    <3> HIDE DEF p, open, counted
    <3>5. "state" \in DOMAIN counted
      BY <3>3 DEF Profile
    <3> QED BY <3>1, <3>2, <3>3, <3>4, <3>5
  <2> HIDE DEF p
  <2>7. p.retryIn \in Nat /\ upAge[s] + p.retryIn >= Settle
    <3>1. p.retryIn \in Nat
      BY <2>3 DEF Profile
    <3> QED BY <3>1, <1>2, <2>3, <2>5, Constants
  <2>8. Settled(p, upAge[s])
    BY <1>2, <2>6, <2>7, CoveredIsSettled
  <2>9. Finish(s, k) /\ upAge' = upAge
    BY <1>8 DEF AttemptFails
  <2> QED BY <1>1, <1>3, <2>1, <2>8, <2>9, FinishLetsGo, OneSettles DEF p
<1>9. CASE AttemptCancelled(s, k) /\ ~UNCHANGED profile
  <2>1. task[s][k].phase = "cancelled" /\ task[s][k].own
    BY <1>9 DEF AttemptCancelled
  <2>2. loop = "stopped"
    BY <2>1 DEF Settling, LetGo
  <2> QED BY <1>1, <2>2 DEF Settling
<1>10. CASE ReleaseInflight(s, k)
  <2> DEFINE row == [task[s] EXCEPT ![k] = FreeTask]
  <2>1. task' = [task EXCEPT ![s] = row] /\ UNCHANGED <<profile, upAge>>
    BY <1>10 DEF ReleaseInflight
  <2>2. row[k].phase = "none" /\ \A j \in Slots : j # k => row[j] = task[s][j]
    BY DEF IInv, TypeOK, FreeTask
  <2> HIDE DEF row
  <2>3. \A t \in Speakers, j \in Slots :
          task'[t][j].phase = "cancelled" => task'[t][j] = task[t][j]
    BY <2>1, <2>2 DEF IInv, TypeOK
  <2> QED BY <1>1, <2>1, <2>3, NoneSettles
<1>11. AttemptSucceeds(s, k) => (Finish(s, k) /\ UNCHANGED <<profile, upAge>>) \/ task[s][k].own
  BY DEF AttemptSucceeds
<1>12. AttemptFindsBusy(s, k) \/ AttemptFails(s, k) \/ AttemptCancelled(s, k)
         => (Finish(s, k) /\ UNCHANGED <<profile, upAge>>) \/ ~UNCHANGED profile
  BY DEF AttemptFindsBusy, AttemptFails, AttemptCancelled
<1> QED BY <1>4, <1>5, <1>6, <1>7, <1>8, <1>9, <1>10, <1>11, <1>12 DEF AttemptStep

(* Neither unregistering nor registering leaves anybody unsettled.         *)
LEMMA DroppedSettles ==
    ASSUME IInv, Settling, NEW gone, Dropped(gone), loop' = loop
    PROVE  Settling'
<1> SUFFICES ASSUME loop # "stopped", NEW s \in Speakers
             PROVE  Settled(profile'[s], upAge'[s]) /\ LetGo(s)'
  BY DEF Settling, Settled, LetGo
<1>1. CASE s \in gone
  <2>1. profile'[s] = Fresh /\ upAge'[s] = Settle
    BY <1>1 DEF Dropped
  <2>2. Settled(Fresh, Settle)
    BY Constants DEF Settled, Fresh
  <2>3. LetGo(s)'
    <3> SUFFICES ASSUME NEW k \in Slots PROVE ~task'[s][k].own
      BY DEF LetGo
    <3> DEFINE t == [task[s][k] EXCEPT !.own = FALSE]
    <3>1. task[s][k] \in Task
      BY DEF IInv, TypeOK
    <3>2. t \in Task /\ ~t.own
      BY <3>1 DEF Task
    <3>3. task'[s][k] = IF inflight[s] = k THEN Cancelled(t) ELSE t
      BY <1>1 DEF Dropped
    <3> HIDE DEF t
    <3>4. ~Cancelled(t).own
      BY <3>2 DEF Cancelled, Task
    <3> QED BY <3>2, <3>3, <3>4
  <2> QED BY <2>1, <2>2, <2>3
<1>2. CASE s \notin gone
  <2>1. profile'[s] = profile[s] /\ upAge'[s] = upAge[s] /\ task'[s] = task[s]
    BY <1>2, DroppedTasks DEF Dropped
  <2> QED BY <2>1 DEF Settling, LetGo
<1> QED BY <1>1, <1>2

LEMMA RegisterSettles ==
    ASSUME IInv, Settling, NEW s \in Speakers, NEW e \in EnabledArgs, Register(s, e)
    PROVE  Settling'
<1> DEFINE p == [profile[s] EXCEPT !.enabled = e]
<1>1. profile' = [profile EXCEPT ![s] = p] /\ UNCHANGED <<loop, task, upAge>>
  BY DEF Register
<1>2. Settled(profile[s], upAge[s]) => Settled(p, upAge[s])
  BY SpeakerIs DEF Settled, Profile
<1> HIDE DEF p
<1>3. loop # "stopped" => Settled(p, upAge[s])
  BY <1>2 DEF Settling
<1>4. upAge' = [upAge EXCEPT ![s] = upAge[s]]
  BY <1>1 DEF IInv, TypeOK
<1> QED BY <1>1, <1>3, <1>4, OneSettles

(* The age of a link starts anew only when the profile says connected and  *)
(* forgets its drop.                                                       *)
LEMMA DeviceEventSettles ==
    ASSUME IInv, Settling, NEW s \in Speakers, NEW connected \in BOOLEAN,
           NEW bond \in {"trusted", "paired", "none"}, DeviceEvent(s, connected, bond)
    PROVE  Settling'
<1>1. PICK p \in {profile[s], [profile[s] EXCEPT !.enabled = TRUE]} :
        \/ profile' = [profile EXCEPT ![s] = p] /\ upAge' = upAge
        \/ profile' = [profile EXCEPT ![s] = SeenConnected(p)] /\ upAge' \in {upAge, [upAge EXCEPT ![s] = 0]}
        \/ profile' = [profile EXCEPT ![s] = SeenDisconnected(p)] /\ upAge' = upAge
  BY DEF DeviceEvent
<1>2. p \in Profile /\ (Settled(profile[s], upAge[s]) => Settled(p, upAge[s]))
  BY <1>1, SpeakerIs DEF Profile, Settled
<1>3. upAge = [upAge EXCEPT ![s] = upAge[s]] /\ upAge[s] \in Nat
  BY UpAgeIs DEF IInv, TypeOK
<1>4. loop # "stopped" => Settled(p, upAge[s])
  BY <1>2 DEF Settling
<1>5. \E q, u : /\ profile' = [profile EXCEPT ![s] = q] /\ upAge' = [upAge EXCEPT ![s] = u]
                /\ loop # "stopped" => Settled(q, u)
  <2>1. CASE profile' = [profile EXCEPT ![s] = p] /\ upAge' = upAge
    BY <2>1, <1>3, <1>4
  <2>2. CASE /\ profile' = [profile EXCEPT ![s] = SeenConnected(p)]
             /\ upAge' \in {upAge, [upAge EXCEPT ![s] = 0]}
    <3>1. Settled(SeenConnected(p), upAge[s]) /\ Settled(SeenConnected(p), 0)
      BY <1>2, <1>3, SeenSettled
    <3> QED BY <2>2, <1>3, <3>1
  <2>3. CASE profile' = [profile EXCEPT ![s] = SeenDisconnected(p)] /\ upAge' = upAge
    <3>1. loop # "stopped" => Settled(SeenDisconnected(p), upAge[s])
      BY <1>2, <1>3, <1>4, SeenSettled
    <3> QED BY <2>3, <1>3, <3>1
  <2> QED BY <1>1, <2>1, <2>2, <2>3
<1>6. /\ loop' = loop
      /\ \A t \in Speakers, k \in Slots :
           task'[t][k].phase = task[t][k].phase /\ task'[t][k].own = task[t][k].own
  BY DeviceEventIs DEF DeviceEvent
<1>7. PICK q, u : /\ profile' = [profile EXCEPT ![s] = q] /\ upAge' = [upAge EXCEPT ![s] = u]
                  /\ loop # "stopped" => Settled(q, u)
  BY <1>5
<1>8. \A t \in Speakers, k \in Slots :
        (task'[t][k].phase = "cancelled" /\ task'[t][k].own)
          => task[t][k].phase = "cancelled" /\ task[t][k].own
  BY <1>6
<1> QED BY <1>6, <1>7, <1>8, OneSettles

LEMMA TickSettles ==
    ASSUME IInv, LongEnough, Settling, Tick
    PROVE  /\ Settling'
           /\ \A s \in Speakers, k \in Slots :
                (task[s][k].phase = "none" /\ task'[s][k].phase = "created") => upAge[s] >= Settle
<1>1. PICK delay \in [Speakers -> 0 .. MaxBackoff], slot \in [Speakers -> Slots] :
        /\ \A s \in Speakers : delay[s] \in Delays(profile[s].step)
        /\ profile' = [s \in Speakers |->
                         IF s \in tracked THEN Ticked(profile[s], delay[s]) ELSE profile[s]]
        /\ task' = [s \in Speakers |->
                      IF Spawns(s, delay[s])
                        THEN [task[s] EXCEPT ![slot[s]] = [FreeTask EXCEPT !.phase = "created", !.own = TRUE]]
                        ELSE task[s]]
  BY DEF Tick
<1>2. loop # "stopped" /\ UNCHANGED <<loop, upAge>>
  BY DEF Tick, running
<1>3. \A s \in Speakers : /\ Settled(profile'[s], upAge[s])
                          /\ Settled(Ticked(profile[s], delay[s]), upAge[s])
  <2> SUFFICES ASSUME NEW s \in Speakers
               PROVE  /\ Settled(profile'[s], upAge[s])
                      /\ Settled(Ticked(profile[s], delay[s]), upAge[s])
    OBVIOUS
  <2>1. Settled(profile[s], upAge[s])
    BY <1>2 DEF Settling
  <2>2. profile[s] \in Profile /\ upAge[s] \in Nat /\ delay[s] \in Delays(profile[s].step)
    BY <1>1, SpeakerIs, UpAgeIs
  <2>3. Settled(Ticked(profile[s], delay[s]), upAge[s])
    BY <2>1, <2>2, TickedSettled
  <2>4. profile'[s] \in {profile[s], Ticked(profile[s], delay[s])}
    BY <1>1
  <2> QED BY <2>1, <2>3, <2>4
<1>4. \A s \in Speakers, k \in Slots :
        task'[s][k] # task[s][k] => Spawns(s, delay[s]) /\ task'[s][k].phase = "created"
  <2> SUFFICES ASSUME NEW s \in Speakers, NEW k \in Slots, task'[s][k] # task[s][k]
               PROVE  Spawns(s, delay[s]) /\ task'[s][k].phase = "created"
    OBVIOUS
  <2> DEFINE new == [FreeTask EXCEPT !.phase = "created", !.own = TRUE]
  <2>1. new.phase = "created"
    BY DEF FreeTask
  <2> HIDE DEF new
  <2>2. Spawns(s, delay[s]) /\ task'[s] = [task[s] EXCEPT ![slot[s]] = new]
    BY <1>1 DEF new
  <2>3. task'[s][k] = new
    BY <2>2 DEF IInv, TypeOK
  <2> QED BY <2>1, <2>2, <2>3
<1>5. Settling'
  <2>1. \A s \in Speakers : LetGo(s)'
    BY <1>2, <1>4 DEF Settling, LetGo
  <2> QED BY <1>2, <1>3, <2>1 DEF Settling
<1>6. ASSUME NEW s \in Speakers, NEW k \in Slots,
             task[s][k].phase = "none", task'[s][k].phase = "created"
      PROVE  upAge[s] >= Settle
  <2> DEFINE q == Ticked(profile[s], delay[s])
  <2>1. Due(q)
    BY <1>4, <1>6 DEF Spawns
  <2>2. Settled(q, upAge[s]) /\ upAge[s] \in Nat
    BY <1>3, UpAgeIs
  <2> HIDE DEF q
  <2>3. q.state = "backoff" /\ q.retryIn = 0
    BY <2>1 DEF Due
  <2> QED BY <2>2, <2>3, Constants DEF Settled
<1> QED BY <1>5, <1>6

LEMMA AdvanceSettles ==
    ASSUME IInv, Settling, Advance
    PROVE  Settling'
<1> SUFFICES ASSUME loop # "stopped", NEW s \in Speakers
             PROVE  Settled(profile'[s], upAge'[s]) /\ LetGo(s)'
  BY DEF Settling, Settled, LetGo, Advance
<1>1. upAge'[s] = Smaller(upAge[s] + 1, Settle) /\ profile'[s] \in {profile[s], Aged(profile[s])}
  BY DEF Advance
<1>2. profile[s] \in Profile /\ upAge[s] \in Nat /\ upAge[s] <= Settle /\ Settled(profile[s], upAge[s])
  BY SpeakerIs, UpAgeIs DEF Settling
<1>3. LET v == Smaller(upAge[s] + 1, Settle)
      IN  Settled(profile[s], v) /\ Settled(Aged(profile[s]), v)
  BY <1>2, AgedSettled
<1>4. LetGo(s)'
  BY DEF Advance, Settling, LetGo
<1> QED BY <1>1, <1>3, <1>4

LEMMA NextSettles ==
    ASSUME IInv, LongEnough, Settling, [Next]_vars
    PROVE  Settling'
<1>1. CASE Start
  BY <1>1, NoneSettles DEF Start
<1>2. CASE Stop
  BY <1>2 DEF Stop, Settling
<1>3. ASSUME NEW s \in Speakers, Unregister(s) PROVE Settling'
  BY <1>3, DroppedSettles DEF Unregister
<1>4. ASSUME NEW e \in BOOLEAN, SetGlobalEnabled(e) PROVE Settling'
  <2>1. CASE e
    BY <1>4, <2>1, NoneSettles DEF SetGlobalEnabled
  <2>2. CASE ~e
    BY <1>4, <2>2, DroppedSettles DEF SetGlobalEnabled
  <2> QED BY <2>1, <2>2
<1>5. CASE UNCHANGED vars
  BY <1>5, NoneSettles DEF vars
<1> QED BY <1>1, <1>2, <1>3, <1>4, <1>5, TickSettles, AdvanceSettles, RegisterSettles,
           DeviceEventSettles, AttemptSettles DEF Next

(* No retry is spawned within the settle window of a link that came up,    *)
(* also when it came back inside the grace window, which leaves            *)
(* connected_at as it was: what covers the window then is the age of the   *)
(* next drop and the delay it earns.                                       *)
THEOREM SettleRespectedAlways ==
    ASSUME LongEnough
    PROVE  Spec => SettleRespected
<1>1. Init => IInv /\ Settling
  <2>1. Settled(Fresh, Settle)
    BY Constants DEF Settled, Fresh
  <2> QED BY <2>1, InitIInv DEF Init, Settling, LetGo, FreeTask
<1>2. (IInv /\ Settling) /\ [Next]_vars => (IInv /\ Settling)'
  BY NextKeeps, NextSettles
<1>3. (IInv /\ Settling) /\ [Next]_vars
        => [\A s \in Speakers, k \in Slots :
              (task[s][k].phase = "none" /\ task'[s][k].phase = "created") => upAge[s] >= Settle]_vars
  <2> SUFFICES ASSUME IInv, Settling, Next, NEW s \in Speakers, NEW k \in Slots,
                      task[s][k].phase = "none", task'[s][k].phase = "created"
               PROVE  upAge[s] >= Settle
    OBVIOUS
  <2>1. CASE Tick
    BY <2>1, TickSettles
  <2>2. CASE ~Tick
    BY <2>2, OnlyTickSpawns DEF Live
  <2> QED BY <2>1, <2>2
<1> QED BY <1>1, <1>2, <1>3, PTL DEF Spec, SettleRespected

-----------------------------------------------------------------------------
(* The engine implements ReconnectPacing: each step of Reconnect is, for    *)
(* every speaker, one move of the abstract specification.                   *)

Connecting(s) == \E k \in Slots : task[s][k].phase = "connecting"

Moves(s) ==
    \/ Pacing!Begin(s) \/ Pacing!Fail(s) \/ Pacing!GiveUp(s)
    \/ Pacing!Forgive(s) \/ Pacing!Elapse(s) \/ Pacing!Stay(s)

-----------------------------------------------------------------------------
(* What each move asks of the engine's state.                              *)
LEMMA StayMove ==
    ASSUME NEW s \in Speakers, profile'[s].failures = profile[s].failures,
           calm'[s] = calm[s], Connecting(s)' <=> Connecting(s)
    PROVE  Moves(s)
<1>1. Pacing!Stay(s)
  BY Zenon DEF Pacing!Stay, Connecting
<1> QED BY <1>1 DEF Moves

LEMMA GiveUpMove ==
    ASSUME NEW s \in Speakers, profile'[s].failures = profile[s].failures,
           calm'[s] = calm[s], Connecting(s), ~Connecting(s)'
    PROVE  Moves(s)
<1>1. Pacing!GiveUp(s)
  BY Zenon DEF Pacing!GiveUp, Connecting
<1> QED BY <1>1 DEF Moves

LEMMA ForgiveMove ==
    ASSUME NEW s \in Speakers, profile'[s].failures = 0,
           calm'[s] = Longest, Connecting(s)' => Connecting(s)
    PROVE  Moves(s)
<1>1. Pacing!Forgive(s)
  BY Zenon DEF Pacing!Forgive, Connecting
<1> QED BY <1>1 DEF Moves

LEMMA FailMove ==
    ASSUME IInv, NEW s \in Speakers, profile'[s].failures = OneMore(profile[s].failures),
           calm'[s] = 0, Connecting(s), ~Connecting(s)'
    PROVE  Moves(s)
<1>1. OneMore(profile[s].failures)
        = IF profile[s].failures < MaxFailures THEN profile[s].failures + 1 ELSE MaxFailures
  BY SpeakerIs, Constants DEF OneMore, Smaller
<1>2. Pacing!Fail(s)
  BY Zenon, <1>1 DEF Pacing!Fail, Connecting
<1> QED BY <1>2 DEF Moves

LEMMA BeginMove ==
    ASSUME NEW s \in Speakers, profile'[s].failures = profile[s].failures,
           calm'[s] = calm[s], ~Connecting(s), Connecting(s)',
           Rested(profile[s].failures, calm[s])
    PROVE  Moves(s)
<1>1. Pacing!Rested(profile[s].failures, calm[s])
  BY DEF Pacing!Rested, Rested
<1>2. Pacing!Begin(s)
  BY Zenon, <1>1 DEF Pacing!Begin, Connecting
<1> QED BY <1>2 DEF Moves

LEMMA ElapseMove ==
    ASSUME IInv, NEW s \in Speakers, profile'[s].failures = profile[s].failures,
           calm'[s] = Smaller(calm[s] + 1, Longest), Connecting(s)' <=> Connecting(s)
    PROVE  Moves(s)
<1>1. Smaller(calm[s] + 1, Longest) = IF calm[s] < Longest THEN calm[s] + 1 ELSE Longest
  BY SpeakerIs, Constants DEF Smaller
<1>2. Pacing!Elapse(s)
  BY Zenon, <1>1 DEF Pacing!Elapse, Connecting
<1> QED BY <1>2 DEF Moves

-----------------------------------------------------------------------------
(* The steps of an attempt.                                                *)

(* The end of the one attempt that connects leaves none.                   *)
LEMMA FinishEnds ==
    ASSUME IInv, NEW s \in Speakers, NEW k \in Slots, Finish(s, k)
    PROVE  /\ task[s][k].phase = "connecting" => Connecting(s) /\ ~Connecting(s)'
           /\ task[s][k].phase # "connecting" => (Connecting(s)' <=> Connecting(s))
           /\ \A t \in Speakers : t # s => (Connecting(t)' <=> Connecting(t))
<1>1. /\ task'[s][k].phase = "done"
      /\ \A t \in Speakers, j \in Slots : (t # s \/ j # k) => task'[t][j] = task[t][j]
  BY FinishIs DEF IInv
<1>2. ASSUME NEW t \in Speakers, t # s PROVE Connecting(t)' <=> Connecting(t)
  BY <1>1, <1>2 DEF Connecting
<1>3. ASSUME task[s][k].phase = "connecting" PROVE Connecting(s) /\ ~Connecting(s)'
  <2>1. \A j \in Slots : task[s][j].phase = "connecting" => j = k
    BY <1>3, ConnectingIsAlone
  <2> QED BY <1>1, <1>3, <2>1 DEF Connecting
<1>4. ASSUME task[s][k].phase # "connecting" PROVE Connecting(s)' <=> Connecting(s)
  BY <1>1, <1>4 DEF Connecting
<1> QED BY <1>2, <1>3, <1>4

(* A step that leaves a speaker's profile and tasks alone is a stay.       *)
LEMMA Untouched ==
    ASSUME NEW t \in Speakers, profile'[t] = profile[t], calm'[t] = calm[t],
           Connecting(t)' <=> Connecting(t)
    PROVE  Moves(t)
BY StayMove

LEMMA BeginsMoves ==
    ASSUME IInv, NEW s \in Speakers, NEW k \in Slots, AttemptBegins(s, k), NEW t \in Speakers
    PROVE  Moves(t)
<1>1. CASE task[s][k].own /\ profile[s].enabled /\ profile[s].brokenFor = 0
  <2> DEFINE new == [phase |-> "connecting", own |-> TRUE, reached |-> link[s]]
             row == [task[s] EXCEPT ![k] = new]
  <2>1. /\ profile' = [profile EXCEPT ![s].state = "reconnecting"]
        /\ task' = [task EXCEPT ![s] = row] /\ calm' = calm
    BY <1>1 DEF AttemptBegins
  <2>2. new.phase = "connecting"
    OBVIOUS
  <2> HIDE DEF new
  <2>3. row[k] = new
    BY DEF IInv, TypeOK
  <2> HIDE DEF row
  <2>4. CASE t = s
    <3>1. ~Connecting(s)
      <4>1. task[s][k].phase = "created"
        BY DEF AttemptBegins
      <4> QED BY <4>1, ConnectingIsAlone DEF Connecting
    <3>2. Connecting(s)'
      BY <2>1, <2>2, <2>3 DEF Connecting, IInv, TypeOK
    <3>3. profile'[s].failures = profile[s].failures
      BY <2>1, SpeakerIs DEF Profile, IInv, TypeOK
    <3>4. Rested(profile[s].failures, calm[s])
      BY DEF AttemptBegins, IInv, Paced
    <3> QED BY <2>1, <2>4, <3>1, <3>2, <3>3, <3>4, BeginMove
  <2>5. CASE t # s
    <3>1. task'[t] = task[t] /\ profile'[t] = profile[t]
      BY <2>1, <2>5 DEF IInv, TypeOK
    <3> QED BY <2>1, <3>1, Untouched DEF Connecting
  <2> QED BY <2>4, <2>5
<1>2. CASE ~(task[s][k].own /\ profile[s].enabled /\ profile[s].brokenFor = 0)
  <2>1. Finish(s, k) /\ profile' = profile /\ calm' = calm /\ task[s][k].phase # "connecting"
    BY <1>2 DEF AttemptBegins
  <2> QED BY <2>1, FinishEnds, Untouched
<1> QED BY <1>1, <1>2

LEMMA SucceedsMoves ==
    ASSUME IInv, NEW s \in Speakers, NEW k \in Slots, AttemptSucceeds(s, k), NEW t \in Speakers
    PROVE  Moves(t)
<1> DEFINE p == Connected(profile[s])
<1>1. /\ profile' = [profile EXCEPT ![s] = p] /\ calm' = [calm EXCEPT ![s] = Longest]
      /\ Finish(s, k) /\ task[s][k].phase = "connecting"
  BY ConnectingIsAlone DEF AttemptSucceeds
<1>2. p.failures = 0
  <2> DEFINE q == SeenConnected(profile[s])
  <2>1. q \in Profile /\ q.failures = 0
    BY SpeakerIs, SeenIs
  <2>2. p = [q EXCEPT !.up = 0]
    BY DEF Connected
  <2> HIDE DEF q
  <2> QED BY <2>1, <2>2 DEF Profile
<1> HIDE DEF p
<1>3. CASE t = s
  <2>1. profile'[s] = p /\ calm'[s] = Longest
    BY <1>1 DEF IInv, TypeOK
  <2> QED BY <1>1, <1>2, <1>3, <2>1, FinishEnds, ForgiveMove
<1>4. CASE t # s
  <2>1. profile'[t] = profile[t] /\ calm'[t] = calm[t]
    BY <1>1, <1>4 DEF IInv, TypeOK
  <2> QED BY <1>1, <1>4, <2>1, FinishEnds, Untouched
<1> QED BY <1>3, <1>4

LEMMA FindsBusyMoves ==
    ASSUME IInv, NEW s \in Speakers, NEW k \in Slots, AttemptFindsBusy(s, k), NEW t \in Speakers
    PROVE  Moves(t)
<1>1. PICK delay \in Delays(profile[s].step) :
        profile' = [profile EXCEPT ![s] = Deferred(profile[s], delay)]
  BY ConnectingIsAlone DEF AttemptFindsBusy
<1>2. calm' = calm /\ Finish(s, k) /\ task[s][k].phase = "connecting"
  BY DEF AttemptFindsBusy
<1>3. Deferred(profile[s], delay).failures = profile[s].failures
  <2> DEFINE q == [profile[s] EXCEPT !.down = NoDrop]
  <2>1. q \in Profile /\ q.failures = profile[s].failures
    BY SpeakerIs, ForgetDropIs
  <2>2. /\ Deferred(profile[s], delay) = Retry(q, Larger(delay, Settle))
        /\ Larger(delay, Settle) \in 0 .. LongestWait
    BY SpeakerIs, DelayFits DEF Deferred
  <2> HIDE DEF q
  <2> QED BY <2>1, <2>2, RetryIs
<1>4. CASE t = s
  <2>1. profile'[s] = Deferred(profile[s], delay)
    BY <1>1 DEF IInv, TypeOK
  <2> QED BY <1>2, <1>3, <1>4, <2>1, FinishEnds, GiveUpMove
<1>5. CASE t # s
  <2>1. profile'[t] = profile[t]
    BY <1>1, <1>5 DEF IInv, TypeOK
  <2> QED BY <1>2, <1>5, <2>1, FinishEnds, Untouched
<1> QED BY <1>4, <1>5

LEMMA FailsMoves ==
    ASSUME IInv, NEW s \in Speakers, NEW k \in Slots, AttemptFails(s, k), NEW t \in Speakers
    PROVE  Moves(t)
<1>1. PICK delay \in Delays(OneMore(profile[s].step)) :
        profile' = [profile EXCEPT ![s] = Failed(profile[s], delay)]
  BY ConnectingIsAlone DEF AttemptFails
<1>2. calm' = [calm EXCEPT ![s] = 0] /\ Finish(s, k) /\ task[s][k].phase = "connecting"
  BY ConnectingIsAlone DEF AttemptFails
<1>3. Failed(profile[s], delay).failures = OneMore(profile[s].failures)
  <2>1. profile[s] \in Profile /\ profile[s].step = profile[s].failures
    BY SpeakerIs DEF OwesRest
  <2> QED BY <2>1, <1>1, FailedIs
<1>4. CASE t = s
  <2>1. profile'[s] = Failed(profile[s], delay) /\ calm'[s] = 0
    BY <1>1, <1>2 DEF IInv, TypeOK
  <2> QED BY <1>2, <1>3, <1>4, <2>1, FinishEnds, FailMove
<1>5. CASE t # s
  <2>1. profile'[t] = profile[t] /\ calm'[t] = calm[t]
    BY <1>1, <1>2, <1>5 DEF IInv, TypeOK
  <2> QED BY <1>2, <1>5, <2>1, FinishEnds, Untouched
<1> QED BY <1>4, <1>5

LEMMA CancelledMoves ==
    ASSUME IInv, NEW s \in Speakers, NEW k \in Slots, AttemptCancelled(s, k), NEW t \in Speakers
    PROVE  Moves(t)
<1>1. calm' = calm /\ Finish(s, k) /\ task[s][k].phase # "connecting"
  BY DEF AttemptCancelled
<1>2. profile' = profile \/ \E delay \in Delays(profile[s].step) :
        profile' = [profile EXCEPT ![s] = Retry(profile[s], delay)]
  BY DEF AttemptCancelled
<1>3. profile'[t].failures = profile[t].failures
  <2>1. ASSUME NEW delay \in Delays(profile[s].step) 
        PROVE  Retry(profile[s], delay).failures = profile[s].failures
    BY SpeakerIs, DelayFits, RetryIs
  <2>2. profile \in [Speakers -> Profile]
    BY DEF IInv, TypeOK
  <2>3. ASSUME NEW p, p.failures = profile[s].failures, profile' = [profile EXCEPT ![s] = p]
        PROVE  profile'[t].failures = profile[t].failures
    BY <2>2, <2>3
  <2> QED BY <1>2, <2>1, <2>3
<1>4. Connecting(t)' <=> Connecting(t)
  BY <1>1, FinishEnds
<1> QED BY <1>1, <1>3, <1>4, StayMove

LEMMA ReleaseMoves ==
    ASSUME IInv, NEW s \in Speakers, NEW k \in Slots, ReleaseInflight(s, k), NEW t \in Speakers
    PROVE  Moves(t)
<1> DEFINE row == [task[s] EXCEPT ![k] = FreeTask]
<1>1. /\ task' = [task EXCEPT ![s] = row] /\ profile' = profile /\ calm' = calm
      /\ task[s][k].phase = "done"
  BY DEF ReleaseInflight
<1>2. row[k].phase = "none" /\ \A j \in Slots : j # k => row[j] = task[s][j]
  BY DEF IInv, TypeOK, FreeTask
<1> HIDE DEF row
<1>3. Connecting(t)' <=> Connecting(t)
  BY <1>1, <1>2 DEF Connecting, IInv, TypeOK
<1> QED BY <1>1, <1>3, Untouched

-----------------------------------------------------------------------------
(* The other steps.                                                        *)
LEMMA TickMoves ==
    ASSUME IInv, Tick, NEW t \in Speakers
    PROVE  Moves(t)
<1>1. PICK delay \in [Speakers -> 0 .. MaxBackoff], slot \in [Speakers -> Slots] :
        /\ \A s \in Speakers : Spawns(s, delay[s]) => task[s][slot[s]].phase = "none"
        /\ profile' = [s \in Speakers |->
                         IF s \in tracked THEN Ticked(profile[s], delay[s]) ELSE profile[s]]
        /\ task' = [s \in Speakers |->
                      IF Spawns(s, delay[s])
                        THEN [task[s] EXCEPT ![slot[s]] = [FreeTask EXCEPT !.phase = "created", !.own = TRUE]]
                        ELSE task[s]]
  BY DEF Tick
<1>2. calm' = calm
  BY DEF Tick
<1>3. profile'[t].failures = profile[t].failures
  <2>1. profile[t] \in Profile /\ delay[t] \in 0 .. MaxBackoff
    BY <1>1, SpeakerIs, Constants
  <2>2. Ticked(profile[t], delay[t]).failures = profile[t].failures
    BY <2>1, TickedIs
  <2> QED BY <1>1, <2>2
<1>4. Connecting(t)' <=> Connecting(t)
  <2> DEFINE new == [FreeTask EXCEPT !.phase = "created", !.own = TRUE]
  <2>1. new.phase = "created"
    BY DEF FreeTask
  <2> HIDE DEF new
  <2>2. CASE Spawns(t, delay[t])
    <3>1. task'[t] = [task[t] EXCEPT ![slot[t]] = new] /\ task[t][slot[t]].phase = "none"
      BY <1>1, <2>2 DEF new
    <3>2. task[t] \in [Slots -> Task] /\ slot[t] \in Slots
      BY <1>1 DEF IInv, TypeOK
    <3> QED BY <2>1, <3>1, <3>2 DEF Connecting
  <2>3. CASE ~Spawns(t, delay[t])
    <3>1. task'[t] = task[t]
      BY <1>1, <2>3
    <3> QED BY <3>1 DEF Connecting
  <2> QED BY <2>2, <2>3
<1> QED BY <1>2, <1>3, <1>4, StayMove

LEMMA StopMoves ==
    ASSUME IInv, Stop, NEW t \in Speakers
    PROVE  Moves(t)
<1>1. profile' = profile /\ calm' = calm
  BY DEF Stop
<1>2. Connecting(t)' => Connecting(t)
  <2> SUFFICES ASSUME NEW k \in Slots, task'[t][k].phase = "connecting"
               PROVE  task[t][k].phase = "connecting"
    BY DEF Connecting
  <2>1. task[t][k] \in Task
    BY DEF IInv, TypeOK
  <2>2. task'[t][k] \in {task[t][k], Cancelled(task[t][k])}
    BY DEF Stop
  <2> QED BY <2>1, <2>2, CancelledIs
<1> QED BY <1>1, <1>2, Untouched, GiveUpMove

LEMMA DroppedMoves ==
    ASSUME IInv, NEW gone, Dropped(gone), NEW t \in Speakers
    PROVE  Moves(t)
<1>1. CASE t \in gone
  <2>1. profile'[t].failures = 0 /\ calm'[t] = Longest
    BY <1>1, FreshIs DEF Dropped
  <2>2. ~Connecting(t)'
    BY <1>1, DroppedTasks DEF Connecting
  <2> QED BY <2>1, <2>2, ForgiveMove
<1>2. CASE t \notin gone
  <2>1. profile'[t] = profile[t] /\ calm'[t] = calm[t]
    BY <1>2 DEF Dropped
  <2>2. task'[t] = task[t]
    BY <1>2, DroppedTasks
  <2> QED BY <2>1, <2>2, Untouched DEF Connecting
<1> QED BY <1>1, <1>2

LEMMA RegisterMoves ==
    ASSUME IInv, NEW s \in Speakers, NEW e \in EnabledArgs, Register(s, e), NEW t \in Speakers
    PROVE  Moves(t)
<1>1. profile' = [profile EXCEPT ![s].enabled = e] /\ calm' = calm /\ task' = task
  BY DEF Register
<1>2. profile'[t].failures = profile[t].failures
  BY <1>1, SpeakerIs DEF Profile, IInv, TypeOK
<1> QED BY <1>1, <1>2, StayMove DEF Connecting

LEMMA AdvanceMoves ==
    ASSUME IInv, Advance, NEW t \in Speakers
    PROVE  Moves(t)
<1>1. profile'[t] \in {profile[t], Aged(profile[t])} /\ task' = task
  BY DEF Advance
<1>2. profile'[t].failures = profile[t].failures
  BY <1>1, SpeakerIs, AgedIs
<1>3. calm'[t] = Smaller(calm[t] + 1, Longest)
  BY DEF Advance
<1> QED BY <1>1, <1>2, <1>3, ElapseMove DEF Connecting

LEMMA DeviceEventMoves ==
    ASSUME IInv, NEW s \in Speakers, NEW connected \in BOOLEAN,
           NEW bond \in {"trusted", "paired", "none"}, DeviceEvent(s, connected, bond),
           NEW t \in Speakers
    PROVE  Moves(t)
<1>1. PICK q \in Profile :
        /\ profile' = [profile EXCEPT ![s] = q]
        /\ \/ q.failures = 0 /\ calm' = [calm EXCEPT ![s] = Longest]
           \/ q.failures = profile[s].failures /\ calm' = calm
  BY DeviceEventIs
<1>2. \A k \in Slots : task'[t][k].phase = task[t][k].phase
  BY DeviceEventIs
<1>3. Connecting(t)' <=> Connecting(t)
  BY <1>2 DEF Connecting
<1>4. CASE t = s
  <2>1. profile'[t] = q
    BY <1>1, <1>4 DEF IInv, TypeOK
  <2>2. CASE q.failures = 0 /\ calm' = [calm EXCEPT ![s] = Longest]
    <3>1. calm'[t] = Longest
      BY <1>4, <2>2 DEF IInv, TypeOK
    <3> QED BY <1>3, <2>1, <2>2, <3>1, ForgiveMove
  <2>3. CASE q.failures = profile[s].failures /\ calm' = calm
    BY <1>3, <1>4, <2>1, <2>3, StayMove
  <2> QED BY <1>1, <2>2, <2>3
<1>5. CASE t # s
  <2>1. profile'[t] = profile[t] /\ calm'[t] = calm[t]
    BY <1>1, <1>5 DEF IInv, TypeOK
  <2> QED BY <1>3, <2>1, Untouched
<1> QED BY <1>4, <1>5

-----------------------------------------------------------------------------
(* Every step is a move of every speaker.                                  *)
LEMMA NextMoves ==
    ASSUME IInv, Next, NEW t \in Speakers
    PROVE  Moves(t)
<1>1. CASE Start
  BY <1>1, Untouched DEF Start, Connecting
<1>2. CASE Stop
  BY <1>2, StopMoves
<1>3. CASE Tick
  BY <1>3, TickMoves
<1>4. CASE Advance
  BY <1>4, AdvanceMoves
<1>5. ASSUME NEW s \in Speakers, NEW e \in EnabledArgs, Register(s, e) PROVE Moves(t)
  BY <1>5, RegisterMoves
<1>6. ASSUME NEW s \in Speakers, Unregister(s) PROVE Moves(t)
  BY <1>6, DroppedMoves DEF Unregister
<1>7. ASSUME NEW e \in BOOLEAN, SetGlobalEnabled(e) PROVE Moves(t)
  <2>1. CASE e
    BY <1>7, <2>1, Untouched DEF SetGlobalEnabled, Connecting
  <2>2. CASE ~e
    BY <1>7, <2>2, DroppedMoves DEF SetGlobalEnabled
  <2> QED BY <2>1, <2>2
<1>8. ASSUME NEW s \in Speakers, NEW c \in BOOLEAN, NEW b \in {"trusted", "paired", "none"},
             DeviceEvent(s, c, b)
      PROVE  Moves(t)
  BY <1>8, DeviceEventMoves
<1>9. ASSUME NEW s \in Speakers, NEW k \in Slots, AttemptStep(s, k) PROVE Moves(t)
  BY <1>9, BeginsMoves, SucceedsMoves, FindsBusyMoves, FailsMoves, CancelledMoves, ReleaseMoves
     DEF AttemptStep
<1> QED BY <1>1, <1>2, <1>3, <1>4, <1>5, <1>6, <1>7, <1>8, <1>9 DEF Next

LEMMA StepPaced ==
    ASSUME IInv, IInv', [Next]_vars
    PROVE  [Pacing!Next]_(Pacing!vars)
<1>1. CASE Next
  <2>1. \A t \in Speakers : Moves(t)
    BY <1>1, NextMoves
  <2>2. /\ \A t \in Speakers : profile'[t].failures \in 0 .. MaxFailures
        /\ calm' \in [Speakers -> 0 .. Longest]
    BY DEF IInv, TypeOK, Profile
  <2>3. [t \in Speakers |-> profile[t].failures]' \in [Speakers -> 0 .. MaxFailures]
    BY <2>2
  <2>4. [t \in Speakers |-> \E k \in Slots : task[t][k].phase = "connecting"]'
          \in [Speakers -> BOOLEAN]
    OBVIOUS
  <2> QED BY <2>1, <2>2, <2>3, <2>4 DEF Pacing!Next, Moves
<1>2. CASE UNCHANGED vars
  BY <1>2 DEF vars, Pacing!vars
<1> QED BY <1>1, <1>2

LEMMA InitPaced == Init => Pacing!Init
<1> SUFFICES ASSUME Init PROVE Pacing!Init
  OBVIOUS
<1>1. \A s \in Speakers : profile[s].failures = 0
  BY FreshIs DEF Init
<1>2. \A s \in Speakers, k \in Slots : task[s][k].phase # "connecting"
  BY DEF Init, FreeTask
<1> QED BY <1>1, <1>2 DEF Init, Pacing!Init

(* The engine implements the pacing promise: the backoff and the breaker   *)
(* hold through busy answers, presence events, cancellations, late tasks   *)
(* and restarts of the registration, for any delays and any cooldown.      *)
THEOREM PacingImplemented == Spec => ImplementsPacing
<1>1. IInv /\ IInv' /\ [Next]_vars => [Pacing!Next]_(Pacing!vars)
  BY StepPaced
<1> QED BY <1>1, InitPaced, Invariance, PTL DEF Spec, ImplementsPacing, Pacing!Spec
-----------------------------------------------------------------------------
(* The delays of Backoff, for any parameters the constructor accepts.      *)
CONSTANTS InitialBackoff, Multiplier, MinBackoff, JitterPercent

Retries == INSTANCE Backoff

LegalBackoff ==
    /\ InitialBackoff \in Nat /\ Multiplier \in Nat \ {0} /\ MaxBackoff \in Nat \ {0}
    /\ MinBackoff \in Nat /\ JitterPercent \in Nat

(* What the argument needs of powers, which the provers know nothing of.   *)
Powers == \A n \in Nat \ {0} : Multiplier ^ n \in Nat /\ Multiplier ^ n >= Multiplier

LEMMA SmallerOf ==
    ASSUME NEW x \in Nat, NEW y \in Nat
    PROVE  Retries!Min({x, y}) = IF x <= y THEN x ELSE y
BY DEF Retries!Min

LEMMA GreaterOf ==
    ASSUME NEW x \in Nat, NEW y \in Nat
    PROVE  Retries!Max({x, y}) = IF x >= y THEN x ELSE y
BY DEF Retries!Max

(* A product of naturals is one, and grows with its factors.               *)
LEMMA Product ==
    ASSUME NEW x \in Nat, NEW y \in Nat, NEW z \in Nat, y <= z
    PROVE  x * y \in Nat /\ x * z \in Nat /\ x * y <= x * z
OBVIOUS

(* The growth: the first delay, the cap, or a power in between.            *)
LEMMA GrownIs ==
    ASSUME LegalBackoff, Powers, NEW step \in Nat
    PROVE  LET g == Retries!GrownDelay(step)
           IN  /\ g \in Nat /\ g <= MaxBackoff
               /\ step = 0 => g = MaxBackoff \/ g = InitialBackoff
               /\ step > 0 => g = MaxBackoff \/ g >= InitialBackoff * Multiplier
<1> DEFINE g == Retries!GrownDelay(step)
           inside == InitialBackoff \in 1 .. MaxBackoff - 1
<1>0. /\ InitialBackoff \in Nat /\ Multiplier \in Nat /\ MaxBackoff \in Nat
      /\ InitialBackoff = 0 \/ InitialBackoff >= MaxBackoff \/ inside
  BY DEF LegalBackoff
<1>1. CASE InitialBackoff = 0
  <2>1. g = 0 /\ InitialBackoff * Multiplier = 0
    BY <1>0, <1>1 DEF Retries!GrownDelay
  <2> QED BY <1>0, <1>1, <2>1
<1>2. CASE InitialBackoff # 0 /\ InitialBackoff >= MaxBackoff
  <2>1. g = MaxBackoff
    BY <1>0, <1>2 DEF Retries!GrownDelay
  <2> QED BY <1>0, <2>1
<1>3. CASE inside /\ (Multiplier = 1 \/ step = 0)
  <2>1. g = InitialBackoff
    BY <1>0, <1>3 DEF Retries!GrownDelay
  <2>2. Multiplier = 1 => InitialBackoff * Multiplier = InitialBackoff
    BY <1>0
  <2> QED BY <1>0, <1>3, <2>1, <2>2
<1>4. CASE inside /\ Multiplier # 1 /\ step # 0
  <2> DEFINE power == Multiplier ^ step
  <2>1. g = Retries!Min({MaxBackoff, InitialBackoff * power})
    BY <1>0, <1>4 DEF Retries!GrownDelay
  <2>2. power \in Nat /\ power >= Multiplier
    BY <1>4 DEF Powers
  <2> HIDE DEF power, g
  <2>3. InitialBackoff * power \in Nat /\ InitialBackoff * Multiplier <= InitialBackoff * power
    BY <1>0, <2>2, Product
  <2> DEFINE grown == InitialBackoff * power
             least == InitialBackoff * Multiplier
  <2>4. grown \in Nat /\ least \in Nat /\ least <= grown /\ g = Retries!Min({MaxBackoff, grown})
    BY <1>0, <2>1, <2>2, <2>3, Product
  <2> HIDE DEF grown, least
  <2>5. g = IF MaxBackoff <= grown THEN MaxBackoff ELSE grown
    BY <1>0, <2>4, SmallerOf
  <2>6. g \in Nat /\ g <= MaxBackoff /\ (g = MaxBackoff \/ g >= least)
    BY <1>0, <2>4, <2>5
  <2> QED BY <1>4, <2>6 DEF g, least
<1> QED BY <1>0, <1>1, <1>2, <1>3, <1>4
(* The floor under it.                                                     *)
LEMMA BaseIs ==
    ASSUME LegalBackoff, Powers, NEW step \in Int
    PROVE  LET base == Retries!BaseDelay(step)
           IN  /\ base \in Nat
               /\ base >= MinBackoff \/ base >= InitialBackoff
               /\ step <= 0 => base >= MaxBackoff \/ base >= InitialBackoff
               /\ step > 0 => base >= MaxBackoff \/ base >= InitialBackoff * Multiplier
<1> DEFINE base == Retries!BaseDelay(step)
           n == Retries!Max({0, step})
           g == Retries!GrownDelay(n)
           floor == Retries!Min({MinBackoff, InitialBackoff})
           grown == InitialBackoff * Multiplier
<1>1. /\ n \in Nat /\ (step <= 0 => n = 0) /\ (step > 0 => n > 0)
  <2>1. CASE step <= 0
    <3>1. n = 0
      BY <2>1 DEF Retries!Max
    <3> QED BY <2>1, <3>1
  <2>2. CASE step > 0
    <3>1. n = step
      BY <2>2, GreaterOf
    <3> QED BY <2>2, <3>1
  <2> QED BY <2>1, <2>2
<1>2. /\ InitialBackoff \in Nat /\ MinBackoff \in Nat /\ MaxBackoff \in Nat /\ grown \in Nat
  BY DEF LegalBackoff
<1>3. base = Retries!Max({floor, g})
  BY DEF Retries!BaseDelay
<1> HIDE DEF n
<1>4. /\ g \in Nat /\ (n = 0 => g = MaxBackoff \/ g = InitialBackoff)
      /\ n > 0 => g = MaxBackoff \/ g >= grown
  BY <1>1, GrownIs
<1>5. floor \in Nat /\ (floor = MinBackoff \/ floor = InitialBackoff)
  BY <1>2, SmallerOf
<1> HIDE DEF base, g, floor, grown
<1>6. base = IF floor >= g THEN floor ELSE g
  BY <1>3, <1>4, <1>5, GreaterOf
<1>7. base \in Nat /\ base >= floor /\ base >= g
  BY <1>4, <1>5, <1>6
<1>8. base >= MinBackoff \/ base >= InitialBackoff
  BY <1>5, <1>7
<1>9. step <= 0 => base >= MaxBackoff \/ base >= InitialBackoff
  BY <1>1, <1>4, <1>7
<1>10. step > 0 => base >= MaxBackoff \/ base >= grown
  BY <1>1, <1>2, <1>4, <1>7
<1> QED BY <1>7, <1>8, <1>9, <1>10 DEF base, grown

(* Jitter only lengthens a delay, and never past the cap.                  *)
LEMMA DelayIs ==
    ASSUME LegalBackoff, Powers, NEW step \in Int, NEW d \in Retries!BackoffDelays(step)
    PROVE  d \in 0 .. MaxBackoff /\ (d = MaxBackoff \/ d >= Retries!BaseDelay(step))
<1> DEFINE base == Retries!BaseDelay(step)
<1>1. base \in Nat
  BY BaseIs
<1>2. PICK j \in 0 .. JitterPercent : d = Retries!Min({MaxBackoff, base + (base * j) \div 100})
  BY DEF Retries!BackoffDelays
<1>3. j \in Nat /\ MaxBackoff \in Nat
  BY DEF LegalBackoff
<1> HIDE DEF base
<1> DEFINE share == base * j
           jittered == base + share \div 100
<1>4. share \in Nat
  BY <1>1, <1>3
<1>5. d = Retries!Min({MaxBackoff, jittered})
  BY <1>2
<1> HIDE DEF share
<1>6. jittered \in Nat /\ jittered >= base
  BY <1>1, <1>4
<1> HIDE DEF jittered
<1>7. d = IF MaxBackoff <= jittered THEN MaxBackoff ELSE jittered
  BY <1>3, <1>5, <1>6, SmallerOf
<1> QED BY <1>1, <1>3, <1>6, <1>7 DEF base

(* _calculate_backoff_delay returns, for every step and every legal choice *)
(* of parameters, some delay between 0 and max_backoff, and one below the  *)
(* cap is neither below the floor of RECONNECT_MIN_BACKOFF_SECONDS and     *)
(* initial_backoff nor shorter than the delay before jitter.  This is what *)
(* ReconnectAssumption says of Delays.                                     *)
THEOREM DelaysAreCapped ==
    ASSUME LegalBackoff, Powers, NEW step \in Int
    PROVE  /\ Retries!BackoffDelays(step) \in SUBSET (0 .. MaxBackoff)
           /\ Retries!BackoffDelays(step) # {}
           /\ \A d \in Retries!BackoffDelays(step) : d < MaxBackoff =>
                d >= Retries!BaseDelay(step) /\ (d >= MinBackoff \/ d >= InitialBackoff)
<1> DEFINE D == Retries!BackoffDelays(step)
           base == Retries!BaseDelay(step)
<1>1. base \in Nat /\ (base >= MinBackoff \/ base >= InitialBackoff)
  BY BaseIs
<1>2. MaxBackoff \in Nat /\ MinBackoff \in Nat /\ InitialBackoff \in Nat /\ 0 \in 0 .. JitterPercent
  BY DEF LegalBackoff
<1>3. D # {}
  BY <1>2 DEF Retries!BackoffDelays
<1> HIDE DEF D, base
<1>4. ASSUME NEW d \in D PROVE d \in 0 .. MaxBackoff /\ (d = MaxBackoff \/ d >= base)
  BY DelayIs DEF D, base
<1>5. ASSUME NEW d \in D, d < MaxBackoff PROVE d >= base /\ (d >= MinBackoff \/ d >= InitialBackoff)
  <2>1. d \in Nat /\ d >= base
    BY <1>2, <1>4, <1>5
  <2> QED BY <1>1, <1>2, <2>1
<1> QED BY <1>3, <1>4, <1>5 DEF D, base

(* With delays that long, the settle window of a new link is respected:    *)
(* LongEnough from the parameters (the defaults of constants.py: 10 + 5    *)
(* and 10 * 2 against 15, capped at 120).                                  *)
THEOREM DelaysAreLongEnough ==
    ASSUME LegalBackoff, Powers,
           \A step \in 0 .. MaxFailures : Delays(step) \subseteq Retries!BackoffDelays(step),
           InitialBackoff + Grace >= Settle, InitialBackoff * Multiplier >= Settle, MaxBackoff >= Settle
    PROVE  LongEnough
<1>1. /\ MaxFailures \in Nat /\ Grace \in Nat /\ Settle \in Nat
      /\ InitialBackoff \in Nat /\ MaxBackoff \in Nat
  BY Constants DEF LegalBackoff
<1>2. ASSUME NEW step \in 0 .. MaxFailures, NEW d \in Delays(step)
      PROVE  d \in Nat /\ (d = MaxBackoff \/ d >= Retries!BaseDelay(step)) /\ Retries!BaseDelay(step) \in Nat
  <2>1. step \in Int /\ d \in Retries!BackoffDelays(step)
    BY <1>1
  <2>2. d \in 0 .. MaxBackoff /\ (d = MaxBackoff \/ d >= Retries!BaseDelay(step))
    BY <2>1, DelayIs
  <2>3. Retries!BaseDelay(step) \in Nat
    BY <2>1, BaseIs
  <2> QED BY <1>1, <2>2, <2>3
<1>3. ASSUME NEW d \in Delays(0) PROVE d + Grace >= Settle
  <2> DEFINE base == Retries!BaseDelay(0)
  <2>1. base >= MaxBackoff \/ base >= InitialBackoff
    BY BaseIs
  <2>2. d \in Nat /\ (d = MaxBackoff \/ d >= base) /\ base \in Nat
    <3>1. 0 \in 0 .. MaxFailures
      BY <1>1
    <3> QED BY <1>2, <3>1
  <2> HIDE DEF base
  <2> QED BY <1>1, <2>1, <2>2
<1>4. ASSUME NEW step \in 1 .. MaxFailures, NEW d \in Delays(step) PROVE d >= Settle
  <2> DEFINE base == Retries!BaseDelay(step)
             grown == InitialBackoff * Multiplier
  <2>0. step \in 0 .. MaxFailures /\ step \in Int /\ step > 0
    BY <1>1
  <2>1. base >= MaxBackoff \/ base >= grown
    BY <2>0, BaseIs
  <2>2. d \in Nat /\ (d = MaxBackoff \/ d >= base) /\ base \in Nat
    BY <1>2, <2>0
  <2>3. grown \in Nat /\ grown >= Settle
    BY DEF LegalBackoff
  <2> HIDE DEF base, grown
  <2> QED BY <1>1, <2>1, <2>2, <2>3
<1> QED BY <1>3, <1>4 DEF LongEnough
=============================================================================
