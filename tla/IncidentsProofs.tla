-------------------------- MODULE IncidentsProofs --------------------------
(***************************************************************************)
(* Theorems about Incidents, for every set of states and every bound on    *)
(* warnings and on churn.                                                  *)
(***************************************************************************)
EXTENDS Incidents, TLAPS

(* Every sample that a sampler can be taking.                              *)
Samples == {Sleeping, Ended, [pc |-> "waiting"]}
             \cup [pc : {"writing", "written", "failed", "refused"}, context : Contexts, batch : 0 .. MaxWarnings]

(* A connected speaker has come up once more than it went down, if no      *)
(* other state came in between.                                            *)
Churn ==
    /\ speaker.state = "connected" => speaker.disconnects < speaker.connects
    /\ speaker.connects + speaker.flaps <= MaxChurn

(* Who takes samples in which phase of the lifespan; the last one leaves   *)
(* no count behind.                                                        *)
Phases ==
    /\ monitor \in {"off", "running", "stopping", "stopped"} => sample["lifespan"] = Ended
    /\ monitor \in {"off", "starting", "final", "stopped"} => sample["task"] = Ended
    /\ monitor = "final" => counts = 0 \/ sample["lifespan"] = [pc |-> "waiting"]
    /\ monitor = "stopped" => counts = 0

Unanswered == \E w \in Samplers : sample[w].pc \in {"failed", "refused"}

(* LossIsAdmitted, and a line that is torn was refused by its thread: the  *)
(* next line is then lost although its own thread succeeds.                *)
Admitted == (torn \/ warnings.lost > 0) => dropped \/ Unanswered

IInv == TypeOK /\ Churn /\ Phases /\ Accounted /\ Admitted

-----------------------------------------------------------------------------
(* What a sample looks like at each of its steps.                          *)
LEMMA SampleIs ==
    ASSUME TypeOK, NEW w \in Samplers
    PROVE  /\ sample \in [Samplers -> Samples] /\ sample[w] \in Samples
           /\ sample[w].pc = "ended" => sample[w] = Ended
           /\ sample[w].pc = "waiting" => sample[w] = [pc |-> "waiting"]
           /\ Taken(w) => /\ sample[w].batch \in 0 .. MaxWarnings /\ sample[w].context \in Contexts
                          /\ \A q \in {"written", "failed", "refused"} :
                               LET s == [sample[w] EXCEPT !.pc = q]
                               IN  s \in Samples /\ s.pc = q
BY DEF TypeOK, Samples, Taken, Sleeping, Ended

(* The steps that move one sampler.                                        *)
LEMMA AfterIs ==
    ASSUME NEW w \in Samplers
    PROVE  /\ After(w) \in {Sleeping, Ended} /\ After(w) \in Samples
           /\ w = "lifespan" => After(w) = Ended
           /\ monitor = "stopping" => After(w) = Ended
BY DEF After, Samples

LEMMA Kinds ==
    /\ Samplers = {"task", "lifespan"}
    /\ Sleeping \in Samples /\ Ended \in Samples /\ [pc |-> "waiting"] \in Samples
    /\ Sleeping.pc = "sleeping" /\ Ended.pc = "ended" /\ [pc |-> "waiting"].pc = "waiting"
    /\ Nothing \notin Contexts
BY DEF Samplers, Sleeping, Ended, Samples, Nothing, Contexts

-----------------------------------------------------------------------------
(* The parts of Next, by number of actor.                                  *)
LEMMA NextIs ==
    ASSUME Next
    PROVE  \/ \E to \in States : Observe(to)
           \/ SuppressedFlap \/ Emit
           \/ \E w \in Samplers : Skip(w) \/ Take(w) \/ Append(w) \/ Answered(w)
           \/ \E to \in {"ok", "refusing", "filling", "chmod"} : DiskChanges(to)
           \/ HourPasses \/ TimesOut \/ Start \/ Started \/ Stop \/ FinalSample \/ Stopped
BY DEF Next, Steps

(* The steps that only put samplers to sleep, start or end them: Skip,     *)
(* TimesOut, Start, Started, Stop, FinalSample and Stopped.                *)
Turns ==
    /\ UNCHANGED <<speaker, recorder, torn, newest, warnings>>
    /\ sample' \in [Samplers -> Samples]
    /\ \A w \in Samplers :
         sample'[w] = sample[w] \/ {sample[w].pc, sample'[w].pc} \subseteq {"sleeping", "ended", "waiting"}

LEMMA TurnsAre ==
    ASSUME TypeOK, Phases,
           \/ \E w \in Samplers : Skip(w)
           \/ TimesOut \/ Start \/ Started \/ Stop \/ FinalSample \/ Stopped
    PROVE  Turns /\ monitor' \in {"off", "starting", "running", "stopping", "final", "stopped"}
<1>1. ASSUME NEW w \in Samplers, Skip(w)
      PROVE  Turns
  <2>1. sample' = [sample EXCEPT ![w] = After(w)] /\ sample[w].pc = "waiting"
    BY <1>1 DEF Skip
  <2> QED BY <1>1, <2>1, SampleIs, AfterIs, Kinds DEF Turns, Skip, recorder
<1>2. CASE TimesOut
  BY <1>2, SampleIs, Kinds DEF TimesOut, Begin, Turns, recorder
<1>3. CASE Start
  BY <1>3, SampleIs, Kinds DEF Start, Begin, Turns, recorder, Phases
<1>4. CASE Started
  BY <1>4, SampleIs, Kinds DEF Started, Turns, recorder, Phases
<1>5. CASE Stop
  BY <1>5, SampleIs, Kinds DEF Stop, Turns, recorder
<1>6. CASE FinalSample
  BY <1>6, SampleIs, Kinds DEF FinalSample, Begin, Turns, recorder, Phases
<1>7. CASE Stopped
  BY <1>7, SampleIs, Kinds DEF Stopped, Turns, recorder
<1>8. monitor' \in {"off", "starting", "running", "stopping", "final", "stopped"}
  BY DEF TypeOK, Skip, TimesOut, Start, Started, Stop, FinalSample, Stopped
<1> QED BY <1>1, <1>2, <1>3, <1>4, <1>5, <1>6, <1>7, <1>8

(* What a sample carries, as a number.                                     *)
LEMMA Amounts ==
    ASSUME TypeOK, Accounted
    PROVE  /\ Underway("task") \in Nat /\ Underway("lifespan") \in Nat
           /\ counts \in Nat /\ warnings.emitted \in Nat /\ warnings.logged \in Nat /\ warnings.lost \in Nat
           /\ MaxWarnings \in Nat /\ MaxChurn \in Nat
           /\ warnings.emitted <= MaxWarnings
           /\ \A w \in Samplers : /\ sample[w].pc = "writing" => Underway(w) = sample[w].batch
                                  /\ sample[w].pc # "writing" => Underway(w) = 0
<1>1. \A w \in Samplers : /\ sample[w].pc = "writing" => Underway(w) = sample[w].batch
                          /\ sample[w].pc # "writing" => Underway(w) = 0
  BY DEF Underway
<1>2. ASSUME NEW w \in Samplers
      PROVE  Underway(w) \in Nat
  <2>1. CASE sample[w].pc = "writing"
    <3>1. sample[w].batch \in 0 .. MaxWarnings
      BY <2>1, SampleIs DEF Taken
    <3> QED BY <1>1, <2>1, <3>1, IncidentsAssumption DEF IncidentsAssumption
  <2>2. CASE sample[w].pc # "writing"
    BY <1>1, <2>2
  <2> QED BY <2>1, <2>2
<1> QED BY <1>1, <1>2, Kinds, IncidentsAssumption DEF TypeOK, IncidentsAssumption

-----------------------------------------------------------------------------
(* Every action keeps the sum of the warnings, and their numbers.          *)
Tally == /\ counts \in 0 .. MaxWarnings
         /\ warnings \in [{"emitted", "logged", "lost"} -> 0 .. MaxWarnings]

LEMMA AccountedStep == IInv /\ [Next]_vars => Accounted' /\ Tally'
<1> SUFFICES ASSUME IInv, [Next]_vars PROVE Accounted' /\ Tally'
  OBVIOUS
<1>a. TypeOK /\ Phases /\ Accounted /\ Tally
  BY DEF IInv, TypeOK, Tally
<1>1. CASE UNCHANGED <<counts, warnings, sample>>
  BY <1>1, <1>a DEF Accounted, Tally, Underway
<1>2. CASE Emit
  <2>1. counts' = counts + 1 /\ warnings' = [warnings EXCEPT !.emitted = @ + 1] /\ warnings.emitted < MaxWarnings
    BY <1>2 DEF Emit
  <2>2. Underway("task")' = Underway("task") /\ Underway("lifespan")' = Underway("lifespan")
    BY <1>2 DEF Emit, Underway
  <2>3. /\ warnings'.emitted = warnings.emitted + 1
        /\ warnings'.logged = warnings.logged /\ warnings'.lost = warnings.lost
        /\ warnings' \in [{"emitted", "logged", "lost"} -> 0 .. MaxWarnings]
    BY <1>a, <2>1, Amounts DEF Tally
  <2>4. Accounted'
    BY <1>a, <2>1, <2>2, <2>3, Amounts DEF Accounted
  <2>5. counts' <= MaxWarnings
    BY <1>a, <2>1, Amounts DEF Accounted
  <2> QED BY <1>a, <2>1, <2>3, <2>4, <2>5, Amounts DEF Tally
<1>3. ASSUME NEW w \in Samplers, Take(w)
      PROVE  Accounted' /\ Tally'
  <2>1. /\ sample' = [sample EXCEPT ![w] = [pc |-> "writing", context |-> speaker, batch |-> counts]]
        /\ counts' = 0 /\ warnings' = warnings /\ sample[w].pc = "waiting"
    BY <1>3 DEF Take, CountsLeft
  <2>2. \A v \in Samplers : Underway(v)' = IF v = w THEN counts ELSE Underway(v)
    BY <1>a, <2>1, SampleIs DEF Underway
  <2>3. Underway(w) = 0
    BY <1>a, <2>1, Amounts
  <2> QED BY <1>a, <2>1, <2>2, <2>3, Kinds, Amounts DEF Accounted, Tally
<1>4. ASSUME NEW w \in Samplers, Append(w)
      PROVE  Accounted' /\ Tally'
  <2>1. PICK q \in {"written", "failed", "refused"} : sample' = [sample EXCEPT ![w].pc = q]
    BY <1>4 DEF Append
  <2>2. sample[w].pc = "writing" /\ counts' = counts
    BY <1>4 DEF Append, recorder
  <2>3. \A v \in Samplers : Underway(v)' = IF v = w THEN 0 ELSE Underway(v)
    BY <1>a, <2>1, <2>2, SampleIs DEF Underway, Taken
  <2>4. Underway(w) = sample[w].batch /\ sample[w].batch \in Nat
    <3>1. sample[w].batch \in 0 .. MaxWarnings
      BY <1>a, <2>2, SampleIs DEF Taken
    <3> QED BY <1>a, <2>2, <3>1, Amounts
  <2>5. \/ warnings' = [warnings EXCEPT !.logged = @ + sample[w].batch]
        \/ warnings' = [warnings EXCEPT !.lost = @ + sample[w].batch]
    BY <1>4 DEF Append
  <2>6. /\ warnings.logged + sample[w].batch <= MaxWarnings
        /\ warnings.lost + sample[w].batch <= MaxWarnings
    BY <1>a, <2>4, Kinds, Amounts DEF Accounted
  <2>7. /\ warnings'.emitted = warnings.emitted
        /\ warnings'.logged + warnings'.lost = warnings.logged + warnings.lost + sample[w].batch
        /\ warnings' \in [{"emitted", "logged", "lost"} -> 0 .. MaxWarnings]
    BY <1>a, <2>4, <2>5, <2>6, Amounts DEF Tally
  <2>8. warnings'.logged \in Nat /\ warnings'.lost \in Nat
    BY <2>7, <1>a, Amounts
  <2> QED BY <1>a, <2>2, <2>3, <2>4, <2>7, <2>8, Kinds, Amounts DEF Accounted, Tally
<1>5. ASSUME NEW w \in Samplers, Answered(w)
      PROVE  Accounted' /\ Tally'
  <2>1. /\ sample' = [sample EXCEPT ![w] = After(w)] /\ sample[w].pc # "writing"
        /\ counts' = counts /\ warnings' = warnings
    BY <1>5 DEF Answered
  <2>2. \A v \in Samplers : Underway(v)' = Underway(v)
    BY <1>a, <2>1, SampleIs, AfterIs, Kinds DEF Underway
  <2> QED BY <1>a, <2>1, <2>2, Kinds DEF Accounted, Tally
<1>6. CASE Turns
  <2>1. counts' = counts /\ warnings' = warnings
    BY <1>6 DEF Turns, recorder
  <2>2. \A v \in Samplers : Underway(v)' = Underway(v)
    BY <1>6 DEF Turns, Underway
  <2> QED BY <1>a, <2>1, <2>2, Kinds DEF Accounted, Tally
<1>7. CASE (\E to \in States : Observe(to)) \/ SuppressedFlap \/ HourPasses \/ UNCHANGED vars
           \/ \E to \in {"ok", "refusing", "filling", "chmod"} : DiskChanges(to)
  BY <1>1, <1>7 DEF Observe, SuppressedFlap, HourPasses, DiskChanges, vars, recorder
<1> QED BY <1>a, <1>2, <1>3, <1>4, <1>5, <1>6, <1>7, NextIs, TurnsAre

(* Every action keeps the counters of the speaker in step.                 *)
LEMMA ChurnStep == IInv /\ [Next]_vars => Churn' /\ speaker' \in Contexts /\ speaker'.disconnects <= speaker'.connects
<1> SUFFICES ASSUME IInv, [Next]_vars
             PROVE  Churn' /\ speaker' \in Contexts /\ speaker'.disconnects <= speaker'.connects
  OBVIOUS
<1>a. /\ Churn /\ speaker \in Contexts /\ speaker.disconnects <= speaker.connects
      /\ speaker.connects \in Nat /\ speaker.disconnects \in Nat /\ speaker.flaps \in Nat /\ MaxChurn \in Nat
  BY IncidentsAssumption DEF IInv, TypeOK, Contexts, IncidentsAssumption
<1>1. ASSUME NEW to \in States, Observe(to)
      PROVE  Churn' /\ speaker' \in Contexts /\ speaker'.disconnects <= speaker'.connects
  <2>1. /\ speaker.connects + One(CameUp(to)) + speaker.flaps <= MaxChurn
        /\ speaker' = [speaker EXCEPT !.state = to, !.connects = @ + One(CameUp(to)),
                                      !.disconnects = @ + One(WentDown(to))]
    BY <1>1 DEF Observe
  <2>2. /\ speaker'.state = to /\ speaker'.connects = speaker.connects + One(CameUp(to))
        /\ speaker'.disconnects = speaker.disconnects + One(WentDown(to)) /\ speaker'.flaps = speaker.flaps
    BY <1>a, <2>1 DEF Contexts
  <2>3. CASE to = "connected" /\ speaker.state # "connected"
    <3>1. One(CameUp(to)) = 1 /\ One(WentDown(to)) = 0
      BY <2>3 DEF One, CameUp, WentDown
    <3>2. speaker' \in Contexts
      <4>1. speaker'.connects \in 0 .. MaxChurn /\ speaker'.disconnects = speaker.disconnects
        BY <1>a, <2>1, <2>2, <3>1
      <4> QED BY <1>a, <2>1, <2>2, <4>1 DEF Contexts
    <3> QED BY <1>a, <2>1, <2>2, <3>1, <3>2 DEF Churn
  <2>4. CASE to = "disconnected" /\ speaker.state = "connected"
    <3>1. One(CameUp(to)) = 0 /\ One(WentDown(to)) = 1
      BY <2>4 DEF One, CameUp, WentDown
    <3>2. speaker.disconnects + 1 <= speaker.connects
      BY <1>a, <2>4 DEF Churn
    <3>3. speaker' \in Contexts
      <4>1. speaker'.disconnects \in 0 .. MaxChurn /\ speaker'.connects = speaker.connects
        BY <1>a, <2>1, <2>2, <3>1, <3>2 DEF Contexts
      <4> QED BY <1>a, <2>1, <2>2, <4>1 DEF Contexts
    <3> QED BY <1>a, <2>1, <2>2, <2>4, <3>1, <3>2, <3>3 DEF Churn
  <2>5. CASE ~(to = "connected" /\ speaker.state # "connected") /\ ~(to = "disconnected" /\ speaker.state = "connected")
    <3>1. One(CameUp(to)) = 0 /\ One(WentDown(to)) = 0
      BY <2>5 DEF One, CameUp, WentDown
    <3>2. speaker' \in Contexts
      <4>1. speaker'.connects = speaker.connects /\ speaker'.disconnects = speaker.disconnects
        BY <1>a, <2>2, <3>1
      <4> QED BY <1>a, <2>1, <2>2, <4>1 DEF Contexts
    <3> QED BY <1>a, <2>1, <2>2, <2>5, <3>1, <3>2 DEF Churn
  <2> QED BY <2>3, <2>4, <2>5
<1>2. CASE SuppressedFlap
  <2>1. speaker.connects + speaker.flaps < MaxChurn /\ speaker' = [speaker EXCEPT !.flaps = @ + 1]
    BY <1>2 DEF SuppressedFlap
  <2>2. speaker' \in Contexts
    BY <1>a, <2>1 DEF Contexts
  <2> QED BY <1>a, <2>1, <2>2 DEF Churn, Contexts
<1>3. CASE UNCHANGED speaker
  BY <1>3, <1>a DEF Churn
<1> QED
  BY <1>1, <1>2, <1>3, NextIs
  DEF vars, recorder, Emit, Skip, Take, Append, Answered, DiskChanges, HourPasses, TimesOut,
      Start, Started, Stop, FinalSample, Stopped

(* Every action keeps the types.                                           *)
LEMMA TypeStep == IInv /\ [Next]_vars => TypeOK'
<1> SUFFICES ASSUME IInv, [Next]_vars PROVE TypeOK'
  OBVIOUS
<1>a. TypeOK /\ Phases
  BY DEF IInv
<1>b. /\ speaker' \in Contexts /\ speaker'.disconnects <= speaker'.connects
      /\ counts' \in 0 .. MaxWarnings
      /\ warnings' \in [{"emitted", "logged", "lost"} -> 0 .. MaxWarnings]
  BY ChurnStep, AccountedStep DEF Tally
<1>1. sample' \in [Samplers -> Samples]
  <2>1. ASSUME NEW w \in Samplers, Take(w)
        PROVE  sample' \in [Samplers -> Samples]
    <3>1. [pc |-> "writing", context |-> speaker, batch |-> counts] \in Samples
      BY <1>a DEF TypeOK, Samples
    <3> QED BY <1>a, <2>1, <3>1, SampleIs DEF Take
  <2>2. ASSUME NEW w \in Samplers, Append(w)
        PROVE  sample' \in [Samplers -> Samples]
    <3>1. PICK q \in {"written", "failed", "refused"} : sample' = [sample EXCEPT ![w].pc = q]
      BY <2>2 DEF Append
    <3>2. [sample[w] EXCEPT !.pc = q] \in Samples
      BY <1>a, <2>2, SampleIs DEF Append, Taken
    <3> QED BY <1>a, <3>1, <3>2, SampleIs
  <2>3. ASSUME NEW w \in Samplers, Answered(w)
        PROVE  sample' \in [Samplers -> Samples]
    BY <1>a, <2>3, SampleIs, AfterIs DEF Answered
  <2>4. CASE Turns
    BY <2>4 DEF Turns
  <2>5. CASE UNCHANGED sample
    BY <1>a, <2>5, SampleIs, Kinds
  <2> QED BY <1>a, <2>1, <2>2, <2>3, <2>4, <2>5, NextIs, TurnsAre
          DEF vars, Observe, SuppressedFlap, Emit, DiskChanges, HourPasses
<1>2. monitor' \in {"off", "starting", "running", "stopping", "final", "stopped"}
  <2>1. CASE UNCHANGED monitor
    BY <1>a, <2>1 DEF TypeOK
  <2> QED BY <1>a, <2>1, NextIs, TurnsAre
          DEF vars, Observe, SuppressedFlap, Emit, Take, Append, Answered, DiskChanges, HourPasses
<1>3. previous' \in Contexts \cup {Nothing} /\ newest' \in Contexts \cup {Nothing}
  <2>1. CASE UNCHANGED <<previous, newest>>
    BY <1>a, <2>1 DEF TypeOK
  <2>2. ASSUME NEW w \in Samplers, Append(w)
        PROVE  previous' \in Contexts \cup {Nothing} /\ newest' \in Contexts \cup {Nothing}
    BY <1>a, <2>2, SampleIs DEF TypeOK, Append, Taken, recorder
  <2>3. ASSUME NEW w \in Samplers, Answered(w)
        PROVE  previous' \in Contexts \cup {Nothing} /\ newest' \in Contexts \cup {Nothing}
    BY <1>a, <2>3, SampleIs DEF TypeOK, Answered, Taken
  <2> QED BY <1>a, <2>1, <2>2, <2>3, NextIs, TurnsAre
          DEF Turns, vars, recorder, Observe, SuppressedFlap, Emit, Take, DiskChanges, HourPasses
<1>4. {overdue, dropped, torn}' \subseteq BOOLEAN
  <2>1. CASE UNCHANGED <<overdue, dropped, torn>>
    BY <1>a, <2>1 DEF TypeOK
  <2>2. ASSUME NEW w \in Samplers, Append(w)
        PROVE  overdue' \in BOOLEAN /\ dropped' \in BOOLEAN /\ torn' \in BOOLEAN
    BY <1>a, <2>2 DEF TypeOK, Append, recorder
  <2>3. ASSUME NEW w \in Samplers, Answered(w)
        PROVE  overdue' \in BOOLEAN /\ dropped' \in BOOLEAN /\ torn' \in BOOLEAN
    BY <1>a, <2>3 DEF TypeOK, Answered
  <2>4. CASE HourPasses
    BY <1>a, <2>4 DEF TypeOK, HourPasses
  <2> QED BY <1>a, <2>1, <2>2, <2>3, <2>4, NextIs, TurnsAre
          DEF Turns, vars, recorder, Observe, SuppressedFlap, Emit, Take, DiskChanges
<1> QED BY <1>b, <1>1, <1>2, <1>3, <1>4 DEF TypeOK, Samples

(* Every action keeps the phases.                                          *)
LEMMA PhasesStep == IInv /\ [Next]_vars => Phases'
<1> SUFFICES ASSUME IInv, [Next]_vars PROVE Phases'
  OBVIOUS
<1>a. TypeOK /\ Phases /\ sample \in [Samplers -> Samples]
  BY SampleIs, Kinds DEF IInv
<1>1. CASE UNCHANGED <<monitor, sample, counts>>
  BY <1>1, <1>a DEF Phases
<1>2. CASE Emit
  BY <1>2, <1>a DEF Emit, Phases
<1>3. ASSUME NEW w \in Samplers, Skip(w)
      PROVE  Phases'
  <2>1. w = "task" /\ sample["task"] # Ended
    BY <1>3, Kinds DEF Skip, Wanted
  <2> QED BY <1>3, <1>a, <2>1, AfterIs, Kinds DEF Skip, Phases, recorder
<1>4. ASSUME NEW w \in Samplers, Take(w)
      PROVE  Phases'
  <2>1. /\ sample[w].pc = "waiting" /\ counts' = 0 /\ monitor' = monitor
        /\ \A v \in Samplers \ {w} : sample'[v] = sample[v]
    BY <1>4, <1>a DEF Take, CountsLeft
  <2> QED BY <1>a, <2>1, Kinds DEF Phases
<1>5. ASSUME NEW w \in Samplers, Append(w)
      PROVE  Phases'
  <2>1. /\ sample[w].pc = "writing" /\ counts' = counts /\ monitor' = monitor
        /\ \A v \in Samplers \ {w} : sample'[v] = sample[v]
    BY <1>5, <1>a DEF Append, recorder
  <2> QED BY <1>a, <2>1, Kinds DEF Phases
<1>6. ASSUME NEW w \in Samplers, Answered(w)
      PROVE  Phases'
  <2>1. /\ sample[w].pc \in {"written", "failed", "refused"} /\ counts' = counts /\ monitor' = monitor
        /\ \A v \in Samplers \ {w} : sample'[v] = sample[v]
    BY <1>6, <1>a DEF Answered
  <2> QED BY <1>a, <2>1, Kinds DEF Phases
<1>7. CASE TimesOut
  BY <1>7, <1>a, Kinds DEF TimesOut, Begin, Phases, recorder
<1>8. CASE Start
  BY <1>8, <1>a, Kinds DEF Start, Begin, Phases, recorder
<1>9. CASE Started
  BY <1>9, <1>a, Kinds DEF Started, Phases, recorder
<1>10. CASE Stop
  BY <1>10, <1>a, Kinds DEF Stop, Phases, recorder
<1>11. CASE FinalSample
  BY <1>11, <1>a, Kinds DEF FinalSample, TaskEnded, Begin, Phases, recorder
<1>12. CASE Stopped
  BY <1>12, <1>a, Kinds DEF Stopped, Phases, recorder
<1> QED
  BY <1>1, <1>2, <1>3, <1>4, <1>5, <1>6, <1>7, <1>8, <1>9, <1>10, <1>11, <1>12, NextIs
  DEF vars, recorder, Observe, SuppressedFlap, DiskChanges, HourPasses

(* Every action keeps a loss admitted.                                     *)
LEMMA AdmittedStep == IInv /\ [Next]_vars => Admitted'
<1> SUFFICES ASSUME IInv, [Next]_vars PROVE Admitted'
  OBVIOUS
<1>a. TypeOK /\ Phases /\ Admitted /\ Accounted /\ sample \in [Samplers -> Samples]
  BY SampleIs, Kinds DEF IInv
<1>1. CASE UNCHANGED <<torn, dropped, sample>> /\ warnings'.lost = warnings.lost
  BY <1>1, <1>a DEF Admitted, Unanswered
<1>2. CASE Emit
  <2>1. warnings'.lost = warnings.lost
    BY <1>2, <1>a DEF Emit, TypeOK
  <2> QED BY <1>1, <1>2, <2>1 DEF Emit
<1>3. ASSUME NEW w \in Samplers, Take(w)
      PROVE  Admitted'
  <2>1. /\ sample[w].pc = "waiting" /\ torn' = torn /\ warnings' = warnings /\ dropped' = dropped
        /\ \A v \in Samplers \ {w} : sample'[v] = sample[v]
    BY <1>3, <1>a DEF Take
  <2> QED BY <1>a, <2>1 DEF Admitted, Unanswered
<1>4. ASSUME NEW w \in Samplers, Append(w)
      PROVE  Admitted'
  <2>1. /\ sample[w].pc = "writing" /\ dropped' = dropped
        /\ \A v \in Samplers \ {w} : sample'[v] = sample[v]
    BY <1>4, <1>a DEF Append, recorder
  <2>2. CASE disk # "ok"
    <3>1. PICK q \in {"failed", "refused"} : sample' = [sample EXCEPT ![w].pc = q]
      BY <1>4, <2>2 DEF Append
    <3>2. sample'[w].pc = q
      BY <1>a, <2>1, <3>1, SampleIs DEF Taken
    <3> QED BY <3>2 DEF Admitted, Unanswered
  <2>3. CASE disk = "ok" /\ torn
    <3>1. dropped' \/ \E v \in Samplers \ {w} : sample'[v].pc \in {"failed", "refused"}
      BY <1>a, <2>1, <2>3 DEF Admitted, Unanswered
    <3> QED BY <3>1 DEF Admitted, Unanswered
  <2>4. CASE disk = "ok" /\ ~torn
    <3>1. torn' = FALSE /\ warnings'.lost = warnings.lost
      BY <1>4, <1>a, <2>4 DEF Append, TypeOK
    <3> QED BY <1>a, <2>1, <3>1 DEF Admitted, Unanswered
  <2> QED BY <2>2, <2>3, <2>4
<1>5. ASSUME NEW w \in Samplers, Answered(w)
      PROVE  Admitted'
  <2>1. /\ torn' = torn /\ warnings' = warnings
        /\ dropped' = (dropped \/ sample[w].pc \in {"failed", "refused"})
        /\ \A v \in Samplers \ {w} : sample'[v] = sample[v]
    BY <1>5, <1>a DEF Answered, Drops
  <2> QED BY <1>a, <2>1 DEF Admitted, Unanswered
<1>6. CASE Turns
  BY <1>6, <1>a DEF Turns, recorder, Admitted, Unanswered
<1> QED BY <1>a, <1>1, <1>2, <1>3, <1>4, <1>5, <1>6, NextIs, TurnsAre
        DEF vars, recorder, Observe, SuppressedFlap, DiskChanges, HourPasses

-----------------------------------------------------------------------------
(* The initial states.                                                     *)
LEMMA InitIInv == Init => IInv
<1> SUFFICES ASSUME Init PROVE IInv
  OBVIOUS
<1>a. MaxChurn \in Nat /\ MaxWarnings \in Nat
  BY IncidentsAssumption DEF IncidentsAssumption
<1>1. TypeOK
  <2>1. speaker \in Contexts /\ speaker.disconnects <= speaker.connects
    BY <1>a DEF Init, Contexts
  <2>2. sample \in [Samplers -> Samples]
    BY Kinds DEF Init
  <2>3. warnings \in [{"emitted", "logged", "lost"} -> 0 .. MaxWarnings]
    BY <1>a DEF Init
  <2> QED BY <1>a, <2>1, <2>2, <2>3 DEF Init, TypeOK, Samples
<1>2. Churn /\ Phases /\ Admitted
  BY Kinds, IncidentsAssumption DEF Init, Churn, Phases, Admitted, IncidentsAssumption
<1>3. Accounted
  BY Kinds DEF Init, Accounted, Underway
<1> QED BY <1>1, <1>2, <1>3 DEF IInv

(* The inductive invariant of the incident log.                            *)
THEOREM Invariance == Spec => []IInv
<1>1. IInv /\ [Next]_vars => IInv'
  BY TypeStep, ChurnStep, PhasesStep, AccountedStep, AdmittedStep DEF IInv
<1> QED BY InitIInv, <1>1, PTL DEF Spec

(* Every variable stays in its range: a speaker never went down more often *)
(* than it came up.                                                        *)
THEOREM TypeCorrect == Spec => []TypeOK
<1>1. IInv => TypeOK
  BY DEF IInv
<1> QED BY Invariance, <1>1, PTL

(* Every warning is waiting, in a sample, in the log or lost, and nowhere  *)
(* twice, whatever the disk does and whenever samples overlap.             *)
THEOREM AccountedAlways == Spec => []Accounted
<1>1. IInv => Accounted
  BY DEF IInv
<1> QED BY Invariance, <1>1, PTL

(* Warnings that no readable line holds are admitted.                      *)
THEOREM LossIsAdmittedAlways == Spec => []LossIsAdmitted
<1>1. IInv => LossIsAdmitted
  BY DEF IInv, Admitted, Unanswered, LossIsAdmitted
<1> QED BY Invariance, <1>1, PTL

(* When the recorder has stopped nothing is under way and no warning waits.*)
THEOREM StopIsCompleteAlways == Spec => []StopIsComplete
<1>1. IInv => StopIsComplete
  BY Kinds DEF IInv, Phases, StopIsComplete
<1> QED BY Invariance, <1>1, PTL
=============================================================================
