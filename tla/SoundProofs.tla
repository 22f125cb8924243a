---------------------------- MODULE SoundProofs ----------------------------
(***************************************************************************)
(* Theorems about Sound, for any levels, any number of warm-ups and any    *)
(* number of attempts.                                                     *)
(***************************************************************************)
EXTENDS Sound, TLAPS

(* A warm-up that runs, and one that does not: what is about to be set or  *)
(* published is a level.                                                   *)
Running == {r \in [pc : {"new", "resolving", "sleep", "pulse", "setting", "reading", "read", "telling"},
                   attempt : 1 .. MaxAttempts, value : Levels \cup {0}] :
              r.pc \in {"setting", "read"} => r.value \in Levels}

States == {Free, Ending} \cup Running

(* The levels that tasks carry from one await to the next.                 *)
Carried ==
    /\ \A w \in Warmups : warm[w] \in States
    /\ watch.pc = "read" => watch.value \in Levels
    /\ command.pc = "applying" => command.value \in Levels

IInv == TypeOK /\ Carried /\ OwnedIsRunning

-----------------------------------------------------------------------------
LEMMA Kinds ==
    /\ Free \in States /\ Ending \in States /\ Free \notin Running /\ Ending \notin Running
    /\ Free.pc = "free" /\ Ending.pc = "cancelled"
    /\ 0 \notin Warmups /\ 1 \in 1 .. MaxAttempts
    /\ Asleep.pc = "asleep" /\ Asleep.value = 0
BY SoundAssumption DEF States, Running, Free, Ending, Warmups, Asleep, SoundAssumption

(* What the invariant says of the warm-ups.                                       *)
LEMMA WarmIs ==
    ASSUME TypeOK, Carried
    PROVE  /\ warm \in [Warmups -> States] /\ owner \in Warmups \cup {0}
           /\ level \in Levels /\ volume \in Levels /\ told \in Levels
           /\ OwnedIsRunning <=> (owner # 0 => warm[owner] \in Running)
BY SoundAssumption DEF TypeOK, Carried, States, Running, Warmups, OwnedIsRunning, Free, Ending, SoundAssumption

(* A warm-up that goes on: none is owned by another for it.                *)
LEMMA GoesOn ==
    ASSUME IInv, NEW w \in Warmups, NEW r \in Running, warm' = [warm EXCEPT ![w] = r], owner' = owner
    PROVE  warm' \in [Warmups -> States] /\ (owner' # 0 => warm'[owner'] \in Running)
<1>1. warm \in [Warmups -> States] /\ owner \in Warmups \cup {0} /\ (owner # 0 => warm[owner] \in Running)
  BY WarmIs DEF IInv
<1> QED BY <1>1 DEF States

(* A warm-up that ends, and with it the entry.                             *)
LEMMA Ends ==
    ASSUME IInv, NEW w \in Warmups, Finish(w)
    PROVE  warm' \in [Warmups -> States] /\ owner' = 0
BY WarmIs, Kinds DEF IInv, Finish, Popped

(* A warm-up that is cancelled, and its entry with it.                     *)
LEMMA IsCancelled ==
    ASSUME IInv, owner' = 0, warm' = IF owner # 0 THEN Cancelled(owner) ELSE warm
    PROVE  warm' \in [Warmups -> States]
<1>1. warm \in [Warmups -> States] /\ owner \in Warmups \cup {0}
  BY WarmIs DEF IInv
<1> QED BY <1>1, Kinds DEF Cancelled

(* What is left to show of a step.                                         *)
Rest ==
    /\ {kept, streaming, sink} \subseteq BOOLEAN
    /\ {level, volume, told} \subseteq Levels
    /\ watch \in [pc : {"asleep", "read", "telling"}, value : Levels \cup {0}]
    /\ command \in [pc : {"asleep", "applying", "applied"}, value : Levels \cup {0}]
    /\ watch.pc = "read" => watch.value \in Levels
    /\ command.pc = "applying" => command.value \in Levels

LEMMA Together ==
    ASSUME warm' \in [Warmups -> States], owner' \in Warmups \cup {0},
           owner' # 0 => warm'[owner'] \in Running, Rest'
    PROVE  IInv'
BY SoundAssumption DEF IInv, TypeOK, Carried, OwnedIsRunning, States, Running, Rest, Warmups, Free, Ending, SoundAssumption

(* Every step of a warm-up.                                                *)
LEMMA WarmStep ==
    ASSUME IInv, NEW w \in Warmups, WarmSteps(w)
    PROVE  IInv'
<1>a. /\ warm \in [Warmups -> States] /\ owner \in Warmups \cup {0} /\ TypeOK /\ Carried
      /\ owner # 0 => warm[owner] \in Running
      /\ level \in Levels /\ volume \in Levels /\ told \in Levels
  BY WarmIs DEF IInv
<1>b. MaxAttempts \in Nat \ {0}
  BY SoundAssumption DEF SoundAssumption
<1>c. warm[w].pc \notin {"free", "cancelled"} => warm[w] \in Running
  BY <1>a, Kinds DEF States
<1>1. level' \in Levels /\ volume' \in Levels /\ told' \in Levels
  <2>1. CASE Publish(w)
    <3>1. warm[w].pc = "read" /\ Refreshed(warm[w].value) /\ level' = level
      BY <2>1 DEF Publish, Runs
    <3>2. warm[w].value \in Levels
      BY <1>c, <3>1 DEF Running
    <3> QED BY <1>a, <3>1, <3>2 DEF Refreshed
  <2>2. CASE Set(w)
    <3>1. warm[w].value \in Levels
      BY <1>c, <2>2 DEF Set, Runs, Running
    <3> QED BY <1>a, <2>2, <3>1 DEF Set
  <2>3. CASE UNCHANGED <<level, volume, told>>
    BY <1>a, <2>3
  <2> QED BY <2>1, <2>2, <2>3 DEF WarmSteps, Cancel, Attempt, Resolved, Pulsed, Read, Notified
<1>2. \/ Finish(w)
      \/ \E r \in Running : warm' = [warm EXCEPT ![w] = r] /\ owner' = owner
  <2>1. ASSUME NEW pc \in {"resolving", "pulse"}, Goes(w, pc), owner' = owner, warm[w] \in Running
        PROVE  \E r \in Running : warm' = [warm EXCEPT ![w] = r] /\ owner' = owner
    <3>1. [warm[w] EXCEPT !.pc = pc] \in Running
      BY <2>1 DEF Running
    <3> QED BY <2>1, <3>1 DEF Goes
  <2>2. CASE Attempt(w)
    BY <1>c, <2>1, <2>2 DEF Attempt, Runs
  <2>3. CASE Resolved(w)
    <3>1. warm[w] \in Running
      BY <1>c, <2>3 DEF Resolved, Runs
    <3>2. CASE warm[w].attempt < MaxAttempts /\ warm' = [warm EXCEPT ![w].pc = "sleep", ![w].attempt = @ + 1] /\ owner' = owner
      <4>1. [warm[w] EXCEPT !.pc = "sleep", !.attempt = @ + 1] \in Running
        <5>1. warm[w].attempt + 1 \in 1 .. MaxAttempts
          BY <1>b, <3>1, <3>2 DEF Running
        <5> QED BY <3>1, <5>1 DEF Running
      <4>2. warm' = [warm EXCEPT ![w] = [warm[w] EXCEPT !.pc = "sleep", !.attempt = @ + 1]]
        BY <1>a, <3>2
      <4> QED BY <3>2, <4>1, <4>2
    <3> QED BY <2>1, <2>3, <3>1, <3>2 DEF Resolved, Retries
  <2>4. CASE Pulsed(w)
    <3>1. [pc |-> "setting", attempt |-> 1, value |-> volume] \in Running
      BY <1>a, Kinds DEF Running
    <3> QED BY <2>4, <3>1 DEF Pulsed
  <2>5. CASE Set(w)
    <3>1. [warm[w] EXCEPT !.pc = "reading", !.value = 0] \in Running
      BY <1>c, <2>5 DEF Set, Runs, Running
    <3>2. warm' = [warm EXCEPT ![w] = [warm[w] EXCEPT !.pc = "reading", !.value = 0]] /\ owner' = owner
      BY <1>a, <2>5 DEF Set
    <3> QED BY <3>1, <3>2
  <2>6. CASE Read(w)
    <3>1. [warm[w] EXCEPT !.pc = "read", !.value = level] \in Running
      BY <1>a, <1>c, <2>6 DEF Read, Runs, Running
    <3>2. Finish(w) \/ (warm' = [warm EXCEPT ![w] = [warm[w] EXCEPT !.pc = "read", !.value = level]] /\ owner' = owner)
      BY <1>a, <2>6 DEF Read
    <3> QED BY <3>1, <3>2
  <2>7. CASE Publish(w)
    <3>1. warm[w] \in Running
      BY <1>c, <2>7 DEF Publish, Runs
    <3>2. [warm[w] EXCEPT !.pc = "telling"] \in Running
      BY <3>1 DEF Running
    <3> QED BY <2>7, <3>2 DEF Publish, Goes
  <2>8. CASE Cancel(w) \/ Notified(w)
    BY <2>8 DEF Cancel, Notified
  <2> QED BY <2>2, <2>3, <2>4, <2>5, <2>6, <2>7, <2>8 DEF WarmSteps
<1>3. warm' \in [Warmups -> States] /\ owner' \in Warmups \cup {0} /\ (owner' # 0 => warm'[owner'] \in Running)
  BY <1>2, <1>a, GoesOn, Ends
<1>4. Rest'
  BY <1>1, <1>a DEF WarmSteps, Rest, TypeOK, Carried
<1> QED BY <1>3, <1>4, Together

(* The initial states.                                                     *)
LEMMA InitIInv == Init => IInv
<1> SUFFICES ASSUME Init PROVE IInv
  OBVIOUS
<1>1. warm \in [Warmups -> States] /\ owner = 0
  BY Kinds DEF Init
<1>2. Rest
  BY DEF Init, Rest, Asleep
<1> QED BY <1>1, <1>2, SoundAssumption
        DEF IInv, TypeOK, Carried, OwnedIsRunning, States, Running, Rest, SoundAssumption

(* The inductive invariant of the sink.                                    *)
THEOREM Invariance == Spec => []IInv
<1>1. IInv /\ [Next]_vars => IInv'
  <2> SUFFICES ASSUME IInv, [Next]_vars PROVE IInv'
    OBVIOUS
  <2>a. /\ warm \in [Warmups -> States] /\ owner \in Warmups \cup {0} /\ Rest
        /\ owner # 0 => warm[owner] \in Running
    BY WarmIs DEF IInv, TypeOK, Carried, Rest
  <2>1. CASE Register
    <3>1. kept' = TRUE /\ UNCHANGED <<streaming, sink, level, volume, told, watch, command>>
      BY <2>1 DEF Register
    <3>2. CASE owner # 0
      BY <2>1, <2>a, <3>1, <3>2, Together DEF Register, Rest
    <3>3. CASE owner = 0
      <4>1. PICK w \in Warmups : owner' = w /\ warm' = [warm EXCEPT ![w] = [pc |-> "new", attempt |-> 1, value |-> 0]]
        BY <2>1, <3>3 DEF Register
      <4>2. [pc |-> "new", attempt |-> 1, value |-> 0] \in Running
        BY Kinds DEF Running
      <4> QED BY <2>a, <3>1, <4>1, <4>2, Together DEF Rest, States
    <3> QED BY <3>2, <3>3
  <2>2. CASE Unregister \/ GivesWay
    <3>1. warm' \in [Warmups -> States] /\ owner' = 0
      BY <2>2, IsCancelled DEF Unregister, GivesWay
    <3>2. Rest'
      BY <2>2, <2>a DEF Unregister, GivesWay, Rest
    <3> QED BY <3>1, <3>2, Together
  <2>3. CASE \E w \in Warmups : WarmSteps(w)
    BY <2>3, WarmStep
  <2>4. CASE /\ UNCHANGED <<owner, warm>>
             /\ \/ WatchReads \/ WatchPublishes \/ WatchNotified \/ Applied \/ Commanded \/ StreamStarts \/ StreamEnds
                \/ SinkChanges \/ UNCHANGED vars
                \/ \E v \in Levels : SetVolume(v) \/ ButtonPressed(v)
    <3>1. {kept', streaming', sink'} \subseteq BOOLEAN
      BY <2>4, <2>a DEF Rest, WatchReads, WatchPublishes, WatchNotified, Applied, Commanded, StreamStarts, StreamEnds,
                        SinkChanges, SetVolume, ButtonPressed, vars
    <3>2. {level', volume', told'} \subseteq Levels
      BY <2>4, <2>a, SoundAssumption
      DEF Rest, WatchReads, WatchPublishes, WatchNotified, Applied, Commanded, StreamStarts, StreamEnds,
          SinkChanges, SetVolume, ButtonPressed, Refreshed, vars, SoundAssumption
    <3>3. watch' \in [pc : {"asleep", "read", "telling"}, value : Levels \cup {0}] /\ (watch'.pc = "read" => watch'.value \in Levels)
      BY <2>4, <2>a DEF Rest, WatchReads, WatchPublishes, WatchNotified, Applied, Commanded, StreamStarts, StreamEnds,
                        SinkChanges, SetVolume, ButtonPressed, Asleep, vars
    <3>4. /\ command' \in [pc : {"asleep", "applying", "applied"}, value : Levels \cup {0}]
          /\ command'.pc = "applying" => command'.value \in Levels
      BY <2>4, <2>a DEF Rest, WatchReads, WatchPublishes, WatchNotified, Applied, Commanded, StreamStarts, StreamEnds,
                        SinkChanges, SetVolume, ButtonPressed, Asleep, vars
    <3> QED BY <2>4, <2>a, <3>1, <3>2, <3>3, <3>4, Together DEF Rest
  <2> QED
    BY <2>1, <2>2, <2>3, <2>4
    DEF Next, WatchReads, WatchPublishes, WatchNotified, Applied, Commanded, StreamStarts, StreamEnds,
        SinkChanges, SetVolume, ButtonPressed, vars
<1> QED BY InitIInv, <1>1, PTL DEF Spec

(* Every variable stays in its range.                                      *)
THEOREM TypeCorrect == Spec => []TypeOK
<1>1. IInv => TypeOK
  BY DEF IInv
<1> QED BY Invariance, <1>1, PTL

(* The entry in _warmup_tasks is never that of a task that has ended or    *)
(* was cancelled, however many warm-ups of a speaker overlap.              *)
THEOREM OwnedIsRunningAlways == Spec => []OwnedIsRunning
<1>1. IInv => OwnedIsRunning
  BY DEF IInv
<1> QED BY Invariance, <1>1, PTL
=============================================================================
