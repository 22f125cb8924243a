--------------------------- MODULE PlaybackProofs ---------------------------
(***************************************************************************)
(* Theorems about Playback, for any set of commands, any number of pairs,  *)
(* queues of any length and every bound on requests and histories that     *)
(* satisfies PlaybackAssumption.                                           *)
(***************************************************************************)
EXTENDS Playback, SequenceTheorems, TLAPS

(* The awaits at which an actor holds the speaker's lock.                  *)
Holding == {"arriving", "clearing", "entered", "stopping", "starting", "notifying", "leaving"}

LockHeld == \A a \in Actors : op[a].pc \in Holding => line # <<>> /\ Head(line) = a

(* A skip knows where it goes, and only a skip or a retry waits to move    *)
(* the queue.                                                              *)
TargetsExist ==
    \A a \in Actors :
      /\ op[a].kind \in {"next", "previous", "restart"} => op[a].target \in 1 .. Items
      /\ op[a].pc = "clearing" => op[a].kind \in {"next", "previous", "restart", "resume"}

(* Whoever is about to start a pair has seen the old one off.              *)
RoomMade == \A a \in Actors : op[a].pc \in {"stopping", "starting"} => active = NoPair

IInv == TypeOK /\ TargetsExist /\ LockHeld /\ RoomMade /\ OneStream

-----------------------------------------------------------------------------
(* The constants, as the provers use them.                                 *)
LEMMA Constants ==
    /\ MaxPairs \in Nat /\ MaxPairs > 0
    /\ Items \in Nat /\ Items > 0
    /\ MaxGeneration \in Nat
    /\ NoPair \notin Pairs
    /\ Commands \cap Pairs = {}
    /\ Commands \subseteq Actors /\ Pairs \subseteq Actors
BY PlaybackAssumption DEF PlaybackAssumption, NoPair, Pairs, Actors

(* The last of a history belongs to it, and what is before is a history.   *)
LEMMA Histories ==
    ASSUME NEW S, NEW h \in Seq(S), h # <<>>
    PROVE  Last(h) \in S /\ Front(h) \in Seq(S)
<1>1. /\ Len(h) \in Nat /\ Len(h) > 0 /\ Len(h) \in 1 .. Len(h)
      /\ \A i \in 1 .. Len(h) : h[i] \in S
  OBVIOUS
<1>2. \A i \in 1 .. Len(h) - 1 : h[i] \in S
  BY <1>1
<1>3. SubSeq(h, 1, Len(h) - 1) \in Seq(S)
  BY <1>1, <1>2, SubSeqProperties
<1> QED BY <1>1, <1>3 DEF Last, Front

(* Joining the line keeps it well formed and takes the lock from nobody.   *)
LEMMA Joined ==
    ASSUME TypeOK, TargetsExist, LockHeld,
           NEW a \in Actors, NEW request \in Op, op[a].pc \notin Holding,
           request.kind \in {"next", "previous", "restart"} => request.target \in 1 .. Items,
           Join(a, request)
    PROVE  /\ op' \in [Actors -> Op]
           /\ line' \in Seq(Actors)
           /\ TargetsExist'
           /\ LockHeld'
           /\ RoomMade /\ active' = active => RoomMade'
<1> DEFINE new == [request EXCEPT !.pc = IF line = <<>> THEN "arriving" ELSE "waiting"]
<1>1. /\ new \in Op /\ new.kind = request.kind /\ new.target = request.target
      /\ new.pc = IF line = <<>> THEN "arriving" ELSE "waiting"
  BY DEF Op, Pcs
<1>2. op' = [op EXCEPT ![a] = new] /\ line' = Append(line, a)
  BY DEF Join
<1>3. op \in [Actors -> Op] /\ line \in Seq(Actors)
  BY DEF TypeOK
<1> HIDE DEF new
<1>4. /\ op' \in [Actors -> Op] /\ line' \in Seq(Actors)
      /\ op'[a] = new /\ \A b \in Actors \ {a} : op'[b] = op[b]
  BY <1>1, <1>2, <1>3
<1>5. TargetsExist'
  BY <1>1, <1>4 DEF TargetsExist
<1>6. LockHeld'
  <2> SUFFICES ASSUME NEW b \in Actors, op'[b].pc \in Holding
               PROVE  line' # <<>> /\ Head(line') = b
    BY DEF LockHeld
  <2>1. CASE b = a
    <3>1. line = <<>>
      BY <1>1, <1>4, <2>1 DEF Holding
    <3> QED BY <3>1, <1>2, <2>1
  <2>2. CASE b # a
    <3>1. line # <<>> /\ Head(line) = b
      BY <1>4, <2>2 DEF LockHeld
    <3> QED BY <3>1, <1>2, <1>3
  <2> QED BY <2>1, <2>2
<1>7. RoomMade /\ active' = active => RoomMade'
  BY <1>1, <1>4 DEF RoomMade
<1> QED BY <1>4, <1>5, <1>6, <1>7

(* A step that only moves an actor to another await.                       *)
LEMMA Moves ==
    ASSUME TypeOK, TargetsExist, NEW a \in Actors, NEW pc \in Pcs, At(a, pc),
           pc = "clearing" => op[a].kind \in {"next", "previous", "restart", "resume"}
    PROVE  /\ op' \in [Actors -> Op]
           /\ TargetsExist'
           /\ op'[a].pc = pc
           /\ \A b \in Actors \ {a} : op'[b] = op[b]
<1>1. op \in [Actors -> Op]
  BY DEF TypeOK
<1>2. [op[a] EXCEPT !.pc = pc] \in Op
  BY <1>1 DEF Op
<1>3. op' = [op EXCEPT ![a] = [op[a] EXCEPT !.pc = pc]]
  BY <1>1 DEF At, Op
<1>4. /\ op' \in [Actors -> Op]
      /\ op'[a] = [op[a] EXCEPT !.pc = pc]
      /\ \A b \in Actors \ {a} : op'[b] = op[b]
  BY <1>1, <1>2, <1>3
<1>5. op'[a].pc = pc /\ op'[a].kind = op[a].kind /\ op'[a].target = op[a].target
  BY <1>1, <1>4 DEF Op
<1>6. TargetsExist'
  BY <1>4, <1>5 DEF TargetsExist
<1> QED BY <1>4, <1>5, <1>6

(* A step of the holder leaves the lock to it, and nobody else is about to *)
(* start a pair.                                                           *)
LEMMA HolderMoves ==
    ASSUME LockHeld, NEW a \in Actors, line # <<>>, Head(line) = a, line' = line,
           \A b \in Actors \ {a} : op'[b] = op[b],
           op'[a].pc \in {"stopping", "starting"} => active' = NoPair
    PROVE  LockHeld' /\ RoomMade'
BY DEF LockHeld, RoomMade, Holding

(* A step of somebody who does not hold the lock and does not enter it.    *)
LEMMA OthersMove ==
    ASSUME LockHeld, RoomMade, NEW a \in Actors, line' = line,
           active' \in {active, NoPair},
           \A b \in Actors \ {a} : op'[b] = op[b],
           op'[a].pc \notin Holding
    PROVE  LockHeld' /\ RoomMade'
BY DEF LockHeld, RoomMade, Holding

(* No pair plays once the active one was stopped.                          *)
LEMMA Stops ==
    ASSUME TypeOK, OneStream, StopActive
    PROVE  /\ active' = NoPair
           /\ stream' \in [Pairs -> Stream]
           /\ OneStream'
<1>1. active' = NoPair /\ stream \in [Pairs -> Stream] /\ active \in Pairs \cup {NoPair}
  BY DEF StopActive, TypeOK
<1>2. CASE active # NoPair /\ Playing(active)
  <2>1. stream' = [stream EXCEPT ![active].phase = "signalled"] /\ active \in Pairs
    BY <1>1, <1>2 DEF StopActive
  <2>2. stream' \in [Pairs -> Stream]
    BY <1>1, <2>1 DEF Stream, StreamPhases
  <2>3. \A p \in Pairs : ~Playing(p)'
    <3> SUFFICES ASSUME NEW p \in Pairs PROVE stream'[p].phase \notin {"running", "paused"}
      BY DEF Playing
    <3>1. CASE p = active
      BY <1>1, <2>1, <3>1 DEF Stream
    <3>2. CASE p # active
      <4>1. stream'[p] = stream[p]
        BY <1>1, <2>1, <3>2
      <4> QED BY <4>1, <3>2 DEF OneStream, Playing
    <3> QED BY <3>1, <3>2
  <2> QED BY <1>1, <2>2, <2>3 DEF OneStream
<1>3. CASE ~(active # NoPair /\ Playing(active))
  <2>1. stream' = stream
    BY <1>3 DEF StopActive
  <2>2. \A p \in Pairs : ~Playing(p)
    BY <1>3, Constants DEF OneStream
  <2> QED BY <1>1, <2>1, <2>2 DEF OneStream, Playing
<1> QED BY <1>2, <1>3

(* The awaits before and after the wait for a stopped pair.                *)
LEMMA AfterStopIs ==
    ASSUME NEW x, NEW y
    PROVE  AfterStop(x, y) \in {x, y}
BY DEF AfterStop

(* A pair that the queue signals goes on playing, or goes on paused.       *)
LEMMA Signals ==
    ASSUME TypeOK, OneStream, NEW from \in {"running", "paused"}, NEW to \in {"running", "paused"},
           active' = active, Signalled(from, to)
    PROVE  stream' \in [Pairs -> Stream] /\ OneStream'
<1>1. stream \in [Pairs -> Stream] /\ active \in Pairs \cup {NoPair}
  BY DEF TypeOK
<1>2. CASE active # NoPair /\ stream[active].phase = from
  <2>1. stream' = [stream EXCEPT ![active].phase = to] /\ active \in Pairs
    BY <1>1, <1>2 DEF Signalled
  <2>2. stream' \in [Pairs -> Stream]
    BY <1>1, <2>1 DEF Stream, StreamPhases
  <2>3. \A p \in Pairs : p # active => stream'[p] = stream[p]
    BY <1>1, <2>1
  <2> QED BY <2>2, <2>3 DEF OneStream, Playing
<1>3. CASE ~(active # NoPair /\ stream[active].phase = from)
  <2>1. stream' = stream
    BY <1>3 DEF Signalled
  <2> QED BY <1>1, <2>1 DEF OneStream, Playing
<1> QED BY <1>2, <1>3

-----------------------------------------------------------------------------
(* Commands.                                                               *)

(* What an actor with nothing to do is.                                    *)
LEMMA IdleIs == Idle \in Op /\ Idle.kind = "none" /\ Idle.pc = "idle"
BY Constants DEF Idle, Op, Pcs, Kinds, Repeats

(* Invalidation leaves the variables in their ranges.                      *)
LEMMA Invalidates ==
    ASSUME TypeOK, NEW why \in {"play", "stop"}, Invalidate(why)
    PROVE  /\ generation' \in 0 .. MaxGeneration
           /\ session' \in Session \cup {NoSession}
           /\ last' \in {"play", "stop", "void"}
BY Constants DEF TypeOK, Invalidate

(* play_url and start_queue.                                               *)
LEMMA ReplaceKeeps ==
    ASSUME IInv, NEW c \in Commands, NEW kind \in {"play", "queue"}, Replace(c, kind)
    PROVE  IInv'
<1> USE DEF IInv
<1> DEFINE request == [Idle EXCEPT !.kind = kind, !.generation = generation + 1]
<1>1. Invalidate("play") /\ Join(c, request) /\ UNCHANGED <<active, stream, published>>
  BY DEF Replace
<1>2. c \in Actors /\ op[c].pc \notin Holding
  BY Constants DEF Replace, Free, Holding
<1>3. kind \in Kinds /\ generation + 1 \in Nat
  BY Constants DEF Kinds, TypeOK
<1>4. request \in Op /\ request.kind = kind
  BY <1>3, IdleIs DEF Op
<1> HIDE DEF request
<1>5. /\ op' \in [Actors -> Op] /\ line' \in Seq(Actors)
      /\ TargetsExist' /\ LockHeld' /\ RoomMade'
  BY <1>1, <1>2, <1>4, Joined
<1>6. TypeOK'
  BY <1>1, <1>5, Invalidates DEF TypeOK
<1>7. OneStream'
  BY <1>1 DEF OneStream, Playing
<1> QED BY <1>5, <1>6, <1>7

(* control_queue up to the lock.                                           *)
LEMMA ControlKeeps ==
    ASSUME IInv, NEW c \in Commands, NEW request \in Op, NEW replaces \in BOOLEAN,
           request.kind \in {"next", "previous", "restart"} => request.target \in 1 .. Items,
           Control(c, request, replaces)
    PROVE  IInv'
<1> USE DEF IInv
<1> DEFINE new == [request EXCEPT !.born = session.born,
                                  !.generation = IF replaces THEN generation + 1 ELSE 0]
<1>1. Join(c, new) /\ UNCHANGED <<session, active, stream, published>>
  BY DEF Control
<1>2. c \in Actors /\ op[c].pc \notin Holding
  BY Constants DEF Control, Free, Holding
<1>3. session.born \in Nat /\ generation \in Nat
  BY Constants DEF Control, TypeOK, Session
<1>4. new \in Op /\ new.kind = request.kind /\ new.target = request.target
  <2>1. (IF replaces THEN generation + 1 ELSE 0) \in Nat
    BY <1>3
  <2> QED BY <2>1, <1>3 DEF Op
<1> HIDE DEF new
<1>5. /\ op' \in [Actors -> Op] /\ line' \in Seq(Actors)
      /\ TargetsExist' /\ LockHeld' /\ RoomMade'
  BY <1>1, <1>2, <1>4, Joined
<1>6. generation' \in 0 .. MaxGeneration /\ last' \in {"play", "stop", "void"}
  BY Constants DEF Control, TypeOK
<1>7. TypeOK'
  BY <1>1, <1>5, <1>6 DEF TypeOK
<1>8. OneStream'
  BY <1>1 DEF OneStream, Playing
<1> QED BY <1>5, <1>7, <1>8

(* The skips.                                                              *)
LEMMA SkipKeeps ==
    ASSUME IInv, NEW c \in Commands, NEW kind \in {"next", "previous", "restart"},
           NEW target \in 1 .. Items, Skip(c, kind, target)
    PROVE  IInv'
<1> DEFINE request == [Idle EXCEPT !.kind = kind, !.target = target]
<1>1. request \in Op /\ request.target = target
  <2>1. kind \in Kinds /\ target \in 0 .. Items
    BY Constants DEF Kinds
  <2> QED BY <2>1, IdleIs DEF Op
<1>2. Control(c, request, TRUE)
  BY DEF Skip
<1> HIDE DEF request
<1> QED BY <1>1, <1>2, ControlKeeps

(* The controls, each with the target it computes.                         *)
LEMMA ControlsKeep ==
    ASSUME IInv, NEW c \in Commands,
           ControlNext(c) \/ ControlPrevious(c) \/ ControlPlay(c) \/ ControlPause(c) \/ ControlRepeat(c)
    PROVE  IInv'
<1>1. CASE ControlNext(c)
  <2>1. session \in Session /\ session.index \in 1 .. Items
    BY <1>1 DEF ControlNext, IInv, TypeOK, Session
  <2>2. CASE session.index < Items /\ Skip(c, "next", session.index + 1)
    <3>1. session.index + 1 \in 1 .. Items
      BY <2>1, <2>2, Constants
    <3> QED BY <3>1, <2>2, SkipKeeps
  <2>3. CASE Skip(c, "next", 1)
    <3>1. 1 \in 1 .. Items
      BY Constants
    <3> QED BY <3>1, <2>3, SkipKeeps
  <2> QED BY <1>1, <2>2, <2>3 DEF ControlNext
<1>2. CASE ControlPrevious(c)
  <2>1. session \in Session /\ session.index \in 1 .. Items /\ session.history \in Seq(1 .. Items)
    BY <1>2 DEF ControlPrevious, IInv, TypeOK, Session
  <2> DEFINE back == IF session.history # <<>> THEN Last(session.history) ELSE session.index - 1
  <2>2. CASE Skip(c, "restart", session.index)
    BY <2>1, <2>2, SkipKeeps
  <2>3. CASE session.index > 1 /\ Skip(c, "previous", back)
    <3>1. back \in 1 .. Items
      <4>1. CASE session.history # <<>>
        BY <2>1, <4>1, Histories
      <4>2. CASE session.history = <<>>
        BY <2>1, <2>3, <4>2, Constants
      <4> QED BY <4>1, <4>2
    <3> HIDE DEF back
    <3> QED BY <3>1, <2>3, SkipKeeps
  <2> QED BY <1>2, <2>2, <2>3 DEF ControlPrevious
<1>3. CASE ControlPlay(c)
  <2> DEFINE request == [Idle EXCEPT !.kind = "resume"]
  <2>1. request \in Op /\ request.kind = "resume"
    BY IdleIs DEF Op, Kinds
  <2>2. Control(c, request, session.status = "failed")
    BY <1>3 DEF ControlPlay
  <2> HIDE DEF request
  <2> QED BY <2>1, <2>2, ControlKeeps
<1>4. CASE ControlPause(c)
  <2> DEFINE request == [Idle EXCEPT !.kind = "pause"]
  <2>1. request \in Op /\ request.kind = "pause"
    BY IdleIs DEF Op, Kinds
  <2>2. Control(c, request, FALSE)
    BY <1>4 DEF ControlPause
  <2> HIDE DEF request
  <2> QED BY <2>1, <2>2, ControlKeeps
<1>5. CASE ControlRepeat(c)
  <2>1. PICK repeat \in Repeats :
          Control(c, [Idle EXCEPT !.kind = "repeat", !.repeat = repeat], FALSE)
    BY <1>5 DEF ControlRepeat
  <2> DEFINE request == [Idle EXCEPT !.kind = "repeat", !.repeat = repeat]
  <2>2. request \in Op /\ request.kind = "repeat"
    BY IdleIs DEF Op, Kinds
  <2>3. Control(c, request, FALSE)
    BY <2>1
  <2> HIDE DEF request
  <2> QED BY <2>2, <2>3, ControlKeeps
<1> QED BY <1>1, <1>2, <1>3, <1>4, <1>5

(* Pause and resume outside a queue.                                       *)
LEMMA SignalKeeps ==
    ASSUME IInv, NEW c \in Commands, Pause(c) \/ Resume(c)
    PROVE  IInv'
<1> USE DEF IInv
<1>1. PICK from \in {"running", "paused"}, to \in {"running", "paused"}, state \in {"playing", "paused"} :
        Signal(c, from, to, state)
  BY DEF Pause, Resume
<1>2. /\ Signalled(from, to) /\ published' = state
      /\ UNCHANGED <<generation, session, active, line, op, last>>
  BY <1>1 DEF Signal, Signalled
<1>3. stream' \in [Pairs -> Stream] /\ OneStream'
  BY <1>2, Signals
<1>4. TypeOK'
  BY <1>2, <1>3 DEF TypeOK
<1> QED BY <1>2, <1>3, <1>4 DEF TargetsExist, LockHeld, RoomMade

(* A step after which an actor that did not hold the lock does not.        *)
LEMMA OutsideKeeps ==
    ASSUME IInv, NEW a \in Actors, NEW o \in Op, op' = [op EXCEPT ![a] = o],
           o.pc \notin Holding, o.kind \in {"next", "previous", "restart"} => o.target \in 1 .. Items,
           line' = line, active' \in {active, NoPair}
    PROVE  /\ op' \in [Actors -> Op] /\ line' \in Seq(Actors)
           /\ TargetsExist' /\ LockHeld' /\ RoomMade'
<1> USE DEF IInv
<1>1. op \in [Actors -> Op] /\ line \in Seq(Actors)
  BY DEF TypeOK
<1>2. /\ op' \in [Actors -> Op] /\ op'[a] = o
      /\ \A b \in Actors \ {a} : op'[b] = op[b]
  BY <1>1
<1>3. TargetsExist'
  BY <1>2 DEF TargetsExist, Holding
<1>4. LockHeld' /\ RoomMade'
  BY <1>2, OthersMove
<1> QED BY <1>1, <1>2, <1>3, <1>4

(* Stop and the loss of the link.                                          *)
LEMMA StopKeeps ==
    ASSUME IInv, NEW c \in Commands, Stop(c) \/ StopEnds(c) \/ LinkLost(c) \/ ScheduledStop(c)
    PROVE  IInv'
<1> USE DEF IInv
<1>1. c \in Actors
  BY Constants
<1>2. ASSUME StopBegins(c) PROVE IInv'
  <2> DEFINE halting == [Idle EXCEPT !.kind = "stop", !.pc = "halting"]
             o == AfterStop(halting, Idle)
  <2>1. halting \in Op /\ halting.pc = "halting" /\ halting.kind = "stop"
    BY IdleIs DEF Op, Pcs, Kinds
  <2>2. o \in {halting, Idle}
    BY AfterStopIs
  <2>3. /\ op' = [op EXCEPT ![c] = o] /\ published' = AfterStop(published, "idle")
        /\ Invalidate("stop") /\ StopActive /\ line' = line
    BY <1>2 DEF StopBegins
  <2> HIDE DEF halting, o
  <2>4. o \in Op /\ o.pc \notin Holding /\ o.kind \in {"stop", "none"}
    BY <2>1, <2>2, IdleIs DEF Holding
  <2>5. active' = NoPair /\ stream' \in [Pairs -> Stream] /\ OneStream'
    BY <2>3, Stops
  <2>6. /\ op' \in [Actors -> Op] /\ line' \in Seq(Actors)
        /\ TargetsExist' /\ LockHeld' /\ RoomMade'
    BY <1>1, <2>3, <2>4, <2>5, OutsideKeeps
  <2>7. published' \in {published, "idle"}
    BY <2>3, AfterStopIs
  <2>8. TypeOK'
    BY <2>3, <2>5, <2>6, <2>7, Invalidates DEF TypeOK
  <2> QED BY <2>5, <2>6, <2>8
<1>3. CASE StopEnds(c)
  <2>1. op' = [op EXCEPT ![c] = Idle] /\ UNCHANGED <<generation, session, active, stream, line, last>>
        /\ published' = "idle"
    BY <1>3 DEF StopEnds
  <2>2. /\ op' \in [Actors -> Op] /\ line' \in Seq(Actors)
        /\ TargetsExist' /\ LockHeld' /\ RoomMade'
    BY <1>1, <2>1, IdleIs, OutsideKeeps DEF Holding
  <2>3. TypeOK'
    BY <2>1, <2>2 DEF TypeOK
  <2> QED BY <2>1, <2>2, <2>3 DEF OneStream, Playing
<1>4. CASE LinkLost(c)
  <2> DEFINE o == [Idle EXCEPT !.kind = "stop", !.pc = "scheduled"]
  <2>1. o \in Op /\ o.pc = "scheduled" /\ o.kind = "stop"
    BY IdleIs DEF Op, Pcs, Kinds
  <2>2. /\ op' = [op EXCEPT ![c] = o] /\ UNCHANGED <<active, stream, published, line>>
        /\ Invalidate("stop")
    BY <1>4 DEF LinkLost
  <2> HIDE DEF o
  <2>3. /\ op' \in [Actors -> Op] /\ line' \in Seq(Actors)
        /\ TargetsExist' /\ LockHeld' /\ RoomMade'
    BY <1>1, <2>1, <2>2, OutsideKeeps DEF Holding
  <2>4. TypeOK'
    BY <2>2, <2>3, Invalidates DEF TypeOK
  <2> QED BY <2>2, <2>3, <2>4 DEF OneStream, Playing
<1> QED BY <1>2, <1>3, <1>4 DEF Stop, ScheduledStop

-----------------------------------------------------------------------------
(* Under the lock.                                                         *)

(* Whoever has joined the line and is granted the lock, holds it.          *)
LEMMA GrantedHolds ==
    ASSUME NEW a \in Actors, NEW kinds, Granted(a, kinds)
    PROVE  line # <<>> /\ Head(line) = a /\ op[a].kind \in kinds
BY DEF Granted

(* A step of the holder that moves it, and touches no pair.                *)
LEMMA HolderWaits ==
    ASSUME IInv, NEW a \in Actors, NEW pc \in Pcs \ {"clearing"}, At(a, pc),
           line # <<>>, Head(line) = a,
           pc \in {"stopping", "starting"} => active = NoPair,
           UNCHANGED <<generation, active, line>>,
           stream' \in [Pairs -> Stream], OneStream',
           session' \in Session \cup {NoSession},
           published' \in {"idle", "playing", "paused"},
           last' \in {"play", "stop", "void"}
    PROVE  IInv'
<1> USE DEF IInv
<1>1. /\ op' \in [Actors -> Op] /\ TargetsExist' /\ op'[a].pc = pc
      /\ \A b \in Actors \ {a} : op'[b] = op[b]
  BY Moves
<1>2. LockHeld' /\ RoomMade'
  BY <1>1, HolderMoves
<1>3. TypeOK'
  BY <1>1 DEF TypeOK
<1> QED BY <1>1, <1>2, <1>3

(* The steps with which a command takes the lock and touches no pair.      *)
LEMMA EnterKeeps ==
    ASSUME IInv, NEW a \in Actors,
           EnterPlay(a) \/ EnterStale(a) \/ EnterRepeat(a) \/ EnterPause(a) \/ EnterResume(a)
    PROVE  IInv'
<1>1. PICK kinds : Granted(a, kinds)
  BY DEF EnterPlay, EnterStale, EnterRepeat, EnterPause, EnterResume
<1>2. line # <<>> /\ Head(line) = a
  BY <1>1, GrantedHolds
<1>3. TypeOK /\ OneStream /\ stream \in [Pairs -> Stream] /\ session \in Session \cup {NoSession}
      /\ published \in {"idle", "playing", "paused"} /\ last \in {"play", "stop", "void"}
      /\ op[a] \in Op
  BY DEF IInv, TypeOK
<1>4. stream' = stream /\ active' = active => stream' \in [Pairs -> Stream] /\ OneStream'
  BY <1>3 DEF OneStream, Playing
<1>5. {"entered", "leaving", "notifying"} \subseteq Pcs \ {"clearing"}
  BY DEF Pcs
<1>6. CASE EnterPlay(a)
  <2>1. PICK pc \in {"entered", "leaving"} :
          At(a, pc) /\ UNCHANGED <<generation, session, active, stream, published, line, last>>
    BY <1>6 DEF EnterPlay
  <2> QED BY <1>2, <1>3, <1>4, <1>5, <2>1, HolderWaits
<1>7. CASE EnterStale(a)
  <2>1. At(a, "leaving") /\ UNCHANGED <<generation, session, active, stream, published, line, last>>
    BY <1>7 DEF EnterStale
  <2> QED BY <1>2, <1>3, <1>4, <1>5, <2>1, HolderWaits
<1>8. CASE EnterRepeat(a)
  <2>1. /\ At(a, "notifying") /\ session' = [session EXCEPT !.repeat = op[a].repeat]
        /\ UNCHANGED <<generation, active, stream, published, line, last>>
    BY <1>8 DEF EnterRepeat
  <2>2. session \in Session /\ op[a].repeat \in Repeats
    BY <1>3, <1>8 DEF EnterRepeat, Current, Op
  <2>3. session' \in Session
    BY <2>1, <2>2 DEF Session
  <2> QED BY <1>2, <1>3, <1>4, <1>5, <2>1, <2>3, HolderWaits
<1>9. CASE EnterPause(a)
  <2>1. UNCHANGED <<generation, active, line, last>>
    BY <1>9 DEF EnterPause
  <2>2. CASE session.status = "playing" /\ session.pair # NoPair
    <3>1. /\ Signalled("running", "paused") /\ published' = "paused" /\ At(a, "notifying")
          /\ session' = [session EXCEPT !.status = "paused"]
      BY <1>9, <2>2 DEF EnterPause
    <3>2. session \in Session
      BY <1>3, <1>9 DEF EnterPause, Current
    <3>3. session' \in Session
      BY <3>1, <3>2 DEF Session, Statuses
    <3>4. stream' \in [Pairs -> Stream] /\ OneStream'
      BY <1>3, <2>1, <3>1, Signals
    <3> QED BY <1>2, <1>3, <1>5, <2>1, <3>1, <3>3, <3>4, HolderWaits
  <2>3. CASE ~(session.status = "playing" /\ session.pair # NoPair)
    <3>1. At(a, "leaving") /\ UNCHANGED <<session, stream, published>>
      BY <1>9, <2>3 DEF EnterPause
    <3> QED BY <1>2, <1>3, <1>4, <1>5, <2>1, <3>1, HolderWaits
  <2> QED BY <2>2, <2>3
<1>10. CASE EnterResume(a)
  <2> DEFINE resumes == session.status = "paused" /\ session.pair # NoPair /\ active = session.pair
  <2>1. UNCHANGED <<generation, active, line>> /\ last' \in {last, "void"}
    BY <1>10 DEF EnterResume
  <2>2. CASE resumes
    <3>1. /\ Signalled("paused", "running") /\ published' = "playing" /\ At(a, "notifying")
          /\ session' = [session EXCEPT !.status = "playing"]
      BY <1>10, <2>2 DEF EnterResume
    <3>2. session \in Session
      BY <1>3, <1>10 DEF EnterResume, Current
    <3>3. session' \in Session
      BY <3>1, <3>2 DEF Session, Statuses
    <3>4. stream' \in [Pairs -> Stream] /\ OneStream'
      BY <1>3, <2>1, <3>1, Signals
    <3> QED BY <1>2, <1>3, <1>5, <2>1, <3>1, <3>3, <3>4, HolderWaits
  <2>3. CASE ~resumes
    <3>1. At(a, "leaving") /\ UNCHANGED <<session, stream, published>>
      BY <1>10, <2>3 DEF EnterResume
    <3> QED BY <1>2, <1>3, <1>4, <1>5, <2>1, <3>1, HolderWaits
  <2> QED BY <2>2, <2>3
<1> QED BY <1>6, <1>7, <1>8, <1>9, <1>10

(* A step of the holder that sets what it is doing.                        *)
LEMMA HolderActs ==
    ASSUME IInv, NEW a \in Actors, NEW o \in Op, op' = [op EXCEPT ![a] = o],
           line # <<>>, Head(line) = a, line' = line,
           o.pc \notin {"clearing", "stopping", "starting"},
           o.kind \in {"next", "previous", "restart"} => o.target \in 1 .. Items
    PROVE  op' \in [Actors -> Op] /\ TargetsExist' /\ LockHeld' /\ RoomMade'
<1> USE DEF IInv
<1>1. op \in [Actors -> Op]
  BY DEF TypeOK
<1>2. /\ op' \in [Actors -> Op] /\ op'[a] = o
      /\ \A b \in Actors \ {a} : op'[b] = op[b]
  BY <1>1
<1>3. TargetsExist'
  BY <1>2 DEF TargetsExist
<1>4. LockHeld' /\ RoomMade'
  BY <1>2, HolderMoves
<1> QED BY <1>2, <1>3, <1>4

(* A new queue.                                                            *)
LEMMA QueueKeeps ==
    ASSUME IInv, NEW a \in Actors, EnterQueue(a)
    PROVE  IInv'
<1> USE DEF IInv
<1>1. line # <<>> /\ Head(line) = a /\ op[a].kind = "queue"
  BY GrantedHolds DEF EnterQueue
<1>2. UNCHANGED <<generation, active, stream, published, line, last>>
  BY DEF EnterQueue
<1>3. op[a] \in Op /\ generation \in Nat
  BY Constants DEF TypeOK
<1>4. OneStream'
  BY <1>2 DEF OneStream, Playing
<1>5. CASE Fresh(a)
  <2> DEFINE o == [op[a] EXCEPT !.pc = "entered", !.born = generation, !.item = 1]
  <2>1. o \in Op /\ o.pc = "entered" /\ o.kind = "queue"
    <3>1. "entered" \in Pcs /\ 1 \in 0 .. Items
      BY Constants DEF Pcs
    <3> QED BY <1>1, <1>3, <3>1 DEF Op
  <2>2. op' = [op EXCEPT ![a] = o] /\ session' = NewSession(op[a].generation)
    BY <1>5 DEF EnterQueue
  <2> HIDE DEF o
  <2>3. op' \in [Actors -> Op] /\ TargetsExist' /\ LockHeld' /\ RoomMade'
    BY <1>1, <1>2, <2>1, <2>2, HolderActs
  <2>4. op[a].generation \in Nat
    BY <1>3 DEF Op
  <2>5. session' \in Session
    BY <2>2, <2>4, Constants DEF NewSession, Session, Statuses, Repeats
  <2>6. TypeOK'
    BY <1>2, <2>3, <2>5 DEF TypeOK
  <2> QED BY <1>4, <2>3, <2>6
<1>6. CASE ~Fresh(a)
  <2>1. At(a, "leaving") /\ session' = session /\ "leaving" \in Pcs \ {"clearing"}
    BY <1>6 DEF EnterQueue, Pcs
  <2>2. stream' \in [Pairs -> Stream] /\ session' \in Session \cup {NoSession}
        /\ published' \in {"idle", "playing", "paused"} /\ last' \in {"play", "stop", "void"}
    BY <1>2, <2>1 DEF TypeOK
  <2> QED BY <1>1, <1>2, <1>4, <2>1, <2>2, HolderWaits
<1> QED BY <1>5, <1>6

(* A moved queue is a queue, and what is played next is one of its items.  *)
LEMMA MoveKeeps ==
    ASSUME IInv, NEW a \in Actors, NEW ses \in Session, Move(a, ses),
           op[a].kind \in {"next", "previous", "restart", "resume"},
           line # <<>>, Head(line) = a, line' = line
    PROVE  /\ session' \in Session
           /\ op' \in [Actors -> Op] /\ TargetsExist' /\ LockHeld' /\ RoomMade'
<1> USE DEF IInv
<1>1. op[a] \in Op
  BY DEF TypeOK
<1>2. op[a].kind # "resume" => op[a].target \in 1 .. Items
  BY DEF TargetsExist
<1> DEFINE index == IF op[a].kind = "resume" THEN ses.index ELSE op[a].target
           history == CASE op[a].kind = "next" -> Append(ses.history, ses.index)
                        [] op[a].kind = "previous" /\ ses.history # <<>> -> Front(ses.history)
                        [] OTHER -> ses.history
<1>3. index \in 1 .. Items /\ ses.index \in 1 .. Items /\ ses.history \in Seq(1 .. Items)
  BY <1>2 DEF Session
<1>4. history \in Seq(1 .. Items)
  <2>1. CASE op[a].kind = "next"
    BY <1>3, <2>1
  <2>2. CASE op[a].kind = "previous" /\ ses.history # <<>>
    BY <1>3, <2>2, Histories
  <2> QED BY <1>3, <2>1, <2>2
<1>5. Moved(a, ses) = [ses EXCEPT !.status = "playing", !.index = index, !.history = history]
  BY DEF Moved, Session
<1> HIDE DEF index, history
<1>6. Moved(a, ses) \in Session
  BY <1>3, <1>4, <1>5 DEF Session, Statuses
<1> DEFINE moved == Moved(a, ses)
           o == [op[a] EXCEPT !.pc = "entered", !.generation = moved.generation,
                              !.item = moved.index, !.blank = moved.blank]
<1>7. session' = moved /\ op' = [op EXCEPT ![a] = o]
  BY DEF Move, PlayItem
<1> HIDE DEF moved
<1>8. moved \in Session
  BY <1>6 DEF moved
<1>9. moved.generation \in Nat /\ moved.index \in 0 .. Items /\ moved.blank \in BOOLEAN
  BY <1>8, Constants DEF Session
<1>10. o \in Op /\ o.pc = "entered" /\ o.kind = op[a].kind /\ o.target = op[a].target
  BY <1>1, <1>9 DEF Op, Pcs
<1> HIDE DEF o
<1>11. op' \in [Actors -> Op] /\ TargetsExist' /\ LockHeld' /\ RoomMade'
  BY <1>2, <1>7, <1>10, HolderActs
<1> QED BY <1>7, <1>8, <1>11

(* next, previous and a retry, before and after the old pair's end.        *)
LEMMA SkipsKeep ==
    ASSUME IInv, NEW a \in Actors, EnterSkip(a) \/ Cleared(a)
    PROVE  IInv'
<1> USE DEF IInv
<1>1. op[a] \in Op /\ session \in Session \cup {NoSession} /\ op \in [Actors -> Op]
  BY DEF TypeOK
<1>2. CASE EnterSkip(a)
  <2>1. /\ line # <<>> /\ Head(line) = a
        /\ op[a].kind \in {"next", "previous", "restart", "resume"}
    BY <1>2, GrantedHolds DEF EnterSkip
  <2>2. StopActive /\ UNCHANGED <<generation, published, line, last>>
    BY <1>2 DEF EnterSkip
  <2>3. active' = NoPair /\ stream' \in [Pairs -> Stream] /\ OneStream'
    BY <2>2, Stops
  <2>4. session \in Session
    BY <1>1, <1>2 DEF EnterSkip, Current
  <2>5. Claimed(a) \in Session
    BY <1>1, <2>4 DEF Claimed, Session, Op
  <2>6. CASE active # NoPair /\ Alive(active)
    <3>1. session' = Claimed(a) /\ At(a, "clearing") /\ "clearing" \in Pcs
      BY <1>2, <2>6 DEF EnterSkip, Pcs
    <3>2. /\ op' \in [Actors -> Op] /\ TargetsExist' /\ op'[a].pc = "clearing"
          /\ \A b \in Actors \ {a} : op'[b] = op[b]
      BY <2>1, <3>1, Moves
    <3>3. LockHeld' /\ RoomMade'
      BY <2>1, <2>2, <3>2, HolderMoves
    <3>4. TypeOK'
      BY <2>2, <2>3, <2>5, <3>1, <3>2 DEF TypeOK
    <3> QED BY <2>3, <3>2, <3>3, <3>4
  <2>7. CASE ~(active # NoPair /\ Alive(active))
    <3>1. Move(a, Claimed(a))
      BY <1>2, <2>7 DEF EnterSkip
    <3>2. /\ session' \in Session
          /\ op' \in [Actors -> Op] /\ TargetsExist' /\ LockHeld' /\ RoomMade'
      BY <2>1, <2>2, <2>5, <3>1, MoveKeeps
    <3>3. TypeOK'
      BY <2>2, <2>3, <3>2 DEF TypeOK
    <3> QED BY <2>3, <3>2, <3>3
  <2> QED BY <2>6, <2>7
<1>3. CASE Cleared(a)
  <2>1. /\ line # <<>> /\ Head(line) = a
        /\ op[a].kind \in {"next", "previous", "restart", "resume"}
        /\ UNCHANGED <<generation, active, stream, published, line, last>>
    BY <1>3 DEF Cleared, LockHeld, Holding, TargetsExist
  <2>2. OneStream'
    BY <2>1 DEF OneStream, Playing
  <2>3. CASE session # NoSession /\ session.born = op[a].born
    <3>1. Move(a, session) /\ session \in Session
      BY <1>1, <1>3, <2>3 DEF Cleared
    <3>2. /\ session' \in Session
          /\ op' \in [Actors -> Op] /\ TargetsExist' /\ LockHeld' /\ RoomMade'
      BY <2>1, <3>1, MoveKeeps
    <3>3. TypeOK'
      BY <2>1, <3>2 DEF TypeOK
    <3> QED BY <2>2, <3>2, <3>3
  <2>4. CASE ~(session # NoSession /\ session.born = op[a].born)
    <3>1. At(a, "leaving") /\ session' = session /\ "leaving" \in Pcs \ {"clearing"}
      BY <1>3, <2>4 DEF Cleared, Pcs
    <3>2. stream' \in [Pairs -> Stream] /\ session' \in Session \cup {NoSession}
          /\ published' \in {"idle", "playing", "paused"} /\ last' \in {"play", "stop", "void"}
      BY <2>1, <3>1 DEF TypeOK
    <3> QED BY <2>1, <2>2, <3>1, <3>2, HolderWaits
  <2> QED BY <2>3, <2>4
<1> QED BY <1>2, <1>3

(* _play_url_locked up to the new pair.                                    *)
LEMMA StopOldKeeps ==
    ASSUME IInv, NEW a \in Actors, StopOld(a) \/ Stopped(a)
    PROVE  IInv'
<1> USE DEF IInv
<1>1. {"stopping", "starting"} \subseteq Pcs \ {"clearing"}
  BY DEF Pcs
<1>2. line # <<>> /\ Head(line) = a
  BY DEF StopOld, Stopped, LockHeld, Holding
<1>3. CASE StopOld(a)
  <2>1. PICK pc \in {"stopping", "starting"} : At(a, pc)
    BY <1>3, AfterStopIs DEF StopOld
  <2>2. StopActive /\ UNCHANGED <<generation, session, published, line, last>>
    BY <1>3 DEF StopOld
  <2>3. active' = NoPair /\ stream' \in [Pairs -> Stream] /\ OneStream'
    BY <2>2, Stops
  <2>4. /\ op' \in [Actors -> Op] /\ TargetsExist' /\ op'[a].pc = pc
        /\ \A b \in Actors \ {a} : op'[b] = op[b]
    BY <1>1, <2>1, Moves
  <2>5. LockHeld' /\ RoomMade'
    BY <1>2, <2>2, <2>3, <2>4, HolderMoves
  <2>6. TypeOK'
    BY <2>2, <2>3, <2>4 DEF TypeOK
  <2> QED BY <2>3, <2>4, <2>5, <2>6
<1>4. CASE Stopped(a)
  <2>1. At(a, "starting") /\ UNCHANGED <<generation, session, active, stream, published, line, last>>
    BY <1>4 DEF Stopped
  <2>2. active = NoPair
    BY <1>4 DEF Stopped, RoomMade
  <2>3. OneStream' /\ stream' \in [Pairs -> Stream] /\ session' \in Session \cup {NoSession}
        /\ published' \in {"idle", "playing", "paused"} /\ last' \in {"play", "stop", "void"}
    BY <2>1 DEF OneStream, Playing, TypeOK
  <2> QED BY <1>1, <1>2, <2>1, <2>2, <2>3, HolderWaits
<1> QED BY <1>3, <1>4

(* The new pair: there is room for it, since its starter holds the lock.   *)
LEMMA StartKeeps ==
    ASSUME IInv, NEW a \in Actors, StartSucceeds(a) \/ StartFails(a)
    PROVE  IInv'
<1> USE DEF IInv
<1>1. {"leaving", "notifying"} \subseteq Pcs \ {"clearing"}
  BY DEF Pcs
<1>2. line # <<>> /\ Head(line) = a /\ op[a].pc = "starting"
  BY DEF StartSucceeds, StartFails, LockHeld, Holding
<1>3. active = NoPair
  BY <1>2 DEF RoomMade
<1>4. session \in Session \cup {NoSession} /\ stream \in [Pairs -> Stream] /\ op[a] \in Op
  BY DEF TypeOK
<1>5. CASE StartSucceeds(a)
  <2>1. PICK p \in Pairs :
          /\ active' = p
          /\ stream' = [stream EXCEPT ![p] =
               [phase |-> "running", generation |-> op[a].generation, born |-> op[a].born,
                item |-> op[a].item, blank |-> op[a].blank]]
          /\ session' = Adopted(a, p)
    BY <1>5 DEF StartSucceeds
  <2>2. published' = "playing" /\ At(a, "notifying") /\ UNCHANGED <<generation, line, last>>
    BY <1>5 DEF StartSucceeds
  <2> DEFINE r == [phase |-> "running", generation |-> op[a].generation, born |-> op[a].born,
                   item |-> op[a].item, blank |-> op[a].blank]
  <2>3. r \in Stream
    BY <1>4 DEF Stream, StreamPhases, Op
  <2>4. stream' = [stream EXCEPT ![p] = r]
    BY <2>1
  <2> HIDE DEF r
  <2>5. stream' \in [Pairs -> Stream] /\ \A q \in Pairs \ {p} : stream'[q] = stream[q]
    BY <1>4, <2>3, <2>4
  <2>6. OneStream'
    <3> SUFFICES ASSUME NEW q \in Pairs, q # p, Playing(q)' PROVE FALSE
      BY <2>1 DEF OneStream
    <3>1. Playing(q)
      BY <2>5 DEF Playing
    <3> QED BY <1>3, <3>1, Constants DEF OneStream
  <2>7. session' \in Session \cup {NoSession}
    <3>1. session \in Session => [session EXCEPT !.pair = p] \in Session
      BY DEF Session
    <3> QED BY <1>4, <2>1, <3>1 DEF Adopted
  <2>8. /\ op' \in [Actors -> Op] /\ TargetsExist' /\ op'[a].pc = "notifying"
        /\ \A b \in Actors \ {a} : op'[b] = op[b]
    BY <1>1, <2>2, Moves
  <2>9. LockHeld' /\ RoomMade'
    BY <1>2, <2>2, <2>8, HolderMoves
  <2>10. TypeOK'
    BY <2>1, <2>2, <2>5, <2>7, <2>8 DEF TypeOK
  <2> QED BY <2>6, <2>8, <2>9, <2>10
<1>6. CASE StartFails(a)
  <2>1. UNCHANGED <<generation, active, stream, line, last>>
    BY <1>6 DEF StartFails
  <2>2. OneStream' /\ stream' \in [Pairs -> Stream] /\ last' \in {"play", "stop", "void"}
    BY <2>1 DEF OneStream, Playing, TypeOK
  <2>3. PICK pc \in {"leaving", "notifying"} : At(a, pc)
    BY <1>6 DEF StartFails
  <2>4. published' \in {published, "idle"}
    BY <1>6 DEF StartFails
  <2>5. session' \in Session \cup {NoSession}
    <3>1. session \in Session => [session EXCEPT !.status = "failed"] \in Session
      BY DEF Session, Statuses
    <3> QED BY <1>4, <1>6, <3>1 DEF StartFails
  <2>6. published' \in {"idle", "playing", "paused"}
    BY <2>4 DEF TypeOK
  <2> QED BY <1>1, <1>2, <2>1, <2>2, <2>3, <2>5, <2>6, HolderWaits
<1> QED BY <1>5, <1>6

(* Giving the lock back lets the next in line have it.                     *)
LEMMA LeaveKeeps ==
    ASSUME IInv, NEW a \in Actors, Leave(a)
    PROVE  IInv'
<1> USE DEF IInv
<1>1. /\ op' = [op EXCEPT ![a] = Idle] /\ line' = Tail(line)
      /\ UNCHANGED <<generation, session, active, stream, published, last>>
  BY DEF Leave
<1>2. op[a].pc \in Holding
  BY DEF Leave, Holding
<1>3. line # <<>> /\ Head(line) = a
  BY <1>2 DEF LockHeld
<1>4. op \in [Actors -> Op] /\ line \in Seq(Actors)
  BY DEF TypeOK
<1>5. /\ op' \in [Actors -> Op] /\ op'[a] = Idle
      /\ \A b \in Actors \ {a} : op'[b] = op[b]
  BY <1>1, <1>4, IdleIs
<1>6. line' \in Seq(Actors)
  BY <1>1, <1>3, <1>4
<1>7. \A b \in Actors : op'[b].pc \notin Holding
  BY <1>3, <1>5, IdleIs DEF LockHeld, Holding
<1>8. TargetsExist' /\ LockHeld' /\ RoomMade'
  BY <1>5, <1>7, IdleIs DEF TargetsExist, LockHeld, RoomMade, Holding
<1>9. TypeOK'
  BY <1>1, <1>5, <1>6 DEF TypeOK
<1> QED BY <1>1, <1>8, <1>9 DEF OneStream, Playing

-----------------------------------------------------------------------------
(* Processes and their watchers.                                           *)

(* A pair that ends does not play; who forgets it forgets no other.        *)
LEMMA PairEnds ==
    ASSUME TypeOK, OneStream, NEW p \in Pairs, NEW r \in Stream, r.phase \notin {"running", "paused"},
           stream' = [stream EXCEPT ![p] = r],
           active' = active \/ (active' = NoPair /\ active = p)
    PROVE  stream' \in [Pairs -> Stream] /\ OneStream' /\ active' \in {active, NoPair}
<1>1. stream \in [Pairs -> Stream]
  BY DEF TypeOK
<1>2. stream' \in [Pairs -> Stream] /\ stream'[p] = r /\ \A q \in Pairs \ {p} : stream'[q] = stream[q]
  BY <1>1
<1> QED BY <1>2 DEF OneStream, Playing

(* What a pair that is gone is.                                            *)
LEMMA GoneIs == GoneStream \in Stream /\ GoneStream.phase = "gone"
BY Constants DEF GoneStream, Stream, StreamPhases

(* Processes exit.                                                         *)
LEMMA ExitKeeps ==
    ASSUME IInv, NEW p \in Pairs, Exit(p)
    PROVE  IInv'
<1> USE DEF IInv
<1>1. PICK phase \in {"finished", "broken"} : stream' = [stream EXCEPT ![p].phase = phase]
  BY DEF Exit
<1>2. UNCHANGED <<generation, session, active, published, line, op, last>>
  BY DEF Exit
<1> DEFINE r == [stream[p] EXCEPT !.phase = phase]
<1>3. stream \in [Pairs -> Stream]
  BY DEF TypeOK
<1>4. r \in Stream /\ r.phase = phase
  BY <1>3 DEF Stream, StreamPhases
<1>5. stream' = [stream EXCEPT ![p] = r]
  BY <1>1
<1> HIDE DEF r
<1>6. stream' \in [Pairs -> Stream] /\ OneStream'
  BY <1>2, <1>4, <1>5, PairEnds
<1>7. TypeOK'
  BY <1>2, <1>6 DEF TypeOK
<1> QED BY <1>2, <1>6, <1>7 DEF TargetsExist, LockHeld, RoomMade

(* The watcher wakes up, before it has the lock.                           *)
LEMMA WatchedKeeps ==
    ASSUME IInv, NEW p \in Pairs, Watched(p)
    PROVE  IInv'
<1> USE DEF IInv
<1>1. generation' = generation /\ session' = session /\ last' = last
  BY DEF Watched
<1>2. p \in Actors /\ op[p].pc \notin Holding
  BY Constants DEF Watched, Holding
<1>3. \/ /\ stream' = [stream EXCEPT ![p] = GoneStream]
         /\ active' = active \/ (active' = NoPair /\ active = p)
         /\ published' \in {published, "idle"} /\ UNCHANGED <<line, op>>
      \/ /\ Join(p, [Idle EXCEPT !.kind = "ended", !.born = session.born])
         /\ session # NoSession /\ UNCHANGED <<stream, active, published>>
  BY DEF Watched
<1>4. CASE /\ stream' = [stream EXCEPT ![p] = GoneStream]
           /\ active' = active \/ (active' = NoPair /\ active = p)
           /\ published' \in {published, "idle"} /\ UNCHANGED <<line, op>>
  <2>1. stream' \in [Pairs -> Stream] /\ OneStream' /\ active' \in {active, NoPair}
    BY <1>4, GoneIs, PairEnds
  <2>2. TypeOK'
    BY <1>1, <1>4, <2>1 DEF TypeOK
  <2> QED BY <1>4, <2>1, <2>2 DEF TargetsExist, LockHeld, RoomMade
<1>5. CASE /\ Join(p, [Idle EXCEPT !.kind = "ended", !.born = session.born])
           /\ session # NoSession /\ UNCHANGED <<stream, active, published>>
  <2> DEFINE request == [Idle EXCEPT !.kind = "ended", !.born = session.born]
  <2>1. session.born \in Nat /\ "ended" \in Kinds
    BY <1>5 DEF TypeOK, Session, Kinds
  <2>2. request \in Op /\ request.kind = "ended"
    BY <2>1, IdleIs DEF Op
  <2>3. Join(p, request)
    BY <1>5
  <2> HIDE DEF request
  <2>4. /\ op' \in [Actors -> Op] /\ line' \in Seq(Actors)
        /\ TargetsExist' /\ LockHeld' /\ RoomMade'
    BY <1>2, <1>5, <2>2, <2>3, Joined
  <2>5. TypeOK'
    BY <1>1, <1>5, <2>4 DEF TypeOK
  <2> QED BY <1>5, <2>4, <2>5 DEF OneStream, Playing
<1> QED BY <1>3, <1>4, <1>5

(* The watcher under the lock.                                             *)
LEMMA EndedKeeps ==
    ASSUME IInv, NEW p \in Pairs, EnterEnded(p)
    PROVE  IInv'
<1> USE DEF IInv
<1>1. p \in Actors /\ line # <<>> /\ Head(line) = p /\ op[p].kind = "ended"
  BY Constants, GrantedHolds DEF EnterEnded
<1>2. /\ stream' = [stream EXCEPT ![p] = GoneStream]
      /\ UNCHANGED <<generation, line, last>>
  BY DEF EnterEnded
<1>3. op[p] \in Op /\ session \in Session \cup {NoSession} /\ generation \in Nat
      /\ "entered" \in Pcs /\ {"leaving", "notifying"} \subseteq Pcs \ {"clearing"}
  BY Constants DEF TypeOK, Pcs
<1>4. CASE ~StillOwns(p)
  <2>1. At(p, "leaving") /\ UNCHANGED <<session, active, published>>
    BY <1>4 DEF EnterEnded
  <2>2. stream' \in [Pairs -> Stream] /\ OneStream'
    BY <1>2, <2>1, GoneIs, PairEnds
  <2>3. published' \in {"idle", "playing", "paused"} /\ last' \in {"play", "stop", "void"}
    BY <1>2, <2>1 DEF TypeOK
  <2> QED BY <1>1, <1>2, <1>3, <2>1, <2>2, <2>3, HolderWaits
<1>5. CASE StillOwns(p)
  <2> DEFINE natural == stream[p].phase = "finished"
             goesOn  == session.repeat # "off" \/ session.index < Items
             index   == CASE session.repeat = "one" -> session.index
                          [] session.index < Items  -> session.index + 1
                          [] OTHER                  -> 1
             history == IF session.repeat = "one" THEN session.history
                        ELSE Append(session.history, session.index)
             o == [op[p] EXCEPT !.pc = "entered", !.item = index,
                                !.generation = generation, !.blank = session.blank]
  <2>1. active = p /\ session \in Session
    BY <1>3, <1>5 DEF StillOwns
  <2>2. active' = NoPair
    BY <1>5 DEF EnterEnded
  <2>3. stream' \in [Pairs -> Stream] /\ OneStream'
    BY <1>2, <2>1, <2>2, GoneIs, PairEnds
  <2>4. CASE natural /\ goesOn
    <3>1. /\ session' = [session EXCEPT !.pair = NoPair, !.status = "playing",
                                        !.index = index, !.history = history]
          /\ op' = [op EXCEPT ![p] = o] /\ published' = published
      BY <1>5, <2>4 DEF EnterEnded
    <3>2. session.index \in 1 .. Items /\ session.history \in Seq(1 .. Items) /\ session.blank \in BOOLEAN
      BY <2>1 DEF Session
    <3>3. index \in 1 .. Items
      BY <3>2, Constants
    <3>4. history \in Seq(1 .. Items)
      <4>1. Append(session.history, session.index) \in Seq(1 .. Items)
        BY <3>2
      <4> QED BY <3>2, <4>1
    <3> HIDE DEF index, history
    <3>5. index \in 0 .. Items
      BY <3>3, Constants
    <3>6. o \in Op /\ o.pc = "entered" /\ o.kind = "ended"
      BY <1>1, <1>3, <3>2, <3>5 DEF Op
    <3>7. session' \in Session
      BY <2>1, <3>1, <3>3, <3>4 DEF Session, Statuses
    <3> HIDE DEF o
    <3>8. op' \in [Actors -> Op] /\ TargetsExist' /\ LockHeld' /\ RoomMade'
      BY <1>1, <1>2, <3>1, <3>6, HolderActs
    <3>9. TypeOK'
      BY <1>2, <2>2, <2>3, <3>1, <3>7, <3>8 DEF TypeOK
    <3> QED BY <2>3, <3>8, <3>9
  <2>5. CASE ~(natural /\ goesOn)
    <3>1. /\ session' = [session EXCEPT !.pair = NoPair,
                                        !.status = IF natural THEN "completed" ELSE "failed",
                                        !.blank = @ \/ natural]
          /\ published' = "idle" /\ At(p, "notifying")
      BY <1>5, <2>5 DEF EnterEnded
    <3>2. session' \in Session
      BY <2>1, <3>1 DEF Session, Statuses
    <3>3. /\ op' \in [Actors -> Op] /\ TargetsExist' /\ op'[p].pc = "notifying"
          /\ \A b \in Actors \ {p} : op'[b] = op[b]
      BY <1>1, <1>3, <3>1, Moves
    <3>4. LockHeld' /\ RoomMade'
      BY <1>1, <1>2, <3>3, HolderMoves
    <3>5. TypeOK'
      BY <1>2, <2>2, <2>3, <3>1, <3>2, <3>3 DEF TypeOK
    <3> QED BY <2>3, <3>3, <3>4, <3>5
  <2> QED BY <2>4, <2>5
<1> QED BY <1>4, <1>5

-----------------------------------------------------------------------------
(* The inductive invariant holds of every behaviour.                       *)
THEOREM Invariance == Spec => []IInv
<1>1. Init => IInv
  <2> SUFFICES ASSUME Init PROVE IInv
    OBVIOUS
  <2>1. TypeOK
    BY Constants, IdleIs, GoneIs DEF Init, TypeOK
  <2>2. OneStream
    BY GoneIs DEF Init, OneStream, Playing
  <2>3. TargetsExist /\ LockHeld /\ RoomMade
    BY IdleIs DEF Init, TargetsExist, LockHeld, RoomMade, Holding
  <2> QED BY <2>1, <2>2, <2>3 DEF IInv
<1>2. IInv /\ [Next]_vars => IInv'
  <2> SUFFICES ASSUME IInv, [Next]_vars PROVE IInv'
    OBVIOUS
  <2>1. ASSUME NEW c \in Commands,
               \/ \E kind \in {"play", "queue"} : Replace(c, kind)
               \/ ControlNext(c) \/ ControlPrevious(c) \/ ControlPlay(c) \/ ControlPause(c)
               \/ ControlRepeat(c) \/ Pause(c) \/ Resume(c)
               \/ Stop(c) \/ StopEnds(c) \/ LinkLost(c) \/ ScheduledStop(c)
        PROVE  IInv'
    BY <2>1, ReplaceKeeps, ControlsKeep, SignalKeeps, StopKeeps
  <2>2. ASSUME NEW a \in Actors, Locked(a) PROVE IInv'
    BY <2>2, EnterKeeps, QueueKeeps, SkipsKeep, StopOldKeeps, StartKeeps, LeaveKeeps DEF Locked
  <2>3. ASSUME NEW p \in Pairs, Exit(p) \/ Watched(p) \/ EnterEnded(p) PROVE IInv'
    BY <2>3, ExitKeeps, WatchedKeeps, EndedKeeps
  <2>4. CASE UNCHANGED vars
    BY <2>4 DEF vars, IInv, TypeOK, TargetsExist, LockHeld, RoomMade, OneStream, Playing
  <2> QED BY <2>1, <2>2, <2>3, <2>4 DEF Next
<1> QED BY <1>1, <1>2, PTL DEF Spec

(* Every variable stays in its range.                                      *)
THEOREM TypeCorrect == Spec => []TypeOK
<1>1. IInv => TypeOK
  BY DEF IInv
<1> QED BY <1>1, Invariance, PTL

(* Only the active pair ever plays: a speaker never mixes two streams, and *)
(* no stream escapes the next stop.                                        *)
THEOREM OneStreamAlways == Spec => []OneStream
<1>1. IInv => OneStream
  BY DEF IInv
<1> QED BY <1>1, Invariance, PTL
-----------------------------------------------------------------------------
(* The order of requests: who holds which generation, what the session     *)
(* knows of its pair, and what is left once the newest request has been    *)
(* served.  Together with IInv this is inductive, and NewestPlayWins,      *)
(* NoStrandedQueue and EndMovesItsOwnItem follow from it.                  *)

(* What an actor asks for before it has the lock.                          *)
Asking(a) == op[a].pc \in {"arriving", "waiting"}

(* It asks with a generation of its own, maybe the newest.                 *)
Claims(a) == Asking(a) /\ op[a].generation # 0
Newest(a) == Claims(a) /\ op[a].generation = generation

(* A generation is taken by one request, and only by one that replaces     *)
(* playback.                                                               *)
OwnGenerations ==
    /\ \A a \in Actors : Claims(a) =>
         /\ op[a].generation <= generation
         /\ op[a].kind \in {"play", "queue", "next", "previous", "restart", "resume"}
    /\ \A a \in Actors : Asking(a) /\ op[a].kind \in {"play", "queue", "next", "previous", "restart"}
                           => op[a].generation # 0
    /\ \A a, b \in Actors :
         (Claims(a) /\ Claims(b) /\ op[a].generation = op[b].generation) => a = b

(* The session the newest request saw is still the one.                    *)
NewestKnows ==
    \A a \in Actors : Newest(a) =>
      IF op[a].kind \in {"play", "queue"} THEN session = NoSession
      ELSE session # NoSession /\ session.born = op[a].born

(* A session has a generation, and a failed one no pair.                   *)
SessionSound ==
    session # NoSession => /\ session.generation > 0
                           /\ session.status = "failed" => session.pair = NoPair

(* Whoever starts a pair for a queue starts the item the queue is at.      *)
HolderKnows ==
    \A a \in Actors :
      /\ op[a].pc \in {"entered", "stopping", "starting"} =>
           \/ session = NoSession
           \/ /\ op[a].kind # "play"
              /\ session.born = op[a].born /\ session.generation = op[a].generation
              /\ session.index = op[a].item /\ session.pair = NoPair
              /\ session.status # "failed"
      /\ op[a].pc = "clearing" =>
           session = NoSession \/ (session.born = op[a].born /\ session.pair = NoPair)

(* The pair of a queue plays its item, or is gone.                         *)
PairIsItem ==
    \A p \in Pairs : (session # NoSession /\ session.pair = p) =>
      \/ stream[p] = GoneStream
      \/ /\ stream[p].born = session.born /\ stream[p].generation = session.generation
         /\ stream[p].item = session.index

(* A watcher that waits for the lock has seen the session of its pair.     *)
WatcherKnows ==
    \A p \in Pairs : (Asking(p) /\ session # NoSession /\ session.pair = p)
                       => op[p].kind = "ended" /\ session.born = op[p].born

Starting == {"clearing", "entered", "stopping", "starting"}

(* Once the newest request has the lock, or has given it back, everything  *)
(* left is of its generation.                                              *)
Settled ==
    (last = "play" /\ \A a \in Actors : ~Newest(a)) =>
      /\ session # NoSession => session.generation = generation
      /\ \A a \in Actors : op[a].pc \in {"entered", "stopping", "starting"}
                             => op[a].generation = generation
      /\ \A p \in Pairs : Playing(p) =>
           stream[p].generation = generation \/ \E a \in Actors : op[a].pc = "entered"
      /\ (session # NoSession /\ session.status \in {"playing", "paused"}) =>
           \/ \E a \in Actors : op[a].pc \in Starting
           \/ /\ active # NoPair /\ session.pair = active
              /\ stream[active].phase \in {"running", "paused", "finished", "broken"}

Order == OwnGenerations /\ NewestKnows /\ SessionSound /\ HolderKnows /\ PairIsItem
         /\ WatcherKnows /\ Settled

-----------------------------------------------------------------------------
(* No session is not a session.                                            *)
LEMMA SomeSession == NoSession \notin Session
BY DEF NoSession, Session

(* What At and Join change of an actor.                                    *)
LEMMA AtIs ==
    ASSUME TypeOK, NEW a \in Actors, NEW pc \in Pcs, At(a, pc)
    PROVE  /\ op'[a].pc = pc /\ op'[a].kind = op[a].kind /\ op'[a].born = op[a].born
           /\ op'[a].generation = op[a].generation /\ op'[a].item = op[a].item
           /\ \A b \in Actors \ {a} : op'[b] = op[b]
<1>1. op \in [Actors -> Op]
  BY DEF TypeOK
<1>2. op'[a] = [op[a] EXCEPT !.pc = pc] /\ \A b \in Actors \ {a} : op'[b] = op[b]
  BY <1>1 DEF At, Op
<1> QED BY <1>1, <1>2 DEF Op

(* Joining the line is asking, and leaves the other actors alone.          *)
LEMMA JoinIs ==
    ASSUME TypeOK, NEW a \in Actors, NEW request \in Op, Join(a, request)
    PROVE  /\ Asking(a)' /\ op'[a].kind = request.kind /\ op'[a].born = request.born
           /\ op'[a].generation = request.generation
           /\ \A b \in Actors \ {a} : op'[b] = op[b]
<1> DEFINE new == [request EXCEPT !.pc = IF line = <<>> THEN "arriving" ELSE "waiting"]
<1>1. op' = [op EXCEPT ![a] = new] /\ op \in [Actors -> Op]
  BY DEF TypeOK, Join
<1>2. /\ new.kind = request.kind /\ new.born = request.born /\ new.generation = request.generation
      /\ new.pc \in {"arriving", "waiting"}
  BY DEF Op
<1> HIDE DEF new
<1>3. op'[a] = new /\ \A b \in Actors \ {a} : op'[b] = op[b]
  BY <1>1
<1> QED BY <1>2, <1>3 DEF Asking

(* What becomes of a pair keeps whose it was.                              *)
StreamsKept ==
    \A p \in Pairs :
      \/ stream'[p] = stream[p] \/ stream'[p] = GoneStream
      \/ /\ stream[p].phase # "gone" /\ stream'[p].born = stream[p].born
         /\ stream'[p].generation = stream[p].generation /\ stream'[p].item = stream[p].item

(* After the active pair is stopped nothing plays, and every pair is whose *)
(* it was.                                                                 *)
LEMMA StopActiveIs ==
    ASSUME TypeOK, OneStream, StopActive
    PROVE  active' = NoPair /\ StreamsKept /\ \A p \in Pairs : ~Playing(p)'
<1>1. active' = NoPair /\ stream \in [Pairs -> Stream] /\ active \in Pairs \cup {NoPair}
  BY DEF StopActive, TypeOK
<1>2. CASE active # NoPair /\ Playing(active)
  <2>1. stream' = [stream EXCEPT ![active].phase = "signalled"] /\ active \in Pairs
    BY <1>1, <1>2 DEF StopActive
  <2>2. \A p \in Pairs \ {active} : stream'[p] = stream[p]
    BY <1>1, <2>1
  <2>3. /\ stream'[active].phase = "signalled" /\ stream'[active].born = stream[active].born
        /\ stream'[active].generation = stream[active].generation
        /\ stream'[active].item = stream[active].item
    BY <1>1, <2>1 DEF Stream
  <2>4. stream[active].phase # "gone"
    BY <1>2 DEF Playing
  <2>5. StreamsKept
    BY <2>2, <2>3, <2>4 DEF StreamsKept
  <2>6. ASSUME NEW p \in Pairs PROVE ~Playing(p)'
    BY <2>2, <2>3 DEF Playing, OneStream
  <2> QED BY <1>1, <2>5, <2>6
<1>3. CASE ~(active # NoPair /\ Playing(active))
  <2>1. stream' = stream
    BY <1>3 DEF StopActive
  <2> QED BY <1>1, <1>3, <2>1, Constants DEF StreamsKept, OneStream, Playing
<1> QED BY <1>2, <1>3

(* Pausing and resuming starts and stops no pair.                          *)
LEMMA SignalledIs ==
    ASSUME TypeOK, NEW from \in {"running", "paused"}, NEW to \in {"running", "paused"},
           Signalled(from, to)
    PROVE  /\ StreamsKept
           /\ \A p \in Pairs : /\ stream'[p].generation = stream[p].generation
                               /\ Playing(p)' <=> Playing(p)
                               /\ stream'[p].phase = stream[p].phase \/ Playing(p)'
<1>1. stream \in [Pairs -> Stream] /\ active \in Pairs \cup {NoPair}
  BY DEF TypeOK
<1>2. CASE active # NoPair /\ stream[active].phase = from
  <2>1. stream' = [stream EXCEPT ![active].phase = to] /\ active \in Pairs
    BY <1>1, <1>2 DEF Signalled
  <2>2. \A p \in Pairs \ {active} : stream'[p] = stream[p]
    BY <1>1, <2>1
  <2>3. /\ stream'[active].phase = to /\ stream'[active].born = stream[active].born
        /\ stream'[active].generation = stream[active].generation
        /\ stream'[active].item = stream[active].item
    BY <1>1, <2>1 DEF Stream
  <2>4. stream[active].phase # "gone"
    BY <1>2
  <2> QED BY <1>2, <2>2, <2>3, <2>4 DEF StreamsKept, Playing
<1>3. CASE ~(active # NoPair /\ stream[active].phase = from)
  <2>1. stream' = stream
    BY <1>3 DEF Signalled
  <2> QED BY <2>1 DEF StreamsKept, Playing
<1> QED BY <1>2, <1>3

(* The session is the one it was.                                          *)
SameSession ==
    /\ session' = NoSession <=> session = NoSession
    /\ session # NoSession => session'.born = session.born

(* Its pair, its item and its generation are too, and it has not failed    *)
(* with a pair or while somebody starts one.                               *)
SessionKept ==
    /\ SameSession
    /\ session # NoSession =>
         /\ session'.generation = session.generation /\ session'.pair = session.pair
         /\ session'.index = session.index
         /\ session'.status = "failed" =>
              \/ session.status = "failed"
              \/ session.pair = NoPair /\ \A b \in Actors : op'[b].pc \notin Starting

-----------------------------------------------------------------------------
(* Generations.                                                            *)

(* A step after which nobody asks for anything new.                        *)
LEMMA AsksNoMore ==
    ASSUME OwnGenerations, NewestKnows, generation' = generation, SameSession,
           \A b \in Actors : op'[b] = op[b] \/ ~Asking(b)'
    PROVE  OwnGenerations' /\ NewestKnows'
<1>1. \A b \in Actors : Asking(b)' => op'[b] = op[b] /\ Asking(b)
  BY DEF Asking
<1> HIDE DEF Asking
<1> QED BY <1>1 DEF OwnGenerations, NewestKnows, SameSession, Claims, Newest

(* A request that invalidates the session.                                 *)
LEMMA AsksAnew ==
    ASSUME TypeOK, OwnGenerations, generation' = generation + 1, session' = NoSession, NEW a \in Actors,
           \A b \in Actors \ {a} : op'[b] = op[b],
           Asking(a)' => op'[a].kind \in {"play", "queue"} /\ op'[a].generation = generation + 1
    PROVE  OwnGenerations' /\ NewestKnows'
<1>1. generation \in Nat /\ op \in [Actors -> Op]
  BY Constants DEF TypeOK
<1>2. \A b \in Actors : op[b].generation \in Nat
  BY <1>1 DEF Op
<1>3. OwnGenerations'
  BY <1>1, <1>2 DEF OwnGenerations, Claims, Asking
<1>4. NewestKnows'
  BY <1>1, <1>2 DEF OwnGenerations, NewestKnows, Claims, Newest, Asking
<1> QED BY <1>3, <1>4

(* A control, with a generation of its own or none, or a watcher.          *)
LEMMA AsksToo ==
    ASSUME TypeOK, OwnGenerations, NewestKnows, session' = session, NEW a \in Actors,
           \A b \in Actors \ {a} : op'[b] = op[b], Asking(a)',
           \/ /\ op'[a].kind \in {"next", "previous", "restart", "resume"}
              /\ generation' = generation + 1 /\ op'[a].generation = generation + 1
              /\ session # NoSession /\ op'[a].born = session.born
           \/ /\ op'[a].kind \in {"resume", "pause", "repeat", "ended"}
              /\ generation' = generation /\ op'[a].generation = 0
    PROVE  OwnGenerations' /\ NewestKnows'
<1>1. generation \in Nat /\ op \in [Actors -> Op]
  BY Constants DEF TypeOK
<1>2. \A b \in Actors : op[b].generation \in Nat
  BY <1>1 DEF Op
<1>3. OwnGenerations'
  BY <1>1, <1>2 DEF OwnGenerations, Claims, Asking
<1>4. NewestKnows'
  BY <1>1, <1>2 DEF OwnGenerations, NewestKnows, Claims, Newest, Asking
<1> QED BY <1>3, <1>4

-----------------------------------------------------------------------------
(* Sessions and pairs.                                                     *)

(* Without a session there is nothing to say about it.                     *)
LEMMA SessionGone ==
    ASSUME session' = NoSession
    PROVE  SessionSound' /\ HolderKnows' /\ PairIsItem' /\ WatcherKnows'
BY DEF SessionSound, HolderKnows, PairIsItem, WatcherKnows

(* A step after which nobody new is about to start a pair.                 *)
LEMMA SessionStays ==
    ASSUME SessionSound, HolderKnows, PairIsItem, WatcherKnows, SessionKept, StreamsKept,
           \A b \in Actors : \/ op'[b] = op[b]
                             \/ /\ op'[b].pc \notin Starting
                                /\ (b \in Pairs /\ Asking(b)') =>
                                     op'[b].kind = "ended" /\ op'[b].born = session.born
    PROVE  SessionSound' /\ HolderKnows' /\ PairIsItem' /\ WatcherKnows'
<1>1. SessionSound'
  BY DEF SessionSound, SessionKept, SameSession
<1>2. HolderKnows'
  BY DEF HolderKnows, SessionKept, SameSession, Starting
<1>3. PairIsItem'
  BY DEF PairIsItem, SessionKept, SameSession, StreamsKept, GoneStream
<1>4. WatcherKnows'
  <2> SUFFICES ASSUME NEW p \in Pairs, Asking(p)', session' # NoSession, session'.pair = p
               PROVE  op'[p].kind = "ended" /\ session'.born = op'[p].born
    BY DEF WatcherKnows
  <2>1. p \in Actors
    BY Constants
  <2>2. CASE op'[p] = op[p]
    BY <2>1, <2>2 DEF WatcherKnows, SessionKept, SameSession, Asking
  <2>3. CASE op'[p] # op[p]
    BY <2>1, <2>3 DEF SessionKept, SameSession
  <2> QED BY <2>2, <2>3
<1> QED BY <1>1, <1>2, <1>3, <1>4

-----------------------------------------------------------------------------
(* The newest request.                                                     *)

Going == {"running", "paused", "finished", "broken"}

(* While the newest request waits for the lock, nothing has settled.       *)
LEMMA NewestAsks ==
    ASSUME (\E a \in Actors : Newest(a)') \/ last' # "play"
    PROVE  Settled'
BY DEF Settled

(* A step of somebody who is not the newest and starts nothing.            *)
LEMMA SettledStays ==
    ASSUME TypeOK, Settled, SessionKept, generation' = generation, last' = "play" => last = "play",
           \A b \in Actors : \/ op'[b] = op[b]
                             \/ /\ ~Newest(b) /\ op'[b].pc \notin Starting /\ op[b].pc # "entered"
                                /\ session = NoSession \/ op[b].pc \notin Starting,
           session # NoSession /\ session'.status \in {"playing", "paused"}
             => session.status \in {"playing", "paused"},
           \A p \in Pairs : Playing(p)' => Playing(p) /\ stream'[p].generation = stream[p].generation,
           (session # NoSession /\ active # NoPair /\ stream[active].phase \in Going)
             => active' = active /\ stream'[active].phase \in Going
    PROVE  Settled'
<1> SUFFICES ASSUME last' = "play", \A b \in Actors : ~Newest(b)'
             PROVE  /\ session' # NoSession => session'.generation = generation'
                    /\ \A a \in Actors : op'[a].pc \in {"entered", "stopping", "starting"}
                                           => op'[a].generation = generation'
                    /\ \A p \in Pairs : Playing(p)' =>
                         stream'[p].generation = generation' \/ \E a \in Actors : op'[a].pc = "entered"
                    /\ (session' # NoSession /\ session'.status \in {"playing", "paused"}) =>
                         \/ \E a \in Actors : op'[a].pc \in Starting
                         \/ /\ active' # NoPair /\ session'.pair = active'
                            /\ stream'[active'].phase \in {"running", "paused", "finished", "broken"}
  BY DEF Settled
<1>1. \A b \in Actors : ~Newest(b)
  BY DEF Newest, Claims, Asking
<1>2. last = "play"
  OBVIOUS
<1>3. session' # NoSession => session'.generation = generation'
  BY <1>1, <1>2 DEF Settled, SessionKept, SameSession
<1>4. \A a \in Actors : op'[a].pc \in {"entered", "stopping", "starting"} => op'[a].generation = generation'
  BY <1>1, <1>2 DEF Settled, Starting
<1>5. \A p \in Pairs : Playing(p)' =>
         stream'[p].generation = generation' \/ \E a \in Actors : op'[a].pc = "entered"
  BY <1>1, <1>2 DEF Settled
<1>6. ASSUME session' # NoSession, session'.status \in {"playing", "paused"}
      PROVE  \/ \E a \in Actors : op'[a].pc \in Starting
             \/ /\ active' # NoPair /\ session'.pair = active'
                /\ stream'[active'].phase \in {"running", "paused", "finished", "broken"}
  <2>1. session # NoSession /\ session.status \in {"playing", "paused"} /\ session'.pair = session.pair
    BY <1>6 DEF SessionKept, SameSession
  <2>2. CASE \E a \in Actors : op[a].pc \in Starting
    BY <2>1, <2>2
  <2>3. CASE active # NoPair /\ session.pair = active /\ stream[active].phase \in Going
    BY <2>1, <2>3 DEF Going
  <2> QED BY <1>1, <1>2, <2>1, <2>2, <2>3 DEF Settled, Going
<1> QED BY <1>3, <1>4, <1>5, <1>6

(* The holder is about to start a pair of the newest generation.           *)
LEMMA SettledStarts ==
    ASSUME NEW a \in Actors, op'[a].pc \in Starting,
           \A b \in Actors \ {a} : op'[b].pc \notin Starting,
           (last' = "play" /\ \A b \in Actors : ~Newest(b)') =>
             /\ session' # NoSession => session'.generation = generation'
             /\ op'[a].pc # "clearing" => op'[a].generation = generation'
             /\ op'[a].pc = "entered" \/ \A p \in Pairs : ~Playing(p)'
    PROVE  Settled'
<1>1. \A b \in Actors : op'[b].pc \in {"entered", "stopping", "starting"}
                        => b = a /\ op'[a].pc # "clearing"
  BY DEF Starting
<1> QED BY <1>1 DEF Settled

(* The holder is the only one that starts a pair.                          *)
LEMMA OnlyHolder ==
    ASSUME LockHeld, NEW a \in Actors, Head(line) = a
    PROVE  \A b \in Actors \ {a} : op[b].pc \notin Starting
BY DEF LockHeld, Holding, Starting

-----------------------------------------------------------------------------
(* Each action keeps the order.                                            *)

(* Everything but the newest request, when the session is kept.            *)
LEMMA KeptOrders ==
    ASSUME Order, generation' = generation, SessionKept, StreamsKept,
           \A b \in Actors : op'[b] = op[b] \/ (~Asking(b)' /\ op'[b].pc \notin Starting),
           Settled'
    PROVE  Order'
<1>1. OwnGenerations' /\ NewestKnows'
  BY AsksNoMore DEF Order, SessionKept
<1>2. SessionSound' /\ HolderKnows' /\ PairIsItem' /\ WatcherKnows'
  BY SessionStays DEF Order
<1> QED BY <1>1, <1>2 DEF Order

(* play_url and start_queue.                                               *)
LEMMA ReplaceOrders ==
    ASSUME IInv, Order, NEW c \in Commands, NEW kind \in {"play", "queue"}, Replace(c, kind)
    PROVE  Order'
<1> DEFINE request == [Idle EXCEPT !.kind = kind, !.generation = generation + 1]
<1>1. Invalidate("play") /\ Join(c, request) /\ c \in Actors /\ TypeOK /\ generation \in Nat
  BY Constants DEF Replace, IInv, TypeOK
<1>2. kind \in Kinds /\ generation + 1 \in Nat
  BY <1>1 DEF Kinds
<1>3. request \in Op /\ request.kind = kind /\ request.generation = generation + 1
  BY <1>2, IdleIs DEF Op
<1> HIDE DEF request
<1>4. /\ Asking(c)' /\ op'[c].kind = kind /\ op'[c].generation = generation + 1
      /\ \A b \in Actors \ {c} : op'[b] = op[b]
  BY <1>1, <1>3, JoinIs
<1>5. generation' = generation + 1 /\ session' = NoSession
  BY <1>1 DEF Invalidate
<1>6. OwnGenerations' /\ NewestKnows'
  BY <1>1, <1>4, <1>5, AsksAnew DEF Order
<1>7. Newest(c)'
  BY <1>1, <1>4, <1>5 DEF Newest, Claims
<1> QED BY <1>1, <1>5, <1>6, <1>7, NewestAsks, SessionGone DEF Order

(* The stops, which take a generation and ask for nothing.                 *)
LEMMA InvalidateOrders ==
    ASSUME TypeOK, Order, NEW c \in Actors, NEW o, op' = [op EXCEPT ![c] = o],
           o.pc \notin {"arriving", "waiting"}, Invalidate("stop")
    PROVE  Order'
<1>1. op \in [Actors -> Op]
  BY DEF TypeOK
<1>2. ~Asking(c)' /\ \A b \in Actors \ {c} : op'[b] = op[b]
  BY <1>1 DEF Asking
<1>3. generation' = generation + 1 /\ session' = NoSession /\ last' = "stop"
  BY DEF Invalidate
<1>4. OwnGenerations' /\ NewestKnows'
  BY <1>2, <1>3, AsksAnew DEF Order
<1> QED BY <1>3, <1>4, NewestAsks, SessionGone DEF Order

(* Stop, its end, and the loss of the link.                                *)
LEMMA StopOrders ==
    ASSUME IInv, Order, NEW c \in Commands, Stop(c) \/ StopEnds(c) \/ LinkLost(c) \/ ScheduledStop(c)
    PROVE  Order'
<1>1. c \in Actors /\ TypeOK /\ op \in [Actors -> Op]
  BY Constants DEF IInv, TypeOK
<1>2. ASSUME StopBegins(c) PROVE Order'
  <2> DEFINE halting == [Idle EXCEPT !.kind = "stop", !.pc = "halting"]
             o == AfterStop(halting, Idle)
  <2>1. o \in {halting, Idle} /\ halting.pc = "halting" /\ Idle.pc = "idle"
    BY AfterStopIs DEF Idle
  <2>2. op' = [op EXCEPT ![c] = o] /\ Invalidate("stop")
    BY <1>2 DEF StopBegins
  <2> HIDE DEF halting, o
  <2> QED BY <1>1, <2>1, <2>2, InvalidateOrders
<1>3. CASE LinkLost(c)
  <2> DEFINE o == [Idle EXCEPT !.kind = "stop", !.pc = "scheduled"]
  <2>1. op' = [op EXCEPT ![c] = o] /\ Invalidate("stop") /\ o.pc = "scheduled"
    BY <1>3 DEF LinkLost, Idle
  <2> HIDE DEF o
  <2> QED BY <1>1, <2>1, InvalidateOrders
<1>4. CASE StopEnds(c)
  <2>1. op' = [op EXCEPT ![c] = Idle] /\ UNCHANGED <<generation, session, active, stream, last>>
        /\ op[c].pc = "halting"
    BY <1>4 DEF StopEnds
  <2>2. /\ op'[c].pc = "idle" /\ \A b \in Actors \ {c} : op'[b] = op[b]
    BY <1>1, <2>1, IdleIs
  <2>3. SessionKept /\ StreamsKept
    BY <2>1 DEF SessionKept, SameSession, StreamsKept
  <2>4. /\ ~Newest(c) /\ ~Asking(c)' /\ op'[c].pc \notin Starting
        /\ op[c].pc # "entered" /\ op[c].pc \notin Starting
    BY <2>1, <2>2 DEF Newest, Claims, Asking, Starting
  <2>5. Settled'
    BY <1>1, <2>1, <2>2, <2>3, <2>4, SettledStays DEF Order, Playing
  <2> QED BY <2>1, <2>2, <2>3, <2>4, <2>5, KeptOrders
<1> QED BY <1>2, <1>3, <1>4 DEF Stop, ScheduledStop

(* control_queue up to the lock.                                           *)
LEMMA ControlOrders ==
    ASSUME IInv, Order, NEW c \in Commands, NEW request \in Op, NEW replaces \in BOOLEAN,
           request.kind \in {"next", "previous", "restart", "resume", "pause", "repeat"},
           replaces => request.kind \in {"next", "previous", "restart", "resume"},
           ~replaces => request.kind \in {"resume", "pause", "repeat"},
           Control(c, request, replaces)
    PROVE  Order'
<1> DEFINE new == [request EXCEPT !.born = session.born,
                                  !.generation = IF replaces THEN generation + 1 ELSE 0]
<1>1. /\ Join(c, new) /\ UNCHANGED <<session, active, stream, published>>
      /\ session # NoSession /\ op[c].pc = "idle"
  BY DEF Control, Free
<1>2. c \in Actors /\ TypeOK /\ c \notin Pairs
  BY Constants DEF IInv
<1>3. session.born \in Nat /\ generation \in Nat
  BY <1>1, Constants DEF IInv, TypeOK, Session
<1>4. /\ new \in Op /\ new.kind = request.kind /\ new.born = session.born
      /\ new.generation = IF replaces THEN generation + 1 ELSE 0
  <2>1. (IF replaces THEN generation + 1 ELSE 0) \in Nat
    BY <1>3
  <2> QED BY <2>1, <1>3 DEF Op
<1> HIDE DEF new
<1>5. /\ Asking(c)' /\ op'[c].kind = request.kind /\ op'[c].born = session.born
      /\ op'[c].generation = IF replaces THEN generation + 1 ELSE 0
      /\ \A b \in Actors \ {c} : op'[b] = op[b]
  BY <1>1, <1>2, <1>4, JoinIs
<1>6. generation' = IF replaces THEN generation + 1 ELSE generation
  BY DEF Control
<1>7. OwnGenerations' /\ NewestKnows'
  BY <1>1, <1>2, <1>5, <1>6, AsksToo DEF Order
<1>8. SessionKept /\ StreamsKept
  BY <1>1 DEF SessionKept, SameSession, StreamsKept
<1>9. op'[c].pc \notin Starting /\ op[c].pc \notin Starting /\ op[c].pc # "entered" /\ ~Newest(c)
  BY <1>1, <1>5 DEF Asking, Starting, Newest, Claims
<1>10. SessionSound' /\ HolderKnows' /\ PairIsItem' /\ WatcherKnows'
  BY <1>2, <1>5, <1>8, <1>9, SessionStays DEF Order
<1>11. Settled'
  <2>1. CASE replaces
    <3>1. Newest(c)'
      BY <1>3, <1>5, <1>6, <2>1 DEF Newest, Claims
    <3> QED BY <1>2, <3>1, NewestAsks
  <2>2. CASE ~replaces
    <3>1. generation' = generation /\ last' = last
      BY <2>2 DEF Control
    <3> QED BY <1>1, <1>2, <1>5, <1>8, <1>9, <3>1, SettledStays DEF Order, Playing
  <2> QED BY <2>1, <2>2
<1> QED BY <1>7, <1>10, <1>11 DEF Order

(* The controls, each with the target it computes.                         *)
LEMMA ControlsOrder ==
    ASSUME IInv, Order, NEW c \in Commands,
           ControlNext(c) \/ ControlPrevious(c) \/ ControlPlay(c) \/ ControlPause(c) \/ ControlRepeat(c)
    PROVE  Order'
<1>1. ASSUME NEW kind \in {"next", "previous", "restart"}, NEW target \in 1 .. Items,
             Skip(c, kind, target)
      PROVE  Order'
  <2> DEFINE request == [Idle EXCEPT !.kind = kind, !.target = target]
  <2>1. request \in Op /\ request.kind = kind
    <3>1. kind \in Kinds /\ target \in 0 .. Items
      BY Constants DEF Kinds
    <3> QED BY <3>1, IdleIs DEF Op
  <2>2. Control(c, request, TRUE)
    BY <1>1 DEF Skip
  <2> HIDE DEF request
  <2> QED BY <2>1, <2>2, ControlOrders
<1>2. CASE ControlNext(c)
  <2>1. PICK target \in 1 .. Items : Skip(c, "next", target)
    <3>1. session \in Session /\ session.index \in 1 .. Items
      BY <1>2 DEF ControlNext, IInv, TypeOK, Session
    <3>2. session.index < Items => session.index + 1 \in 1 .. Items
      BY <3>1, Constants
    <3>3. 1 \in 1 .. Items
      BY Constants
    <3> QED BY <1>2, <3>2, <3>3 DEF ControlNext
  <2> QED BY <1>1, <2>1
<1>3. CASE ControlPrevious(c)
  <2> DEFINE back == IF session.history # <<>> THEN Last(session.history) ELSE session.index - 1
  <2>1. session \in Session /\ session.index \in 1 .. Items /\ session.history \in Seq(1 .. Items)
    BY <1>3 DEF ControlPrevious, IInv, TypeOK, Session
  <2>2. CASE Skip(c, "restart", session.index)
    BY <1>1, <2>1, <2>2
  <2>3. CASE session.index > 1 /\ Skip(c, "previous", back)
    <3>1. back \in 1 .. Items
      <4>1. CASE session.history # <<>>
        BY <2>1, <4>1, Histories
      <4>2. CASE session.history = <<>>
        BY <2>1, <2>3, <4>2, Constants
      <4> QED BY <4>1, <4>2
    <3> HIDE DEF back
    <3> QED BY <1>1, <2>3, <3>1
  <2> QED BY <1>3, <2>2, <2>3 DEF ControlPrevious
<1>4. CASE ControlPlay(c)
  <2> DEFINE request == [Idle EXCEPT !.kind = "resume"]
  <2>1. request \in Op /\ request.kind = "resume"
    BY IdleIs DEF Op, Kinds
  <2>2. Control(c, request, session.status = "failed")
    BY <1>4 DEF ControlPlay
  <2> HIDE DEF request
  <2> QED BY <2>1, <2>2, ControlOrders
<1>5. CASE ControlPause(c)
  <2> DEFINE request == [Idle EXCEPT !.kind = "pause"]
  <2>1. request \in Op /\ request.kind = "pause"
    BY IdleIs DEF Op, Kinds
  <2>2. Control(c, request, FALSE)
    BY <1>5 DEF ControlPause
  <2> HIDE DEF request
  <2> QED BY <2>1, <2>2, ControlOrders
<1>6. CASE ControlRepeat(c)
  <2>1. PICK repeat \in Repeats :
          Control(c, [Idle EXCEPT !.kind = "repeat", !.repeat = repeat], FALSE)
    BY <1>6 DEF ControlRepeat
  <2> DEFINE request == [Idle EXCEPT !.kind = "repeat", !.repeat = repeat]
  <2>2. request \in Op /\ request.kind = "repeat"
    BY IdleIs DEF Op, Kinds
  <2>3. Control(c, request, FALSE)
    BY <2>1
  <2> HIDE DEF request
  <2> QED BY <2>2, <2>3, ControlOrders
<1> QED BY <1>2, <1>3, <1>4, <1>5, <1>6

(* Pause and resume outside a queue.                                       *)
LEMMA SignalOrders ==
    ASSUME IInv, Order, NEW c \in Commands, Pause(c) \/ Resume(c)
    PROVE  Order'
<1>1. PICK from \in {"running", "paused"}, to \in {"running", "paused"}, state \in {"playing", "paused"} :
        Signal(c, from, to, state)
  BY DEF Pause, Resume
<1>2. /\ Signalled(from, to) /\ session = NoSession /\ TypeOK
      /\ UNCHANGED <<generation, session, active, op, last>>
  BY <1>1 DEF Signal, Signalled, IInv
<1>3. /\ StreamsKept
      /\ \A p \in Pairs : /\ stream'[p].generation = stream[p].generation
                          /\ Playing(p)' <=> Playing(p)
  BY <1>2, SignalledIs
<1>4. SessionKept
  BY <1>2 DEF SessionKept, SameSession
<1>5. Settled'
  BY <1>2, <1>3, <1>4, SettledStays DEF Order
<1> QED BY <1>2, <1>3, <1>4, <1>5, KeptOrders

-----------------------------------------------------------------------------
(* Under the lock.                                                         *)

(* A step of the holder that is not the newest request, or with which the  *)
(* newest turns void.                                                      *)
LEMMA HolderStays ==
    ASSUME IInv, Order, NEW a \in Actors, NEW pc \in Pcs, At(a, pc),
           pc \notin Starting, pc \notin {"arriving", "waiting"},
           op[a].pc \notin Starting \/ (session = NoSession /\ op[a].pc # "entered"),
           UNCHANGED <<generation, active>>, SessionKept, StreamsKept,
           session # NoSession /\ session'.status \in {"playing", "paused"}
             => session.status \in {"playing", "paused"},
           \A p \in Pairs : /\ Playing(p)' => Playing(p) /\ stream'[p].generation = stream[p].generation
                            /\ stream'[p].phase = stream[p].phase \/ Playing(p)',
           (last' = last /\ ~Newest(a)) \/ last' = "void"
    PROVE  Order'
<1>1. TypeOK /\ op'[a].pc = pc /\ \A b \in Actors \ {a} : op'[b] = op[b]
  BY AtIs DEF IInv
<1>2. active \in Pairs \cup {NoPair}
  BY <1>1 DEF TypeOK
<1>3. active # NoPair /\ stream[active].phase \in Going => stream'[active].phase \in Going
  BY <1>2 DEF Going, Playing
<1>4. Settled'
  <2>1. CASE last' = "void"
    BY <2>1 DEF Settled
  <2>2. CASE last' = last /\ ~Newest(a)
    BY <1>1, <1>3, <2>2, SettledStays DEF Order, Starting
  <2> QED BY <2>1, <2>2
<1>5. ~Asking(a)'
  BY <1>1 DEF Asking
<1> QED BY <1>1, <1>4, <1>5, KeptOrders

(* What a command that is granted the lock was before.                     *)
LEMMA GrantedIs ==
    ASSUME NEW a \in Actors, NEW kinds, Granted(a, kinds)
    PROVE  Asking(a) /\ op[a].pc \notin Starting /\ op[a].kind \in kinds
BY DEF Granted, Asking, Starting

(* The newest request is not stale.                                        *)
LEMMA NewestIsCurrent ==
    ASSUME Order, NEW a \in Actors, Newest(a), op[a].kind \notin {"play", "queue"}
    PROVE  Current(a)
BY DEF Order, NewestKnows, Newest, Current, Fresh

(* The steps with which a command takes the lock and touches no process.   *)
LEMMA EnterOrders ==
    ASSUME IInv, Order, NEW a \in Actors,
           EnterPlay(a) \/ EnterStale(a) \/ EnterRepeat(a) \/ EnterPause(a) \/ EnterResume(a)
    PROVE  Order'
<1>1. PICK kinds : Granted(a, kinds)
  BY DEF EnterPlay, EnterStale, EnterRepeat, EnterPause, EnterResume
<1>2. Head(line) = a /\ Asking(a) /\ op[a].pc \notin Starting
  BY <1>1, GrantedHolds, GrantedIs
<1>3. TypeOK /\ {"entered", "leaving", "notifying"} \subseteq Pcs /\ "leaving" \notin Starting
      /\ "notifying" \notin Starting
  BY DEF IInv, Pcs, Starting
<1>4. (session' = session => SessionKept) /\ (stream' = stream => StreamsKept)
  BY DEF SessionKept, SameSession, StreamsKept
<1>5. stream' = stream =>
        \A p \in Pairs : /\ Playing(p)' => Playing(p) /\ stream'[p].generation = stream[p].generation
                         /\ stream'[p].phase = stream[p].phase \/ Playing(p)'
  BY DEF Playing
<1>6. CASE EnterPlay(a)
  <2>1. op[a].kind = "play" /\ UNCHANGED <<generation, session, active, stream, last>>
    BY <1>6, GrantedIs DEF EnterPlay
  <2>2. CASE ~Fresh(a)
    <3>1. At(a, "leaving") /\ ~Newest(a)
      BY <1>6, <2>2 DEF EnterPlay, Fresh, Newest
    <3> QED BY <1>2, <1>3, <1>4, <1>5, <2>1, <3>1, HolderStays
  <2>3. CASE Fresh(a)
    <3>1. At(a, "entered")
      BY <1>6, <2>3 DEF EnterPlay
    <3>2. /\ op'[a].pc = "entered" /\ op'[a].generation = op[a].generation
          /\ \A b \in Actors \ {a} : op'[b] = op[b]
      BY <1>3, <3>1, AtIs
    <3>3. Newest(a)
      BY <1>2, <2>1, <2>3 DEF Newest, Claims, Order, OwnGenerations, Fresh
    <3>4. session' = NoSession /\ op'[a].generation = generation'
      BY <2>1, <3>2, <3>3 DEF Order, NewestKnows, Newest
    <3>5. OwnGenerations' /\ NewestKnows'
      BY <1>4, <2>1, <3>2, AsksNoMore DEF Order, Asking, SessionKept
    <3>6. \A b \in Actors \ {a} : op'[b].pc \notin Starting
      BY <1>2, <3>2, OnlyHolder DEF IInv
    <3>7. Settled'
      BY <3>2, <3>4, <3>6, SettledStarts DEF Starting
    <3> QED BY <3>4, <3>5, <3>7, SessionGone DEF Order
  <2> QED BY <2>2, <2>3
<1>7. CASE EnterStale(a)
  <2>1. At(a, "leaving") /\ UNCHANGED <<generation, session, active, stream, published, line, last>>
    BY <1>7 DEF EnterStale
  <2>2. ~Newest(a)
    BY <1>7, GrantedIs, NewestIsCurrent DEF EnterStale
  <2> QED BY <1>2, <1>3, <1>4, <1>5, <2>1, <2>2, HolderStays
<1>8. CASE EnterRepeat(a)
  <2>1. /\ At(a, "notifying") /\ session' = [session EXCEPT !.repeat = op[a].repeat]
        /\ UNCHANGED <<generation, active, stream, last>> /\ op[a].kind = "repeat"
    BY <1>8, GrantedIs DEF EnterRepeat
  <2>2. session \in Session /\ op[a] \in Op
    BY <1>3, <1>8 DEF EnterRepeat, Current, TypeOK
  <2>3. session' \in Session
    BY <2>1, <2>2 DEF Session, Op
  <2>6. session # NoSession /\ session' # NoSession
    BY <2>2, <2>3, SomeSession
  <2>7. /\ session'.born = session.born /\ session'.generation = session.generation
        /\ session'.pair = session.pair /\ session'.index = session.index
        /\ session'.status = session.status
    BY <2>1, <2>2 DEF Session
  <2>4. SessionKept /\ session'.status = session.status
    BY <2>6, <2>7 DEF SessionKept, SameSession
  <2>5. ~Newest(a)
    BY <2>1 DEF Newest, Order, OwnGenerations
  <2> QED BY <1>2, <1>3, <1>4, <1>5, <2>1, <2>4, <2>5, HolderStays
<1>9. CASE EnterPause(a)
  <2>1. UNCHANGED <<generation, active, line, last>> /\ op[a].kind = "pause"
    BY <1>9, GrantedIs DEF EnterPause
  <2>2. ~Newest(a)
    BY <2>1 DEF Newest, Order, OwnGenerations
  <2>3. CASE session.status = "playing" /\ session.pair # NoPair
    <3>1. /\ Signalled("running", "paused") /\ At(a, "notifying")
          /\ session' = [session EXCEPT !.status = "paused"]
      BY <1>9, <2>3 DEF EnterPause
    <3>2. session \in Session
      BY <1>3, <1>9 DEF EnterPause, Current, TypeOK
    <3>3. session' \in Session
      BY <3>1, <3>2 DEF Session, Statuses
    <3>6. session # NoSession /\ session' # NoSession
      BY <3>2, <3>3, SomeSession
    <3>7. /\ session'.born = session.born /\ session'.generation = session.generation
          /\ session'.pair = session.pair /\ session'.index = session.index
          /\ session'.status = "paused"
      BY <3>1, <3>2 DEF Session
    <3>4. SessionKept /\ session.status \in {"playing", "paused"}
      BY <2>3, <3>6, <3>7 DEF SessionKept, SameSession
    <3>5. /\ StreamsKept
          /\ \A p \in Pairs : /\ Playing(p)' => Playing(p) /\ stream'[p].generation = stream[p].generation
                              /\ stream'[p].phase = stream[p].phase \/ Playing(p)'
      BY <1>3, <3>1, SignalledIs
    <3> QED BY <1>2, <1>3, <2>1, <2>2, <3>1, <3>4, <3>5, HolderStays
  <2>4. CASE ~(session.status = "playing" /\ session.pair # NoPair)
    <3>1. At(a, "leaving") /\ UNCHANGED <<session, stream, published>>
      BY <1>9, <2>4 DEF EnterPause
    <3> QED BY <1>2, <1>3, <1>4, <1>5, <2>1, <2>2, <3>1, HolderStays
  <2> QED BY <2>3, <2>4
<1>10. CASE EnterResume(a)
  <2> DEFINE resumes == session.status = "paused" /\ session.pair # NoPair /\ active = session.pair
  <2>1. UNCHANGED <<generation, active, line>>
    BY <1>10 DEF EnterResume
  <2>2. (last' = last /\ ~Newest(a)) \/ last' = "void"
    BY <1>10 DEF EnterResume, Newest, Claims
  <2>3. CASE resumes
    <3>1. /\ Signalled("paused", "running") /\ At(a, "notifying")
          /\ session' = [session EXCEPT !.status = "playing"]
      BY <1>10, <2>3 DEF EnterResume
    <3>2. session \in Session
      BY <1>3, <1>10 DEF EnterResume, Current, TypeOK
    <3>3. session' \in Session
      BY <3>1, <3>2 DEF Session, Statuses
    <3>6. session # NoSession /\ session' # NoSession
      BY <3>2, <3>3, SomeSession
    <3>7. /\ session'.born = session.born /\ session'.generation = session.generation
          /\ session'.pair = session.pair /\ session'.index = session.index
          /\ session'.status = "playing"
      BY <3>1, <3>2 DEF Session
    <3>4. SessionKept /\ session.status \in {"playing", "paused"}
      BY <2>3, <3>6, <3>7 DEF SessionKept, SameSession
    <3>5. /\ StreamsKept
          /\ \A p \in Pairs : /\ Playing(p)' => Playing(p) /\ stream'[p].generation = stream[p].generation
                              /\ stream'[p].phase = stream[p].phase \/ Playing(p)'
      BY <1>3, <3>1, SignalledIs
    <3> QED BY <1>2, <1>3, <2>1, <2>2, <3>1, <3>4, <3>5, HolderStays
  <2>4. CASE ~resumes
    <3>1. At(a, "leaving") /\ UNCHANGED <<session, stream, published>>
      BY <1>10, <2>4 DEF EnterResume
    <3> QED BY <1>2, <1>3, <1>4, <1>5, <2>1, <2>2, <3>1, HolderStays
  <2> QED BY <2>3, <2>4
<1> QED BY <1>6, <1>7, <1>8, <1>9, <1>10

(* A new queue.                                                            *)
LEMMA QueueOrders ==
    ASSUME IInv, Order, NEW a \in Actors, EnterQueue(a)
    PROVE  Order'
<1>1. Head(line) = a /\ op[a].kind = "queue" /\ Asking(a) /\ op[a].pc \notin Starting
  BY GrantedHolds, GrantedIs DEF EnterQueue
<1>2. TypeOK /\ op \in [Actors -> Op] /\ generation \in Nat /\ {"entered", "leaving"} \subseteq Pcs
  BY Constants DEF IInv, TypeOK, Pcs
<1>3. UNCHANGED <<generation, active, stream, published, line, last>>
  BY DEF EnterQueue
<1>4. CASE ~Fresh(a)
  <2>1. At(a, "leaving") /\ session' = session /\ ~Newest(a)
    BY <1>4 DEF EnterQueue, Newest, Fresh
  <2>2. SessionKept /\ StreamsKept
    BY <1>3, <2>1 DEF SessionKept, SameSession, StreamsKept
  <2> QED BY <1>1, <1>2, <1>3, <2>1, <2>2, HolderStays DEF Starting, Playing
<1>5. CASE Fresh(a)
  <2> DEFINE o == [op[a] EXCEPT !.pc = "entered", !.born = generation, !.item = 1]
  <2>1. /\ o.pc = "entered" /\ o.kind = "queue" /\ o.born = generation /\ o.item = 1
        /\ o.generation = op[a].generation
    BY <1>1, <1>2 DEF Op
  <2>2. op' = [op EXCEPT ![a] = o] /\ session' = NewSession(op[a].generation)
    BY <1>5 DEF EnterQueue
  <2> HIDE DEF o
  <2>3. op'[a] = o /\ \A b \in Actors \ {a} : op'[b] = op[b]
    BY <1>2, <2>2
  <2>4. Newest(a) /\ op[a].generation = generation /\ generation > 0
    BY <1>1, <1>2, <1>5 DEF Newest, Claims, Order, OwnGenerations, Fresh
  <2>5. /\ session'.born = generation /\ session'.generation = generation /\ session'.index = 1
        /\ session'.pair = NoPair /\ session'.status = "playing"
    BY <2>2, <2>4 DEF NewSession
  <2>6. \A b \in Actors \ {a} : ~Newest(b)
    BY <2>4 DEF Order, OwnGenerations, Newest
  <2>7. OwnGenerations' /\ NewestKnows'
    <3>1. \A b \in Actors : Asking(b)' => b # a /\ op'[b] = op[b] /\ Asking(b)
      BY <2>1, <2>3 DEF Asking
    <3>2. \A b \in Actors : ~Newest(b)'
      BY <1>3, <2>6, <3>1 DEF Newest, Claims
    <3> HIDE DEF Asking
    <3> QED BY <1>3, <3>1, <3>2 DEF Order, OwnGenerations, NewestKnows, Claims
  <2>8. \A b \in Actors \ {a} : op'[b].pc \notin Starting
    BY <1>1, <2>3, OnlyHolder DEF IInv
  <2>9. SessionSound' /\ HolderKnows' /\ PairIsItem' /\ WatcherKnows'
    <3>1. SessionSound'
      BY <2>4, <2>5 DEF SessionSound
    <3>2. HolderKnows'
      BY <1>3, <2>1, <2>3, <2>4, <2>5, <2>8 DEF HolderKnows, Starting
    <3>3. PairIsItem' /\ WatcherKnows'
      BY <2>5, Constants DEF PairIsItem, WatcherKnows
    <3> QED BY <3>1, <3>2, <3>3
  <2>10. Settled'
    BY <1>3, <2>1, <2>3, <2>4, <2>5, <2>8, SettledStarts DEF Starting
  <2> QED BY <2>7, <2>9, <2>10 DEF Order
<1> QED BY <1>4, <1>5

(* The queue moves, once its old pair is out of the way, and plays on with *)
(* the item and the generation it then has.                                *)
LEMMA MoveOrders ==
    ASSUME IInv, Order, NEW a \in Actors, NEW ses \in Session, Move(a, ses), Head(line) = a,
           generation' = generation, StreamsKept, last' = last,
           session # NoSession, ses.born = session.born, op[a].born = session.born,
           ses.generation > 0, ses.pair = NoPair, op[a].kind # "play",
           (last = "play" /\ \A b \in Actors \ {a} : ~Newest(b)) => ses.generation = generation
    PROVE  Order'
<1>1. TypeOK /\ op \in [Actors -> Op]
  BY DEF IInv, TypeOK
<1> DEFINE moved == Moved(a, ses)
           o == [op[a] EXCEPT !.pc = "entered", !.generation = moved.generation,
                              !.item = moved.index, !.blank = moved.blank]
<1>2. session' = moved /\ op' = [op EXCEPT ![a] = o]
  BY DEF Move, PlayItem
<1>3. /\ moved.born = ses.born /\ moved.generation = ses.generation /\ moved.pair = ses.pair
      /\ moved.status = "playing" /\ moved # NoSession
  BY DEF Moved, Session, NoSession
<1> HIDE DEF moved
<1>4. /\ o.pc = "entered" /\ o.kind = op[a].kind /\ o.born = op[a].born
      /\ o.generation = moved.generation /\ o.item = moved.index
  BY <1>1 DEF Op
<1> HIDE DEF o
<1>5. op'[a] = o /\ \A b \in Actors \ {a} : op'[b] = op[b]
  BY <1>1, <1>2
<1>6. SameSession
  BY <1>2, <1>3 DEF SameSession
<1>7. ~Asking(a)'
  BY <1>4, <1>5 DEF Asking
<1>8. OwnGenerations' /\ NewestKnows'
  BY <1>5, <1>6, <1>7, AsksNoMore DEF Order
<1>9. \A b \in Actors \ {a} : op'[b].pc \notin Starting
  BY <1>5, OnlyHolder DEF IInv
<1>10. SessionSound' /\ HolderKnows' /\ PairIsItem' /\ WatcherKnows'
  <2>1. SessionSound'
    BY <1>2, <1>3 DEF SessionSound
  <2>2. HolderKnows'
    BY <1>2, <1>3, <1>4, <1>5, <1>9 DEF HolderKnows, Starting
  <2>3. PairIsItem' /\ WatcherKnows'
    BY <1>2, <1>3, Constants DEF PairIsItem, WatcherKnows
  <2> QED BY <2>1, <2>2, <2>3
<1>11. (\A b \in Actors : ~Newest(b)') => \A b \in Actors \ {a} : ~Newest(b)
  BY <1>5 DEF Newest, Claims, Asking
<1>12. Settled'
  BY <1>2, <1>3, <1>4, <1>5, <1>9, <1>11, SettledStarts DEF Starting
<1> QED BY <1>8, <1>10, <1>12 DEF Order

(* next, previous and a retry.                                             *)
LEMMA SkipsOrder ==
    ASSUME IInv, Order, NEW a \in Actors, EnterSkip(a) \/ Cleared(a)
    PROVE  Order'
<1>1. TypeOK /\ op \in [Actors -> Op] /\ session \in Session \cup {NoSession} /\ OneStream
      /\ generation \in Nat /\ {"clearing", "leaving"} \subseteq Pcs
  BY Constants DEF IInv, TypeOK, Pcs
<1>2. CASE EnterSkip(a)
  <2>1. /\ Head(line) = a /\ Asking(a) /\ op[a].kind \in {"next", "previous", "restart", "resume"}
        /\ op[a].kind = "resume" => session.status = "failed"
    BY <1>2, GrantedHolds, GrantedIs DEF EnterSkip
  <2>2. StopActive /\ UNCHANGED <<generation, published, line, last>>
    BY <1>2 DEF EnterSkip
  <2>3. active' = NoPair /\ StreamsKept /\ \A p \in Pairs : ~Playing(p)'
    BY <1>1, <2>2, StopActiveIs
  <2>4. /\ session \in Session /\ session # NoSession /\ session.born = op[a].born
        /\ op[a].generation = 0 \/ op[a].generation = generation
    BY <1>1, <1>2 DEF EnterSkip, Current, Fresh
  <2> DEFINE ses == Claimed(a)
  <2>5. op[a].generation = 0 => op[a].kind = "resume"
    BY <2>1 DEF Order, OwnGenerations
  <2>6. /\ ses \in Session /\ ses # NoSession /\ ses.born = session.born /\ ses.generation > 0
        /\ ses.pair = NoPair /\ ses.index = session.index
        /\ ses.generation = IF op[a].generation = 0 THEN session.generation ELSE op[a].generation
    <3>1. op[a].generation \in Nat
      BY <1>1 DEF Op
    <3>2. CASE op[a].generation = 0
      <4>1. ses = session
        BY <3>2 DEF Claimed
      <4> HIDE DEF ses
      <4> QED BY <2>1, <2>4, <2>5, <3>2, <4>1 DEF Order, SessionSound
    <3>3. CASE op[a].generation # 0
      <4>1. ses = [session EXCEPT !.generation = op[a].generation, !.pair = NoPair]
        BY <3>3 DEF Claimed
      <4>2. ses \in Session
        BY <2>4, <3>1, <4>1 DEF Session
      <4>3. ses # NoSession
        BY <4>2, SomeSession
      <4>4. ses.born = session.born /\ ses.generation = op[a].generation /\ ses.pair = NoPair
            /\ ses.index = session.index
        BY <2>4, <4>1 DEF Session
      <4> HIDE DEF ses
      <4> QED BY <3>1, <3>3, <4>2, <4>3, <4>4
    <3> QED BY <3>2, <3>3
  <2>7. (last = "play" /\ \A b \in Actors \ {a} : ~Newest(b)) => ses.generation = generation
    <3>1. CASE op[a].generation = 0
      <4>1. ~Newest(a)
        BY <3>1 DEF Newest, Claims
      <4> HIDE DEF ses
      <4> QED BY <2>4, <2>6, <3>1, <4>1 DEF Order, Settled
    <3>2. CASE op[a].generation # 0
      <4> HIDE DEF ses
      <4> QED BY <2>4, <2>6, <3>2
    <3> QED BY <3>1, <3>2
  <2>8. CASE active # NoPair /\ Alive(active)
    <3>1. session' = ses /\ At(a, "clearing")
      BY <1>2, <2>8 DEF EnterSkip
    <3> HIDE DEF ses
    <3>2. /\ op'[a].pc = "clearing" /\ op'[a].born = op[a].born
          /\ \A b \in Actors \ {a} : op'[b] = op[b]
      BY <1>1, <3>1, AtIs
    <3>3. SameSession
      BY <2>4, <2>6, <3>1 DEF SameSession
    <3>4. OwnGenerations' /\ NewestKnows'
      BY <2>2, <3>2, <3>3, AsksNoMore DEF Order, Asking
    <3>5. \A b \in Actors \ {a} : op'[b].pc \notin Starting
      BY <2>1, <3>2, OnlyHolder DEF IInv
    <3>6. SessionSound' /\ HolderKnows' /\ PairIsItem' /\ WatcherKnows'
      <4>1. SessionSound'
        BY <2>6, <3>1 DEF SessionSound
      <4>2. HolderKnows'
        BY <2>4, <2>6, <3>1, <3>2, <3>5 DEF HolderKnows, Starting
      <4>3. PairIsItem' /\ WatcherKnows'
        BY <2>6, <3>1, Constants DEF PairIsItem, WatcherKnows
      <4> QED BY <4>1, <4>2, <4>3
    <3>7. (\A b \in Actors : ~Newest(b)') => \A b \in Actors \ {a} : ~Newest(b)
      BY <2>2, <3>2 DEF Newest, Claims, Asking
    <3>8. Settled'
      BY <2>2, <2>3, <2>7, <3>1, <3>2, <3>5, <3>7, SettledStarts DEF Starting
    <3> QED BY <3>4, <3>6, <3>8 DEF Order
  <2>9. CASE ~(active # NoPair /\ Alive(active))
    <3>1. Move(a, ses)
      BY <1>2, <2>9 DEF EnterSkip
    <3> HIDE DEF ses
    <3> QED BY <2>1, <2>2, <2>3, <2>4, <2>6, <2>7, <3>1, MoveOrders
  <2> QED BY <2>8, <2>9
<1>3. CASE Cleared(a)
  <2>1. /\ Head(line) = a /\ op[a].pc = "clearing" /\ op[a].kind # "play"
        /\ UNCHANGED <<generation, active, stream, published, line, last>>
    BY <1>3 DEF Cleared, IInv, LockHeld, Holding, TargetsExist
  <2>2. StreamsKept
    BY <2>1 DEF StreamsKept
  <2>3. CASE session = NoSession
    <3>1. At(a, "leaving") /\ session' = session
      BY <1>3, <2>3 DEF Cleared
    <3>2. SessionKept
      BY <3>1 DEF SessionKept, SameSession
    <3>3. ~Newest(a)
      BY <2>1 DEF Newest, Claims, Asking
    <3> QED BY <1>1, <2>1, <2>2, <2>3, <3>1, <3>2, <3>3, HolderStays DEF Starting, Playing
  <2>4. CASE session # NoSession
    <3>1. session.born = op[a].born /\ session.pair = NoPair /\ session \in Session
      BY <1>1, <2>1, <2>4 DEF Order, HolderKnows
    <3>2. Move(a, session)
      BY <1>3, <2>4, <3>1 DEF Cleared
    <3>3. session.generation > 0
      BY <2>4 DEF Order, SessionSound
    <3>4. ~Newest(a)
      BY <2>1 DEF Newest, Claims, Asking
    <3>5. (last = "play" /\ \A b \in Actors \ {a} : ~Newest(b)) => session.generation = generation
      BY <2>4, <3>4 DEF Order, Settled
    <3> QED BY <2>1, <2>2, <2>4, <3>1, <3>2, <3>3, <3>5, MoveOrders
  <2> QED BY <2>3, <2>4
<1> QED BY <1>2, <1>3

(* _play_url_locked up to the new pair: the old one is seen off.           *)
LEMMA StopOldOrders ==
    ASSUME IInv, Order, NEW a \in Actors, StopOld(a) \/ Stopped(a)
    PROVE  Order'
<1>1. TypeOK /\ OneStream /\ {"stopping", "starting"} \subseteq Pcs
  BY DEF IInv, Pcs
<1>2. /\ op[a].pc \in {"entered", "stopping"} /\ Head(line) = a
      /\ UNCHANGED <<generation, session, published, line, last>>
  BY DEF StopOld, Stopped, IInv, LockHeld, Holding
<1>3. PICK pc \in {"stopping", "starting"} : At(a, pc)
  BY AfterStopIs DEF StopOld, Stopped
<1>4. /\ op'[a].pc = pc /\ op'[a].kind = op[a].kind /\ op'[a].born = op[a].born
      /\ op'[a].generation = op[a].generation /\ op'[a].item = op[a].item
      /\ \A b \in Actors \ {a} : op'[b] = op[b]
  BY <1>1, <1>3, AtIs
<1>5. StreamsKept /\ \A p \in Pairs : ~Playing(p)'
  <2>1. CASE StopOld(a)
    BY <1>1, <2>1, StopActiveIs DEF StopOld
  <2>2. CASE Stopped(a)
    <3>1. active = NoPair /\ stream' = stream
      BY <2>2 DEF Stopped, IInv, RoomMade
    <3> QED BY <1>1, <3>1, Constants DEF StreamsKept, OneStream, Playing
  <2> QED BY <2>1, <2>2
<1>6. SessionKept
  BY <1>2 DEF SessionKept, SameSession
<1>7. OwnGenerations' /\ NewestKnows'
  BY <1>2, <1>4, <1>6, AsksNoMore DEF Order, Asking, SessionKept
<1>8. \A b \in Actors \ {a} : op'[b].pc \notin Starting
  BY <1>2, <1>4, OnlyHolder DEF IInv
<1>9. SessionSound' /\ HolderKnows' /\ PairIsItem' /\ WatcherKnows'
  <2>1. SessionSound'
    BY <1>2 DEF Order, SessionSound
  <2>2. HolderKnows'
    BY <1>2, <1>4, <1>8 DEF Order, HolderKnows, Starting
  <2>3. PairIsItem'
    BY <1>2, <1>5 DEF Order, PairIsItem, StreamsKept, GoneStream
  <2>4. WatcherKnows'
    BY <1>2, <1>4, Constants DEF Order, WatcherKnows, Asking
  <2> QED BY <2>1, <2>2, <2>3, <2>4
<1>10. (\A b \in Actors : ~Newest(b)') => \A b \in Actors : ~Newest(b)
  BY <1>2, <1>4 DEF Newest, Claims, Asking
<1>11. Settled'
  <2>1. (last' = "play" /\ \A b \in Actors : ~Newest(b)') =>
          /\ session' # NoSession => session'.generation = generation'
          /\ op'[a].generation = generation'
    BY <1>2, <1>4, <1>10 DEF Order, Settled
  <2> QED BY <1>4, <1>5, <1>8, <2>1, SettledStarts DEF Starting
<1> QED BY <1>7, <1>9, <1>11 DEF Order

(* The new pair.                                                           *)
LEMMA StartOrders ==
    ASSUME IInv, Order, NEW a \in Actors, StartSucceeds(a) \/ StartFails(a)
    PROVE  Order'
<1>1. /\ TypeOK /\ OneStream /\ {"leaving", "notifying"} \subseteq Pcs
      /\ session \in Session \cup {NoSession} /\ stream \in [Pairs -> Stream] /\ op \in [Actors -> Op]
  BY DEF IInv, TypeOK, Pcs
<1>2. /\ op[a].pc = "starting" /\ Head(line) = a /\ active = NoPair
      /\ UNCHANGED <<generation, line, last>>
  BY DEF StartSucceeds, StartFails, IInv, LockHeld, Holding, RoomMade
<1>3. PICK pc \in {"leaving", "notifying"} : At(a, pc)
  BY DEF StartSucceeds, StartFails
<1>4. op'[a].pc = pc /\ \A b \in Actors \ {a} : op'[b] = op[b]
  BY <1>1, <1>3, AtIs
<1>5. \A b \in Actors : op'[b].pc \notin Starting
  BY <1>2, <1>4, OnlyHolder DEF IInv, Starting
<1>6. \A p \in Pairs : ~Playing(p)
  BY <1>1, <1>2, Constants DEF OneStream
<1>7. (\A b \in Actors : ~Newest(b)') => \A b \in Actors : ~Newest(b)
  BY <1>2, <1>4 DEF Newest, Claims, Asking
<1>8. session # NoSession =>
        /\ op[a].kind # "play" /\ session \in Session
        /\ session.born = op[a].born /\ session.generation = op[a].generation
        /\ session.index = op[a].item /\ session.pair = NoPair
  BY <1>1, <1>2 DEF Order, HolderKnows
<1>9. \A b \in Actors : op'[b] = op[b] \/ (~Asking(b)' /\ op'[b].pc \notin Starting)
  BY <1>4, <1>5 DEF Asking
<1>10. CASE StartSucceeds(a)
  <2>1. PICK p \in Pairs :
          /\ Unused(p) /\ active' = p
          /\ stream' = [stream EXCEPT ![p] =
               [phase |-> "running", generation |-> op[a].generation, born |-> op[a].born,
                item |-> op[a].item, blank |-> op[a].blank]]
          /\ session' = Adopted(a, p)
    BY <1>10 DEF StartSucceeds
  <2>2. /\ stream'[p].phase = "running" /\ stream'[p].generation = op[a].generation
        /\ stream'[p].born = op[a].born /\ stream'[p].item = op[a].item
        /\ \A q \in Pairs \ {p} : stream'[q] = stream[q]
    BY <1>1, <2>1
  <2>3. CASE session = NoSession
    <3>1. session' = NoSession
      BY <2>1, <2>3 DEF Adopted
    <3>2. OwnGenerations' /\ NewestKnows'
      BY <1>2, <1>9, <2>3, <3>1, AsksNoMore DEF Order, SameSession
    <3>3. Settled'
      BY <1>2, <1>5, <1>6, <1>7, <2>2, <3>1 DEF Order, Settled, Playing, Starting
    <3> QED BY <3>1, <3>2, <3>3, SessionGone DEF Order
  <2>4. CASE session # NoSession
    <3>1. session' = [session EXCEPT !.pair = p]
      BY <1>8, <2>1, <2>4 DEF Adopted
    <3>2. session' \in Session
      BY <1>8, <2>4, <3>1 DEF Session
    <3>3. /\ session' # NoSession /\ session'.pair = p /\ session'.born = session.born
          /\ session'.generation = session.generation /\ session'.index = session.index
          /\ session'.status = session.status
      BY <1>8, <2>4, <3>1, <3>2, SomeSession DEF Session
    <3>4. OwnGenerations' /\ NewestKnows'
      BY <1>2, <1>9, <2>4, <3>3, AsksNoMore DEF Order, SameSession
    <3>5. session.status # "failed"
      BY <1>2, <2>4 DEF Order, HolderKnows
    <3>6. SessionSound' /\ HolderKnows'
      BY <1>5, <2>4, <3>3, <3>5 DEF Order, SessionSound, HolderKnows, Starting
    <3>7. PairIsItem'
      BY <1>8, <2>2, <2>4, <3>3 DEF PairIsItem
    <3>8. WatcherKnows'
      <4>1. p \in Actors /\ op[p].pc = "idle"
        BY <2>1, Constants DEF Unused
      <4>2. ~Asking(p)'
        BY <1>4, <4>1 DEF Asking
      <4> QED BY <3>3, <4>2 DEF WatcherKnows
    <3>9. Settled'
      <4> SUFFICES ASSUME last' = "play", \A b \in Actors : ~Newest(b)'
                   PROVE  /\ session'.generation = generation'
                          /\ \A q \in Pairs : Playing(q)' => stream'[q].generation = generation'
                          /\ active' # NoPair /\ session'.pair = active'
                          /\ stream'[active'].phase = "running"
        BY <1>5 DEF Settled, Starting
      <4>1. session.generation = generation
        BY <1>2, <1>7, <2>4 DEF Order, Settled
      <4>2. op[a].generation = generation
        BY <1>8, <2>4, <4>1
      <4>3. \A q \in Pairs : Playing(q)' => q = p
        BY <1>6, <2>2 DEF Playing
      <4> QED BY <1>2, <2>1, <2>2, <3>3, <4>1, <4>2, <4>3, Constants
    <3> QED BY <3>4, <3>6, <3>7, <3>8, <3>9 DEF Order
  <2> QED BY <2>3, <2>4
<1>11. CASE StartFails(a)
  <2>1. UNCHANGED <<generation, active, stream, line, last>>
    BY <1>11 DEF StartFails
  <2>2. StreamsKept
    BY <2>1 DEF StreamsKept
  <2>3. session # NoSession => session' = [session EXCEPT !.status = "failed"]
    BY <1>8, <1>11 DEF StartFails
  <2>4. session = NoSession => session' = NoSession
    BY <1>11 DEF StartFails
  <2>5. session # NoSession =>
          /\ session' # NoSession /\ session'.status = "failed" /\ session'.pair = NoPair
          /\ session'.born = session.born /\ session'.generation = session.generation
          /\ session'.index = session.index
    <3> SUFFICES ASSUME session # NoSession
                 PROVE  /\ session' # NoSession /\ session'.status = "failed" /\ session'.pair = NoPair
                        /\ session'.born = session.born /\ session'.generation = session.generation
                        /\ session'.index = session.index
      OBVIOUS
    <3>1. session' \in Session
      BY <1>8, <2>3 DEF Session, Statuses
    <3> QED BY <1>8, <2>3, <3>1, SomeSession DEF Session
  <2>6. SessionKept
    BY <1>5, <1>8, <2>4, <2>5 DEF SessionKept, SameSession
  <2>7. Settled'
    BY <1>2, <1>5, <1>6, <1>7, <2>1, <2>4, <2>5 DEF Order, Settled, Playing, Starting
  <2> QED BY <1>2, <1>9, <2>2, <2>6, <2>7, KeptOrders
<1> QED BY <1>10, <1>11

(* Giving the lock back.                                                   *)
LEMMA LeaveOrders ==
    ASSUME IInv, Order, NEW a \in Actors, Leave(a)
    PROVE  Order'
<1>1. /\ op' = [op EXCEPT ![a] = Idle] /\ op[a].pc \in {"leaving", "notifying"}
      /\ UNCHANGED <<generation, session, active, stream, last>>
  BY DEF Leave
<1>2. TypeOK /\ op \in [Actors -> Op]
  BY DEF IInv, TypeOK
<1>3. op'[a].pc = "idle" /\ \A b \in Actors \ {a} : op'[b] = op[b]
  BY <1>1, <1>2, IdleIs
<1>4. SessionKept /\ StreamsKept
  BY <1>1 DEF SessionKept, SameSession, StreamsKept
<1>5. /\ ~Newest(a) /\ ~Asking(a)' /\ op'[a].pc \notin Starting
      /\ op[a].pc # "entered" /\ op[a].pc \notin Starting
  BY <1>1, <1>3 DEF Newest, Claims, Asking, Starting
<1>6. Settled'
  BY <1>1, <1>2, <1>3, <1>4, <1>5, SettledStays DEF Order, Playing
<1> QED BY <1>1, <1>3, <1>4, <1>5, <1>6, KeptOrders

-----------------------------------------------------------------------------
(* Processes and their watchers.                                           *)

(* Processes exit.                                                         *)
LEMMA ExitOrders ==
    ASSUME IInv, Order, NEW p \in Pairs, Exit(p)
    PROVE  Order'
<1>1. TypeOK /\ stream \in [Pairs -> Stream] /\ active \in Pairs \cup {NoPair}
  BY DEF IInv, TypeOK
<1>2. PICK phase \in {"finished", "broken"} : stream' = [stream EXCEPT ![p].phase = phase]
  BY DEF Exit
<1>3. /\ UNCHANGED <<generation, session, active, op, last>>
      /\ stream[p].phase \in {"running", "signalled"}
  BY DEF Exit
<1>4. /\ stream'[p].phase = phase /\ stream'[p].born = stream[p].born
      /\ stream'[p].generation = stream[p].generation /\ stream'[p].item = stream[p].item
      /\ \A q \in Pairs \ {p} : stream'[q] = stream[q]
  BY <1>1, <1>2 DEF Stream
<1>5. SessionKept /\ StreamsKept
  BY <1>3, <1>4 DEF SessionKept, SameSession, StreamsKept
<1>6. \A q \in Pairs : Playing(q)' => Playing(q) /\ stream'[q].generation = stream[q].generation
  BY <1>4 DEF Playing
<1>7. active # NoPair /\ stream[active].phase \in Going => stream'[active].phase \in Going
  BY <1>1, <1>4 DEF Going
<1>8. Settled'
  BY <1>1, <1>3, <1>5, <1>6, <1>7, SettledStays DEF Order
<1> QED BY <1>3, <1>5, <1>8, KeptOrders

(* A pair is forgotten: it is not the one of a queue that goes on.         *)
LEMMA ForgetOrders ==
    ASSUME IInv, Order, NEW p \in Pairs, stream' = [stream EXCEPT ![p] = GoneStream],
           UNCHANGED <<generation, session, last>>,
           active' = active \/ (active = p /\ session = NoSession),
           \A b \in Actors : \/ op'[b] = op[b]
                             \/ /\ ~Newest(b) /\ ~Asking(b)' /\ op'[b].pc \notin Starting
                                /\ op[b].pc # "entered" /\ op[b].pc \notin Starting,
           (active = p /\ session # NoSession) =>
             \/ stream[p].phase = "gone"
             \/ session.pair # p \/ session.generation # generation
    PROVE  Order'
<1>1. TypeOK /\ stream \in [Pairs -> Stream] /\ active \in Pairs \cup {NoPair}
  BY DEF IInv, TypeOK
<1>2. stream'[p] = GoneStream /\ \A q \in Pairs \ {p} : stream'[q] = stream[q]
  BY <1>1
<1>3. SessionKept /\ StreamsKept
  BY <1>2 DEF SessionKept, SameSession, StreamsKept
<1>4. \A q \in Pairs : Playing(q)' => Playing(q) /\ stream'[q] = stream[q]
  BY <1>2 DEF Playing, GoneStream
<1>5. Settled'
  <2>1. CASE session # NoSession /\ active = p
    <3> SUFFICES ASSUME last' = "play", \A b \in Actors : ~Newest(b)'
                 PROVE  /\ session.generation = generation
                        /\ \A a \in Actors : op'[a].pc \in {"entered", "stopping", "starting"}
                                               => op'[a].generation = generation
                        /\ \A q \in Pairs : Playing(q)' =>
                             stream'[q].generation = generation \/ \E a \in Actors : op'[a].pc = "entered"
                        /\ session.status \in {"playing", "paused"}
                             => \E a \in Actors : op'[a].pc \in Starting
      BY <2>1 DEF Settled
    <3>1. \A b \in Actors : ~Newest(b)
      BY DEF Newest, Claims, Asking
    <3>2. session.pair # p \/ stream[p].phase = "gone"
      BY <2>1, <3>1 DEF Order, Settled
    <3>3. session.status \in {"playing", "paused"} => \E a \in Actors : op[a].pc \in Starting
      BY <2>1, <3>1, <3>2 DEF Order, Settled
    <3>4. \A a \in Actors : op[a].pc \in Starting => op'[a] = op[a]
      OBVIOUS
    <3>5. \A a \in Actors : op'[a].pc \in Starting => op'[a] = op[a]
      OBVIOUS
    <3>6. session.generation = generation
      BY <2>1, <3>1 DEF Order, Settled
    <3>7. \A a \in Actors : op'[a].pc \in {"entered", "stopping", "starting"}
                              => op'[a].generation = generation
      BY <3>1, <3>5 DEF Order, Settled, Starting
    <3>8. \A q \in Pairs : Playing(q)' =>
            stream'[q].generation = generation \/ \E a \in Actors : op'[a].pc = "entered"
      BY <1>4, <3>1, <3>4 DEF Order, Settled, Starting
    <3> QED BY <3>3, <3>4, <3>6, <3>7, <3>8
  <2>2. CASE session = NoSession
    BY <1>1, <1>3, <1>4, <2>2, SettledStays DEF Order
  <2>3. CASE session # NoSession /\ active # p
    <3>1. active' = active /\ (active # NoPair => stream'[active] = stream[active])
      BY <1>1, <1>2, <2>3
    <3> QED BY <1>1, <1>3, <1>4, <2>3, <3>1, SettledStays DEF Order
  <2> QED BY <2>1, <2>2, <2>3
<1> QED BY <1>3, <1>5, KeptOrders

(* The watcher wakes up.                                                   *)
LEMMA WatchedOrders ==
    ASSUME IInv, Order, NEW p \in Pairs, Watched(p)
    PROVE  Order'
<1>1. TypeOK /\ p \in Actors
  BY Constants DEF IInv
<1>2. /\ UNCHANGED <<generation, session, last>> /\ op[p].pc = "idle" /\ Exited(p)
  BY DEF Watched
<1>3. CASE /\ Join(p, [Idle EXCEPT !.kind = "ended", !.born = session.born])
           /\ session # NoSession /\ UNCHANGED <<stream, active>>
  <2> DEFINE request == [Idle EXCEPT !.kind = "ended", !.born = session.born]
  <2>1. session.born \in Nat /\ "ended" \in Kinds
    BY <1>1, <1>3 DEF TypeOK, Session, Kinds
  <2>2. request \in Op /\ request.kind = "ended" /\ request.born = session.born /\ request.generation = 0
    BY <2>1, IdleIs DEF Op, Idle
  <2>3. Join(p, request)
    BY <1>3
  <2> HIDE DEF request
  <2>4. /\ Asking(p)' /\ op'[p].kind = "ended" /\ op'[p].born = session.born /\ op'[p].generation = 0
        /\ \A b \in Actors \ {p} : op'[b] = op[b]
    BY <1>1, <2>2, <2>3, JoinIs
  <2>5. OwnGenerations' /\ NewestKnows'
    BY <1>1, <1>2, <2>4, AsksToo DEF Order
  <2>6. SessionKept /\ StreamsKept
    BY <1>2, <1>3 DEF SessionKept, SameSession, StreamsKept
  <2>7. op'[p].pc \notin Starting /\ op[p].pc \notin Starting /\ op[p].pc # "entered" /\ ~Newest(p)
    BY <1>2, <2>4 DEF Asking, Starting, Newest, Claims
  <2>8. SessionSound' /\ HolderKnows' /\ PairIsItem' /\ WatcherKnows'
    BY <1>1, <2>4, <2>6, <2>7, SessionStays DEF Order
  <2>9. Settled'
    BY <1>1, <1>2, <1>3, <2>4, <2>6, <2>7, SettledStays DEF Order, Playing
  <2> QED BY <2>5, <2>8, <2>9 DEF Order
<1>4. CASE ~(/\ Join(p, [Idle EXCEPT !.kind = "ended", !.born = session.born])
             /\ session # NoSession /\ UNCHANGED <<stream, active>>)
  <2>1. /\ stream' = [stream EXCEPT ![p] = GoneStream] /\ op' = op
        /\ active' = active \/ (active = p /\ session = NoSession)
        /\ (active = p /\ session # NoSession) =>
             \/ stream[p].generation # generation
             \/ session.pair # p \/ session.generation # generation
    BY <1>4 DEF Watched
  <2>2. stream[p] # GoneStream
    BY <1>2 DEF Exited, GoneStream
  <2>3. (session # NoSession /\ session.pair = p) => stream[p].generation = session.generation
    BY <2>2 DEF Order, PairIsItem
  <2>4. (active = p /\ session # NoSession) => session.pair # p \/ session.generation # generation
    BY <2>1, <2>3
  <2> QED BY <1>2, <2>1, <2>4, ForgetOrders
<1> QED BY <1>3, <1>4

(* The item a pair played is the one the queue leaves.                     *)
LEMMA OwnItem ==
    ASSUME Order, NEW p \in Pairs, StillOwns(p)
    PROVE  stream[p].born = session.born /\ stream[p].item = session.index
<1>1. session # NoSession /\ session.pair = p /\ session.generation = generation
      /\ stream[p].generation = generation
  BY DEF StillOwns
<1>2. session.generation > 0
  BY <1>1 DEF Order, SessionSound
<1>3. stream[p] # GoneStream
  BY <1>1, <1>2 DEF GoneStream
<1> QED BY <1>1, <1>3 DEF Order, PairIsItem

(* The watcher under the lock.                                             *)
LEMMA EndedOrders ==
    ASSUME IInv, Order, NEW p \in Pairs, EnterEnded(p)
    PROVE  Order'
<1>1. /\ p \in Actors /\ Head(line) = p /\ op[p].kind = "ended" /\ Asking(p)
      /\ op[p].pc \notin Starting
  BY Constants, GrantedHolds, GrantedIs DEF EnterEnded
<1>2. /\ TypeOK /\ OneStream /\ stream \in [Pairs -> Stream] /\ op \in [Actors -> Op]
      /\ {"leaving", "notifying"} \subseteq Pcs
  BY DEF IInv, TypeOK, Pcs
<1>3. /\ stream' = [stream EXCEPT ![p] = GoneStream]
      /\ UNCHANGED <<generation, line, last>>
  BY DEF EnterEnded
<1>4. stream'[p] = GoneStream /\ \A q \in Pairs \ {p} : stream'[q] = stream[q]
  BY <1>2, <1>3
<1>5. ~Newest(p)
  BY <1>1 DEF Newest, Order, OwnGenerations
<1>6. CASE ~StillOwns(p)
  <2>1. At(p, "leaving") /\ UNCHANGED <<session, active, published>>
    BY <1>6 DEF EnterEnded
  <2>2. op'[p].pc = "leaving" /\ \A b \in Actors \ {p} : op'[b] = op[b]
    BY <1>1, <1>2, <2>1, AtIs
  <2>3. ~Asking(p)' /\ op'[p].pc \notin Starting /\ op[p].pc # "entered"
    BY <1>1, <2>2 DEF Asking, Starting
  <2>4. (active = p /\ session # NoSession) =>
          \/ stream[p].phase = "gone"
          \/ session.pair # p \/ session.generation # generation
    <3> SUFFICES ASSUME active = p, session # NoSession, stream[p].phase # "gone",
                        session.pair = p, session.generation = generation
                 PROVE  FALSE
      OBVIOUS
    <3>1. session.born = op[p].born
      BY <1>1 DEF Order, WatcherKnows
    <3>2. stream[p].generation = generation
      BY DEF Order, PairIsItem, GoneStream
    <3> QED BY <1>6, <3>1, <3>2 DEF StillOwns
  <2> QED BY <1>1, <1>3, <1>5, <2>1, <2>2, <2>3, <2>4, ForgetOrders
<1>7. CASE StillOwns(p)
  <2> DEFINE natural == stream[p].phase = "finished"
             goesOn  == session.repeat # "off" \/ session.index < Items
             index   == CASE session.repeat = "one" -> session.index
                          [] session.index < Items  -> session.index + 1
                          [] OTHER                  -> 1
             history == IF session.repeat = "one" THEN session.history
                        ELSE Append(session.history, session.index)
             o == [op[p] EXCEPT !.pc = "entered", !.item = index,
                                !.generation = generation, !.blank = session.blank]
  <2>1. /\ session \in Session /\ session # NoSession /\ session.born = op[p].born
        /\ session.generation = generation /\ session.pair = p /\ active = p
    BY <1>2, <1>7 DEF StillOwns, TypeOK
  <2>2. active' = NoPair
    BY <1>7 DEF EnterEnded
  <2>3. \A q \in Pairs : ~Playing(q)'
    BY <1>2, <1>4, <2>1 DEF OneStream, Playing, GoneStream
  <2>4. session.generation > 0
    BY <2>1 DEF Order, SessionSound
  <2>5. CASE natural /\ goesOn
    <3>1. /\ session' = [session EXCEPT !.pair = NoPair, !.status = "playing",
                                        !.index = index, !.history = history]
          /\ op' = [op EXCEPT ![p] = o]
      BY <1>7, <2>5 DEF EnterEnded
    <3> HIDE DEF index, history
    <3>2. /\ o.pc = "entered" /\ o.kind = "ended" /\ o.born = op[p].born
          /\ o.generation = generation /\ o.item = index
      BY <1>1, <1>2 DEF Op
    <3> HIDE DEF o
    <3>3. op'[p] = o /\ \A b \in Actors \ {p} : op'[b] = op[b]
      BY <1>1, <1>2, <3>1
    <3>4. /\ session' # NoSession /\ session'.born = session.born
          /\ session'.generation = session.generation /\ session'.pair = NoPair
          /\ session'.status = "playing" /\ session'.index = index
      BY <2>1, <3>1 DEF Session, NoSession
    <3>5. OwnGenerations' /\ NewestKnows'
      BY <1>3, <2>1, <3>2, <3>3, <3>4, AsksNoMore DEF Order, SameSession, Asking
    <3>6. \A b \in Actors \ {p} : op'[b].pc \notin Starting
      BY <1>1, <3>3, OnlyHolder DEF IInv
    <3>7. SessionSound' /\ PairIsItem' /\ WatcherKnows'
      BY <2>1, <2>4, <3>4, Constants DEF SessionSound, PairIsItem, WatcherKnows
    <3>8. HolderKnows'
      BY <2>1, <3>2, <3>3, <3>4, <3>6 DEF HolderKnows, Starting
    <3>9. Settled'
      BY <1>1, <1>3, <2>1, <3>2, <3>3, <3>4, <3>6, SettledStarts DEF Starting
    <3> QED BY <3>5, <3>7, <3>8, <3>9 DEF Order
  <2>6. CASE ~(natural /\ goesOn)
    <3>1. /\ session' = [session EXCEPT !.pair = NoPair,
                                        !.status = IF natural THEN "completed" ELSE "failed",
                                        !.blank = @ \/ natural]
          /\ At(p, "notifying")
      BY <1>7, <2>6 DEF EnterEnded
    <3>2. op'[p].pc = "notifying" /\ \A b \in Actors \ {p} : op'[b] = op[b]
      BY <1>1, <1>2, <3>1, AtIs
    <3>3. /\ session' # NoSession /\ session'.born = session.born
          /\ session'.generation = session.generation /\ session'.pair = NoPair
          /\ session'.status \in {"completed", "failed"}
      BY <2>1, <3>1 DEF Session, NoSession
    <3>4. OwnGenerations' /\ NewestKnows'
      BY <1>3, <2>1, <3>2, <3>3, AsksNoMore DEF Order, SameSession, Asking
    <3>5. \A b \in Actors : op'[b].pc \notin Starting
      BY <1>1, <3>2, OnlyHolder DEF IInv, Starting
    <3>6. SessionSound' /\ PairIsItem' /\ WatcherKnows' /\ HolderKnows'
      BY <2>4, <3>3, <3>5, Constants DEF SessionSound, PairIsItem, WatcherKnows, HolderKnows, Starting
    <3>7. Settled'
      BY <1>3, <2>1, <2>3, <3>3, <3>5 DEF Settled, Starting
    <3> QED BY <3>4, <3>6, <3>7 DEF Order
  <2> QED BY <2>5, <2>6
<1> QED BY <1>6, <1>7

-----------------------------------------------------------------------------
(* The order of requests is kept by every behaviour.                       *)
THEOREM OrderKept == Spec => []Order
<1>1. Init => Order
  <2> SUFFICES ASSUME Init PROVE Order
    OBVIOUS
  <2>1. \A a \in Actors : op[a].pc = "idle"
    BY IdleIs DEF Init
  <2>2. session = NoSession /\ last = "stop"
    BY DEF Init
  <2>3. OwnGenerations /\ NewestKnows
    BY <2>1 DEF OwnGenerations, NewestKnows, Newest, Claims, Asking
  <2>4. SessionSound /\ HolderKnows /\ PairIsItem /\ WatcherKnows /\ Settled
    BY <2>2 DEF SessionSound, HolderKnows, PairIsItem, WatcherKnows, Settled
  <2> QED BY <2>3, <2>4 DEF Order
<1>2. IInv /\ Order /\ [Next]_vars => Order'
  <2> SUFFICES ASSUME IInv, Order, [Next]_vars PROVE Order'
    OBVIOUS
  <2>1. ASSUME NEW c \in Commands,
               \/ \E kind \in {"play", "queue"} : Replace(c, kind)
               \/ ControlNext(c) \/ ControlPrevious(c) \/ ControlPlay(c) \/ ControlPause(c)
               \/ ControlRepeat(c) \/ Pause(c) \/ Resume(c)
               \/ Stop(c) \/ StopEnds(c) \/ LinkLost(c) \/ ScheduledStop(c)
        PROVE  Order'
    BY <2>1, ReplaceOrders, ControlsOrder, SignalOrders, StopOrders
  <2>2. ASSUME NEW a \in Actors, Locked(a) PROVE Order'
    BY <2>2, EnterOrders, QueueOrders, SkipsOrder, StopOldOrders, StartOrders, LeaveOrders DEF Locked
  <2>3. ASSUME NEW p \in Pairs, Exit(p) \/ Watched(p) \/ EnterEnded(p) PROVE Order'
    BY <2>3, ExitOrders, WatchedOrders, EndedOrders
  <2>4. CASE UNCHANGED vars
    <3>1. SessionKept /\ StreamsKept /\ UNCHANGED <<generation, session, active, stream, op, last>>
      BY <2>4 DEF vars, SessionKept, SameSession, StreamsKept
    <3>2. Settled'
      BY <3>1, SettledStays DEF Order, IInv, Playing
    <3> QED BY <3>1, <3>2, KeptOrders
  <2> QED BY <2>1, <2>2, <2>3, <2>4 DEF Next
<1> QED BY <1>1, <1>2, Invariance, PTL DEF Spec

(* When every command has been answered and no watcher has work to do, a   *)
(* pair that plays is of the newest generation, if the newest request was  *)
(* to play: no older request wins, whatever overlapped.                    *)
THEOREM NewestPlayWinsAlways == Spec => []NewestPlayWins
<1>1. Order => NewestPlayWins
  <2> SUFFICES ASSUME Order, Quiet, last = "play", NEW p \in Pairs, Playing(p)
               PROVE  stream[p].generation = generation
    BY DEF NewestPlayWins
  <2>1. \A a \in Actors : ~Newest(a) /\ op[a].pc # "entered"
    BY DEF Quiet, Newest, Claims, Asking
  <2> QED BY <2>1 DEF Order, Settled
<1> QED BY <1>1, OrderKept, PTL

(* In the same calm, unless the newest request was a retry that found its  *)
(* queue playing already (last = "void", where this fails), a queue that   *)
(* says it is playing or paused has its pair, the active one, which plays  *)
(* its item under its generation: the end of the pair will be taken for    *)
(* the end of the item.                                                    *)
THEOREM NoStrandedQueueAlways == Spec => []NoStrandedQueue
<1>1. IInv /\ Order => NoStrandedQueue
  <2> SUFFICES ASSUME TypeOK, Order, Quiet, session # NoSession,
                      session.status \in {"playing", "paused"}, last = "play"
               PROVE  /\ active # NoPair /\ session.pair = active /\ Playing(active)
                      /\ session.generation = generation /\ stream[active].generation = generation
                      /\ stream[active].item = session.index
    BY DEF NoStrandedQueue, IInv
  <2>1. \A a \in Actors : ~Newest(a) /\ op[a].pc \notin Starting
    BY DEF Quiet, Newest, Claims, Asking, Starting
  <2>2. /\ active # NoPair /\ session.pair = active /\ stream[active].phase \in Going
        /\ session.generation = generation
    BY <2>1 DEF Order, Settled, Going
  <2>3. active \in Pairs
    BY <2>2 DEF TypeOK
  <2>4. Playing(active)
    BY <2>2, <2>3 DEF Quiet, Exited, Playing, Going
  <2>5. stream[active].generation = generation /\ stream[active].item = session.index
    BY <2>2, <2>3, <2>4 DEF Order, PairIsItem, Playing, GoneStream
  <2> QED BY <2>2, <2>4, <2>5
<1> QED BY <1>1, Invariance, OrderKept, PTL

(* A watcher that moves the queue, or marks it as failed or completed,     *)
(* does so for the item its own pair played.                               *)
THEOREM EndMovesItsOwnItemAlways == Spec => EndMovesItsOwnItem
<1>1. Order /\ [Next]_vars => [\A p \in Pairs :
          (EnterEnded(p) /\ session' # session)
            => stream[p].born = session.born /\ stream[p].item = session.index]_vars
  <2> SUFFICES ASSUME Order, NEW p \in Pairs, EnterEnded(p), session' # session
               PROVE  stream[p].born = session.born /\ stream[p].item = session.index
    OBVIOUS
  <2>1. StillOwns(p)
    BY DEF EnterEnded
  <2> QED BY <2>1, OwnItem
<1> QED BY <1>1, OrderKept, PTL DEF Spec, EndMovesItsOwnItem
=============================================================================
