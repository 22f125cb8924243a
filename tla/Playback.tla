------------------------------ MODULE Playback ------------------------------
(***************************************************************************)
(* Playback of one speaker, MediaPlayerBridge (backend/bl_haos/ha/         *)
(* player.py): commands, the speaker's lock, the queue session, the        *)
(* decoder/player pairs and the watcher task of each pair.  Speakers share *)
(* none of this, so one is modelled.                                       *)
(*                                                                         *)
(* The code between two awaits is one action.  An actor is a command in    *)
(* flight or the watcher of a pair; pc names the await it is suspended at. *)
(***************************************************************************)
EXTENDS Naturals, Sequences, SequencesExt

CONSTANTS
    Commands,       \* bound: calls of the bridge in flight at once
    MaxPairs,       \* bound: process pairs that exist at once
    Items,          \* length of every queue
    MaxGeneration,  \* bound: requests that replace playback
    MaxHistory      \* bound: items a queue's history holds

ASSUME PlaybackAssumption ==
    /\ MaxPairs \in Nat \ {0}
    /\ Items \in Nat \ {0}
    /\ MaxGeneration \in Nat
    /\ MaxHistory \in Nat
    /\ Commands \cap Nat = {}

VARIABLES
    generation,     \* _playback_generations
    session,        \* playback_sessions
    active,         \* active_processes: a pair, or NoPair
    stream,         \* the pairs of processes, active or not
    published,      \* states
    line,           \* _address_locks: the holder, then the waiters in order
    op,             \* the actors
    last            \* history: what the newest request to replace playback asked for,
                    \* or "void": it replaced nothing, and its generation is nobody's

vars == <<generation, session, active, stream, published, line, op, last>>

-----------------------------------------------------------------------------
Pairs == 1 .. MaxPairs
NoPair == 0
Actors == Commands \cup Pairs
Repeats == {"off", "one", "all"}
Statuses == {"playing", "paused", "failed", "completed"}

(* born tells session objects apart ("session is initial"); blank says     *)
(* that completion has emptied the item URLs.                              *)
Session == [born : Nat, generation : Nat, index : 1 .. Items, history : Seq(1 .. Items),
            status : Statuses, pair : Pairs \cup {NoPair}, repeat : Repeats, blank : BOOLEAN]
NoSession == [born |-> 0]

NewSession(g) == [born |-> g, generation |-> g, index |-> 1, history |-> <<>>,
                  status |-> "playing", pair |-> NoPair, repeat |-> "off", blank |-> FALSE]

(* A pair runs, is stopped by a signal, is asked to terminate, has exited  *)
(* (both codes zero, or not) before its watcher ran, or is gone.           *)
StreamPhases == {"running", "paused", "signalled", "finished", "broken", "gone"}
Stream == [phase : StreamPhases, generation : Nat,
           born : Nat, item : 0 .. Items,       \* the queue item it plays, 0 for none
           blank : BOOLEAN]                     \* it was given an empty URL
GoneStream == [phase |-> "gone", generation |-> 0, born |-> 0, item |-> 0, blank |-> FALSE]

Alive(p) == stream[p].phase \in {"running", "paused", "signalled"}
Playing(p) == stream[p].phase \in {"running", "paused"}

Kinds == {"none", "play", "queue", "next", "previous", "restart", "resume", "pause",
          "repeat", "ended", "stop"}

(* arriving and leaving are steps without an await: the lock was free, or  *)
(* is given back.  clearing and stopping wait for a replaced pair, entered *)
(* for the cancelled warm-up, starting for the sink and the new processes. *)
Pcs == {"idle", "scheduled", "halting", "arriving", "waiting", "clearing", "entered",
        "stopping", "starting", "notifying", "leaving"}
Op == [pc : Pcs, kind : Kinds, generation : Nat, born : Nat,
       target : 0 .. Items, repeat : Repeats, item : 0 .. Items, blank : BOOLEAN]
Idle == [pc |-> "idle", kind |-> "none", generation |-> 0, born |-> 0, target |-> 0,
         repeat |-> "off", item |-> 0, blank |-> FALSE]

(* Nobody is in the middle of a stretch of code without an await.          *)
Calm == \A a \in Actors : op[a].pc \notin {"arriving", "leaving"}

Free(c) == Calm /\ op[c].pc = "idle"

-----------------------------------------------------------------------------
Init ==
    /\ generation = 0
    /\ session = NoSession
    /\ active = NoPair
    /\ stream = [p \in Pairs |-> GoneStream]
    /\ published = "idle"
    /\ line = <<>>
    /\ op = [a \in Actors |-> Idle]
    /\ last = "stop"

-----------------------------------------------------------------------------
(* Shared steps.                                                           *)

At(a, pc) == op' = [op EXCEPT ![a].pc = pc]

(* async with _address_lock: granted at once when nobody holds or awaits   *)
(* it, in order otherwise.                                                 *)
Join(a, request) ==
    /\ op' = [op EXCEPT ![a] = [request EXCEPT !.pc = IF line = <<>> THEN "arriving" ELSE "waiting"]]
    /\ line' = Append(line, a)

(* _invalidate_playback_session                                            *)
Invalidate(why) ==
    /\ generation < MaxGeneration
    /\ generation' = generation + 1
    /\ session' = NoSession
    /\ last' = why

(* _stop_processes up to its wait: the active pair is forgotten, resumed   *)
(* and asked to terminate.                                                 *)
StopActive ==
    /\ active' = NoPair
    /\ stream' = IF active # NoPair /\ Playing(active)
                   THEN [stream EXCEPT ![active].phase = "signalled"] ELSE stream

(* The wait is skipped when there is nothing to wait for.                  *)
AfterStop(waiting, done) == IF active # NoPair /\ Alive(active) THEN waiting ELSE done

-----------------------------------------------------------------------------
(* Commands.                                                               *)

(* play_url and start_queue: everything older is invalid from now on.      *)
Replace(c, kind) ==
    /\ Free(c)
    /\ Invalidate("play")
    /\ Join(c, [Idle EXCEPT !.kind = kind, !.generation = generation + 1])
    /\ UNCHANGED <<active, stream, published>>

(* control_queue up to the lock: the target is computed from the session   *)
(* as it is now, and a control that replaces the pair takes a generation.  *)
Control(c, request, replaces) ==
    /\ Free(c)
    /\ session # NoSession
    /\ IF replaces
         THEN /\ generation < MaxGeneration
              /\ generation' = generation + 1
              /\ last' = "play"
         ELSE UNCHANGED <<generation, last>>
    /\ Join(c, [request EXCEPT !.born = session.born,
                               !.generation = IF replaces THEN generation + 1 ELSE 0])
    /\ UNCHANGED <<session, active, stream, published>>

Skip(c, kind, target) == Control(c, [Idle EXCEPT !.kind = kind, !.target = target], TRUE)

(* Fault: the last item is not told apart.                                 *)
ControlNextUnchecked(c) ==
    session # NoSession /\ Len(session.history) < MaxHistory /\ Skip(c, "next", session.index + 1)

ControlNext(c) ==
    /\ session # NoSession /\ Len(session.history) < MaxHistory
    /\ \/ session.index < Items /\ Skip(c, "next", session.index + 1)
       \/ session.index = Items /\ session.repeat = "all" /\ Skip(c, "next", 1)

(* Past the first three seconds, or on the first item, the item restarts.  *)
ControlPrevious(c) ==
    /\ session # NoSession
    /\ \/ Skip(c, "restart", session.index)
       \/ /\ session.index > 1
          /\ Skip(c, "previous",
                  IF session.history # <<>> THEN Last(session.history) ELSE session.index - 1)

ControlPlay(c) ==
    session # NoSession /\ Control(c, [Idle EXCEPT !.kind = "resume"], session.status = "failed")

ControlPause(c) == Control(c, [Idle EXCEPT !.kind = "pause"], FALSE)

ControlRepeat(c) ==
    \E repeat \in Repeats : Control(c, [Idle EXCEPT !.kind = "repeat", !.repeat = repeat], FALSE)

(* execute, outside a queue: pause and play signal the active pair without *)
(* the lock.                                                               *)
Signal(c, from, to, state) ==
    /\ Free(c)
    /\ session = NoSession /\ active # NoPair
    /\ stream' = IF stream[active].phase = from THEN [stream EXCEPT ![active].phase = to] ELSE stream
    /\ published' = state
    /\ UNCHANGED <<generation, session, active, line, op, last>>

Pause(c) == Signal(c, "running", "paused", "paused")
Resume(c) == Signal(c, "paused", "running", "playing")

(* execute(stop): no lock is taken.                                        *)
StopBegins(c) ==
    /\ Invalidate("stop")
    /\ StopActive
    /\ op' = [op EXCEPT ![c] = AfterStop([Idle EXCEPT !.kind = "stop", !.pc = "halting"], Idle)]
    /\ published' = AfterStop(published, "idle")
    /\ UNCHANGED line

Stop(c) == Free(c) /\ StopBegins(c)

StopEnds(c) ==
    /\ Calm
    /\ op[c].pc = "halting"
    /\ op' = [op EXCEPT ![c] = Idle]
    /\ published' = "idle"
    /\ UNCHANGED <<generation, session, active, stream, line, last>>

(* main._on_bt_event for a lost link: the session is invalidated (twice,   *)
(* without an await) and a stop is scheduled.                              *)
LinkLost(c) ==
    /\ Free(c)
    /\ Invalidate("stop")
    /\ op' = [op EXCEPT ![c] = [Idle EXCEPT !.kind = "stop", !.pc = "scheduled"]]
    /\ UNCHANGED <<active, stream, published, line>>

ScheduledStop(c) == Calm /\ op[c].pc = "scheduled" /\ StopBegins(c)

-----------------------------------------------------------------------------
(* Under the lock.                                                         *)

Granted(a, kinds) ==
    /\ line # <<>> /\ Head(line) = a
    /\ op[a].pc = "arriving" \/ (Calm /\ op[a].pc = "waiting")
    /\ op[a].kind \in kinds

Fresh(a) == op[a].generation = generation

EnterPlay(a) ==
    /\ Granted(a, {"play"})
    /\ At(a, IF Fresh(a) THEN "entered" ELSE "leaving")
    /\ UNCHANGED <<generation, session, active, stream, published, line, last>>

EnterQueue(a) ==
    /\ Granted(a, {"queue"})
    /\ IF Fresh(a)
         THEN /\ session' = NewSession(op[a].generation)
              /\ op' = [op EXCEPT ![a] = [@ EXCEPT !.pc = "entered", !.born = generation, !.item = 1]]
         ELSE At(a, "leaving") /\ UNCHANGED session
    /\ UNCHANGED <<generation, active, stream, published, line, last>>

(* control_queue: "session is not initial", or a newer generation.         *)
Current(a) ==
    session # NoSession /\ session.born = op[a].born /\ (op[a].generation = 0 \/ Fresh(a))

EnterStale(a) ==
    /\ Granted(a, {"next", "previous", "restart", "resume", "pause", "repeat"})
    /\ ~Current(a)
    /\ At(a, "leaving")
    /\ UNCHANGED <<generation, session, active, stream, published, line, last>>

EnterRepeat(a) ==
    /\ Granted(a, {"repeat"}) /\ Current(a)
    /\ session' = [session EXCEPT !.repeat = op[a].repeat]
    /\ At(a, "notifying")
    /\ UNCHANGED <<generation, active, stream, published, line, last>>

(* The active pair is signalled, whatever became of it.                    *)
Signalled(from, to) ==
    stream' = IF active # NoPair /\ stream[active].phase = from
                THEN [stream EXCEPT ![active].phase = to] ELSE stream

EnterPause(a) ==
    /\ Granted(a, {"pause"}) /\ Current(a)
    /\ IF session.status = "playing" /\ session.pair # NoPair
         THEN /\ Signalled("running", "paused")
              /\ session' = [session EXCEPT !.status = "paused"]
              /\ published' = "paused"
              /\ At(a, "notifying")
         ELSE At(a, "leaving") /\ UNCHANGED <<session, stream, published>>
    /\ UNCHANGED <<generation, active, line, last>>

EnterResume(a) ==
    /\ Granted(a, {"resume"}) /\ Current(a)
    /\ session.status # "failed"
    /\ IF session.status = "paused" /\ session.pair # NoPair /\ active = session.pair
         THEN /\ Signalled("paused", "running")
              /\ session' = [session EXCEPT !.status = "playing"]
              /\ published' = "playing"
              /\ At(a, "notifying")
         ELSE At(a, "leaving") /\ UNCHANGED <<session, stream, published>>
    /\ last' = IF op[a].generation = 0 THEN last ELSE "void"
    /\ UNCHANGED <<generation, active, line>>

(* The queue moves, and then its item is handed to _play_url_locked.       *)
Moved(a, ses) ==
    [ses EXCEPT !.status = "playing",
                !.index = IF op[a].kind = "resume" THEN @ ELSE op[a].target,
                !.history = CASE op[a].kind = "next" -> Append(@, ses.index)
                              [] op[a].kind = "previous" /\ @ # <<>> -> Front(@)
                              [] OTHER -> @]

PlayItem(a, ses) ==
    op' = [op EXCEPT ![a] = [@ EXCEPT !.pc = "entered", !.generation = ses.generation,
                                      !.item = ses.index, !.blank = ses.blank]]

(* Fault: the item is handed over before the queue moves.                  *)
MoveLate(a, ses) == session' = Moved(a, ses) /\ PlayItem(a, ses)

Move(a, ses) == session' = Moved(a, ses) /\ PlayItem(a, Moved(a, ses))

(* Fault: a control plays on under the old generation.                     *)
Unclaimed(a) == session

Claimed(a) ==
    IF op[a].generation = 0 THEN session
    ELSE [session EXCEPT !.generation = op[a].generation, !.pair = NoPair]

(* next, previous, and play on a failed queue.                             *)
EnterSkip(a) ==
    /\ Granted(a, {"next", "previous", "restart", "resume"}) /\ Current(a)
    /\ op[a].kind = "resume" => session.status = "failed"
    /\ StopActive
    /\ IF active # NoPair /\ Alive(active)
         THEN session' = Claimed(a) /\ At(a, "clearing")
         ELSE Move(a, Claimed(a))
    /\ UNCHANGED <<generation, published, line, last>>

(* An invalidated session has lost its items: the control fails.           *)
Cleared(a) ==
    /\ Calm
    /\ op[a].pc = "clearing"
    /\ IF session # NoSession /\ session.born = op[a].born
         THEN Move(a, session)
         ELSE At(a, "leaving") /\ UNCHANGED session
    /\ UNCHANGED <<generation, active, stream, published, line, last>>

(* Fault: the old pair plays on.                                           *)
StopOldNot(a) ==
    /\ Calm
    /\ op[a].pc = "entered"
    /\ At(a, "starting")
    /\ UNCHANGED <<generation, session, active, stream, published, line, last>>

(* _play_url_locked: the warm-up is out of the way, the old pair is        *)
(* stopped.                                                                *)
StopOld(a) ==
    /\ Calm
    /\ op[a].pc = "entered"
    /\ StopActive
    /\ At(a, AfterStop("stopping", "starting"))
    /\ UNCHANGED <<generation, session, published, line, last>>

Stopped(a) ==
    /\ Calm
    /\ op[a].pc = "stopping"
    /\ At(a, "starting")
    /\ UNCHANGED <<generation, session, active, stream, published, line, last>>

Unused(p) ==
    /\ stream[p].phase = "gone" /\ op[p].pc = "idle" /\ active # p
    /\ session # NoSession => session.pair # p

(* Fault: the session is not told which pair plays its item.               *)
NotAdopted(a, p) == session

(* The session adopts the pair, unless it was replaced meanwhile.          *)
Adopted(a, p) ==
    IF session # NoSession /\ session.generation = op[a].generation
      THEN [session EXCEPT !.pair = p] ELSE session

StartSucceeds(a) ==
    /\ Calm
    /\ op[a].pc = "starting"
    /\ \E p \in Pairs :
         /\ Unused(p)
         /\ active' = p
         /\ stream' = [stream EXCEPT ![p] =
                         [phase |-> "running", generation |-> op[a].generation, born |-> op[a].born,
                          item |-> op[a].item, blank |-> op[a].blank]]
         /\ session' = Adopted(a, p)
    /\ published' = "playing"
    /\ At(a, "notifying")
    /\ UNCHANGED <<generation, line, last>>

(* No sink, or a process that does not start.  A queue keeps the item.     *)
StartFails(a) ==
    /\ Calm
    /\ op[a].pc = "starting"
    /\ IF op[a].kind = "play"
         THEN At(a, "leaving") /\ UNCHANGED <<session, published>>
         ELSE /\ session' = IF session # NoSession /\ session.born = op[a].born
                              THEN [session EXCEPT !.status = "failed"] ELSE session
              /\ published' = "idle"
              /\ At(a, "notifying")
    /\ UNCHANGED <<generation, active, stream, line, last>>

(* The state callback returned, and the lock is given back.                *)
Leave(a) ==
    /\ op[a].pc = "leaving" \/ (Calm /\ op[a].pc = "notifying")
    /\ op' = [op EXCEPT ![a] = Idle]
    /\ line' = Tail(line)
    /\ UNCHANGED <<generation, session, active, stream, published, last>>

-----------------------------------------------------------------------------
(* Processes and their watchers.                                           *)

(* Both processes of a pair exit.                                          *)
Exit(p) ==
    /\ Calm
    /\ stream[p].phase \in {"running", "signalled"}
    /\ \E phase \in {"finished", "broken"} :
         /\ phase = "finished" => /\ stream[p].phase = "running" /\ ~stream[p].blank
                                  /\ session # NoSession => Len(session.history) < MaxHistory
         /\ stream' = [stream EXCEPT ![p].phase = phase]
    /\ UNCHANGED <<generation, session, active, published, line, op, last>>

Exited(p) == stream[p].phase \in {"finished", "broken"}

(* _watch_processes wakes up.  A replaced pair is not its business.        *)
Watched(p) ==
    /\ Calm
    /\ Exited(p) /\ op[p].pc = "idle"
    /\ \/ /\ active # p \/ stream[p].generation # generation
          /\ stream' = [stream EXCEPT ![p] = GoneStream]
          /\ UNCHANGED <<active, published, line, op>>
       \/ /\ active = p /\ stream[p].generation = generation /\ session = NoSession
          /\ stream' = [stream EXCEPT ![p] = GoneStream]
          /\ active' = NoPair
          /\ published' = "idle"
          /\ UNCHANGED <<line, op>>
       \/ /\ active = p /\ stream[p].generation = generation /\ session # NoSession
          /\ IF session.generation = generation /\ session.pair = p
               THEN Join(p, [Idle EXCEPT !.kind = "ended", !.born = session.born]) /\ UNCHANGED stream
               ELSE stream' = [stream EXCEPT ![p] = GoneStream] /\ UNCHANGED <<line, op>>
          /\ UNCHANGED <<active, published>>
    /\ UNCHANGED <<generation, session, last>>

(* The second look, once it holds the lock.                                *)
StillOwns(p) ==
    /\ stream[p].generation = generation
    /\ session # NoSession /\ session.born = op[p].born
    /\ session.generation = generation /\ session.pair = p
    /\ active = p

(* The queue goes on, unless an item failed or was the last.               *)
EnterEnded(p) ==
    /\ Granted(p, {"ended"})
    /\ stream' = [stream EXCEPT ![p] = GoneStream]
    /\ IF ~StillOwns(p)
         THEN At(p, "leaving") /\ UNCHANGED <<session, active, published>>
         ELSE LET natural == stream[p].phase = "finished"
                  goesOn  == session.repeat # "off" \/ session.index < Items
                  index   == CASE session.repeat = "one" -> session.index
                               [] session.index < Items  -> session.index + 1
                               [] OTHER                  -> 1
                  history == IF session.repeat = "one" THEN session.history
                             ELSE Append(session.history, session.index)
              IN  /\ active' = NoPair
                  /\ IF natural /\ goesOn
                       THEN /\ session' = [session EXCEPT !.pair = NoPair, !.status = "playing",
                                                          !.index = index, !.history = history]
                            /\ op' = [op EXCEPT ![p] = [@ EXCEPT !.pc = "entered", !.item = index,
                                         !.generation = generation, !.blank = session.blank]]
                            /\ UNCHANGED published
                       ELSE /\ session' = [session EXCEPT !.pair = NoPair,
                                             !.status = IF natural THEN "completed" ELSE "failed",
                                             !.blank = @ \/ natural]
                            /\ published' = "idle"
                            /\ At(p, "notifying")
    /\ UNCHANGED <<generation, line, last>>

-----------------------------------------------------------------------------
Locked(a) ==
    \/ EnterPlay(a) \/ EnterQueue(a) \/ EnterStale(a) \/ EnterRepeat(a) \/ EnterPause(a)
    \/ EnterResume(a) \/ EnterSkip(a) \/ Cleared(a) \/ StopOld(a) \/ Stopped(a)
    \/ StartSucceeds(a) \/ StartFails(a) \/ Leave(a)

Next ==
    \/ \E c \in Commands :
         \/ \E kind \in {"play", "queue"} : Replace(c, kind)
         \/ ControlNext(c) \/ ControlPrevious(c) \/ ControlPlay(c) \/ ControlPause(c)
         \/ ControlRepeat(c) \/ Pause(c) \/ Resume(c)
         \/ Stop(c) \/ StopEnds(c) \/ LinkLost(c) \/ ScheduledStop(c)
    \/ \E a \in Actors : Locked(a)
    \/ \E p \in Pairs : Exit(p) \/ Watched(p) \/ EnterEnded(p)

Spec == Init /\ [][Next]_vars

-----------------------------------------------------------------------------
(* Properties.                                                             *)

(* Every variable stays in its range.                                      *)
TypeOK ==
    /\ generation \in 0 .. MaxGeneration
    /\ session \in Session \cup {NoSession}
    /\ active \in Pairs \cup {NoPair}
    /\ stream \in [Pairs -> Stream]
    /\ published \in {"idle", "playing", "paused"}
    /\ line \in Seq(Actors)
    /\ op \in [Actors -> Op]
    /\ last \in {"play", "stop", "void"}

(* A pair that plays is the active one: no two pairs ever play at once,    *)
(* and none plays where the next stop cannot reach it.                     *)
OneStream == \A p \in Pairs : Playing(p) => active = p

(* Nothing is in flight: no command, no watcher with work to do.           *)
Quiet == /\ \A a \in Actors : op[a].pc = "idle"
         /\ \A p \in Pairs : ~Exited(p)

(* When the dust settles after overlapping commands, what plays was asked  *)
(* for by the newest request, if that request was to play.                 *)
NewestPlayWins ==
    (Quiet /\ last = "play") => \A p \in Pairs : Playing(p) => stream[p].generation = generation

(* A queue said to be playing or paused has its pair, and the end of that  *)
(* pair will be taken for the end of the item, after skips and repeats     *)
(* overlapped with anything, retries included - but one case.  A retry     *)
(* takes its generation before it waits for the lock; when a control ahead *)
(* of it has already retried the item it returns, and last is "void":      *)
(* the generation of the running pair is then not the current one, its     *)
(* watcher returns early, and the queue does strand when the pair ends.    *)
NoStrandedQueue ==
    (Quiet /\ session # NoSession /\ session.status \in {"playing", "paused"} /\ last = "play")
      => /\ active # NoPair /\ session.pair = active /\ Playing(active)
         /\ session.generation = generation /\ stream[active].generation = generation
         /\ stream[active].item = session.index

(* The end of a pair only moves the queue from the item the pair played.   *)
EndMovesItsOwnItem ==
    [][\A p \in Pairs :
         (EnterEnded(p) /\ session' # session)
           => stream[p].born = session.born /\ stream[p].item = session.index]_vars

(* After a stop that no newer play follows, nothing plays.                 *)
StopEndsPlayback == (Quiet /\ last = "stop") => \A p \in Pairs : ~Playing(p)
=============================================================================
