------------------------------- MODULE Sound -------------------------------
(***************************************************************************)
(* The sink of one speaker (backend/bl_haos/ha/player.py): warming it when *)
(* the speaker is there, and keeping the volume that is shown true.        *)
(*                                                                         *)
(* Warm-ups are tasks owned through _warmup_tasks; a cancelled task ends   *)
(* when the loop next runs it.  The audio server's sink and its level are  *)
(* the environment: buttons on the speaker move the level too.             *)
(***************************************************************************)
EXTENDS Naturals, FiniteSets

CONSTANTS
    Levels,         \* volumes
    MaxWarmups,     \* bound: warm-ups alive at once
    MaxAttempts     \* SINK_WARMUP_ATTEMPTS

ASSUME SoundAssumption ==
    /\ Levels # {} /\ 0 \notin Levels
    /\ MaxWarmups \in Nat \ {0} /\ MaxAttempts \in Nat \ {0}

VARIABLES
    kept,       \* keepalive_addresses has the speaker
    owner,      \* the task in _warmup_tasks, or 0
    warm,       \* the warm-ups
    streaming,  \* active_processes has the speaker
    sink,       \* the audio server has the sink
    level,      \* its real volume
    volume,     \* volumes: the last level set or read
    told,       \* the level last published
    watch,      \* _volume_watch_loop
    command     \* an execute(set_volume)

vars == <<kept, owner, warm, streaming, sink, level, volume, told, watch, command>>

-----------------------------------------------------------------------------
Warmups == 1 .. MaxWarmups
Free == [pc |-> "free"]
Ending == [pc |-> "cancelled"]
Asleep == [pc |-> "asleep", value |-> 0]

Init ==
    /\ kept = FALSE /\ owner = 0
    /\ warm = [w \in Warmups |-> Free]
    /\ streaming = FALSE
    /\ sink \in BOOLEAN /\ level \in Levels
    /\ volume \in Levels /\ told = volume
    /\ watch = Asleep /\ command = Asleep

Alive(w) == warm[w] # Free
Goes(w, pc) == warm' = [warm EXCEPT ![w].pc = pc]

-----------------------------------------------------------------------------
(* Ownership of warm-ups.                                                  *)

(* Fault: a task that ends leaves its entry.                               *)
LeftBehind(w) == owner

(* The finally of _async_warm_sink pops whatever the entry is.             *)
Popped(w) == 0

Finish(w) == warm' = [warm EXCEPT ![w] = Free] /\ owner' = Popped(w)

(* A task that never ran has no finally to run.                            *)
Cancelled(w) == [warm EXCEPT ![w] = IF @.pc = "new" THEN Free ELSE Ending]

(* register_keepalive, on every event of a trusted and connected speaker.  *)
Register ==
    /\ kept' = TRUE
    /\ IF owner # 0
       THEN UNCHANGED <<owner, warm>>
       ELSE LET unused == {w \in Warmups : ~Alive(w)}
            IN  /\ unused # {}
                /\ owner' = CHOOSE w \in unused : TRUE
                /\ warm' = [warm EXCEPT ![owner'] = [pc |-> "new", attempt |-> 1, value |-> 0]]
    /\ UNCHANGED <<streaming, sink, level, volume, told, watch, command>>

(* unregister_keepalive; the stream is the business of Playback.           *)
Unregister ==
    /\ kept' = FALSE
    /\ owner' = 0
    /\ warm' = IF owner # 0 THEN Cancelled(owner) ELSE warm
    /\ UNCHANGED <<streaming, sink, level, volume, told, watch, command>>

-----------------------------------------------------------------------------
(* _async_warm_sink                                                        *)

Cancel(w) == warm[w] = Ending /\ Finish(w) /\ UNCHANGED <<level, volume, told>>

Runs(w, pcs) == warm[w].pc \in pcs

(* An attempt, unless audio flows; the sink is resolved.                   *)
Attempt(w) ==
    /\ Runs(w, {"new", "sleep"})
    /\ IF streaming THEN Finish(w) ELSE Goes(w, "resolving") /\ UNCHANGED owner
    /\ UNCHANGED <<level, volume, told>>

(* Fault: one attempt too many.                                            *)
RetriesOnceMore(w) ==
    \/ /\ warm[w].attempt <= MaxAttempts
       /\ warm' = [warm EXCEPT ![w].pc = "sleep", ![w].attempt = @ + 1]
       /\ UNCHANGED owner
    \/ Finish(w)

(* Attempts are bounded, and none is begun when the budget has run out;    *)
(* what an attempt waits for may take longer, or for ever.                 *)
Retries(w) ==
    \/ /\ warm[w].attempt < MaxAttempts
       /\ warm' = [warm EXCEPT ![w].pc = "sleep", ![w].attempt = @ + 1]
       /\ UNCHANGED owner
    \/ Finish(w)

(* The pulse is started if there is a sink, and then takes its time.       *)
Resolved(w) ==
    /\ Runs(w, {"resolving"})
    /\ \/ sink /\ Goes(w, "pulse") /\ UNCHANGED owner
       \/ Retries(w)
    /\ UNCHANGED <<level, volume, told>>

(* _apply_startup_volume: the level to set is read when the sink, resolved *)
(* again, is known.                                                        *)
Pulsed(w) ==
    /\ Runs(w, {"pulse"})
    /\ IF sink
       THEN warm' = [warm EXCEPT ![w] = [pc |-> "setting", attempt |-> 1, value |-> volume]] /\ UNCHANGED owner
       ELSE Finish(w)
    /\ UNCHANGED <<level, volume, told>>

Set(w) ==
    /\ Runs(w, {"setting"})
    /\ level' \in (IF sink THEN {level, warm[w].value} ELSE {level})
    /\ warm' = [warm EXCEPT ![w].pc = "reading", ![w].value = 0]
    /\ UNCHANGED <<owner, volume, told>>

(* refresh_volume: the level is read, and later published if it differs.   *)
Read(w) ==
    /\ Runs(w, {"reading"})
    /\ IF sink
       THEN warm' = [warm EXCEPT ![w].pc = "read", ![w].value = level] /\ UNCHANGED owner
       ELSE Finish(w)
    /\ UNCHANGED <<level, volume, told>>

(* Fault: a level that was read is kept, and not published.                *)
KeptQuiet(value) == volume' = value /\ UNCHANGED told

Refreshed(value) ==
    IF value = volume THEN UNCHANGED <<volume, told>> ELSE volume' = value /\ told' = value

(* What is published is awaited: the clients take their time, or for ever. *)
Publish(w) ==
    /\ Runs(w, {"read"})
    /\ Refreshed(warm[w].value)
    /\ IF warm[w].value = volume THEN Finish(w) ELSE Goes(w, "telling") /\ UNCHANGED owner
    /\ UNCHANGED level

Notified(w) == Runs(w, {"telling"}) /\ Finish(w) /\ UNCHANGED <<level, volume, told>>

WarmSteps(w) ==
    /\ Cancel(w) \/ Attempt(w) \/ Resolved(w) \/ Pulsed(w) \/ Set(w) \/ Read(w) \/ Publish(w) \/ Notified(w)
    /\ UNCHANGED <<kept, streaming, sink, watch, command>>

-----------------------------------------------------------------------------
(* _volume_watch_loop                                                      *)

WatchReads ==
    /\ watch = Asleep /\ kept /\ sink
    /\ watch' = [pc |-> "read", value |-> level]
    /\ UNCHANGED <<kept, owner, warm, streaming, sink, level, volume, told, command>>

WatchPublishes ==
    /\ watch.pc = "read"
    /\ watch' = [pc |-> IF watch.value = volume THEN "asleep" ELSE "telling", value |-> 0]
    /\ Refreshed(watch.value)
    /\ UNCHANGED <<kept, owner, warm, streaming, sink, level, command>>

WatchNotified ==
    /\ watch.pc = "telling"
    /\ watch' = Asleep
    /\ UNCHANGED <<kept, owner, warm, streaming, sink, level, volume, told, command>>

-----------------------------------------------------------------------------
(* execute(set_volume): remembered at once, applied and published later.   *)

SetVolume(v) ==
    /\ command = Asleep
    /\ volume' = v
    /\ command' = [pc |-> "applying", value |-> v]
    /\ UNCHANGED <<kept, owner, warm, streaming, sink, level, told, watch>>

Applied ==
    /\ command.pc = "applying"
    /\ level' \in (IF sink THEN {level, command.value} ELSE {level})
    /\ command' = [pc |-> "applied", value |-> 0]
    /\ UNCHANGED <<kept, owner, warm, streaming, sink, volume, told, watch>>

Commanded ==
    /\ command.pc = "applied"
    /\ told' = volume
    /\ command' = Asleep
    /\ UNCHANGED <<kept, owner, warm, streaming, sink, level, volume, watch>>

-----------------------------------------------------------------------------
(* _play_url_locked: the warm-up gives way, the old pair is stopped, and   *)
(* later a pair is started on a sink.                                      *)

GivesWay ==
    /\ owner' = 0
    /\ warm' = IF owner # 0 THEN Cancelled(owner) ELSE warm
    /\ streaming' = FALSE
    /\ UNCHANGED <<kept, sink, level, volume, told, watch, command>>

StreamStarts ==
    /\ sink /\ ~streaming
    /\ streaming' = TRUE
    /\ UNCHANGED <<kept, owner, warm, sink, level, volume, told, watch, command>>

(* The pair ends, or another command ends it.                              *)
StreamEnds ==
    /\ streaming
    /\ streaming' = FALSE
    /\ UNCHANGED <<kept, owner, warm, sink, level, volume, told, watch, command>>

-----------------------------------------------------------------------------
(* The audio server and the speaker.                                       *)

SinkChanges ==
    /\ sink' = ~sink
    /\ UNCHANGED <<kept, owner, warm, streaming, level, volume, told, watch, command>>

ButtonPressed(v) ==
    /\ level' = v
    /\ UNCHANGED <<kept, owner, warm, streaming, sink, volume, told, watch, command>>

-----------------------------------------------------------------------------
Next ==
    \/ Register \/ Unregister
    \/ \E w \in Warmups : WarmSteps(w)
    \/ WatchReads \/ WatchPublishes \/ WatchNotified
    \/ \E v \in Levels : SetVolume(v) \/ ButtonPressed(v)
    \/ Applied \/ Commanded
    \/ GivesWay \/ StreamStarts \/ StreamEnds
    \/ SinkChanges

Spec == Init /\ [][Next]_vars

(* The watch polls, and its probe has a timeout.  Nothing is assumed of    *)
(* the others: a pulse waits for its pipe and for killed processes, a      *)
(* setting of the level for its process, and whoever publishes for the     *)
(* clients, without a bound.                                               *)
FairSpec == Spec /\ WF_vars(WatchReads) /\ WF_vars(WatchPublishes)

-----------------------------------------------------------------------------
(* Properties.                                                             *)

(* Every variable stays in its range: a speaker that never presents a sink *)
(* is not tried more often than SINK_WARMUP_ATTEMPTS, whatever comes and   *)
(* goes meanwhile.                                                         *)
TypeOK ==
    /\ {kept, streaming, sink} \subseteq BOOLEAN
    /\ owner \in 0 .. MaxWarmups
    /\ warm \in [Warmups -> {Free, Ending}
                               \cup [pc : {"new", "resolving", "sleep", "pulse", "setting", "reading", "read", "telling"},
                                     attempt : 1 .. MaxAttempts, value : Levels \cup {0}]]
    /\ {level, volume, told} \subseteq Levels
    /\ watch \in [pc : {"asleep", "read", "telling"}, value : Levels \cup {0}]
    /\ command \in [pc : {"asleep", "applying", "applied"}, value : Levels \cup {0}]

(* The entry in _warmup_tasks is never that of a task that has ended or    *)
(* was cancelled: register_keepalive does not take such a task for the     *)
(* warm-up of a speaker that is back.                                      *)
OwnedIsRunning == owner # 0 => warm[owner] \notin {Free, Ending}

(* The level that is shown comes to be the level of the sink, in whatever  *)
(* order commands, warm-ups, the watch and the buttons of the speaker set  *)
(* and read it, once they leave it alone - also beside a warm-up that      *)
(* never ends, but not if a client holds the watch for ever, which waits   *)
(* for the clients of what it publishes.                                   *)
LevelIsTold ==
    (<>[](kept /\ sink /\ command = Asleep) /\ <>[][FALSE]_level /\ []<>(watch.pc # "telling"))
      => <>[](told = level)

(* A warm-up is cancelled when the speaker disconnects (CHANGELOG.md).     *)
WarmedWhileKept == ~kept => \A w \in Warmups : warm[w] \in {Free, Ending}
=============================================================================
