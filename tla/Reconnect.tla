----------------------------- MODULE Reconnect -----------------------------
(***************************************************************************)
(* AutoReconnectEngine (backend/bl_haos/bluetooth/reconnect.py): the       *)
(* per-speaker profiles, the polling tick, the connection attempts it      *)
(* spawns and the Bluetooth events it listens to.                          *)
(*                                                                         *)
(* The engine runs in one asyncio loop, so the code between two awaits is  *)
(* one action.  The code keeps deadlines as absolute times; here a         *)
(* deadline is the time left until it, and a "since" is its age, both      *)
(* moved by Advance.  An age is kept only up to the longest value the code *)
(* compares it with, which keeps the state space finite without a horizon. *)
(***************************************************************************)
EXTENDS Integers, FiniteSets

CONSTANTS
    Speakers,               \* normalised addresses
    MaxTasks,               \* bound: task objects alive at once for one speaker
    Delays(_),              \* what _calculate_backoff_delay(step) may return
    MaxBackoff,             \* max_backoff, the cap of every delay
    MaxFailures,            \* max_failures
    BreakerCooldown,        \* breaker_cooldown
    Grace,                  \* RECONNECT_DISCONNECT_GRACE_SECONDS
    Settle,                 \* RECONNECT_POST_CONNECT_SETTLE_SECONDS
    FlapWindow,             \* RECONNECT_FLAP_WINDOW_SECONDS
    FlapLimit,              \* RECONNECT_FLAP_LIMIT
    FlapCooldown,           \* RECONNECT_FLAP_COOLDOWN_SECONDS
    EnabledArgs,            \* the values callers pass to register_speaker as enabled
    LateDrops               \* may a link drop between BlueZ's answer and the end of the attempt?

ASSUME ReconnectAssumption ==
    /\ MaxTasks \in Nat \ {0}
    /\ MaxFailures \in Nat \ {0}
    /\ \A step \in 0 .. MaxFailures : Delays(step) \in SUBSET (0 .. MaxBackoff) /\ Delays(step) # {}
    /\ MaxBackoff \in Nat
    /\ BreakerCooldown \in Nat
    /\ Grace \in Nat \ {0}
    /\ Settle \in Nat
    /\ FlapWindow \in Nat
    /\ FlapLimit \in Nat \ {0}
    /\ FlapCooldown \in Nat
    /\ EnabledArgs \in SUBSET BOOLEAN
    /\ LateDrops \in BOOLEAN

VARIABLES
    loop,               \* _running and _loop_task: "new", "running" or "stopped"
    globallyEnabled,    \* globally_enabled
    tracked,            \* the keys of profiles
    profile,            \* profiles; Fresh for a speaker that is not tracked
    inflight,           \* _inflight: the slot of the speaker's task, 0 when it has none
    task,               \* the attempt tasks, tracked by _inflight or not
    link,               \* the Connected property BlueZ last reported
    calm,               \* history: time since the last failed attempt of the profile
    upAge               \* history: time since the engine last learned that the link came up

vars == <<loop, globallyEnabled, tracked, profile, inflight, task, link, calm, upAge>>

-----------------------------------------------------------------------------
running == loop = "running"
Slots == 1 .. MaxTasks
NoTask == 0
NoDrop == -1                    \* disconnected_since is None
States == {"idle", "connected", "reconnecting", "backoff", "circuit_broken"}

(* A task is idle, created but not yet running, inside connect_device,     *)
(* cancelled before its first step or inside connect_device, or done with  *)
(* its done callback still to run.                                         *)
Phases == {"none", "created", "connecting", "revoked", "cancelled", "done"}

Larger(a, b) == IF a >= b THEN a ELSE b
Smaller(a, b) == IF a <= b THEN a ELSE b
Left(t) == IF t > 0 THEN t - 1 ELSE 0       \* a deadline, one time unit later

(* The longest time that any deadline is set ahead.                        *)
LongestWait == Larger(Larger(MaxBackoff, Settle), Larger(FlapCooldown, BreakerCooldown))

Profile == [enabled : BOOLEAN, state : States,
            failures : 0 .. MaxFailures,    \* consecutive_failures, kept up to the breaker limit
            step : 0 .. MaxFailures,        \* backoff_step, kept up to the same limit
            retryIn : 0 .. LongestWait,     \* next_retry_time - now
            brokenFor : 0 .. BreakerCooldown,   \* circuit_broken_until - now
            down : NoDrop .. Grace,         \* now - disconnected_since
            up : 0 .. Settle,               \* now - connected_at
            flaps : SUBSET (0 .. FlapWindow),   \* ages of flap_times
            coolFor : 0 .. FlapCooldown]    \* cooldown_until - now

Fresh == [enabled |-> TRUE, state |-> "idle", failures |-> 0, step |-> 0,
          retryIn |-> 0, brokenFor |-> 0, down |-> NoDrop, up |-> Settle,
          flaps |-> {}, coolFor |-> 0]

(* own: the task's profile object is the registered one ("is profile").    *)
(* reached: BlueZ has reported the link up since the attempt started.      *)
Task == [phase : Phases, own : BOOLEAN, reached : BOOLEAN]
FreeTask == [phase |-> "none", own |-> FALSE, reached |-> FALSE]

Longest == Larger(BreakerCooldown, MaxBackoff)     \* cap of the history age calm

Live(s, k) == task[s][k].phase \in {"created", "connecting"}

-----------------------------------------------------------------------------
Init ==
    /\ loop = "new"
    /\ globallyEnabled \in BOOLEAN
    /\ tracked = {}
    /\ profile = [s \in Speakers |-> Fresh]
    /\ inflight = [s \in Speakers |-> NoTask]
    /\ task = [s \in Speakers |-> [k \in Slots |-> FreeTask]]
    /\ link \in [Speakers -> BOOLEAN]
    /\ calm = [s \in Speakers |-> Longest]
    /\ upAge = [s \in Speakers |-> Settle]

(* start: called once, by the application's lifespan.                      *)
Start ==
    /\ loop = "new"
    /\ loop' = "running"
    /\ UNCHANGED <<globallyEnabled, tracked, profile, inflight, task, link, calm, upAge>>

-----------------------------------------------------------------------------
(* Registration.                                                           *)

(* register_speaker, called by the settings and pairing routes.            *)
Register(s, enabled) ==
    /\ globallyEnabled
    /\ tracked' = tracked \cup {s}
    /\ profile' = [profile EXCEPT ![s].enabled = enabled]
    /\ UNCHANGED <<loop, globallyEnabled, inflight, task, link, calm, upAge>>

Cancelled(t) ==
    CASE t.phase = "created"    -> [t EXCEPT !.phase = "revoked"]
      [] t.phase = "connecting" -> [t EXCEPT !.phase = "cancelled"]
      [] OTHER                  -> t

(* unregister_speaker for every speaker of a set: the tracked task is      *)
(* cancelled, and every task that still runs has lost its profile.         *)
Dropped(gone) ==
    /\ tracked' = tracked \ gone
    /\ profile' = [s \in Speakers |-> IF s \in gone THEN Fresh ELSE profile[s]]
    /\ inflight' = [s \in Speakers |-> IF s \in gone THEN NoTask ELSE inflight[s]]
    /\ task' = [s \in Speakers |-> [k \in Slots |->
                  IF s \notin gone THEN task[s][k]
                  ELSE LET t == [task[s][k] EXCEPT !.own = FALSE]
                       IN  IF inflight[s] = k THEN Cancelled(t) ELSE t]]
    /\ calm' = [s \in Speakers |-> IF s \in gone THEN Longest ELSE calm[s]]
    /\ upAge' = [s \in Speakers |-> IF s \in gone THEN Settle ELSE upAge[s]]

Unregister(s) ==
    /\ Dropped({s})
    /\ UNCHANGED <<loop, globallyEnabled, link>>

SetGlobalEnabled(enabled) ==
    /\ globallyEnabled' = enabled
    /\ IF enabled THEN UNCHANGED <<tracked, profile, inflight, task, calm, upAge>>
                  ELSE Dropped(tracked)
    /\ UNCHANGED <<loop, link>>

-----------------------------------------------------------------------------
(* Bluetooth events.                                                       *)

(* The connected and the disconnected branch of _on_device_event.          *)
SeenConnected(p) ==
    [p EXCEPT !.down = NoDrop,
              !.up = IF p.state = "connected" THEN @ ELSE 0,
              !.state = "connected",
              !.failures = 0, !.step = 0, !.retryIn = 0, !.brokenFor = 0]

SeenDisconnected(p) ==
    IF p.down = NoDrop /\ p.state \in {"connected", "idle"} THEN [p EXCEPT !.down = 0] ELSE p

(* One device event, as the manager hands it to its two listeners in turn: *)
(* main._on_bt_event registers a trusted sink, then the engine registers   *)
(* an unknown sink that is trusted, paired or connected, and reacts.       *)
(* A presence advertisement is an event that repeats link[s].  The         *)
(* listeners are wired and the loop started without an await in between.   *)
DeviceEvent(s, connected, bond) ==
    LET byMain   == bond = "trusted" /\ globallyEnabled
        byEngine == running /\ globallyEnabled /\ (bond # "none" \/ connected)
        known    == s \in tracked \/ byMain \/ byEngine
        before   == IF byMain \/ (byEngine /\ s \notin tracked)
                      THEN [profile[s] EXCEPT !.enabled = TRUE] ELSE profile[s]
        reacts   == running /\ known /\ before.enabled
        rising   == connected /\ (~link[s] \/ before.state # "connected")
    IN  /\ loop # "new"
        /\ connected \/ LateDrops \/ \A k \in Slots : ~(task[s][k].phase = "connecting" /\ task[s][k].reached)
        /\ link' = [link EXCEPT ![s] = connected]
        /\ tracked' = IF known THEN tracked \cup {s} ELSE tracked
        /\ profile' = [profile EXCEPT ![s] =
                         IF ~reacts THEN before
                         ELSE IF connected THEN SeenConnected(before) ELSE SeenDisconnected(before)]
        /\ task' = [task EXCEPT ![s] = [k \in Slots |->
                      IF connected /\ task[s][k].phase = "connecting"
                        THEN [task[s][k] EXCEPT !.reached = TRUE] ELSE task[s][k]]]
        /\ calm' = IF reacts /\ connected THEN [calm EXCEPT ![s] = Longest] ELSE calm
        /\ upAge' = IF reacts /\ rising THEN [upAge EXCEPT ![s] = 0] ELSE upAge
        /\ UNCHANGED <<loop, globallyEnabled, inflight>>

-----------------------------------------------------------------------------
(* The polling loop.                                                       *)

(* _record_flap: the window slides, the limit trades the flaps for a       *)
(* cooldown.                                                               *)
RecordFlap(p) ==
    LET flaps == p.flaps \cup {0}
    IN  IF Cardinality(flaps) < FlapLimit
          THEN [p EXCEPT !.flaps = flaps]
          ELSE [p EXCEPT !.flaps = {}, !.coolFor = FlapCooldown]

(* Fault: the delay is added to the deadline that is pending.              *)
RetryOnTop(p, delay) ==
    [p EXCEPT !.state = "backoff",
              !.retryIn = Larger(p.retryIn + delay, Larger(p.coolFor, p.brokenFor))]

(* Every place that schedules a retry takes the latest of the deadlines.   *)
Retry(p, delay) ==
    [p EXCEPT !.state = "backoff",
              !.retryIn = Larger(Larger(p.retryIn, delay), Larger(p.coolFor, p.brokenFor))]

(* _arm_backoff                                                            *)
ArmBackoff(p, delay) == Retry([RecordFlap(p) EXCEPT !.down = NoDrop], delay)

(* Fault: a breaker whose cooldown is over is not half-opened.             *)
TickedShut(p, delay) ==
    IF ~p.enabled \/ p.brokenFor > 0 THEN p
    ELSE IF p.state \in {"connected", "idle"} /\ p.down >= Grace THEN ArmBackoff(p, delay)
    ELSE p

(* What one iteration of _tick makes of a profile, and whether it then     *)
(* finds a retry due.                                                      *)
Ticked(p, delay) ==
    LET q == IF p.state = "circuit_broken" THEN [p EXCEPT !.state = "backoff"] ELSE p
    IN  IF ~p.enabled \/ p.brokenFor > 0 THEN p
        ELSE IF q.state \in {"connected", "idle"} /\ q.down >= Grace THEN ArmBackoff(q, delay)
        ELSE q

(* Fault: a retry is due before its deadline.                              *)
DueAtOnce(p) ==
    p.enabled /\ p.brokenFor = 0 /\ p.state = "backoff" /\ p.coolFor = 0 /\ p.up >= Settle

Due(p) ==
    /\ p.enabled /\ p.brokenFor = 0
    /\ p.state = "backoff" /\ p.retryIn = 0 /\ p.coolFor = 0 /\ p.up >= Settle

Busy(s) == inflight[s] # NoTask /\ task[s][inflight[s]].phase # "done"

Spawns(s, delay) == s \in tracked /\ Due(Ticked(profile[s], delay)) /\ ~Busy(s)

Tick ==
    /\ running
    /\ \E delay \in [Speakers -> 0 .. MaxBackoff], slot \in [Speakers -> Slots] :
         /\ \A s \in Speakers : delay[s] \in Delays(profile[s].step)
         /\ \A s \in Speakers : Spawns(s, delay[s]) => task[s][slot[s]].phase = "none"
         /\ profile' = [s \in Speakers |->
                          IF s \in tracked THEN Ticked(profile[s], delay[s]) ELSE profile[s]]
         /\ inflight' = [s \in Speakers |-> IF Spawns(s, delay[s]) THEN slot[s] ELSE inflight[s]]
         /\ task' = [s \in Speakers |->
                       IF Spawns(s, delay[s])
                         THEN [task[s] EXCEPT ![slot[s]] = [FreeTask EXCEPT !.phase = "created", !.own = TRUE]]
                         ELSE task[s]]
    /\ UNCHANGED <<loop, globallyEnabled, tracked, link, calm, upAge>>

-----------------------------------------------------------------------------
(* One attempt, _attempt_reconnect.                                        *)

Finish(s, k) ==
    task' = [task EXCEPT ![s] = [task[s] EXCEPT ![k] = [task[s][k] EXCEPT !.phase = "done"]]]

(* The first step: the guards are read again, then connect_device is       *)
(* awaited.                                                                *)
AttemptBegins(s, k) ==
    /\ task[s][k].phase = "created"
    /\ IF task[s][k].own /\ profile[s].enabled /\ profile[s].brokenFor = 0
         THEN /\ profile' = [profile EXCEPT ![s].state = "reconnecting"]
              /\ task' = [task EXCEPT ![s] = [task[s] EXCEPT ![k] =
                            [phase |-> "connecting", own |-> TRUE, reached |-> link[s]]]]
         ELSE /\ Finish(s, k)
              /\ UNCHANGED profile
    /\ UNCHANGED <<loop, globallyEnabled, tracked, inflight, link, calm, upAge>>

(* connect_device returned: BlueZ had answered the connect call.           *)
Connected(p) == [SeenConnected(p) EXCEPT !.up = 0]

AttemptSucceeds(s, k) ==
    /\ task[s][k].phase = "connecting"
    /\ task[s][k].reached
    /\ Finish(s, k)
    /\ IF task[s][k].own
         THEN /\ profile' = [profile EXCEPT ![s] = Connected(profile[s])]
              /\ calm' = [calm EXCEPT ![s] = Longest]
              /\ upAge' = [upAge EXCEPT ![s] = 0]
         ELSE UNCHANGED <<profile, calm, upAge>>
    /\ UNCHANGED <<loop, globallyEnabled, tracked, inflight, link>>

(* Fault: a busy answer forgets the pending deadline.                      *)
DeferredAfresh(p, delay) == [p EXCEPT !.down = NoDrop, !.state = "backoff", !.retryIn = 0]

(* _defer_busy_connection: another connection owns the adapter.            *)
Deferred(p, delay) == Retry([p EXCEPT !.down = NoDrop], Larger(delay, Settle))

AttemptFindsBusy(s, k) ==
    /\ task[s][k].phase = "connecting"
    /\ Finish(s, k)
    /\ IF task[s][k].own
         THEN \E delay \in Delays(profile[s].step) :
                profile' = [profile EXCEPT ![s] = Deferred(profile[s], delay)]
         ELSE UNCHANGED profile
    /\ UNCHANGED <<loop, globallyEnabled, tracked, inflight, link, calm, upAge>>

(* Any other error, the thirty-second timeout included: one more failure,  *)
(* and the breaker opens at the limit.                                     *)
OneMore(n) == Smaller(n + 1, MaxFailures)

Failed(p, delay) ==
    LET counted == [p EXCEPT !.failures = OneMore(p.failures), !.step = OneMore(p.step)]
    IN  IF counted.failures < MaxFailures
          THEN Retry(counted, delay)
          ELSE [Retry([counted EXCEPT !.brokenFor = Larger(p.brokenFor, BreakerCooldown)], delay)
                  EXCEPT !.state = "circuit_broken"]

AttemptFails(s, k) ==
    /\ task[s][k].phase = "connecting"
    /\ Finish(s, k)
    /\ IF task[s][k].own
         THEN /\ \E delay \in Delays(OneMore(profile[s].step)) :
                   profile' = [profile EXCEPT ![s] = Failed(profile[s], delay)]
              /\ calm' = [calm EXCEPT ![s] = 0]
         ELSE UNCHANGED <<profile, calm>>
    /\ UNCHANGED <<loop, globallyEnabled, tracked, inflight, link, upAge>>

(* CancelledError is delivered: at once when the task never started, at    *)
(* connect_device's await otherwise.                                       *)
AttemptCancelled(s, k) ==
    /\ task[s][k].phase \in {"revoked", "cancelled"}
    /\ Finish(s, k)
    /\ IF task[s][k].phase = "cancelled" /\ task[s][k].own
         THEN \E delay \in Delays(profile[s].step) :
                profile' = [profile EXCEPT ![s] = Retry(profile[s], delay)]
         ELSE UNCHANGED profile
    /\ UNCHANGED <<loop, globallyEnabled, tracked, inflight, link, calm, upAge>>

(* Fault: the callback of a cancelled task releases its successor.         *)
ReleaseAnyTask(s, k) ==
    /\ task[s][k].phase = "done"
    /\ inflight' = [inflight EXCEPT ![s] = NoTask]
    /\ task' = [task EXCEPT ![s] = [task[s] EXCEPT ![k] = FreeTask]]
    /\ UNCHANGED <<loop, globallyEnabled, tracked, profile, link, calm, upAge>>

(* _release_inflight, the done callback.                                   *)
ReleaseInflight(s, k) ==
    /\ task[s][k].phase = "done"
    /\ inflight' = IF inflight[s] = k THEN [inflight EXCEPT ![s] = NoTask] ELSE inflight
    /\ task' = [task EXCEPT ![s] = [task[s] EXCEPT ![k] = FreeTask]]
    /\ UNCHANGED <<loop, globallyEnabled, tracked, profile, link, calm, upAge>>

(* Fault: the attempts outlive the engine.                                 *)
StopLoopOnly ==
    /\ running
    /\ loop' = "stopped"
    /\ UNCHANGED <<globallyEnabled, tracked, profile, inflight, task, link, calm, upAge>>

(* stop: every tracked attempt is cancelled, then gathered; the loop and   *)
(* the event handler do nothing once running is false.                     *)
Stop ==
    /\ running
    /\ loop' = "stopped"
    /\ task' = [s \in Speakers |-> [k \in Slots |->
                  IF inflight[s] = k THEN Cancelled(task[s][k]) ELSE task[s][k]]]
    /\ UNCHANGED <<globallyEnabled, tracked, profile, inflight, link, calm, upAge>>

-----------------------------------------------------------------------------
(* One time unit passes.                                                   *)
Aged(p) ==
    [p EXCEPT !.retryIn = Left(@), !.brokenFor = Left(@), !.coolFor = Left(@),
              !.down = IF @ = NoDrop THEN @ ELSE Smaller(@ + 1, Grace),
              !.up = Smaller(@ + 1, Settle),
              !.flaps = {age \in 0 .. FlapWindow : age - 1 \in @}]

Advance ==
    /\ profile' = [s \in Speakers |-> IF s \in tracked THEN Aged(profile[s]) ELSE profile[s]]
    /\ calm' = [s \in Speakers |-> Smaller(calm[s] + 1, Longest)]
    /\ upAge' = [s \in Speakers |-> Smaller(upAge[s] + 1, Settle)]
    /\ UNCHANGED <<loop, globallyEnabled, tracked, inflight, task, link>>

-----------------------------------------------------------------------------
AttemptStep(s, k) ==
    \/ AttemptBegins(s, k)
    \/ AttemptSucceeds(s, k) \/ AttemptFindsBusy(s, k) \/ AttemptFails(s, k)
    \/ AttemptCancelled(s, k) \/ ReleaseInflight(s, k)

Next ==
    \/ Start \/ Stop \/ Tick \/ Advance
    \/ \E s \in Speakers :
         \/ \E enabled \in EnabledArgs : Register(s, enabled)
         \/ Unregister(s)
         \/ \E connected \in BOOLEAN, bond \in {"trusted", "paired", "none"} :
              DeviceEvent(s, connected, bond)
         \/ \E k \in Slots : AttemptStep(s, k)
    \/ \E enabled \in BOOLEAN : SetGlobalEnabled(enabled)

Spec == Init /\ [][Next]_vars

(* The loop keeps polling while it runs, time passes, the event loop runs  *)
(* every ready task and callback, and asyncio.timeout ends every attempt.  *)
Fairness ==
    /\ WF_vars(Tick)
    /\ WF_vars(Advance)
    /\ \A s \in Speakers, k \in Slots : WF_vars(AttemptStep(s, k))

FairSpec == Spec /\ Fairness

-----------------------------------------------------------------------------
(* Properties.                                                             *)

(* Every variable stays in its range: however many drops, busy answers,    *)
(* failures and cancellations set it, a deadline is never further away     *)
(* than the longest of the delays that set it.                             *)
TypeOK ==
    /\ loop \in {"new", "running", "stopped"}
    /\ globallyEnabled \in BOOLEAN
    /\ tracked \in SUBSET Speakers
    /\ profile \in [Speakers -> Profile]
    /\ inflight \in [Speakers -> Slots \cup {NoTask}]
    /\ task \in [Speakers -> [Slots -> Task]]
    /\ link \in [Speakers -> BOOLEAN]
    /\ calm \in [Speakers -> 0 .. Longest]
    /\ upAge \in [Speakers -> 0 .. Settle]

(* A speaker never has two attempts that are created or connecting and not *)
(* cancelled, and such an attempt is the one _inflight can cancel: across  *)
(* unregistering, registering again, and done callbacks that run late.     *)
OneAttempt ==
    \A s \in Speakers, k \in Slots : Live(s, k) => inflight[s] = k

(* The engine implements the pacing promise: an attempt reaches            *)
(* connect_device only when the backoff of its failure count, and the      *)
(* breaker's cooldown once the count is at the limit, has passed since the *)
(* last failure, whatever busy answers, presence events, cancellations and *)
(* late-starting tasks came in between.                                    *)
Pacing == INSTANCE ReconnectPacing WITH
    LongestRest <- Longest,
    failures    <- [s \in Speakers |-> profile[s].failures],
    rest        <- calm,
    attempting  <- [s \in Speakers |-> \E k \in Slots : task[s][k].phase = "connecting"]

ImplementsPacing == Pacing!Spec

(* A retry is spawned only when the link, if it ever came up, did so at    *)
(* least the settle window ago - also when the link came back inside the   *)
(* grace window, which leaves connected_at as it was.                      *)
SettleRespected ==
    [][\A s \in Speakers, k \in Slots :
         (task[s][k].phase = "none" /\ task'[s][k].phase = "created") => upAge[s] >= Settle]_vars

(* A pending retry deadline is never brought forward by anything but a     *)
(* connected link, a new registration or the clock: not by busy answers,   *)
(* presence events, cancellations, or attempts of an older registration.   *)
DeadlineOnlyLater ==
    [][\A s \in Speakers :
         (s \in tracked /\ s \in tracked' /\ profile'[s].retryIn < profile[s].retryIn)
           => \/ profile'[s].state = "connected"
              \/ Advance /\ profile'[s].retryIn = Left(profile[s].retryIn)]_vars

(* After stop no attempt starts to connect and none is left running when   *)
(* the tasks are gathered.                                                 *)
StoppedIsQuiet ==
    ~running => \A s \in Speakers, k \in Slots : ~Live(s, k)

(* A tracked, enabled speaker whose drop the engine has noted, or that is  *)
(* already in the retry cycle, is eventually attempted, unless its link    *)
(* returns or the speaker is let go.                                       *)
NoticedDown(s) ==
    /\ running /\ s \in tracked /\ profile[s].enabled /\ ~link[s]
    /\ profile[s].down # NoDrop \/ profile[s].state \in {"backoff", "reconnecting", "circuit_broken"}

DroppedSpeakerIsRetried ==
    \A s \in Speakers :
      NoticedDown(s) ~> \/ link[s] \/ ~running \/ s \notin tracked \/ ~profile[s].enabled
                        \/ \E k \in Slots : task[s][k].phase = "connecting"

(* A dropout that lasts is acted on: while its link stays down, a tracked  *)
(* speaker does not stay marked connected.                                 *)
MarkedConnectedWhileDown(s) ==
    running /\ s \in tracked /\ profile[s].enabled /\ profile[s].state = "connected" /\ ~link[s]

LastingDropIsActedOn ==
    \A s \in Speakers : MarkedConnectedWhileDown(s) ~> ~MarkedConnectedWhileDown(s)
=============================================================================
