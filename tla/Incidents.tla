----------------------------- MODULE Incidents -----------------------------
(***************************************************************************)
(* The incident log (backend/bl_haos/incidents.py, fed by the registry of  *)
(* health.py and started and stopped by main.py): warnings are counted     *)
(* from any thread, and a sample takes the counts and the health and has   *)
(* a thread append them to a file that may refuse.                         *)
(***************************************************************************)
EXTENDS Naturals, FiniteSets

CONSTANTS
    States,         \* the SpeakerStates observed
    MaxChurn,       \* bound: connects and suppressed flaps
    MaxWarnings     \* bound: warnings emitted

ASSUME IncidentsAssumption ==
    /\ States \subseteq {"unknown", "connected", "disconnected", "reconnecting", "unavailable"}
    /\ MaxChurn \in Nat /\ MaxWarnings \in Nat

VARIABLES
    speaker,    \* HealthRegistry.speakers[a]
    monitor,    \* how far the lifespan is with IncidentRecorder
    sample,     \* the sample that the task, or the lifespan, is taking
    counts,     \* IncidentRecorder.counts, summed over the categories
    previous,   \* IncidentRecorder.previous
    overdue,    \* an hour has passed since last_write
    dropped,    \* IncidentRecorder.dropped, is it above 0
    disk,       \* what becomes of a line that is appended
    torn,       \* the file ends within a line
    newest,     \* the context of the newest readable line
    warnings    \* how many warnings were emitted, and became of which

vars == <<speaker, monitor, sample, counts, previous, overdue, dropped, disk, torn, newest, warnings>>

recorder == <<counts, previous, overdue, dropped>>

-----------------------------------------------------------------------------
Samplers == {"task", "lifespan"}
Sleeping == [pc |-> "sleeping"]
Ended == [pc |-> "ended"]
Nothing == [state |-> "none"]

Init ==
    /\ speaker = [state |-> "unknown", connects |-> 0, disconnects |-> 0, flaps |-> 0]
    /\ monitor = "off"
    /\ sample = [w \in Samplers |-> Ended]
    /\ counts = 0
    /\ previous = Nothing
    /\ overdue = TRUE
    /\ dropped = FALSE
    /\ disk = "ok"
    /\ torn = FALSE
    /\ newest = Nothing
    /\ warnings = [emitted |-> 0, logged |-> 0, lost |-> 0]

-----------------------------------------------------------------------------
(* HealthRegistry.                                                         *)

(* Fault: every disconnect that is reported counts.                        *)
WentDownAnyway(to) == to = "disconnected"

WentDown(to) == to = "disconnected" /\ speaker.state = "connected"

CameUp(to) == to = "connected" /\ speaker.state # "connected"

One(p) == IF p THEN 1 ELSE 0

(* observe_speaker                                                         *)
Observe(to) ==
    /\ speaker.connects + One(CameUp(to)) + speaker.flaps <= MaxChurn
    /\ speaker' = [speaker EXCEPT !.state = to,
                                  !.connects = @ + One(CameUp(to)),
                                  !.disconnects = @ + One(WentDown(to))]
    /\ UNCHANGED <<monitor, sample, recorder, disk, torn, newest, warnings>>

(* record_suppressed_flap                                                  *)
SuppressedFlap ==
    /\ speaker.connects + speaker.flaps < MaxChurn
    /\ speaker' = [speaker EXCEPT !.flaps = @ + 1]
    /\ UNCHANGED <<monitor, sample, recorder, disk, torn, newest, warnings>>

-----------------------------------------------------------------------------
(* emit: from any thread, while the handler is attached.                   *)
Emit ==
    /\ monitor = "running"
    /\ warnings.emitted < MaxWarnings
    /\ counts' = counts + 1
    /\ warnings' = [warnings EXCEPT !.emitted = @ + 1]
    /\ UNCHANGED <<speaker, monitor, sample, previous, overdue, dropped, disk, torn, newest>>

-----------------------------------------------------------------------------
(* sample: what runs before the thread is started.                         *)

Taken(w) == sample[w].pc \in {"writing", "written", "failed", "refused"}
StorageFree == \A w \in Samplers : ~Taken(w)

(* Fault: the counts are cleared when the line has been written.           *)
LeavesCounts == counts

CountsLeft == 0

(* Fault: no entry every hour.                                             *)
WantedIfChanged(w) == w = "lifespan" \/ counts > 0 \/ speaker # previous

Wanted(w) == w = "lifespan" \/ counts > 0 \/ speaker # previous \/ overdue

(* Where a sampler goes from a sample: the task to sleep, unless stop was  *)
(* called, the lifespan on.                                                *)
After(w) == IF w = "task" /\ monitor # "stopping" THEN Sleeping ELSE Ended

Skip(w) ==
    /\ sample[w].pc = "waiting" /\ StorageFree /\ ~Wanted(w)
    /\ sample' = [sample EXCEPT ![w] = After(w)]
    /\ UNCHANGED <<speaker, monitor, recorder, disk, torn, newest, warnings>>

Take(w) ==
    /\ sample[w].pc = "waiting" /\ StorageFree /\ Wanted(w)
    /\ sample' = [sample EXCEPT ![w] = [pc |-> "writing", context |-> speaker, batch |-> counts]]
    /\ counts' = CountsLeft
    /\ UNCHANGED <<speaker, monitor, previous, overdue, dropped, disk, torn, newest, warnings>>

-----------------------------------------------------------------------------
(* _append: in a thread.                                                   *)

Append(w) ==
    /\ sample[w].pc = "writing"
    /\ sample' = [sample EXCEPT ![w].pc =
                    CASE disk = "ok" -> "written" [] disk = "refusing" -> "refused" [] OTHER -> "failed"]
    /\ LET whole == disk \in {"ok", "chmod"}
       IN  /\ torn' = IF whole THEN FALSE ELSE torn \/ disk = "filling"
           /\ newest' = IF whole /\ ~torn THEN sample[w].context ELSE newest
           /\ warnings' = IF whole /\ ~torn
                          THEN [warnings EXCEPT !.logged = @ + sample[w].batch]
                          ELSE [warnings EXCEPT !.lost = @ + sample[w].batch]
    /\ UNCHANGED <<speaker, monitor, recorder, disk>>

(* Nothing is written (the day's file is full, or cannot be opened); the   *)
(* space ends within a line; the line is written and its chmod fails.      *)
DiskChanges(to) == disk' = to /\ UNCHANGED <<speaker, monitor, sample, recorder, torn, newest, warnings>>

HourPasses == overdue' = TRUE /\ UNCHANGED <<speaker, monitor, sample, counts, previous, dropped, disk, torn, newest, warnings>>

-----------------------------------------------------------------------------
(* sample: what runs when the thread has answered.                         *)

(* Fault: a storage error is logged, and not counted.                      *)
DropsRefused(answer) == answer = "refused"

Drops(answer) == answer \in {"failed", "refused"}

Answered(w) ==
    /\ sample[w].pc \in {"written", "failed", "refused"}
    /\ LET written == sample[w].pc = "written"
       IN  /\ dropped' = (dropped \/ Drops(sample[w].pc))
           /\ previous' = IF written THEN sample[w].context ELSE previous
           /\ overdue' = (overdue /\ ~written)
    /\ sample' = [sample EXCEPT ![w] = After(w)]
    /\ UNCHANGED <<speaker, monitor, counts, disk, torn, newest, warnings>>

-----------------------------------------------------------------------------
(* The task and the lifespan.                                              *)

Begin(w) == sample' = [sample EXCEPT ![w] = [pc |-> "waiting"]]

(* _run: five seconds are over.                                            *)
TimesOut ==
    /\ sample["task"] = Sleeping /\ monitor = "running"
    /\ Begin("task")
    /\ UNCHANGED <<speaker, monitor, recorder, disk, torn, newest, warnings>>

(* start: a first sample, then the handler and the task.                   *)
Start ==
    /\ monitor = "off"
    /\ monitor' = "starting"
    /\ Begin("lifespan")
    /\ UNCHANGED <<speaker, recorder, disk, torn, newest, warnings>>

Started ==
    /\ monitor = "starting" /\ sample["lifespan"] = Ended
    /\ monitor' = "running"
    /\ sample' = [sample EXCEPT !["task"] = Sleeping]
    /\ UNCHANGED <<speaker, recorder, disk, torn, newest, warnings>>

(* stop: no handler any more, and the task is told; asleep it ends.        *)
Stop ==
    /\ monitor = "running"
    /\ monitor' = "stopping"
    /\ sample' = IF sample["task"] = Sleeping THEN [sample EXCEPT !["task"] = Ended] ELSE sample
    /\ UNCHANGED <<speaker, recorder, disk, torn, newest, warnings>>

(* Fault: the task is not awaited.                                         *)
TaskLeft == TRUE

TaskEnded == sample["task"] = Ended

FinalSample ==
    /\ monitor = "stopping" /\ TaskEnded
    /\ monitor' = "final"
    /\ Begin("lifespan")
    /\ UNCHANGED <<speaker, recorder, disk, torn, newest, warnings>>

Stopped ==
    /\ monitor = "final" /\ sample["lifespan"] = Ended
    /\ monitor' = "stopped"
    /\ UNCHANGED <<speaker, sample, recorder, disk, torn, newest, warnings>>

-----------------------------------------------------------------------------
Steps(w) == Skip(w) \/ Take(w) \/ Append(w) \/ Answered(w)

Next ==
    \/ \E to \in States : Observe(to)
    \/ SuppressedFlap
    \/ Emit
    \/ \E w \in Samplers : Steps(w)
    \/ \E to \in {"ok", "refusing", "filling", "chmod"} : DiskChanges(to)
    \/ HourPasses
    \/ TimesOut \/ Start \/ Started \/ Stop \/ FinalSample \/ Stopped

Spec == Init /\ [][Next]_vars

(* Time passes, a thread ends, and the loop resumes what can go on.        *)
FairSpec ==
    /\ Spec
    /\ \A w \in Samplers : WF_vars(Steps(w))
    /\ WF_vars(TimesOut) /\ WF_vars(HourPasses)

-----------------------------------------------------------------------------
(* Properties.                                                             *)

Contexts == [state : States \cup {"unknown"}, connects : 0 .. MaxChurn, disconnects : 0 .. MaxChurn, flaps : 0 .. MaxChurn]

(* Every variable stays in its range: a speaker never went down more often *)
(* than it came up.                                                        *)
TypeOK ==
    /\ speaker \in Contexts /\ speaker.disconnects <= speaker.connects
    /\ monitor \in {"off", "starting", "running", "stopping", "final", "stopped"}
    /\ sample \in [Samplers -> {Sleeping, Ended, [pc |-> "waiting"]}
                                 \cup [pc : {"writing", "written", "failed", "refused"},
                                       context : Contexts, batch : 0 .. MaxWarnings]]
    /\ counts \in 0 .. MaxWarnings
    /\ previous \in Contexts \cup {Nothing} /\ newest \in Contexts \cup {Nothing}
    /\ {overdue, dropped, torn} \subseteq BOOLEAN
    /\ warnings \in [{"emitted", "logged", "lost"} -> 0 .. MaxWarnings]

Underway(w) == IF sample[w].pc = "writing" THEN sample[w].batch ELSE 0

(* Every warning is, at every moment, waiting for a sample, in a sample,   *)
(* in the log or lost, and nowhere twice.                                  *)
Accounted ==
    warnings.emitted = counts + Underway("task") + Underway("lifespan") + warnings.logged + warnings.lost

(* Warnings that no readable line holds are admitted: dropped is above 0   *)
(* as soon as the thread that lost them has answered.                      *)
LossIsAdmitted ==
    (warnings.lost > 0 /\ \A w \in Samplers : sample[w].pc \notin {"failed", "refused"}) => dropped

(* When the recorder has stopped, no sample is under way and no warning    *)
(* waits for one.                                                          *)
StopIsComplete == monitor = "stopped" => counts = 0 /\ \A w \in Samplers : sample[w] = Ended

(* Storage errors are retried (DOCS.md): once the disk accepts lines again *)
(* the log comes to show a health that lasts, whatever was refused, torn   *)
(* or not acknowledged before.                                             *)
HealthIsLogged ==
    (<>[](monitor = "running" /\ disk = "ok") /\ <>[][FALSE]_speaker) => <>[](newest = speaker)

=============================================================================
