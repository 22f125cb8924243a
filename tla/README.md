# Formal models of BL-HAOS Bridge

TLA+ models of the concurrent core of the bridge (`backend/bl_haos`), TLC
configurations that check them on small instances, and TLAPS proofs of the
results that matter most. Paths below are relative to the repository's source.

The daemon is one asyncio event loop. Code between two awaits cannot be
interrupted, so **one action is the code between two awaits**, and everything
that can happen at an await (other handlers, D-Bus signals, child processes,
timeouts, cancellation) is an interleaving of actions.

## The system

| Component | State | Operations | What is hard |
|---|---|---|---|
| Automatic reconnection, `bluetooth/reconnect.py` | profile per speaker (state, failure count, deadlines), `_inflight`, running flag | register, unregister, global switch, device event, tick, attempt, done callback, stop | attempts that outlive their registration, deadlines rewritten by several handlers, events inside an attempt |
| Bluetooth manager, `bluetooth/manager.py`, `device.py`, `adapter.py` | cached adapters and devices, one connection lock per adapter, scan ownership | BlueZ signals, connect, disconnect, remove, pair, D-Bus recovery | a device withdrawn or replaced between two awaits; late signals; operations that bypass the lock |
| Pairing window, `bluetooth/agent.py`, `manager.py` | the address, PIN and deadline of the window, `Pairable` of the adapters | open, close, expire, authorise | overlapping pairings, failed writes of `Pairable`, adapters that come and go under the loop that writes it |
| Playback and queues, `ha/player.py` | per speaker: lock, generation, session, active process pair, published state, warm-up task | play, stop, pause, queue controls, the watcher of each pair, keep-alive, warm-up | stop without the lock, watchers of replaced pairs, queue positions read before the lock |
| Application wiring, `main.py` | the spawned background tasks | start-up, Bluetooth events, shutdown | stop of the stream when the link goes |
| HTTP routes, `api/routes.py` | none of their own | pair, connect, remove, settings, native commands | recovery loop that repeats a command seconds later |
| WebSocket broadcast, `api/ws.py` | list of clients | connect, disconnect, broadcast | the list changes while a broadcast waits |
| Configuration, `config.py` | the settings file and its temporary copy | load, save, speaker records | crash between write and replace, unreadable file; who is armed for reconnection follows from it and from what BlueZ knows |
| Incident log, `incidents.py` | counters, daily files | emit, sample, start, stop | warnings from other threads, a write that fails or tears a line, a stop during a sample |
| Health report, `health.py` | component and speaker states | observe, publish | counters and transitions |
| Call trace, diagnostics, demo, container services | - | - | nothing concurrent of their own |

How they interact: BlueZ's signals reach the manager, whose listeners are the
engine and `main._on_bt_event`; the latter stops the stream of a lost speaker,
registers the speaker for warming and reconnection, and spawns a broadcast. The
engine and the routes call the manager; the routes save settings and arm or
disarm the engine; the player publishes through broadcasts; everything logs to
the incident recorder and the health registry.

| Module | Models | Abstract specification | Proofs |
|---|---|---|---|
| `Reconnect` (`Backoff`) | the reconnect engine | `ReconnectPacing` | `ReconnectProofs` |
| `Playback` | commands, queue, lock and process pairs of a speaker | | `PlaybackProofs` |
| `Sound` | warm-up tasks, volume | | `SoundProofs` |
| `Connection` | records of a speaker and the operations on it | | `ConnectionProofs` |
| `Pairing` | the pairing window and `Pairable` | | `PairingProofs` |
| `Settings` | settings file, who is armed, restarts | `SettingsStore` | `SettingsProofs` |
| `Broadcast` | WebSocket clients | | `BroadcastProofs` |
| `Incidents` | incident recorder, health counters | | `IncidentsProofs` |

Each has an `MC` module, with the instance in its `.cfg`. `Lists` has the operators for
lists that lose several entries (clients, records). The modules share no state: what one sees of another (a "busy" answer, a lost link, a sink) is an
action that may happen at any time.

## Automatic reconnection

`Reconnect` models the whole of `AutoReconnectEngine`. Correspondence:

* `profile[s]` is a `SpeakerReconnectProfile`; `tracked` are the keys of
  `profiles`; `inflight[s]` is the entry of `_inflight`; `task[s][k]` is the
  k-th live asyncio task running `_attempt_reconnect` for the speaker, tracked
  or not. A task is `created` (scheduled, not begun), `connecting` (awaiting
  `connect_device`), `revoked`/`cancelled` (cancelled before/after it began) and
  `done` (its done callback still to run). `own` says whether the task's profile
  object is still the registered one (the code's `is profile` checks).
* Absolute deadlines become times left, "since" times become ages, both moved by
  `Advance`. An age is kept only up to the longest value it is compared with.
* `DeviceEvent` is the manager's notification of both listeners, `main._on_bt_event`
  and the engine, without an await in between. A link reported down while an
  attempt has already had its answer is possible only with `LateDrops`.
* `calm` and `upAge` are history variables: time since the last counted failure,
  and since the engine last learned that the link came up. No action reads them.

`ReconnectPacing` is the abstract promise: per speaker one attempt at a time,
and after f consecutive failures no attempt before a backoff delay for f has
passed, nor before the breaker's cooldown once f is at the limit. `Reconnect`
implements it (`ImplementsPacing`). `Backoff` is `_calculate_backoff_delay`;
`MCReconnect` takes the delays of the instance from it.

| Run | Question | Instance |
|---|---|---|
| `reconnect_safety` | One attempt per speaker, owned by `_inflight`; quiet after stop; settle window respected; pending deadlines never brought forward; `ReconnectPacing` implemented; a noticed drop is retried | one speaker, two task objects, breaker at 2 failures, all deadlines 1 to 3 units, flap limit 2, `LateDrops` |
| `reconnect_late_drop` | Is a lasting drop acted on when it is reported inside an attempt? **No**: finding below | one failure to the breaker, fixed delays, `LateDrops` |

Speakers share nothing in the engine (the adapter lock belongs to the manager,
and shows here as a "busy" answer that may always be given), so one speaker is
enough for TLC; the proofs hold for any set. Two task objects suffice for a
cancelled attempt beside its successor. Two failures distinguish below, at and
beyond the breaker's limit. Settle must be at most Grace plus the first delay
(with the code's constants 15 = 5 + 10, exactly met) and at most any later delay
(20 or more); with a longer settle window
`SettleRespected` would not hold, since `connected_at` is not refreshed by a link that returns
inside the grace window.

Fairness: the loop keeps polling and time passes (a timer
of the event loop), and every task step runs, since asyncio runs ready tasks and
`asyncio.timeout(30)` ends every `connect_device`. Nothing is assumed of BlueZ,
of the speaker or of the operator.

Finding: `_attempt_reconnect` clears `disconnected_since` and marks the speaker
connected when `connect_device` returns, without a look at the link. A drop
reported between BlueZ's answer and that return is erased, and no later event
need come: the speaker stays marked connected and is not retried, where
DOCS.md says a dropout that survives the grace window is acted on.

### Proofs

`ReconnectProofs` holds for
every set of speakers, any number of task objects, any delays and limits
(`ReconnectAssumption`: naturals, `Grace`, `MaxFailures`, `FlapLimit` positive).

* `Invariance`: the inductive invariant `IInv`, the conjunction of `TypeOK`,
  `LiveIsOwned` (a live task is the one `_inflight` names and its profile is the
  registered one) and
  `Paced` (a profile's deadlines still cover the rest its failures have not had).
  `OneAttempt` alone is not inductive: a task that is live but not owned could
  be joined by another.
* `TypeCorrect`, `OneAttemptAlways`, `StoppedIsQuietAlways` follow from it.
* `PacingImplemented`: the initial states map to initial states and every step
  to a move of each speaker, `Begin` by `Paced`.
* `DeadlineOnlyLaterAlways`: one step per action; `Retry` takes a maximum.

* `SettleRespectedAlways`, under the hypothesis `LongEnough`, the timing relation
  above. Its own invariant `Settling` says what holds a retry back from a link that
  came up u ago: while no drop is noted, the profile's state; then the age of the
  drop, never above u; then the deadline, which is at least Settle - u. It holds only
  while the engine runs: after `stop` a cancelled attempt may schedule a retry that
  no tick will look at, and before it such a task has lost its profile (`LetGo`).

* `DelaysAreCapped` and `DelaysAreLongEnough` discharge what the others assume of the
  delays, for `Backoff` with any parameters the constructor accepts (`LegalBackoff`,
  in whole time units) and any step: a delay lies between 0 and `max_backoff`, jitter
  only lengthens it, and one below the cap is not below both `initial_backoff` and
  `RECONNECT_MIN_BACKOFF_SECONDS`; and `LongEnough` follows from three inequalities
  between constants, which the defaults satisfy (10 + 5, 10 * 2 and 120 against 15).
  Both have `Powers` as a hypothesis: a power of the multiplier is a natural number and
  at least the multiplier. It is true of every multiplier from 1 on, but `^` means
  nothing to the provers and the induction that shows it is out of their reach.

Only model-checked: the liveness properties (out of the prover's reach).

## Playback and queues

`Playback` models one speaker of `MediaPlayerBridge`: speakers have their own
lock, generation, session and pair, and share nothing of this. Correspondence:

* `generation`, `session`, `active`, `published` and `line` are
  `_playback_generations`, `playback_sessions`, `active_processes`, `states` and
  the speaker's `_address_locks` entry (asyncio locks are fair: `line` is its
  holder, then the waiters in order).
* `stream[p]` is a decoder/player pair. A pair may run, be stopped by SIGSTOP,
  be asked to terminate, or have exited before its watcher task ran; a replaced
  pair may outlive its bounded wait. `pair`, `born` and `generation` stand for
  the object comparisons of the code (`is`), which pair and which session.
* `op[a]` is a call of the bridge, or the watcher of a pair. `pc` names the await
  it is suspended at: the lock (`waiting`), the end of a replaced pair
  (`clearing`, `stopping`, `halting`), the cancelled warm-up (`entered`), the
  sink and the processes (`starting`), the state callback (`notifying`).
* Acquiring a free asyncio lock, and releasing one, does not suspend. `arriving`
  and `leaving` mark such stretches, and `Calm` keeps everybody else out, so that
  what stands between two awaits stays one step.
* Actions: `Replace` (`play_url`, `start_queue`), `Control*` (`control_queue` up
  to the lock, where it computes its target), `Enter*` (from the lock on),
  `EnterSkip`/`Cleared` (next, previous, retry), `StopOld`/`Stopped`/`StartSucceeds`/
  `StartFails` (`_play_url_locked`), `Stop`/`StopEnds`, `LinkLost`/`ScheduledStop`
  (`main._on_bt_event` when the link goes), `Exit`, `Watched`, `EnterEnded`
  (`_watch_processes` before and after the lock).
* `last` is a history variable no action reads: what the newest request that
  takes a generation wants, `play` or `stop`. It is `void` after a retry which
  took a generation and found that another command had already retried.

Left out, since nothing modelled here depends on it: volume (`Sound`), metadata, the timeline,
codec and rate, the keep-alive stream, the content of a queue (only its length
and position matter), shuffle (it permutes items after the position), the
shutdown of the bridge (`stop_all`). The wait for a cancelled warm-up is an
await; the warm-up task itself is in `Sound`. A pair that is stopped by
SIGSTOP does not exit by itself. The two invalidations of a lost link, with no await between
them, are one.

| Run | Question | Answer |
|---|---|---|
| `playback_safety` | One pair plays, and it is the active one; the newest play wins; a queue that plays keeps its pair, but for one case below; the end of a pair moves only the item it played | all hold |
| `playback_stop` | Does a stop end playback when no newer play follows? | no: finding below |

Instance: two overlapping commands and the watchers of two pairs (the pair that is being
replaced and its successor), two items (a last one and another), three requests
that take a generation (the start of a queue and two skips, retries or plays that
overlap after it), two items of history. Each race needs
one command that waits and one that overtakes it, beside a watcher. `MCSymmetry`
permutes the commands, which nothing tells apart. Deadlock is not checked: the
bounds end every behaviour. The first run is exhaustive; the other stops at the
counterexample.

The case `NoStrandedQueue` leaves out is real. A retry of a failed queue takes its
generation before it waits for the lock; when a control ahead of it has already
retried the item it returns at once, and the generation of the running pair is no
longer the current one. Its watcher then returns early (`player.py:1797`) and the
queue strands when the pair ends. `last` is `void` there. `OneStream` is about pairs
that have not been signalled: a replaced pair that outlives its bounded wait is alive
beside its successor.

Finding: stop takes no lock. A play that waits for its sink when stop comes
stores its pair afterwards, and the speaker plays although stop was the last
command.

### Proofs

`PlaybackProofs` holds for any set of commands, any number of pairs, queues of any
length and any bound on requests (`PlaybackAssumption`).

* `Invariance`: the inductive invariant, `TypeOK` and `OneStream` with what they
  rest on. `LockHeld`: an actor past the lock heads `line`, so no two are.
  `RoomMade`: an actor that waits for the old pair or starts the new one has
  already taken the active pair away; with `LockHeld`, nobody can have put
  another there since. `TargetsExist`: a skip knows its item, and only skips and
  retries wait to move the queue.
* `TypeCorrect` and `OneStreamAlways` follow from it.
* `OrderKept`: a second inductive invariant, on top of the first.
  `OwnGenerations`: two requests that wait never hold one generation.
  `NewestKnows`: the session the newest request saw is still the one.
  `HolderKnows`: whoever has the lock and is about to start a pair for a queue
  holds the item, the generation and the identity of the current session.
  `PairIsItem`, `WatcherKnows`: the pair of a session plays its item and has its
  identity, also for a watcher that waits. `Settled`: once the newest request has
  had the lock, everything left is of its generation.
* `NewestPlayWinsAlways`, `NoStrandedQueueAlways` and `EndMovesItsOwnItemAlways`
  follow, the second with the exception of `void` above; none of the three is
  inductive by itself.

`StopEndsPlayback` is violated, hence no theorem. Every invariant and action
property of `playback_safety` is proved.

## Connections and the records of a speaker

`Connection` models one speaker in `BluetoothManager`: BlueZ's objects for its
address, one per adapter, the records the bridge keeps of them, and the
operations on the address. Correspondence:

* `object[a]` is BlueZ's `Device1` object under adapter a. `cache` has the
  `BluetoothDevice` objects that somebody can still reach (`rec`) and the
  dictionary `devices` (`table`, in insertion order): an operation may hold a
  record that has been replaced in the table, as the code does.
* A record made from a property change alone has no address (`named` is false):
  `get_device_by_address` does not find it, `ensure_device` may return it.
* `lock[a]` is an entry of `_connection_locks`. `op[c]` is a call in flight, `pc`
  the await it is suspended at; a call that takes `reset_existing` is a
  `connect` (operator), one that does not is an `auto` (reconnect engine).
* `Answers` is BlueZ handling a call, with the signals it sends (`Heard` is
  `_handle_dbus_message`); the waiting task runs later, in the order of the
  answers (`ready`). Messages that are read together are all handled before any
  task runs, so a signal may be heard while an answer is still to be taken.
  `TimesOut` is the 30 second limit, at any await.
* Actions of the code: `Start`, `StartRemove`, `StartPair`; `Resolve`
  (`ensure_device`); `Settled`, `Reset`, `Rested`, `ConnectSucceeds`,
  `ConnectFails`, `Trusted` (`connect_device` under its lock, and the end of a
  pairing); `Disconnected`; `Untrusted`, `Dismissed`, `Removed` (`remove_device`);
  `PairSettled`, `Seek`, `Pairs` (`_pair_and_trust`). BlueZ by itself: `Appears`,
  `Withdraws`, `Changes`.
* `owned`, `forgotten` and `overtaken` are history variables no action reads: what
  the speaker's record last said, whether a removal was the last thing asked, and,
  for each adapter, whether the link last changed (`Link`: the object came, went,
  connected or dropped) after BlueZ had answered a call that asked about it and
  before the task took that answer (`Unread`).

Left out: other speakers (they share the lock only, which then says busy), adapters that come and go
and the pairing window (both in `Pairing`), scans, speakers that another program pairs or trusts, and
`mark_dbus_disconnected`/`recover_dbus`, which only tests and the demo call.

| Run | Question | Answer |
|---|---|---|
| `connection_safety` | One `connect_device` per adapter; an owned speaker keeps its record; unless `overtaken`, a live record that says connected is connected, and a removed speaker has no record | all hold |
| `connection_pair` | Does a trusted speaker stay listed while it is off, after a pairing too? | no: finding below |

Instance: one adapter; an automatic attempt against an operator's `connect` and
against a removal, and every operation, pairing too, alone (each caller calls as often
as it likes), with every report of BlueZ between any two steps. Every hazard listed
has two calls or one call and BlueZ; the theorems hold for every overlap.
`MaxRecords` is no bound: the table holds one record per path and each
call at most one more. Deadlock is not checked: nobody has to call anything.

The exception is real. If the link drops right after BlueZ's answer to `Connect` and
both are read at once, the signal is handled first and the task then writes
`connected` over it (`manager.py:654`, `device.py`), until the link changes again. In
the same way an object that is withdrawn right after the answer to `GetAll` gets a
live record (`manager.py:384`), of a removed speaker too. `ConnectedIsTrue` and
`RemovedIsForgotten` say that nothing else leaves such a record: no time-out, reset,
failure, held record or overlap.

Finding: `_pair_and_trust` drops the record of a speaker that is not connected
before it looks it up again. If BlueZ does not answer the look-up and the pairing
fails, the record is gone, and BlueZ's withdrawal finds nothing to keep.

Proofs (`ConnectionProofs`), for any finite set of callers, every overlap, pairings
too. Every task's step is shown once to be a `Moves` (one operation goes on, the cache
becomes a book whose held records keep path and address), and every step of BlueZ to be
a `Hears`; the invariants are proved of these two. `IInv` has the types, that
no path has two records, where an operation of each kind can wait and what it holds
there (`Proper`), that the queue holds exactly the operations that are answered, and that a
connection past its look-up holds its record's lock (`LockHeld`).

| Theorem | Constants | Beyond `IInv` |
|---|---|---|
| `TypeCorrect`, `SpeakerIsKeptAlways` | any | `History`: the history says what the known record says, and an owned speaker has one while calls are in flight, too |
| `NamedApartAlways` | any | two connections past their look-up, whose records have an address, use different adapters |
| `OneConnectionAlways` | one adapter | |
| `ConnectedIsTrueAlways` | any | `Fresh`: an answer that waits is still true, or its link is `overtaken` |
| `RemovedIsForgottenAlways` | one adapter | `Forgot`: forgotten means no object, and no record but of an `overtaken` link |

"One adapter" is needed, as TLC shows with two adapters: a record made of a property
change alone has no address and takes hci0's lock for whatever adapter it is on
(`manager.py:631`), so `OneConnection` fails in 13 steps; and a removal drops one
record, so an offline record of the speaker under a second adapter is listed on.

## Pairing consent

`Pairing` models the operator's pairing window and what it lets BlueZ's agent
answer. Correspondence:

* `window` is `_pairing_address`, `_pairing_pin` and `_pairing_expires_at`; its
  `live` is the comparison with the clock, ended by `Expire`. `Consulted` is a
  prompt (or a look at the diagnostics) that clears an expired window.
* `op[c]` is a call of `pair_and_trust`, or of `initialize` at first: it is
  `opening` or `closing` while `_set_adapters_pairable` loops over the adapters,
  one await per adapter, and `pairing` in `_pair_and_trust` (in `Connection`).
* `left` and `size` are the loop over the live table: when an adapter is plugged
  in or out meanwhile (`Plug`, `Unplug`), the loop raises (`LoopRaises`): before
  the `try` of an opening, inside the `finally` of a pairing.
* `pairable` is BlueZ's property. A write may fail, before or after BlueZ has
  done it; the error is swallowed.
* History variables: `stuck` has the adapters that refused the closing write or
  were plugged in since, `abandoned` the pairings whose window was left open.

`pairing_safety`: two overlapping calls, two speakers, two PINs, up to two
adapters, one of them plugged in or out once. A third call or adapter would only
repeat what these do to one window. `ConsentOnly` is the promise of
`pair_and_trust`'s docstring; `QuietIsNotPairable` says that the last of several
pairings leaves no adapter pairable. Both exempt what the code cannot help
(`stuck`) or gets wrong (`abandoned`, see the disagreements below): a window that an
opening left behind when its loop raised would not be caught by either.
`QuietIsNotPairable` asks of the end of the calls, not of the expiry of a window.

`PairingProofs` proves `ConsentOnly` for any number of calls, speakers, adapters
and PINs. Its inductive invariant: an open window has the address and the PIN of a
call that is opening or pairing, or of one that was abandoned. `TypeCorrect` and
`QuietIsNotPairableAlways` need two more: `Typed` (the positions of the loops and
the addresses of calls), and `Covered` (while no call was abandoned, an adapter
that is pairable has a call that will still close it: one before its closing loop,
or in a loop that has the adapter ahead of it).

## Settings, and who is armed

`Settings` models `ConfigStore`, the routes that change settings or trust, and the
registrations that follow from them, over restarts. Correspondence:

* `memory` is `ConfigStore.settings`, `file` the settings file: a document,
  absent, or `Foreign` (it does not parse or validate). Of a document only the
  speakers' `auto_reconnect`, the global switch and the API token are told apart.
* `deployed` is `BLHAOS_NATIVE_TOKEN`, which may change while the program is down
  (`Redeploys`). A token of the deployment is told apart from a generated one
  (`Configured`, numbers); `load` looks at the variable only if the file has no token
  (`NeedsToken`).
* `op` is the save, or the start, that is under way. A save has no await, so nothing
  interleaves with it but the end of the process: `Writes`, `Written`, `Replaces`
  are `write_text`, its end and `replace`, and `Ends` or `SaveFails` may come
  between any two. A failed save is logged and its caller goes on (`Saved`).
* `Load` and `Started` are `load` and the start of the engine in the lifespan;
  `UpdateSpeaker`/`Applies` (with its first save for a record that is missing),
  `UpdateSystem`, `Remove`, `Pair` are the routes; `Event` is a device event,
  seen by `_on_bt_event` and the engine.
* `tracked` and `enabled` are the engine's `profiles` and switch.

`SettingsStore` is the abstract promise: one document is held, one is kept;
keeping is atomic and may fail, a crash loses what was not kept, a restart finds
what was kept last. `Settings` implements it (`ImplementsStore`).

`settings_safety`: two speakers, two tokens that a deployment may set and two that may
be generated, and every order of settings, events,
pairings, removals, failing saves, crashes, deployments and starts. Two speakers because a
step for one must leave the other alone; nothing relates three.
`TrustedIsArmed` and `OffIsQuiet` relate the engine to settings that several
handlers change. `UnreadableIsKept` and `TokenIsKept` are the recovery promises: a
start does not overwrite a file it cannot read (the next change of a setting does),
and a token on the disk stays, or becomes the value the deployment has set. That a
new value is taken at the next start, as `DOCS.md` has it, is not promised: see the
disagreements below.

`SettingsProofs` proves all six properties for any speakers and any bound.
The inductive invariant adds to the types: which phase an operation can be in
(`Phases`), that the program holds the token that is on the disk (`TokenAgrees`),
that the engine's switch is that of the settings (`SwitchAgrees`), and that while a
save is under way a speaker that was just switched on is armed or will be
(`Armed`). `StoreImplemented` maps each action to a step of the store: `Replaces`
to `Keep`, `Load` to `Restart`, `Ends` to `Crash`, the changes of `memory` to
`Change`, everything else to a stutter.

## Broadcast

`Broadcast` models one `ConnectionManager`. `connections` is
`active_connections`; `task[e]` is the broadcast of event e, whose position `at` is
that of Python's iterator over the live list: when a client before it leaves, the
list moves down under it and the next client is skipped. `send_text` waits until
the client can be written to and then writes, as the pinned server does
(`requirements.txt`: uvicorn 0.34.0 with wsproto); nothing orders two broadcasts
that wait for one client, so `Resume` may take either.
`Leave` is the endpoint's `finally`, `Break` a connection whose loss was not
noticed yet; `slips` counts, as history, the clients that were taken off at or before
an iterator.

`broadcast_safety`: four clients (two that go, two that are skipped for them), two
events, hence also a broadcast that discards under the iterator of the other. No client
gets an event twice (`OnceEach`); a broadcast misses at most one client that stays
for each that was taken off under its iterator, and none if nobody was
(`HeirsAreServed`). The skip itself is real, and contradicts the docstring of
`broadcast`: see the disagreements below. Not promised, hence not
stated: the order in which a client gets two events, and that a broadcast ends. The
send has no timeout, and a client that stays connected and never reads holds it for ever.

`BroadcastProofs` proves all three, for any finite set of
clients and any number of events. `list.remove` is `Without`: the positions that stay,
enumerated in ascending order; `Lost` and `Slides` say what the proofs need of it (a client
moves down by as many positions as clients before it left).

* `Invariance`: `TypeOK`; `Listing` (who is listed is open or broken, and who is
  open is listed); `Walking` (where an iterator can stand, whom it can have
  failed); `Slipping` (slips are at most the clients that have left).
* `OnceEachAlways` by `Behind`: whoever was given an event is at or before its
  iterator, and a list that moves down keeps them there.
* `HeirsAreServedAlways` by `Skipping`: the clients that an iterator has passed and missed
  are at most its slips, counted by an injection into the positions that left.

## Incident log and health counters

`Incidents` models `IncidentRecorder` with the counters of one speaker in
`HealthRegistry`. `counts` is summed over categories; `sample[w]` is the sample
that the periodic task or the lifespan is taking, with its `_append` in a
thread; `disk` decides what becomes of a line: written, refused, torn (the space ends within
it), or written with a failing `chmod`. After a torn line the next one is lost
too, although its own write succeeds. A line that is lost is admitted (`dropped`),
never written again: what is retried at the next sample is the write of the next line. `monitor` is the lifespan's `start` and
`stop`. `warnings` (as history) says how many were emitted, logged, lost.

`incidents_safety`: every state of the disk at every moment, one connect or
suppressed flap and one warning. Counters and warnings are only added and
compared, so one of each shows a loss or a repetition. `HealthIsLogged` is
liveness: once the disk accepts lines, a health that lasts is logged. Fairness:
threads end, the task's timer fires, an hour passes; after a torn line it is the hourly
entry that tells the health, since the line that follows the torn one is lost with it.

`IncidentsProofs` proves all but the liveness property, for any bounds. The
inductive invariant: which sampler can be taking a sample in which phase of the
lifespan (`Phases`: without it the last sample might overwrite one under way), and
`Admitted`: a torn file has been admitted as well as a lost warning.

## The sink: warm-ups and volume

`Sound` models the warm-up tasks and the volume of a speaker in
`MediaPlayerBridge`. `owner` is the entry of `_warmup_tasks`; `warm[w]` is a task
running `_async_warm_sink`, at the await named by `pc`; a cancelled one ends when the
loop next runs it (`Cancel`), and its `finally` pops whatever the entry is
(`Popped`). `volume`, `told` and `level` are the level remembered, the level
published, and the real one. `command` is a volume command between its
awaits, `watch` the volume watch loop. The audio server's sink and the speaker's
buttons are the environment.

| Run | Question | Answer |
|---|---|---|
| `sound_safety` | Is the owned warm-up one that runs, within its attempts; is the shown level the real one in the end, if no client holds the watch? | all hold |
| `sound_warmup` | Is a warm-up cancelled when the speaker disconnects? | no: finding below |

Instance: two warm-ups alive at once (a cancelled one and its successor), two
attempts, two levels. Fairness is assumed of the volume watch alone: its timer fires,
and the query it starts ends (`sink_probe_timeout`, and the system reaps what it
kills). What it publishes it awaits (`telling`), and the send to a client has no
timeout: no fairness is assumed there, and `LevelIsTold` asks only of behaviours in which
no client holds the watch for ever, and commands, sinks and buttons come to rest. That a
warm-up ends is not stated: several of its awaits have no timeout (`drain` at
`player.py:1659`, the wait after `kill` at 1148, the volume command at 1635, the
clients), and the budget is looked at only between attempts.

Finding: the `finally` of `_async_warm_sink` pops the entry without looking whose
it is. A warm-up that was cancelled by a disconnect, and ends after the speaker
has connected again, disowns its successor; the next disconnect cancels nothing.

`SoundProofs` proves `OwnedIsRunning` for any number of warm-ups; the invariant adds the
levels that tasks carry across an await. `LevelIsTold` stays with TLC.

## Disagreements seen, without a run

These behaviours are in the models (the endless waits as steps without fairness). No
run reports them: some contradict a document outright, as said at each, others
go where the documents leave room, or would repeat a finding above.

* A pair that a play stores after a stop has a generation that is not current:
  when it ends its watcher returns before it publishes, and the state stays
  `playing` (`player.py:870`, `888`, where `player.py:765` speaks of confirmed state).
* A retry of a failed queue takes its generation before the lock; if another
  retry has started the item, the end of the running pair is not noticed
  (`player.py:475`, `524`, `1797`). `NoStrandedQueue` exempts it.
* `broadcast` skips a client that stays connected when another leaves, or is discarded
  by an overlapping broadcast, while it waits (`ws.py:64-66`). Its docstring says "all connected
  clients" (`ws.py:48`), and `test_ws.py:53` "other clients still receive".
  `HeirsAreServed` bounds the loss by the departures.
* A client that stays connected and never reads holds whoever publishes to it, the volume
  watch of all speakers and a playback command with its lock included: `_notify` awaits the broadcast
  (`player.py:693`, `main.py:308`) and the send has no timeout (`ws.py:66`).
* A new `BLHAOS_NATIVE_TOKEN` and a restart do not rotate the token: `load` takes the
  variable only if the file has none (`config.py:167-168`). `DOCS.md:377-382` gives it as one
  of the two ways to rotate. `TokenIsKept` allows the rotation and does not ask for it.
* A start keeps a settings file it cannot read, and goes on with defaults; the next
  changed setting overwrites the file (`config.py:171-173`, `239`).
* Messages of BlueZ that are read together: a drop read with the answer to `Connect`
  is overwritten (`manager.py:654`), a withdrawal read with the answer to the look-up leaves
  a live record (`manager.py:384`). `overtaken` marks both.
* Warm-ups are "bounded (4 attempts / 8s)" in `CHANGELOG.md:105`; the 8 seconds are looked at
  between attempts only, and awaits inside one have no timeout.
* `DOCS.md:333` says that storage errors are retried at the next sample; the lines that
  failed are counted as dropped and not written again (`incidents.py:134`).
* `remove_device` decides at its start that BlueZ has nothing to remove; a speaker
  that comes back meanwhile stays in BlueZ and may be listed again (`manager.py:715`).
* An adapter plugged in or out while a pairing window opens ends the call before
  its `try`: the window stays open until it expires (`manager.py:506`), where the docstring
  says "only while this call runs" (`manager.py:564`), and the adapters stay pairable after
  that, where `DOCS.md:66` says they stop when the window "closes or expires".
* An event of a paired or connected sink arms it although it is not trusted
  (`reconnect.py:186`, `CHANGELOG.md:88`), and any such event, or a start, arms a speaker whose
  own setting says off (`main.py:354`, `365`).
* The level applied when a warm-up starts is the last one read, not a configured
  one (`player.py:1052`); an event between a play's cancelled warm-up and its pair starts
  another warm-up, whose pulse may sound into the play.
* A torn incident line and its successor are one line that `recent()` cannot parse (`incidents.py:102`).

## Not modelled, and why

* The keep-alive loop, timeline, codec reports and shuffle of `player.py`: no
  decision modelled here depends on them. The shutdown order of the lifespan but
  for the recorder's.
* The recovery loop of native commands (`api/routes.py:583`), which repeats a command seconds later.
* Scanning, `mark_dbus_disconnected` and `recover_dbus` (no production caller),
  Supervisor discovery, demo mode.
* Component observations, snapshots and listeners of `health.py`, `trace.py`,
  `diagnostics.py`, `recent()` and `status()`: computed without waiting, or read only.
* A crash of the process in `Incidents` (a new process starts its counters anew),
  power loss after a rename that was not synced, retention of old incident files.
* Container services, the front end, the Home Assistant integration: other
  programs, or static content.
* Encodings, D-Bus wire types, `pactl` and `ffmpeg` command lines: nothing a
  property is about.
* Wall-clock steps (`time.time()` in the engine): time advances uniformly here.

## Only model-checked

Of the properties of passing runs, the liveness ones: liveness under fairness and
ENABLED are out of the prover's reach, and so is induction over data. Every other
one is stated by a theorem, some under the hypotheses on constants named with it
(`LongEnough`, one adapter). Tables that lose several entries at
once are therefore defined by the enumeration of the positions that stay (`Lists`)
and not by the
recursive `SelectSeq`: their properties follow from cardinalities alone.

## Plan

1. `Connection` with two adapters: an offline twin of a live record, a
   record without an address that names the wrong adapter's lock.
2. `Playback`: the recovery loop of `api/routes.py`, a second `next` that restarts the item.
3. A composition of `Reconnect` and `Connection`: a reconnect attempt refines the
   "busy or result" answer that `Reconnect` assumes today.
