----------------------------- MODULE Connection -----------------------------
(***************************************************************************)
(* One speaker in BluetoothManager (backend/bl_haos/bluetooth/manager.py,  *)
(* device.py): the records kept of BlueZ's objects for its address, one    *)
(* object path per adapter, and the operations that connect, disconnect,   *)
(* remove and pair it.                                                     *)
(*                                                                         *)
(* The code between two awaits is one action.  BlueZ handles a call in     *)
(* Answers; the signals it sends are handled on the spot, before the task  *)
(* that waits for the answer runs, and so may more messages be.  Tasks run *)
(* in the order of their answers: the queue ready.                         *)
(***************************************************************************)
EXTENDS Naturals, Sequences, SequencesExt, FiniteSets, Lists

CONSTANTS
    Callers,        \* bound: operations in flight at once
    Overlaps,       \* bound: the kinds of operation that may be in flight together
    MaxAdapters,    \* hci0 is adapter 1
    MaxRecords      \* record objects that exist at once

Kinds == {"auto", "connect", "disconnect", "remove", "pair"}
Nobody == "nobody"

(* A record is in the table, one for each path, or in an operation's hands. *)
ASSUME ConnectionAssumption ==
    /\ IsFiniteSet(Callers) /\ Nobody \notin Callers
    /\ Overlaps \subseteq SUBSET Kinds
    /\ MaxAdapters \in Nat \ {0}
    /\ MaxRecords \in Nat /\ MaxRecords > MaxAdapters + Cardinality(Callers)

VARIABLES
    object,     \* BlueZ: the speaker's object under each adapter
    cache,      \* the BluetoothDevice objects, and devices: some of them, in order
    lock,       \* _connection_locks: who holds the lock of an adapter
    op,         \* the operations in flight
    ready,      \* the operations whose answer has arrived, in order
    owned,      \* history: last known as paired or trusted, or dropped as such by a pairing
    forgotten,  \* history: removed, from BlueZ too, and not asked for since
    overtaken   \* history: the link last changed after an answer that still waited

vars == <<object, cache, lock, op, ready, owned, forgotten, overtaken>>

-----------------------------------------------------------------------------
Adapters == 1 .. MaxAdapters
Records == 1 .. MaxRecords
NoRecord == 0

Object == [present : BOOLEAN, connected : BOOLEAN, paired : BOOLEAN, trusted : BOOLEAN]
NoObject == [present |-> FALSE, connected |-> FALSE, paired |-> FALSE, trusted |-> FALSE]

Link(o) == <<o.present, o.connected>>

(* A record made from a property change alone has no address: it is not    *)
(* named, and its adapter reads as hci0.                                   *)
Device == [path : Adapters, named : BOOLEAN, detached : BOOLEAN,
           connected : BOOLEAN, paired : BOOLEAN, trusted : BOOLEAN]
Unused == [path |-> 1, named |-> FALSE, detached |-> FALSE,
           connected |-> FALSE, paired |-> FALSE, trusted |-> FALSE]

Calls == {"resolving", "resetting", "connecting", "trusting", "disconnecting",
          "untrusting", "unlinking", "removing", "seeking", "pairing"}
Pcs == Calls \cup {"idle", "settling", "resting"}
Stages == {"none", "first", "refresh", "seek", "final"}

(* at: the adapter whose object is looked up; next: the adapter a pairing   *)
(* seeks the speaker with; stage: which look-up of a pairing it is;         *)
(* offline: what a removal saw when it began; answer, seen: BlueZ's answer. *)
Op == [pc : Pcs, kind : Kinds \cup {"none"}, rec : Records \cup {NoRecord},
       at : Adapters, next : Adapters, stage : Stages, offline : BOOLEAN,
       answer : {"none", "ok", "failed", "gone"}, seen : Object]
Idle == [pc |-> "idle", kind |-> "none", rec |-> NoRecord, at |-> 1, next |-> 1,
         stage |-> "none", offline |-> FALSE, answer |-> "none", seen |-> NoObject]

Request(kind) == [Idle EXCEPT !.kind = kind]

Connects(c) == op[c].kind \in {"auto", "connect"}

-----------------------------------------------------------------------------
(* The records.  A book is a value of cache.                               *)

RecordAt(b, i) == IF i = 0 THEN NoRecord ELSE b.table[i]

Lookup(b, path) == RecordAt(b, SelectInSeq(b.table, LAMBDA r : b.rec[r].path = path))

(* get_device_by_address: the first record with the address.               *)
ByAddress(b) == RecordAt(b, SelectInSeq(b.table, LAMBDA r : b.rec[r].named))

(* A record that may be used without asking BlueZ.                         *)
Usable(b) ==
    IF ByAddress(b) # NoRecord /\ ~b.rec[ByAddress(b)].detached THEN ByAddress(b) ELSE NoRecord

NewRecord(b) ==
    LET used == ToSet(b.table) \cup {op[c].rec : c \in Callers}
    IN  CHOOSE r \in Records : r \notin used

Drop(b, path) == [b EXCEPT !.table = Without(@, {r \in Records : b.rec[r].path = path})]

(* devices[path] = device, after _drop_detached_duplicates.                *)
Put(b, device) ==
    LET new  == NewRecord(b)
        recs == [b.rec EXCEPT ![new] = device]
        kept == Without(b.table, {r \in Records : /\ recs[r].path # device.path /\ recs[r].detached
                                                  /\ recs[r].named = device.named})
        i    == SelectInSeq(kept, LAMBDA r : recs[r].path = device.path)
    IN  [rec |-> recs, table |-> IF i = 0 THEN Append(kept, new) ELSE ReplaceAt(kept, i, new)]

FromObject(path, o) ==
    [path |-> path, named |-> TRUE, detached |-> FALSE,
     connected |-> o.connected, paired |-> o.paired, trusted |-> o.trusted]

(* Fault: every withdrawn record is deleted.                               *)
WithdrawnForGood(b, path) == Drop(b, path)

(* _on_interfaces_removed: a speaker that is the operator's is kept.       *)
Withdrawn(b, path) ==
    LET r == Lookup(b, path)
    IN  IF r # NoRecord /\ (b.rec[r].paired \/ b.rec[r].trusted)
          THEN [b EXCEPT !.rec[r].detached = TRUE, !.rec[r].connected = FALSE]
          ELSE Drop(b, path)

(* _on_properties_changed: the properties of the object that change are    *)
(* written to its record; a path that is not in the table gets a record of *)
(* these properties alone.                                                 *)
Changed(b, path, old, new) ==
    LET Patch(d) == [d EXCEPT !.connected = IF new.connected # old.connected THEN new.connected ELSE @,
                              !.paired = IF new.paired # old.paired THEN new.paired ELSE @,
                              !.trusted = IF new.trusted # old.trusted THEN new.trusted ELSE @]
        r == Lookup(b, path)
    IN  IF r # NoRecord THEN [b EXCEPT !.rec[r] = Patch(@)]
        ELSE Put(b, Patch([Unused EXCEPT !.path = path]))

(* The signals BlueZ sends when an object becomes new.                     *)
Heard(b, path, old, new) ==
    CASE ~old.present /\ new.present -> Put(b, FromObject(path, new))
      [] old.present /\ ~new.present -> Withdrawn(b, path)
      [] old.present /\ new.present /\ old # new -> Changed(b, path, old, new)
      [] old = new -> b

(* The adapter that is asked.                                              *)
Asked(c) ==
    CASE op[c].pc = "resolving" -> op[c].at
      [] op[c].pc = "seeking"   -> op[c].next
      [] OTHER                  -> cache.rec[op[c].rec].path

(* A removal is over.                                                      *)
Removes(c) == op[c].kind = "remove" /\ op[c].pc # "resolving" /\ op'[c].pc = "idle"

(* The speaker is asked for: discovered, or by another operation.          *)
AskedFor ==
    \/ \E a \in Adapters : object'[a].present /\ ~object[a].present
    \/ \E c \in Callers : op[c].pc = "idle" /\ op'[c].pc # "idle" /\ op'[c].kind # "remove"

(* A task has yet to take an answer that it will write to a's record.      *)
Unread(a) ==
    \E c \in Callers : op[c].pc \in {"resolving", "connecting"} /\ op[c].answer = "ok" /\ Asked(c) = a

(* The objects become new: a link that changes may overtake an answer.     *)
OvertakenBy(new) ==
    [a \in Adapters |-> IF Link(new[a]) = Link(object[a]) THEN overtaken[a] ELSE Unread(a)]

(* The history variables follow the known record of the book b, and each   *)
(* link of the speaker.                                                    *)
Remember(b) ==
    LET known == ByAddress(b)
        removed == \E c \in Callers : Removes(c)
        pairing == \E c \in Callers : op'[c].kind = "pair" /\ op'[c].stage = "refresh"
    IN  /\ owned' = CASE known # NoRecord ->
                           IF b.rec[known].paired \/ b.rec[known].trusted THEN "yes" ELSE "no"
                      [] known = NoRecord /\ removed -> "no"
                      [] known = NoRecord /\ ~removed /\ pairing /\ owned = "yes" -> "dropped"
                      [] OTHER -> owned
        /\ forgotten' = /\ ~AskedFor
                        /\ IF removed THEN \A a \in Adapters : ~object'[a].present ELSE forgotten
        /\ overtaken' = OvertakenBy(object')

(* cache becomes b.  Of a record outside the table only the link matters,  *)
(* and one that nobody can reach any more is no part of the state.         *)
Keep(b) ==
    LET held == {op'[c].rec : c \in Callers}
    IN  /\ cache' = [b EXCEPT !.rec = [r \in Records |->
                        CASE r \in ToSet(b.table) -> @[r]
                          [] r \in held \ ToSet(b.table) -> [@[r] EXCEPT !.paired = FALSE, !.trusted = FALSE]
                          [] OTHER -> Unused]]
        /\ Remember(b)

-----------------------------------------------------------------------------
(* BlueZ's object after a call, for the calls that change it.              *)
After(pc, o) ==
    CASE pc \in {"resetting", "disconnecting", "unlinking"} -> [o EXCEPT !.connected = FALSE]
      [] pc = "connecting" -> [o EXCEPT !.connected = TRUE]
      [] pc = "trusting"   -> [o EXCEPT !.trusted = TRUE]
      [] pc = "untrusting" -> [o EXCEPT !.trusted = FALSE]
      [] pc = "pairing"    -> [o EXCEPT !.paired = TRUE]
      [] pc = "removing"   -> NoObject
      [] pc = "seeking"    -> [NoObject EXCEPT !.present = TRUE, !.connected = TRUE]
      [] OTHER             -> o

(* Adapter1.ConnectDevice wants no object, every other call wants one; a    *)
(* record without an address has no adapter to be removed from.            *)
Possible(c) ==
    /\ object[Asked(c)].present = (op[c].pc # "seeking")
    /\ op[c].pc = "removing" => cache.rec[op[c].rec].named

(* Any call may fail: too soon, or after BlueZ has done what it was asked. *)
Effects(c) ==
    {object[Asked(c)]} \cup (IF Possible(c) THEN {After(op[c].pc, object[Asked(c)])} ELSE {})

(* These calls' errors are swallowed: any answer is as good as another.    *)
Swallowed == {"resetting", "trusting", "disconnecting", "untrusting", "unlinking", "removing"}

Outcomes(c) ==
    IF op[c].pc \in Swallowed THEN {<<"ok", new>> : new \in Effects(c)}
    ELSE (IF Possible(c) THEN {<<"ok", After(op[c].pc, object[Asked(c)])>>} ELSE {})
           \cup (IF op[c].pc = "connecting" /\ ~object[Asked(c)].present
                   THEN {<<"gone", object[Asked(c)]>>} ELSE {})
           \cup {<<"failed", new>> : new \in Effects(c)}

-----------------------------------------------------------------------------
Init ==
    /\ object \in [Adapters -> {NoObject, [NoObject EXCEPT !.present = TRUE],
                                [NoObject EXCEPT !.present = TRUE, !.paired = TRUE, !.trusted = TRUE]}]
    /\ LET present == Ascending({a \in Adapters : object[a].present})
       IN  /\ cache = [rec |-> [r \in Records |-> IF r \in 1 .. Len(present)
                                 THEN FromObject(present[r], object[present[r]]) ELSE Unused],
                       table |-> [i \in 1 .. Len(present) |-> i]]
           /\ owned = IF present # <<>> /\ object[present[1]].paired THEN "yes" ELSE "no"
    /\ lock = [a \in Adapters |-> Nobody]
    /\ op = [c \in Callers |-> Idle]
    /\ ready = <<>>
    /\ forgotten = FALSE
    /\ overtaken = [a \in Adapters |-> FALSE]

-----------------------------------------------------------------------------
(* Steps shared by the operations.                                         *)

(* The operation returns or raises, and gives its lock back.               *)
Finish(c) ==
    /\ op' = [op EXCEPT ![c] = Idle]
    /\ lock' = [a \in Adapters |-> IF lock[a] = c THEN Nobody ELSE lock[a]]

(* The operation o waits at pc, with record r.                             *)
Await(c, o, pc, r) ==
    op' = [op EXCEPT ![c] = [o EXCEPT !.pc = pc, !.rec = r, !.answer = "none", !.seen = NoObject]]

Become(c, o, pc, r) == Await(c, o, pc, r) /\ UNCHANGED lock

LockName(device) == IF device.named THEN device.path ELSE 1

(* Fault: a connection does not look at the lock.                          *)
TakeLockUnchecked(c, o, b, r) ==
    IF o.kind = "auto" /\ b.rec[r].connected
      THEN Finish(c)
      ELSE /\ Await(c, o, "settling", r)
           /\ lock' = [lock EXCEPT ![LockName(b.rec[r])] = c]

(* connect_device with its record: a lock that is taken means busy, and an *)
(* automatic attempt leaves a link that is up alone.                       *)
TakeLock(c, o, b, r) ==
    IF lock[LockName(b.rec[r])] # Nobody \/ (o.kind = "auto" /\ b.rec[r].connected)
      THEN Finish(c)
      ELSE /\ Await(c, o, "settling", r)
           /\ lock' = [lock EXCEPT ![LockName(b.rec[r])] = c]

(* _pair_and_trust with its record: one that is not connected is dropped   *)
(* and looked up again.                                                    *)
PairWith(c, o, b, r) ==
    LET dropped == Drop(b, b.rec[r].path)
        again   == Usable(dropped)
    IN  IF o.stage = "first" /\ ~b.rec[r].connected
          THEN /\ IF again = NoRecord
                    THEN Become(c, [o EXCEPT !.at = 1, !.stage = "refresh"], "resolving", r)
                    ELSE Become(c, Request("pair"), "pairing", again)
               /\ Keep(dropped)
          ELSE Become(c, Request("pair"), "pairing", r) /\ Keep(b)

(* What follows ensure_device, in the operation o.                         *)
Found(c, o, b, r) ==
    CASE o.kind \in {"auto", "connect"} -> TakeLock(c, o, b, r) /\ Keep(b)
      [] o.kind = "disconnect"          -> Become(c, o, "disconnecting", r) /\ Keep(b)
      [] o.kind = "remove"              -> Become(c, o, "untrusting", r) /\ Keep(b)
      [] o.kind = "pair"                -> PairWith(c, o, b, r)

(* ensure_device: a usable record, or BlueZ is asked.                      *)
Ensure(c, o, b) ==
    IF Usable(b) # NoRecord THEN Found(c, o, b, Usable(b))
    ELSE Become(c, [o EXCEPT !.at = 1], "resolving", o.rec) /\ Keep(b)

(* _pair_and_trust asks its next adapter for the speaker; after the last   *)
(* one it looks once more.                                                 *)
SeekNext(c, o) ==
    IF o.next < MaxAdapters
      THEN Become(c, [o EXCEPT !.next = @ + 1], "seeking", NoRecord) /\ Keep(cache)
      ELSE Ensure(c, [o EXCEPT !.stage = "final"], cache)

(* A pairing goes on with the record it dropped, or looks for the speaker  *)
(* through every adapter; the others fail.                                 *)
NotFound(c, o) ==
    CASE o.stage = "first"   -> Become(c, [o EXCEPT !.stage = "seek"], "seeking", NoRecord) /\ Keep(cache)
      [] o.stage = "refresh" -> Become(c, Request("pair"), "pairing", o.rec) /\ Keep(cache)
      [] o.stage = "seek"    -> SeekNext(c, o)
      [] OTHER               -> Finish(c) /\ Keep(cache)

-----------------------------------------------------------------------------
(* The beginning of each operation.                                        *)

(* A new operation of c, besides those in flight.                          *)
Begins(c, kind) ==
    /\ op[c].pc = "idle"
    /\ \A d \in Callers \ {c} : op[d].pc = "idle" \/ {kind, op[d].kind} \in Overlaps

(* connect_device, by the reconnect engine or by the operator, and         *)
(* disconnect_device.                                                      *)
Start(c, kind) ==
    /\ Begins(c, kind)
    /\ UNCHANGED <<object, ready>>
    /\ Ensure(c, Request(kind), cache)

(* pair_and_trust stops the scan and waits before it looks.                *)
StartPair(c) ==
    /\ Begins(c, "pair")
    /\ UNCHANGED <<object, ready>>
    /\ Become(c, [Request("pair") EXCEPT !.stage = "first"], "settling", NoRecord)
    /\ Keep(cache)

(* remove_device takes an offline record too.                              *)
StartRemove(c) ==
    /\ Begins(c, "remove")
    /\ UNCHANGED <<object, ready>>
    /\ LET r == ByAddress(cache)
       IN  IF r = NoRecord THEN Ensure(c, Request("remove"), cache)
           ELSE Found(c, [Request("remove") EXCEPT !.offline = cache.rec[r].detached], cache, r)

-----------------------------------------------------------------------------
(* BlueZ.                                                                  *)

(* BlueZ handles a call: its signals are heard, and its answer arrives.    *)
Answers(c) ==
    /\ op[c].pc \in Calls /\ op[c].answer = "none"
    /\ \E outcome \in Outcomes(c) :
         /\ object' = [object EXCEPT ![Asked(c)] = outcome[2]]
         /\ op' = [op EXCEPT ![c].answer = outcome[1],
                             ![c].seen = IF op[c].pc = "resolving" THEN outcome[2] ELSE NoObject]
         /\ Keep(Heard(cache, Asked(c), object[Asked(c)], outcome[2]))
    /\ ready' = Append(ready, c)
    /\ UNCHANGED lock

(* What BlueZ reports by itself.                                           *)
Reports(a, new) ==
    /\ object' = [object EXCEPT ![a] = new]
    /\ UNCHANGED <<lock, op, ready>>

(* The speaker is discovered, or comes back with what BlueZ has stored.    *)
Appears(a) ==
    /\ ~object[a].present
    /\ \E paired, trusted \in BOOLEAN :
         LET new == [present |-> TRUE, connected |-> FALSE, paired |-> paired, trusted |-> trusted]
         IN  Reports(a, new) /\ Keep(Put(cache, FromObject(a, new)))

Withdraws(a) ==
    /\ object[a].present
    /\ Reports(a, NoObject)
    /\ Keep(Withdrawn(cache, a))

(* The link comes up or goes down, or a property changes that is not       *)
(* modelled, signal strength say.                                          *)
Changes(a) ==
    /\ object[a].present
    /\ \E up \in BOOLEAN :
         LET new == [object[a] EXCEPT !.connected = up]
         IN  Reports(a, new) /\ Keep(Changed(cache, a, object[a], new))

-----------------------------------------------------------------------------
(* The task runs on with the answer it waited for at pc.                   *)
Resumes(c, pc) ==
    /\ ready # <<>> /\ Head(ready) = c
    /\ op[c].pc = pc
    /\ ready' = Tail(ready)
    /\ UNCHANGED object

(* ensure_device: a live record that arrived meanwhile is preferred to a   *)
(* new one; the next adapter is asked after a failure.                     *)
Resolve(c) ==
    LET o == op[c]
        current == Lookup(cache, o.at)
        b == Put(cache, FromObject(o.at, o.seen))
    IN  /\ Resumes(c, "resolving")
        /\ \/ /\ o.answer = "ok" /\ current # NoRecord /\ ~cache.rec[current].detached
              /\ Found(c, o, cache, current)
           \/ /\ o.answer = "ok" /\ (current # NoRecord => cache.rec[current].detached)
              /\ Found(c, o, b, NewRecord(cache))
           \/ /\ o.answer = "failed" /\ o.at < MaxAdapters
              /\ Become(c, [o EXCEPT !.at = @ + 1], "resolving", o.rec) /\ Keep(cache)
           \/ o.answer = "failed" /\ o.at = MaxAdapters /\ NotFound(c, o)

-----------------------------------------------------------------------------
(* connect_device under its lock, and the end of pair_and_trust.           *)

(* The record is the one in the table, and not an offline one.             *)
IsCurrent(c) == op[c].rec \in ToSet(cache.table) /\ ~cache.rec[op[c].rec].detached

(* The scan is stopped and the adapter has settled.                        *)
Settled(c) ==
    /\ op[c].pc = "settling" /\ Connects(c)
    /\ UNCHANGED <<object, ready>>
    /\ IF ~IsCurrent(c) THEN Finish(c)
       ELSE Become(c, op[c], IF op[c].kind = "connect" /\ cache.rec[op[c].rec].connected
                               THEN "resetting" ELSE "connecting", op[c].rec)
    /\ Keep(cache)

PairSettled(c) ==
    /\ op[c].pc = "settling" /\ op[c].kind = "pair"
    /\ UNCHANGED <<object, ready>>
    /\ Ensure(c, op[c], cache)

(* BluetoothDevice.disconnect: an error is swallowed.                      *)
Unlinked(c) == [cache EXCEPT !.rec[op[c].rec].connected = FALSE]

(* An operator's connection resets the link, and waits again.              *)
Reset(c) ==
    /\ Resumes(c, "resetting")
    /\ Become(c, op[c], "resting", op[c].rec)
    /\ Keep(Unlinked(c))

Rested(c) ==
    /\ op[c].pc = "resting"
    /\ UNCHANGED <<object, ready>>
    /\ IF IsCurrent(c) THEN Become(c, op[c], "connecting", op[c].rec) ELSE Finish(c)
    /\ Keep(cache)

(* BluetoothDevice.connect.                                                *)
ConnectSucceeds(c) ==
    /\ Resumes(c, "connecting") /\ op[c].answer = "ok"
    /\ Become(c, op[c], "trusting", op[c].rec)
    /\ Keep([cache EXCEPT !.rec[op[c].rec].connected = TRUE])

(* Fault: the record says connected although BlueZ refused.                *)
ConnectFailsLate(c) ==
    /\ Resumes(c, "connecting") /\ op[c].answer # "ok"
    /\ Finish(c)
    /\ Keep([cache EXCEPT !.rec[op[c].rec].connected = TRUE])

(* Under the lock, an error that says the object is gone marks the record. *)
ConnectFails(c) ==
    /\ Resumes(c, "connecting") /\ op[c].answer # "ok"
    /\ Finish(c)
    /\ IF Connects(c) /\ op[c].answer = "gone"
         THEN Keep([cache EXCEPT !.rec[op[c].rec].detached = TRUE, !.rec[op[c].rec].connected = FALSE])
         ELSE Keep(cache)

(* BluetoothDevice.set_trusted swallows an error; then the end.            *)
Trusted(c) ==
    /\ Resumes(c, "trusting")
    /\ Finish(c)
    /\ Keep([cache EXCEPT !.rec[op[c].rec].trusted = TRUE])

(* Fault: the call is shielded, and its late answer resumes the task.      *)
TimesOutShielded(c) ==
    /\ op[c].pc # "idle" /\ Connects(c)
    /\ Finish(c)
    /\ UNCHANGED <<object, ready>>
    /\ Keep(cache)

(* asyncio.timeout(30) around connect_device; BlueZ may already have done  *)
(* what it was asked.                                                      *)
TimesOut(c) ==
    /\ op[c].pc # "idle" /\ Connects(c)
    /\ Finish(c)
    /\ ready' = Without(ready, {c})
    /\ IF op[c].pc \in Calls /\ op[c].answer = "none"
         THEN \E new \in Effects(c) :
                /\ object' = [object EXCEPT ![Asked(c)] = new]
                /\ Keep(Heard(cache, Asked(c), object[Asked(c)], new))
         ELSE UNCHANGED object /\ Keep(cache)

-----------------------------------------------------------------------------
(* disconnect_device.                                                      *)
Disconnected(c) ==
    /\ Resumes(c, "disconnecting")
    /\ Finish(c)
    /\ Keep(Unlinked(c))

-----------------------------------------------------------------------------
(* remove_device.                                                          *)

Path(c) == cache.rec[op[c].rec].path

(* Untrusted, and no longer connected: an offline record is forgotten at   *)
(* once, another is removed from BlueZ.                                    *)
Dismiss(c, b) ==
    IF op[c].offline THEN Finish(c) /\ Keep(Drop(b, Path(c)))
    ELSE Become(c, op[c], "removing", op[c].rec) /\ Keep(b)

Untrusted(c) ==
    LET b == [cache EXCEPT !.rec[op[c].rec].trusted = FALSE]
    IN  /\ Resumes(c, "untrusting")
        /\ IF b.rec[op[c].rec].connected
             THEN Become(c, op[c], "unlinking", op[c].rec) /\ Keep(b)
             ELSE Dismiss(c, b)

Dismissed(c) == Resumes(c, "unlinking") /\ Dismiss(c, Unlinked(c))

(* Fault: the record is left to BlueZ's signal.                            *)
RemovedBySignal(c) ==
    /\ Resumes(c, "removing")
    /\ Finish(c)
    /\ Keep(cache)

(* RemoveDevice; its failure is only logged.                               *)
Removed(c) ==
    /\ Resumes(c, "removing")
    /\ Finish(c)
    /\ Keep(Drop(cache, Path(c)))

-----------------------------------------------------------------------------
(* pair_and_trust.                                                         *)

(* Adapter1.ConnectDevice makes BlueZ create the object, or fails.         *)
Seek(c) ==
    /\ Resumes(c, "seeking")
    /\ IF op[c].answer = "ok" THEN Ensure(c, op[c], cache) ELSE SeekNext(c, op[c])

(* BluetoothDevice.pair.                                                   *)
Pairs(c) ==
    /\ Resumes(c, "pairing")
    /\ IF op[c].answer = "ok"
         THEN /\ Become(c, op[c], "connecting", op[c].rec)
              /\ Keep([cache EXCEPT !.rec[op[c].rec].paired = TRUE])
         ELSE Finish(c) /\ Keep(cache)

-----------------------------------------------------------------------------
Steps(c) ==
    \/ \E kind \in {"auto", "connect", "disconnect"} : Start(c, kind)
    \/ StartPair(c) \/ StartRemove(c) \/ Resolve(c) \/ Settled(c) \/ PairSettled(c)
    \/ Reset(c) \/ Rested(c) \/ ConnectSucceeds(c) \/ ConnectFails(c) \/ Trusted(c) \/ TimesOut(c)
    \/ Disconnected(c) \/ Untrusted(c) \/ Dismissed(c) \/ Removed(c) \/ Seek(c) \/ Pairs(c)

Next ==
    \/ \E c \in Callers : Answers(c) \/ Steps(c)
    \/ \E a \in Adapters : Withdraws(a) \/ Appears(a) \/ Changes(a)

Spec == Init /\ [][Next]_vars

-----------------------------------------------------------------------------
(* Properties.                                                             *)

(* Every variable stays in its range, no record is in the table twice and  *)
(* no path has two, and only waiting tasks are in the queue, once.         *)
TypeOK ==
    /\ object \in [Adapters -> Object]
    /\ cache \in [rec : [Records -> Device], table : Seq(Records)]
    /\ IsInjective([i \in DOMAIN cache.table |-> cache.rec[cache.table[i]].path])
    /\ lock \in [Adapters -> Callers \cup {Nobody}]
    /\ op \in [Callers -> Op]
    /\ ready \in Seq({c \in Callers : op[c].answer # "none"}) /\ IsInjective(ready)
    /\ owned \in {"no", "yes", "dropped"} /\ forgotten \in BOOLEAN /\ overtaken \in [Adapters -> BOOLEAN]

(* Two calls of connect_device never work on the same adapter at once.     *)
OneConnection ==
    \A c, d \in Callers :
      (c # d /\ Connects(c) /\ Connects(d) /\ {op[c].pc, op[d].pc} \cap {"idle", "resolving"} = {})
        => Path(c) # Path(d)

(* A live record says connected only while the link is up: signals,        *)
(* answers, resets, failures and time-outs leave no stale green light.     *)
(* One is left by a drop that is read together with the answer to Connect  *)
(* or to the look-up: the task writes what it was told over what the       *)
(* signal said, and that lasts until the link changes again.               *)
ConnectedIsTrue ==
    \A r \in ToSet(cache.table) :
      LET d == cache.rec[r]
      IN  (d.connected /\ ~d.detached) => (object[d.path].present /\ object[d.path].connected) \/ overtaken[d.path]

Quiet == \A c \in Callers : op[c].pc = "idle"

(* A speaker last known as paired or trusted keeps a record, whatever      *)
(* BlueZ withdraws, until it is removed by the operator.                   *)
SpeakerIsKept == (Quiet /\ owned = "yes") => ByAddress(cache) # NoRecord

(* The same while it is switched off, after a pairing too, as CHANGELOG.md *)
(* says: a trusted speaker stays visible while it is switched off.         *)
PairedIsKept ==
    (Quiet /\ owned # "no" /\ \A a \in Adapters : ~object[a].present) => ByAddress(cache) # NoRecord

(* A speaker that is removed, from BlueZ too, stays forgotten until it is  *)
(* discovered or asked for, whatever was in flight at the removal, with    *)
(* the exception above: a look-up that was answered, and overtaken by the  *)
(* withdrawal, makes a record of an object that is gone.                   *)
RemovedIsForgotten == forgotten => \A r \in ToSet(cache.table) : overtaken[cache.rec[r].path]
=============================================================================
