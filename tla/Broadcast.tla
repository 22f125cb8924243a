----------------------------- MODULE Broadcast -----------------------------
(***************************************************************************)
(* Events to WebSocket clients (backend/bl_haos/api/ws.py, main.py): one   *)
(* ConnectionManager, its list of clients and the broadcast tasks that     *)
(* iterate over the live list while clients come and go.                   *)
(*                                                                         *)
(* A task runs from one await to the next in one action.  send_text waits  *)
(* until the client can be written to, if it cannot yet, and then writes:  *)
(* the tasks that wait for one client go on in any order, newcomers ahead  *)
(* of them, and one that waits for a client that is lost may wait forever. *)
(***************************************************************************)
EXTENDS Naturals, Sequences, SequencesExt, FiniteSets, Lists

CONSTANTS
    Clients,    \* sockets, each of which connects once
    MaxEvents   \* bound: events published

ASSUME BroadcastAssumption == IsFiniteSet(Clients) /\ MaxEvents \in Nat

VARIABLES
    connections,    \* active_connections
    socket,         \* each client's socket
    task,           \* the broadcast of each event
    got,            \* what the socket of each client that has not left was given
    slips           \* history: clients that left from under a broadcast's iterator

vars == <<connections, socket, task, got, slips>>

-----------------------------------------------------------------------------
Events == 1 .. MaxEvents
Nobody == "nobody"
Sockets == {"new", "open", "broken", "gone"}

(* at: the position of the list's iterator; heirs: the clients that were   *)
(* listed when the broadcast began.                                        *)
Task == [pc : {"new", "sending", "done"}, at : 0 .. Cardinality(Clients),
         to : Clients \cup {Nobody}, dead : SUBSET Clients, heirs : SUBSET Clients]
NoTask == [pc |-> "new", at |-> 0, to |-> Nobody, dead |-> {}, heirs |-> {}]

Underway == {e \in Events : task[e].pc = "sending"}

Init ==
    /\ connections = <<>>
    /\ socket = [c \in Clients |-> "new"]
    /\ task = [e \in Events |-> NoTask]
    /\ got = [c \in Clients |-> <<>>]
    /\ slips = [e \in Events |-> 0]

-----------------------------------------------------------------------------
(* The list of clients.                                                    *)

(* Fault: the newest client is served first.                               *)
ListedFirst(c) == <<c>> \o connections

(* Fault: the endpoint lists the client that connect has listed.           *)
ListedTwice(c) == connections \o <<c, c>>

Listed(c) == Append(connections, c)

(* connect: accepted and appended.                                         *)
Connect(c) ==
    /\ socket[c] = "new"
    /\ socket' = [socket EXCEPT ![c] = "open"]
    /\ connections' = Listed(c)
    /\ UNCHANGED <<task, got, slips>>

(* disconnect of each of cs, while the broadcasts of es go on.             *)
Discard(cs, es) ==
    /\ connections' = Without(connections, cs)
    /\ slips' = [e \in Events |->
         IF e \in es
         THEN slips[e] + Cardinality({i \in DOMAIN connections : i <= task[e].at /\ connections[i] \in cs})
         ELSE slips[e]]

(* The endpoint's receive ends, and its finally clause.                    *)
Leave(c) ==
    /\ socket[c] \in {"open", "broken"}
    /\ socket' = [socket EXCEPT ![c] = "gone"]
    /\ Discard({c}, Underway)
    /\ got' = [got EXCEPT ![c] = <<>>]
    /\ UNCHANGED task

(* The connection is lost; the endpoint has not noticed yet.               *)
Break(c) ==
    /\ socket[c] = "open"
    /\ socket' = [socket EXCEPT ![c] = "broken"]
    /\ UNCHANGED <<connections, task, got, slips>>

-----------------------------------------------------------------------------
(* Broadcasts.                                                             *)

(* The iterator's next client, or the end of the loop.                     *)
Onward(t) ==
    IF t.at < Len(connections)
    THEN [t EXCEPT !.pc = "sending", !.at = t.at + 1, !.to = connections[t.at + 1]]
    ELSE [NoTask EXCEPT !.pc = "done", !.heirs = t.heirs]

(* From one await to the next: the next client is waited for, or those     *)
(* that failed are discarded.                                              *)
Proceed(e, t) ==
    LET n == Onward(t)
    IN  /\ task' = [task EXCEPT ![e] = n]
        /\ IF n.pc = "sending" THEN UNCHANGED <<connections, slips>>
           ELSE Discard(t.dead, Underway \ {e})

(* _spawn: tasks begin in the order of the events.                         *)
Begin(e) ==
    /\ task[e].pc = "new" /\ \A d \in Events : d < e => task[d].pc # "new"
    /\ Proceed(e, [task[e] EXCEPT !.heirs = ToSet(connections)])
    /\ UNCHANGED <<socket, got>>

(* Fault: the loop ends at the first client that fails.                    *)
FailedLast(t) == [t EXCEPT !.dead = @ \cup {t.to}, !.at = Len(connections)]

Failed(t) == [t EXCEPT !.dead = @ \cup {t.to}]

(* e is written to the client it waited for; what is written to a client   *)
(* that is lost goes nowhere, or its send raises.                          *)
Resume(e) ==
    LET t == task[e]
    IN  /\ t.pc = "sending"
        /\ got' = IF socket[t.to] = "open" THEN [got EXCEPT ![t.to] = Append(@, e)] ELSE got
        /\ Proceed(e, t) \/ (socket[t.to] # "open" /\ Proceed(e, Failed(t)))
        /\ UNCHANGED socket

-----------------------------------------------------------------------------
Next ==
    \/ \E c \in Clients : Connect(c) \/ Leave(c) \/ Break(c)
    \/ \E e \in Events : Begin(e) \/ Resume(e)

Spec == Init /\ [][Next]_vars

-----------------------------------------------------------------------------
(* Properties.                                                             *)

(* Every variable stays in its range, and no client is listed twice.       *)
TypeOK ==
    /\ connections \in Seq(Clients) /\ IsInjective(connections)
    /\ socket \in [Clients -> Sockets]
    /\ task \in [Events -> Task]
    /\ got \in [Clients -> Seq(Events)]
    /\ slips \in [Events -> 0 .. Cardinality(Clients)]

(* No client is given an event twice, whatever the list does under the     *)
(* iterators.                                                              *)
OnceEach == \A c \in Clients : IsInjective(got[c])

(* The clients that were connected when e was broadcast and still are, and *)
(* were not given it.                                                      *)
Missed(e) == {c \in task[e].heirs : socket[c] = "open" /\ e \notin ToSet(got[c])}

(* broadcast promises to reach all connected clients.  It does not: a      *)
(* client that leaves, or is discarded, while another broadcast waits      *)
(* moves the list down under that one's iterator, and the client behind    *)
(* is skipped.  This bounds the loss: one client for each that was taken   *)
(* off at or before the iterator, and none when nobody was.                *)
HeirsAreServed ==
    \A e \in Events : task[e].pc = "done" => Cardinality(Missed(e)) <= slips[e]
=============================================================================
