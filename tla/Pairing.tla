------------------------------ MODULE Pairing ------------------------------
(***************************************************************************)
(* Pairing consent (backend/bl_haos/bluetooth/manager.py, agent.py,        *)
(* adapter.py): the operator's pairing window, the adapters' Pairable      *)
(* property and what the agent would answer BlueZ.                         *)
(*                                                                         *)
(* The code between two awaits is one action; setting Pairable on one      *)
(* adapter is one await.  What a pairing does to the speaker's record is   *)
(* in Connection.                                                          *)
(***************************************************************************)
EXTENDS Naturals, Sequences, SequencesExt, FiniteSets

CONSTANTS
    Callers,        \* bound: calls of pair_and_trust in flight at once
    Addresses,      \* speakers in radio range
    Pins,           \* the PINs operators type
    MaxAdapters,
    MaxPlugs        \* bound: adapters plugged in or out while the bridge runs

ASSUME PairingAssumption ==
    /\ Callers # {}
    /\ MaxAdapters \in Nat \ {0}
    /\ MaxPlugs \in 0 .. 1     \* a table changed and changed back is outside this module

VARIABLES
    window,     \* _pairing_address, _pairing_pin, _pairing_expires_at
    adapters,   \* the adapters, in the order of the table
    pairable,   \* BlueZ: Pairable of each adapter
    trusted,    \* the speakers whose record is trusted
    op,         \* the calls in flight, that of initialize included
    plugs,      \* adapters plugged in or out so far
    stuck,      \* history: adapters that were plugged in or refused Pairable=false since
    abandoned   \* history: pairings whose window was left open, address and PIN

vars == <<window, adapters, pairable, trusted, op, plugs, stuck, abandoned>>

-----------------------------------------------------------------------------
Adapters == 1 .. MaxAdapters
Nobody == "nobody"

(* live: the ninety seconds are not over.                                  *)
Window == [address : Addresses, pin : Pins, live : BOOLEAN]
NoWindow == [address |-> Nobody]

(* left: the adapters whose Pairable is still to be written; size: the     *)
(* table's when the loop over it began.                                    *)
Op == [pc : {"idle", "opening", "pairing", "closing"}, address : Addresses \cup {Nobody},
       pin : Pins \cup {"none"}, left : Seq(Adapters), size : 0 .. MaxAdapters]
Idle == [pc |-> "idle", address |-> Nobody, pin |-> "none", left |-> <<>>, size |-> 0]

(* The loop of _set_adapters_pairable begins.                              *)
Loop(o, pc) == [o EXCEPT !.pc = pc, !.left = adapters, !.size = Len(adapters)]

(* initialize has loaded the adapters and closes the window.               *)
Init ==
    /\ window = NoWindow
    /\ \E n \in Adapters : adapters = [a \in 1 .. n |-> a]
    /\ pairable \in [Adapters -> BOOLEAN]
    /\ trusted \in SUBSET Addresses
    /\ \E boot \in Callers : op = [c \in Callers |-> IF c = boot THEN Loop(Idle, "closing") ELSE Idle]
    /\ plugs = 0
    /\ stuck = {}
    /\ abandoned = {}

-----------------------------------------------------------------------------
(* What the agent answers.                                                 *)

Active(address) == window # NoWindow /\ window.live /\ window.address = address

(* Fault: a PIN is for whoever asks.                                       *)
PinForAnyone(address) == IF window # NoWindow /\ window.live THEN window.pin ELSE "none"

(* authorized_pin, and authorized_passkey: PINs are digits.                *)
AuthorizedPin(address) == IF Active(address) THEN window.pin ELSE "none"

(* pairing_is_authorized, for confirmations and authorizations.            *)
IsAuthorized(address) == Active(address) \/ address \in trusted

(* A prompt of BlueZ, or a look at the diagnostics, clears a window that   *)
(* has expired.                                                            *)
Consulted ==
    /\ window # NoWindow /\ ~window.live
    /\ window' = NoWindow
    /\ UNCHANGED <<adapters, pairable, trusted, op, plugs, stuck, abandoned>>

Expire ==
    /\ window # NoWindow /\ window.live
    /\ window' = [window EXCEPT !.live = FALSE]
    /\ UNCHANGED <<adapters, pairable, trusted, op, plugs, stuck, abandoned>>

-----------------------------------------------------------------------------
(* pair_and_trust.                                                         *)

(* Requests are served once initialize has returned.  A window that is     *)
(* open for another pairing is replaced.                                   *)
Open(c) ==
    /\ op[c].pc = "idle"
    /\ \A d \in Callers : op[d].pc # "idle" => op[d].address # Nobody
    /\ \E address \in Addresses, pin \in Pins :
         /\ window' = [address |-> address, pin |-> pin, live |-> TRUE]
         /\ op' = [op EXCEPT ![c] = Loop([Idle EXCEPT !.address = address, !.pin = pin], "opening")]
    /\ abandoned' = {}
    /\ UNCHANGED <<adapters, pairable, trusted, plugs, stuck>>

Writing(c) == op[c].pc \in {"opening", "closing"} /\ op[c].left # <<>>

(* One adapter's Pairable is written; an error, after BlueZ has done it or *)
(* before, is swallowed.                                                   *)
SetPairable(c) ==
    /\ Writing(c) /\ op[c].size = Len(adapters)
    /\ LET a == Head(op[c].left)
           value == op[c].pc = "opening"
       IN  \E done \in BOOLEAN :
             /\ pairable' = IF done THEN [pairable EXCEPT ![a] = value] ELSE pairable
             /\ stuck' = IF value THEN stuck ELSE IF done THEN stuck \ {a} ELSE stuck \cup {a}
    /\ op' = [op EXCEPT ![c].left = Tail(@)]
    /\ UNCHANGED <<window, adapters, trusted, plugs, abandoned>>

(* The table changed its size during the loop: the loop raises.  An        *)
(* opening has not reached its try, a closing is in its finally: both end  *)
(* the call.                                                               *)
LoopRaises(c) ==
    /\ op[c].pc \in {"opening", "closing"} /\ op[c].size # Len(adapters)
    /\ op' = [op EXCEPT ![c] = Idle]
    /\ stuck' = IF op[c].pc = "closing" THEN stuck \cup ToSet(op[c].left) ELSE stuck
    /\ abandoned' = IF op[c].pc = "opening" THEN abandoned \cup {<<op[c].address, op[c].pin>>} ELSE abandoned
    /\ UNCHANGED <<window, adapters, pairable, trusted, plugs>>

Opened(c) ==
    /\ op[c].pc = "opening" /\ op[c].left = <<>> /\ op[c].size = Len(adapters)
    /\ op' = [op EXCEPT ![c].pc = "pairing"]
    /\ UNCHANGED <<window, adapters, pairable, trusted, plugs, stuck, abandoned>>

(* Fault: a window that is no longer there is not closed again.            *)
CloseIfOpen(c) ==
    IF window = NoWindow THEN op' = [op EXCEPT ![c] = Idle] /\ UNCHANGED window
    ELSE window' = NoWindow /\ op' = [op EXCEPT ![c] = Loop(@, "closing")]

(* close_pairing_window, whoever opened the window.                        *)
Close(c) == window' = NoWindow /\ op' = [op EXCEPT ![c] = Loop(@, "closing")]

(* _pair_and_trust returns or raises.                                      *)
Paired(c) ==
    /\ op[c].pc = "pairing"
    /\ Close(c)
    /\ \/ trusted' = trusted \cup {op[c].address}
       \/ UNCHANGED trusted
    /\ abandoned' = {}
    /\ UNCHANGED <<adapters, pairable, plugs, stuck>>

Closed(c) ==
    /\ op[c].pc = "closing" /\ op[c].left = <<>> /\ op[c].size = Len(adapters)
    /\ op' = [op EXCEPT ![c] = Idle]
    /\ UNCHANGED <<window, adapters, pairable, trusted, plugs, stuck, abandoned>>

-----------------------------------------------------------------------------
(* The operator removes a speaker, and adapters come and go.               *)

Untrust(address) ==
    /\ address \in trusted
    /\ trusted' = trusted \ {address}
    /\ UNCHANGED <<window, adapters, pairable, op, plugs, stuck, abandoned>>

(* Fault: an adapter that is listed already is listed again.               *)
PlugAgain(a) ==
    /\ plugs < MaxPlugs
    /\ adapters' = Append(adapters, a)
    /\ plugs' = plugs + 1
    /\ stuck' = stuck \cup {a}
    /\ UNCHANGED <<window, pairable, trusted, op, abandoned>>

(* _on_interfaces_added: BlueZ keeps Pairable for the adapter.             *)
Plug(a) ==
    /\ plugs < MaxPlugs /\ a \notin ToSet(adapters)
    /\ adapters' = Append(adapters, a)
    /\ plugs' = plugs + 1
    /\ stuck' = stuck \cup {a}
    /\ UNCHANGED <<window, pairable, trusted, op, abandoned>>

(* _on_interfaces_removed                                                  *)
Unplug(a) ==
    /\ plugs < MaxPlugs
    /\ \E i \in DOMAIN adapters : adapters[i] = a /\ adapters' = RemoveAt(adapters, i)
    /\ plugs' = plugs + 1
    /\ UNCHANGED <<window, pairable, trusted, op, stuck, abandoned>>

-----------------------------------------------------------------------------
Next ==
    \/ \E c \in Callers :
         Open(c) \/ SetPairable(c) \/ LoopRaises(c) \/ Opened(c) \/ Paired(c) \/ Closed(c)
    \/ Consulted \/ Expire
    \/ \E address \in Addresses : Untrust(address)
    \/ \E a \in Adapters : Plug(a) \/ Unplug(a)

Spec == Init /\ [][Next]_vars

-----------------------------------------------------------------------------
(* Properties.                                                             *)

(* Every variable stays in its range.                                      *)
TypeOK ==
    /\ window \in Window \cup {NoWindow}
    /\ adapters \in Seq(Adapters) /\ IsInjective(adapters)
    /\ pairable \in [Adapters -> BOOLEAN]
    /\ trusted \in SUBSET Addresses
    /\ op \in [Callers -> Op]
    /\ plugs \in 0 .. MaxPlugs
    /\ stuck \in SUBSET Adapters
    /\ abandoned \in SUBSET (Addresses \X Pins)

(* A pairing of the speaker is in flight, with one of these PINs.          *)
Called(address, pins) ==
    \E c \in Callers :
      op[c].pc \in {"opening", "pairing"} /\ op[c].address = address /\ op[c].pin \in pins

(* The promise of pair_and_trust's docstring: however pairings overlap,    *)
(* expire and fail, the agent lets nobody in but a trusted speaker and the *)
(* speaker of a pairing that is running, and gives a PIN to nobody but the *)
(* speaker it was typed for.  It fails for a window that was left open     *)
(* when the table of adapters changed while it was opened.                 *)
ConsentOnly ==
    \A address \in Addresses :
      /\ IsAuthorized(address) =>
           \/ address \in trusted \/ Called(address, Pins)
           \/ \E pin \in Pins : <<address, pin>> \in abandoned
      /\ AuthorizedPin(address) # "none" =>
           \/ Called(address, {AuthorizedPin(address)})
           \/ <<address, AuthorizedPin(address)>> \in abandoned

Quiet == \A c \in Callers : op[c].pc = "idle"

(* With no pairing running no adapter accepts one, whichever of several    *)
(* overlapping pairings ended last and whether or not its window had       *)
(* expired: but for an adapter that was plugged in or refused the write,   *)
(* and for an opening that was abandoned.                                  *)
QuietIsNotPairable ==
    (Quiet /\ abandoned = {}) => \A a \in ToSet(adapters) : pairable[a] => a \in stuck
=============================================================================
