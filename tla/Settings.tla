------------------------------ MODULE Settings ------------------------------
(***************************************************************************)
(* The settings and who is armed for reconnection (backend/bl_haos/        *)
(* config.py, the settings, pair and remove routes of api/routes.py, the   *)
(* start-up and _on_bt_event of main.py, registration in bluetooth/        *)
(* reconnect.py), over restarts of the program.                            *)
(*                                                                         *)
(* A save runs without an await, so that nothing interleaves with it but   *)
(* the end of the process; the model takes it step by step for that.       *)
(***************************************************************************)
EXTENDS Naturals, FiniteSets

CONSTANTS
    Speakers,   \* audio sinks
    Configured, \* values that a deployment may give BLHAOS_NATIVE_TOKEN
    MaxTokens   \* bound: tokens generated

ASSUME SettingsAssumption ==
    /\ MaxTokens \in Nat
    /\ Configured \cap (0 .. MaxTokens) = {}

VARIABLES
    device,     \* BluetoothManager.devices: what is known of each speaker
    memory,     \* ConfigStore.settings, or Off
    file,       \* the settings file
    op,         \* the save or the start that is under way
    tracked,    \* AutoReconnectEngine.profiles
    enabled,    \* AutoReconnectEngine.globally_enabled
    tokens,     \* tokens generated so far
    deployed    \* BLHAOS_NATIVE_TOKEN, or NoToken

vars == <<device, memory, file, op, tracked, enabled, tokens, deployed>>

-----------------------------------------------------------------------------
Devices == {"absent", "seen", "connected", "paired", "trusted"}

(* A token of the deployment, or a number for one that was generated.      *)
NoToken == 0                        \* none, or one with control characters
Tokens == (0 .. MaxTokens) \cup Configured

(* auto: auto_reconnect of each speaker that has a record.                 *)
Document == [auto : [Speakers -> {"none", "on", "off"}], global : BOOLEAN, token : Tokens]
Blank == [auto |-> [s \in Speakers |-> "none"], global |-> TRUE, token |-> NoToken]

Off == [state |-> "off"]
Absent == [state |-> "absent"]
Foreign == [state |-> "foreign"]    \* does not parse, or does not validate
Torn == [state |-> "torn"]

Nobody == "nobody"
Op == [pc : {"idle", "creating", "updating", "system", "removing", "loading", "starting"},
       stage : {"none", "apply", "open", "writing", "written"}, speaker : Speakers \cup {Nobody}, auto : {"on", "off", "keep"}]
Idle == [pc |-> "idle", stage |-> "none", speaker |-> Nobody, auto |-> "keep"]

Running == memory # Off /\ op.pc \notin {"loading", "starting"}
Serving == memory # Off /\ op = Idle

Init ==
    /\ device \in [Speakers -> {"absent", "paired", "trusted"}]
    /\ memory = Off
    /\ file \in {Absent, Foreign} \cup {[Blank EXCEPT !.auto = a] : a \in [Speakers -> {"none", "on", "off"}]}
    /\ op = Idle
    /\ tracked = {} /\ enabled = TRUE
    /\ tokens = 0
    /\ deployed \in Configured \cup {NoToken}

-----------------------------------------------------------------------------
(* AutoReconnectEngine: who is tracked.                                    *)

(* Fault: a speaker is registered although reconnection is off.            *)
RegisteredAnyway(t, on, ss) == t \cup ss

(* register_speaker for each of ss.                                        *)
Registered(t, on, ss) == IF on THEN t \cup ss ELSE t

Trusted == {s \in Speakers : device[s] = "trusted"}
Set(value) == {s \in Speakers : memory.auto[s] = value}

-----------------------------------------------------------------------------
(* ConfigStore.save                                                        *)

Saving == op.stage # "none"
Save(pc, s, auto) == op' = [pc |-> pc, stage |-> "open", speaker |-> s, auto |-> auto]

(* The first save of update_speaker has made the record, with defaults.    *)
Created == op.pc = "creating"

(* What follows the save: the rest of the update, the rest of the start,   *)
(* or the registration of the speaker.                                     *)
Saved ==
    /\ op' = CASE Created -> [op EXCEPT !.pc = "updating", !.stage = "apply"]
               [] op.pc = "loading" -> [Idle EXCEPT !.pc = "starting"]
               [] OTHER -> Idle
    /\ LET done == op.pc = "updating"
       IN  tracked' = CASE done /\ op.auto = "on" -> Registered(tracked, enabled, {op.speaker})
                        [] done /\ op.auto = "off" -> tracked \ {op.speaker}
                        [] OTHER -> tracked

(* Fault: the settings are written over the old ones.                      *)
WritesInPlace == op.stage = "open" /\ op' = [op EXCEPT !.stage = "writing"] /\ file' = Torn

(* write_text: the temporary file.                                         *)
Writes == op.stage = "open" /\ op' = [op EXCEPT !.stage = "writing"] /\ UNCHANGED file

Written == op.stage = "writing" /\ op' = [op EXCEPT !.stage = "written"] /\ UNCHANGED file

(* replace; whether the chmod after it fails or not changes nothing.       *)
Replaces ==
    /\ op.stage = "written"
    /\ file' = memory
    /\ Saved
    /\ UNCHANGED <<device, memory, enabled, tokens, deployed>>

(* An error at any step is logged, and the caller is not told.             *)
SaveFails ==
    /\ op.stage \in {"open", "writing", "written"}
    /\ Saved
    /\ UNCHANGED <<device, memory, file, enabled, tokens, deployed>>

WriteSteps == (Writes \/ Written) /\ UNCHANGED <<device, memory, tracked, enabled, tokens, deployed>>

-----------------------------------------------------------------------------
(* Start and end of the process.                                           *)

Readable == file \in Document

(* Fault: the defaults that stand in for an unreadable file are saved.     *)
SavesAlways == TRUE

(* A first start saves its defaults, and so does a load that made a token. *)
LoadSaves == file = Absent \/ (Readable /\ file.token = NoToken)

(* Fault: every start makes a token.                                       *)
NeedsTokenAlways == TRUE

(* The variable of the deployment is looked at only where this is true: a  *)
(* file that has a token keeps it, whatever the deployment sets now.       *)
NeedsToken == ~Readable \/ file.token = NoToken

(* _configured_token: the deployment's, or a new one.                      *)
Generates == NeedsToken /\ deployed = NoToken
ConfiguredToken == IF deployed # NoToken THEN deployed ELSE tokens + 1

(* ConfigStore.load, and what is left of an engine of a former process is  *)
(* forgotten.                                                              *)
Load ==
    /\ memory = Off
    /\ Generates => tokens < MaxTokens
    /\ LET settings == IF Readable THEN file ELSE Blank
       IN  memory' = IF NeedsToken THEN [settings EXCEPT !.token = ConfiguredToken] ELSE settings
    /\ tokens' = IF Generates THEN tokens + 1 ELSE tokens
    /\ IF LoadSaves THEN Save("loading", Nobody, "keep") ELSE op' = [Idle EXCEPT !.pc = "starting"]
    /\ UNCHANGED <<device, file, tracked, enabled, deployed>>

(* Fault: only the speakers in the settings are armed at the start.        *)
ArmedBySettings == Set("on")

(* The trusted speakers BlueZ knows, and those of the settings.            *)
ArmedAtStart == Trusted \cup Set("on")

(* The engine is made and armed, without an await in between.              *)
Started ==
    /\ op.pc = "starting"
    /\ enabled' = memory.global
    /\ tracked' = Registered({}, memory.global, ArmedAtStart)
    /\ op' = Idle
    /\ UNCHANGED <<device, memory, file, tokens, deployed>>

(* The process ends, at any step of a save too.                            *)
Ends ==
    /\ memory # Off
    /\ memory' = Off /\ op' = Idle /\ tracked' = {} /\ enabled' = TRUE
    /\ UNCHANGED <<device, file, tokens, deployed>>

(* The add-on is given another environment while it is stopped.            *)
Redeploys(token) ==
    /\ memory = Off
    /\ deployed' = token
    /\ UNCHANGED <<device, memory, file, op, tracked, enabled, tokens>>

-----------------------------------------------------------------------------
(* Routes.                                                                 *)

(* native_update_speaker_settings, and set_volume with auto = "keep": a    *)
(* record that is missing is created and saved first.                      *)
UpdateSpeaker(s, auto) ==
    /\ Serving
    /\ IF memory.auto[s] = "none"
       THEN /\ memory' = [memory EXCEPT !.auto[s] = "on"]
            /\ Save("creating", s, auto)
       ELSE /\ op' = [pc |-> "updating", stage |-> "apply", speaker |-> s, auto |-> auto]
            /\ UNCHANGED memory
    /\ UNCHANGED <<device, file, tracked, enabled, tokens, deployed>>

Applies ==
    /\ op.stage = "apply"
    /\ op' = [op EXCEPT !.stage = "open"]
    /\ memory' = IF op.auto = "keep" THEN memory ELSE [memory EXCEPT !.auto[op.speaker] = op.auto]
    /\ UNCHANGED <<device, file, tracked, enabled, tokens, deployed>>

(* native_update_system_settings: the registrations follow the save, whose *)
(* outcome they do not depend on.                                          *)
UpdateSystem(on) ==
    /\ Serving
    /\ memory' = [memory EXCEPT !.global = on]
    /\ Save("system", Nobody, "keep")
    /\ enabled' = on
    /\ tracked' = IF on THEN Registered(tracked, on, Trusted \cup Set("on")) \ Set("off") ELSE {}
    /\ UNCHANGED <<device, file, tokens, deployed>>

(* native_remove_device, when remove_device has returned.                  *)
Remove(s) ==
    /\ Serving
    /\ device' = [device EXCEPT ![s] = "absent"]
    /\ tracked' = tracked \ {s}
    /\ memory' = [memory EXCEPT !.auto[s] = "none"]
    /\ IF memory.auto[s] # "none" THEN Save("removing", s, "keep") ELSE UNCHANGED op
    /\ UNCHANGED <<file, enabled, tokens, deployed>>

(* native_pair_device, when pair_and_trust has returned.                   *)
Pair(s) ==
    /\ Serving /\ device[s] # "absent"
    /\ tracked' = Registered(tracked, enabled, {s})
    /\ UNCHANGED <<device, memory, file, op, enabled, tokens, deployed>>

-----------------------------------------------------------------------------
(* BlueZ.                                                                  *)

(* _on_bt_event arms a trusted speaker, _on_device_event any that is       *)
(* trusted, paired or connected.                                           *)
Arms(known) == known \in {"trusted", "paired", "connected"}

(* A device event: the listeners exist once the engine has started.        *)
Event(s, known) ==
    /\ ~Saving
    /\ device' = [device EXCEPT ![s] = known]
    /\ tracked' = IF Running /\ Arms(known) THEN Registered(tracked, enabled, {s}) ELSE tracked
    /\ UNCHANGED <<memory, file, op, enabled, tokens, deployed>>

-----------------------------------------------------------------------------
Next ==
    \/ Applies \/ WriteSteps \/ Replaces \/ SaveFails
    \/ Load \/ Started \/ Ends
    \/ \E token \in Configured \cup {NoToken} : Redeploys(token)
    \/ \E s \in Speakers :
         \/ \E auto \in {"on", "off", "keep"} : UpdateSpeaker(s, auto)
         \/ Remove(s) \/ Pair(s)
         \/ \E known \in Devices : Event(s, known)
    \/ \E on \in BOOLEAN : UpdateSystem(on)

Spec == Init /\ [][Next]_vars

-----------------------------------------------------------------------------
(* Properties.                                                             *)

(* Every variable stays in its range; the settings file is never torn.     *)
TypeOK ==
    /\ device \in [Speakers -> Devices]
    /\ memory \in Document \cup {Off}
    /\ file \in Document \cup {Absent, Foreign}
    /\ op \in Op
    /\ tracked \in SUBSET Speakers
    /\ enabled \in BOOLEAN
    /\ tokens \in 0 .. MaxTokens
    /\ deployed \in Configured \cup {NoToken}

(* A trusted speaker is armed whenever reconnection is on, unless its      *)
(* record says otherwise: after every order of settings, events, pairings, *)
(* removals and restarts.                                                  *)
TrustedIsArmed ==
    (Running /\ ~Saving /\ memory.global) =>
      \A s \in Trusted : memory.auto[s] # "off" => s \in tracked

(* With reconnection off nobody is armed, whatever events and routes come  *)
(* after it was turned off, after a restart too.                           *)
OffIsQuiet == (Running /\ ~memory.global) => tracked = {}

(* A settings file that this release cannot read is not overwritten before *)
(* a setting is changed: a start alone leaves it as it is.                 *)
UnreadableIsKept ==
    [][(file = Foreign /\ file' # Foreign) => op.pc \in {"creating", "updating", "system", "removing"}]_vars

(* The integration is not locked out by accident: after every failed save, *)
(* crash and restart a token that has reached the disk is still there, and *)
(* no start generates another in its place.  Only a value that the         *)
(* deployment sets may replace it.  (DOCS.md:377-382 has such a value      *)
(* rotate the token; load never takes it while the file has one, which     *)
(* this property allows and does not ask for.)                             *)
TokenIsKept ==
    [][(Readable /\ file.token # NoToken) =>
         /\ file' \in Document
         /\ file'.token = file.token \/ (deployed # NoToken /\ file'.token = deployed)]_vars

(* What a start makes of what it finds: a document without a token gets    *)
(* one.                                                                    *)
LoadedFrom(f) ==
    {d \in Document :
        IF f \in Document
        THEN IF f.token = NoToken THEN d.token # NoToken /\ f = [d EXCEPT !.token = NoToken] ELSE d = f
        ELSE d.token # NoToken /\ d = [Blank EXCEPT !.token = d.token]}

(* The file is replaced as a whole, and a restart finds what was saved     *)
(* last, wherever the process ended.                                       *)
Store == INSTANCE SettingsStore WITH
    Documents <- Document,
    Loaded    <- LoadedFrom,
    Others    <- {Absent, Foreign},
    held      <- memory,
    kept      <- file

ImplementsStore == Store!Spec
=============================================================================
