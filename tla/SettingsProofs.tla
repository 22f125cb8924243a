--------------------------- MODULE SettingsProofs ---------------------------
(***************************************************************************)
(* Theorems about Settings, for every set of speakers and every bound on   *)
(* tokens.                                                                 *)
(***************************************************************************)
EXTENDS Settings, TLAPS

(* Nothing is under way while the program is not running, a save has a     *)
(* purpose, an update has its speaker, and a start that finds a foreign    *)
(* file saves nothing.                                                     *)
Phases ==
    /\ memory = Off => op = Idle
    /\ Saving => op.pc \notin {"idle", "starting"}
    /\ op.pc \in {"creating", "updating"} => Saving /\ op.speaker \in Speakers
    /\ op.stage = "apply" => op.pc = "updating"
    /\ file = Foreign => op.pc # "loading"

(* The program holds the token that is on the disk.                        *)
TokenAgrees == (Readable /\ file.token # NoToken /\ memory # Off) => memory.token = file.token

(* The engine's switch is that of the settings, and with it off nobody is  *)
(* armed.                                                                  *)
SwitchAgrees ==
    /\ Running => enabled = memory.global
    /\ ~enabled => tracked = {}

(* TrustedIsArmed while a save is under way: a speaker that has just been  *)
(* switched on is armed when its save has ended.                           *)
Updates(s, auto) == op.pc \in {"creating", "updating"} /\ op.auto = auto /\ op.speaker = s

Armed ==
    /\ (Running /\ memory.global) =>
         \A s \in Trusted : memory.auto[s] # "off" => s \in tracked \/ Updates(s, "on")
    /\ \A s \in Speakers :
         (Updates(s, "off") /\ op.pc = "updating" /\ op.stage # "apply") => memory.auto[s] = "off"

IInv == TypeOK /\ Phases /\ TokenAgrees /\ SwitchAgrees /\ Armed

-----------------------------------------------------------------------------
(* The documents, and what is none.                                        *)
LEMMA Kinds ==
    /\ Off \notin Document /\ Absent \notin Document /\ Foreign \notin Document
    /\ Absent # Foreign
    /\ Blank \in Document /\ Blank.token = NoToken
    /\ Idle \in Op /\ Idle.stage = "none" /\ Idle.pc = "idle"
    /\ [Idle EXCEPT !.pc = "starting"] \in Op
    /\ [Idle EXCEPT !.pc = "starting"].pc = "starting"
    /\ [Idle EXCEPT !.pc = "starting"].stage = "none"
    /\ [Idle EXCEPT !.pc = "starting"].auto = "keep"
    /\ Idle.auto = "keep"
<1>1. Off \notin Document /\ Absent \notin Document /\ Foreign \notin Document
  BY DEF Off, Absent, Foreign, Document
<1>2. Absent # Foreign
  BY DEF Absent, Foreign
<1>3. Blank \in Document /\ Blank.token = NoToken
  BY SettingsAssumption DEF Blank, Document, SettingsAssumption, Tokens, NoToken
<1> QED BY <1>1, <1>2, <1>3 DEF Idle, Op, Nobody

(* A document with one field changed.                                      *)
LEMMA Edited ==
    ASSUME NEW d \in Document
    PROVE  /\ \A on \in BOOLEAN :
                LET e == [d EXCEPT !.global = on]
                IN  e \in Document /\ e.global = on /\ e.token = d.token /\ e.auto = d.auto
           /\ \A t \in Tokens :
                LET e == [d EXCEPT !.token = t]
                IN  e \in Document /\ e.global = d.global /\ e.token = t /\ e.auto = d.auto
           /\ \A s \in Speakers, a \in {"none", "on", "off"} :
                LET e == [d EXCEPT !.auto[s] = a]
                IN  /\ e \in Document /\ e.global = d.global /\ e.token = d.token
                    /\ e.auto = [d.auto EXCEPT ![s] = a]
BY DEF Document

(* Where an operation goes with its save.                                  *)
LEMMA SavedIs ==
    ASSUME TypeOK, Phases, Saved
    PROVE  /\ op' \in Op /\ tracked' \in SUBSET Speakers
           /\ op' \in {Idle, [Idle EXCEPT !.pc = "starting"], [op EXCEPT !.pc = "updating", !.stage = "apply"]}
           /\ op'.pc # "loading" /\ (Saving' => op'.pc \notin {"idle", "starting"})
           /\ op.pc = "loading" => op' = [Idle EXCEPT !.pc = "starting"]
           /\ op.pc = "creating" =>
                /\ op'.pc = "updating" /\ op'.stage = "apply"
                /\ op'.speaker = op.speaker /\ op'.auto = op.auto
           /\ op'.stage = "apply" => op'.pc = "updating"
           /\ op.pc \notin {"creating", "loading"} => op' = Idle
           /\ op.pc = "updating" =>
                tracked' = CASE op.auto = "on" -> Registered(tracked, enabled, {op.speaker})
                             [] op.auto = "off" -> tracked \ {op.speaker}
                             [] OTHER -> tracked
           /\ op.pc # "updating" => tracked' = tracked
<1>1. op \in Op /\ tracked \in SUBSET Speakers
  BY DEF TypeOK
<1>2. CASE op.pc = "creating"
  <2>1. op' = [op EXCEPT !.pc = "updating", !.stage = "apply"] /\ tracked' = tracked
    BY <1>2 DEF Saved, Created
  <2> QED BY <1>1, <1>2, <2>1, Kinds DEF Op, Saving
<1>3. CASE op.pc = "loading"
  <2>1. op' = [Idle EXCEPT !.pc = "starting"] /\ tracked' = tracked
    BY <1>3 DEF Saved, Created
  <2> QED BY <1>1, <1>3, <2>1, Kinds DEF Saving
<1>4. CASE op.pc \notin {"creating", "loading"}
  <2>1. op' = Idle
    BY <1>4 DEF Saved, Created
  <2>2. op.pc # "updating" => tracked' = tracked
    BY DEF Saved
  <2>3. op.pc = "updating" => op.speaker \in Speakers
    BY DEF Phases
  <2>4. op.pc = "updating" =>
          tracked' = CASE op.auto = "on" -> Registered(tracked, enabled, {op.speaker})
                       [] op.auto = "off" -> tracked \ {op.speaker}
                       [] OTHER -> tracked
    BY DEF Saved
  <2>5. tracked' \in SUBSET Speakers
    BY <1>1, <2>2, <2>3, <2>4 DEF Registered
  <2> QED BY <1>4, <2>1, <2>2, <2>4, <2>5, Kinds DEF Saving
<1> QED BY <1>2, <1>3, <1>4

(* What a start does next.                                                 *)
LEMMA LoadOps ==
    ASSUME Load
    PROVE  /\ op' \in Op /\ op'.pc \in {"loading", "starting"} /\ op'.stage \in {"none", "open"}
           /\ op'.stage = "open" => op'.pc = "loading"
           /\ op'.pc = "loading" => file # Foreign
           /\ op'.auto = "keep"
<1>1. CASE LoadSaves
  <2>1. op' = [pc |-> "loading", stage |-> "open", speaker |-> Nobody, auto |-> "keep"]
    BY <1>1 DEF Load, Save
  <2>2. file # Foreign
    BY <1>1, Kinds DEF LoadSaves, Readable
  <2> QED BY <2>1, <2>2 DEF Op
<1>2. CASE ~LoadSaves
  <2>1. op' = [Idle EXCEPT !.pc = "starting"]
    BY <1>2 DEF Load
  <2> QED BY <2>1, Kinds
<1> QED BY <1>1, <1>2

(* What a start makes of the file.                                         *)
LEMMA LoadIs ==
    ASSUME TypeOK, Load
    PROVE  /\ memory = Off /\ memory' \in Document /\ memory' # Off /\ tokens' \in 0 .. MaxTokens
           /\ memory' \in LoadedFrom(file)
           /\ (Readable /\ file.token # NoToken) => memory' = file
           /\ op' \in Op /\ op'.pc \in {"loading", "starting"} /\ op'.stage \in {"none", "open"}
           /\ op'.stage = "open" => op'.pc = "loading"
           /\ op'.pc = "loading" => file # Foreign
           /\ op'.auto = "keep"
<1>1. memory = Off /\ tokens \in 0 .. MaxTokens /\ MaxTokens \in Nat
  BY SettingsAssumption DEF Load, TypeOK, SettingsAssumption
<1>0. tokens' \in 0 .. MaxTokens /\ (NeedsToken => ConfiguredToken \in Tokens /\ ConfiguredToken # NoToken)
  <2>1. CASE deployed = NoToken
    BY <1>1, <2>1 DEF Load, Generates, ConfiguredToken, Tokens, NoToken
  <2>2. CASE deployed # NoToken
    <3>1. ~Generates /\ ConfiguredToken = deployed
      BY <2>2 DEF Generates, ConfiguredToken
    <3> QED BY <1>1, <2>2, <3>1 DEF Load, Tokens, TypeOK
  <2> QED BY <2>1, <2>2
<1>2. CASE NeedsToken
  <2> DEFINE settings == IF Readable THEN file ELSE Blank
             token == ConfiguredToken
  <2>1. token \in Tokens /\ token # NoToken /\ memory' = [settings EXCEPT !.token = token]
    BY <1>0, <1>2 DEF Load
  <2> HIDE DEF token
  <2>2. settings \in Document
    BY Kinds DEF Readable
  <2>3. settings.token = NoToken
    BY <1>2, Kinds DEF NeedsToken
  <2>4. settings = [memory' EXCEPT !.token = NoToken]
    BY <2>1, <2>2, <2>3 DEF Document
  <2>5. memory' \in Document /\ memory'.token = token
    BY <2>1, <2>2, Edited
  <2>6. memory' \in LoadedFrom(file)
    <3>1. CASE Readable
      BY <2>1, <2>3, <2>4, <2>5, <3>1 DEF LoadedFrom, Readable
    <3>2. CASE ~Readable
      <4>1. memory' = [Blank EXCEPT !.token = memory'.token]
        BY <2>1, <2>5, <3>2
      <4> QED BY <2>1, <2>5, <3>2, <4>1 DEF LoadedFrom, Readable
    <3> QED BY <3>1, <3>2
  <2>7. ~(Readable /\ file.token # NoToken)
    BY <1>2 DEF NeedsToken
  <2> QED BY <1>0, <1>1, <2>5, <2>6, <2>7, Kinds, LoadOps DEF Load
<1>3. CASE ~NeedsToken
  <2>1. memory' = file /\ file \in Document /\ file.token # NoToken
    BY <1>3 DEF Load, NeedsToken, Readable
  <2>2. memory' \in LoadedFrom(file)
    BY <2>1 DEF LoadedFrom
  <2> QED BY <1>0, <1>1, <2>1, <2>2, Kinds, LoadOps DEF Load
<1> QED BY <1>2, <1>3

-----------------------------------------------------------------------------
(* Every action keeps the types.                                           *)
LEMMA TypeStep == IInv /\ [Next]_vars => TypeOK'
<1> SUFFICES ASSUME IInv, [Next]_vars PROVE TypeOK'
  OBVIOUS
<1>a. TypeOK /\ Phases
  BY DEF IInv
<1>1. CASE Applies
  <2>1. memory \in Document
    BY <1>1 DEF IInv, TypeOK, Phases, Applies, Idle
  <2>2. memory' \in Document
    BY <1>1, <1>a, <2>1 DEF TypeOK, Phases, Applies, Op, Document
  <2>3. op' \in Op
    BY <1>1, <1>a DEF TypeOK, Applies, Op
  <2> QED BY <1>1, <1>a, <2>2, <2>3 DEF TypeOK, Applies
<1>2. CASE WriteSteps
  <2>1. op' \in Op
    BY <1>2, <1>a DEF TypeOK, WriteSteps, Writes, Written, Op
  <2> QED BY <1>2, <1>a, <2>1 DEF TypeOK, WriteSteps, Writes, Written
<1>3. CASE Replaces
  <2>1. memory \in Document
    BY <1>3, <1>a DEF TypeOK, Phases, Replaces, Idle
  <2>2. op' \in Op /\ tracked' \in SUBSET Speakers
    BY <1>3, <1>a, SavedIs DEF Replaces
  <2> QED BY <1>3, <1>a, <2>1, <2>2 DEF TypeOK, Replaces
<1>4. CASE SaveFails
  <2>1. op' \in Op /\ tracked' \in SUBSET Speakers
    BY <1>4, <1>a, SavedIs DEF SaveFails
  <2> QED BY <1>4, <1>a, <2>1 DEF TypeOK, SaveFails
<1>5. CASE Load
  BY <1>5, <1>a, LoadIs DEF TypeOK, Load
<1>6. CASE Started
  <2>1. memory \in Document
    BY <1>6, <1>a, Kinds DEF TypeOK, Phases, Started
  <2> QED BY <1>6, <1>a, <2>1, Kinds DEF TypeOK, Started, Registered, ArmedAtStart, Trusted, Set, Document
<1>7. CASE Ends
  BY <1>7, <1>a, Kinds DEF TypeOK, Ends
<1>8. ASSUME NEW s \in Speakers, NEW auto \in {"on", "off", "keep"}, UpdateSpeaker(s, auto)
      PROVE  TypeOK'
  <2>1. memory \in Document
    BY <1>8, <1>a DEF TypeOK, UpdateSpeaker, Serving
  <2>2. memory' \in Document
    BY <1>8, <2>1 DEF UpdateSpeaker, Document
  <2>3. op' \in Op
    BY <1>8 DEF UpdateSpeaker, Save, Op
  <2> QED BY <1>8, <1>a, <2>2, <2>3 DEF TypeOK, UpdateSpeaker
<1>9. ASSUME NEW s \in Speakers, Remove(s)
      PROVE  TypeOK'
  <2>1. memory \in Document
    BY <1>9, <1>a DEF TypeOK, Remove, Serving
  <2>2. memory' \in Document
    BY <1>9, <2>1 DEF Remove, Document
  <2>3. op' \in Op
    BY <1>9, <1>a DEF Remove, Save, Op, TypeOK
  <2>4. device' \in [Speakers -> Devices] /\ tracked' \in SUBSET Speakers
    BY <1>9, <1>a DEF Remove, TypeOK, Devices
  <2> QED BY <1>9, <1>a, <2>2, <2>3, <2>4 DEF TypeOK, Remove
<1>10. ASSUME NEW s \in Speakers, Pair(s)
      PROVE  TypeOK'
  BY <1>10, <1>a DEF TypeOK, Pair, Registered
<1>11. ASSUME NEW s \in Speakers, NEW known \in Devices, Event(s, known)
      PROVE  TypeOK'
  <2>1. device' \in [Speakers -> Devices]
    BY <1>11, <1>a DEF Event, TypeOK
  <2>2. tracked' \in SUBSET Speakers
    BY <1>11, <1>a DEF Event, TypeOK, Registered
  <2> QED BY <1>11, <1>a, <2>1, <2>2 DEF TypeOK, Event
<1>12. ASSUME NEW on \in BOOLEAN, UpdateSystem(on)
      PROVE  TypeOK'
  <2>1. memory \in Document
    BY <1>12, <1>a DEF TypeOK, UpdateSystem, Serving
  <2>2. memory' \in Document
    BY <1>12, <2>1, Edited DEF UpdateSystem
  <2>3. op' \in Op
    BY <1>12 DEF UpdateSystem, Save, Op
  <2>4. tracked' \in SUBSET Speakers
    BY <1>12, <1>a DEF UpdateSystem, TypeOK, Registered, Trusted, Set
  <2> QED BY <1>12, <1>a, <2>2, <2>3, <2>4 DEF TypeOK, UpdateSystem
<1>13. ASSUME NEW token \in Configured \cup {NoToken}, Redeploys(token)
       PROVE  TypeOK'
  BY <1>13, <1>a DEF TypeOK, Redeploys
<1>14. CASE UNCHANGED vars
  BY <1>14, <1>a DEF TypeOK, vars
<1> QED BY <1>1, <1>2, <1>3, <1>4, <1>5, <1>6, <1>7, <1>8, <1>9, <1>10, <1>11, <1>12, <1>13, <1>14 DEF Next

(* Every action keeps the phases.                                          *)
LEMMA PhasesStep == IInv /\ [Next]_vars => Phases'
<1> SUFFICES ASSUME IInv, [Next]_vars PROVE Phases'
  OBVIOUS
<1>a. TypeOK /\ Phases
  BY DEF IInv
<1>1. CASE Applies
  <2>1. memory \in Document /\ file' = file
    BY <1>1, <1>a, Kinds DEF TypeOK, Phases, Applies
  <2>2. memory' \in Document
    BY <1>1, <1>a, <2>1 DEF TypeOK, Phases, Applies, Op, Document
  <2>3. op'.pc = "updating" /\ op.pc = "updating" /\ op'.speaker = op.speaker /\ op'.stage = "open"
    BY <1>1, <1>a DEF TypeOK, Phases, Applies, Op
  <2> QED BY <1>a, <2>1, <2>2, <2>3, Kinds DEF Phases, Saving
<1>2. CASE WriteSteps
  BY <1>2, <1>a DEF TypeOK, Op, Phases, WriteSteps, Writes, Written, Saving, Idle
<1>3. CASE Replaces
  <2>1. memory # Off /\ file' = memory /\ file' # Foreign /\ memory' = memory
    BY <1>3, <1>a, Kinds DEF TypeOK, Phases, Replaces
  <2>2. op'.pc \in {"creating", "updating"} => op'.stage = "apply" /\ op'.speaker \in Speakers
    BY <1>3, <1>a, SavedIs, Kinds DEF Replaces, Phases
  <2> QED BY <1>3, <1>a, <2>1, <2>2, SavedIs DEF Phases, Replaces, Saving
<1>4. CASE SaveFails
  <2>1. memory # Off /\ memory' = memory /\ file' = file
    BY <1>4, <1>a, Kinds DEF Phases, SaveFails
  <2>2. op'.pc \in {"creating", "updating"} => op'.stage = "apply" /\ op'.speaker \in Speakers
    BY <1>4, <1>a, SavedIs, Kinds DEF SaveFails, Phases
  <2> QED BY <1>4, <1>a, <2>1, <2>2, SavedIs DEF Phases, SaveFails, Saving
<1>5. CASE Load
  <2>1. file' = file
    BY <1>5 DEF Load
  <2> QED BY <1>5, <1>a, <2>1, LoadIs DEF Phases, Saving
<1>6. CASE Started
  BY <1>6, <1>a, Kinds DEF Phases, Started, Saving
<1>7. CASE Ends
  BY <1>7, <1>a, Kinds DEF Phases, Ends, Saving
<1>8. ASSUME NEW s \in Speakers, NEW auto \in {"on", "off", "keep"}, UpdateSpeaker(s, auto)
      PROVE  Phases'
  <2>1. memory # Off /\ file' = file
    BY <1>8 DEF UpdateSpeaker, Serving
  <2>2. /\ op'.speaker = s
        /\ (op'.pc = "creating" /\ op'.stage = "open") \/ (op'.pc = "updating" /\ op'.stage = "apply")
    BY <1>8 DEF UpdateSpeaker, Save
  <2>3. memory' \in Document
    BY <1>8, <1>a DEF UpdateSpeaker, Serving, TypeOK, Document
  <2> QED BY <2>1, <2>2, <2>3, Kinds DEF Phases, Saving
<1>9. ASSUME NEW s \in Speakers, Remove(s)
      PROVE  Phases'
  <2>1. memory # Off /\ file' = file /\ op = Idle
    BY <1>9 DEF Remove, Serving
  <2>2. op' = Idle \/ (op'.pc = "removing" /\ op'.stage = "open")
    BY <1>9, <2>1 DEF Remove, Save
  <2>3. memory' \in Document
    BY <1>9, <1>a DEF TypeOK, Remove, Serving, Document
  <2> QED BY <2>1, <2>2, <2>3, Kinds DEF Phases, Saving
<1>10. ASSUME NEW s \in Speakers, Pair(s)
      PROVE  Phases'
  BY <1>10, <1>a DEF Phases, Pair, Saving
<1>11. ASSUME NEW s \in Speakers, NEW known \in Devices, Event(s, known)
      PROVE  Phases'
  BY <1>11, <1>a DEF Phases, Event, Saving
<1>12. ASSUME NEW on \in BOOLEAN, UpdateSystem(on)
      PROVE  Phases'
  <2>1. memory # Off /\ file' = file /\ op'.pc = "system" /\ op'.stage = "open"
    BY <1>12 DEF UpdateSystem, Serving, Save
  <2>3. memory' \in Document
    BY <1>12, <1>a DEF TypeOK, UpdateSystem, Serving, Document
  <2> QED BY <2>1, <2>3, Kinds DEF Phases, Saving
<1>13. ASSUME NEW token \in Configured \cup {NoToken}, Redeploys(token)
       PROVE  Phases'
  BY <1>13, <1>a DEF Phases, Saving, Redeploys
<1>14. CASE UNCHANGED vars
  BY <1>14, <1>a DEF Phases, Saving, vars
<1> QED BY <1>1, <1>2, <1>3, <1>4, <1>5, <1>6, <1>7, <1>8, <1>9, <1>10, <1>11, <1>12, <1>13, <1>14 DEF Next

(* Every action keeps the token.                                           *)
LEMMA TokenStep == IInv /\ [Next]_vars => TokenAgrees'
<1> SUFFICES ASSUME IInv, [Next]_vars PROVE TokenAgrees'
  OBVIOUS
<1>a. TypeOK /\ Phases /\ TokenAgrees
  BY DEF IInv
<1>1. CASE Applies
  <2>1. file' = file /\ memory \in Document /\ memory'.token = memory.token
    BY <1>1, <1>a DEF TypeOK, Phases, Applies, Idle, Document
  <2> QED BY <1>a, <2>1, Kinds DEF TokenAgrees, Readable
<1>2. CASE WriteSteps
  BY <1>2, <1>a DEF TokenAgrees, Readable, WriteSteps, Writes, Written
<1>3. CASE Replaces
  <2>1. file' = memory /\ memory' = memory
    BY <1>3 DEF Replaces
  <2> QED BY <2>1 DEF TokenAgrees
<1>4. CASE SaveFails
  BY <1>4, <1>a DEF TokenAgrees, Readable, SaveFails
<1>5. CASE Load
  <2>1. file' = file
    BY <1>5 DEF Load
  <2> QED BY <1>5, <1>a, <2>1, LoadIs DEF TokenAgrees, Readable
<1>6. CASE Started
  BY <1>6, <1>a DEF TokenAgrees, Readable, Started
<1>7. CASE Ends
  BY <1>7, <1>a DEF TokenAgrees, Readable, Ends
<1>8. ASSUME NEW s \in Speakers, NEW auto \in {"on", "off", "keep"}, UpdateSpeaker(s, auto)
      PROVE  TokenAgrees'
  <2>1. file' = file /\ memory \in Document /\ memory'.token = memory.token
    BY <1>8, <1>a DEF TypeOK, UpdateSpeaker, Serving, Document
  <2> QED BY <1>a, <2>1, Kinds DEF TokenAgrees, Readable
<1>9. ASSUME NEW s \in Speakers, Remove(s)
      PROVE  TokenAgrees'
  <2>1. file' = file /\ memory \in Document /\ memory'.token = memory.token
    BY <1>9, <1>a DEF TypeOK, Remove, Serving, Document
  <2> QED BY <1>a, <2>1, Kinds DEF TokenAgrees, Readable
<1>10. ASSUME NEW s \in Speakers, Pair(s)
      PROVE  TokenAgrees'
  BY <1>10, <1>a DEF TokenAgrees, Readable, Pair
<1>11. ASSUME NEW s \in Speakers, NEW known \in Devices, Event(s, known)
      PROVE  TokenAgrees'
  BY <1>11, <1>a DEF TokenAgrees, Readable, Event
<1>12. ASSUME NEW on \in BOOLEAN, UpdateSystem(on)
      PROVE  TokenAgrees'
  <2>1. file' = file /\ memory \in Document /\ memory'.token = memory.token
    BY <1>12, <1>a DEF TypeOK, UpdateSystem, Serving, Document
  <2> QED BY <1>a, <2>1, Kinds DEF TokenAgrees, Readable
<1>13. ASSUME NEW token \in Configured \cup {NoToken}, Redeploys(token)
       PROVE  TokenAgrees'
  BY <1>13, <1>a DEF TokenAgrees, Readable, Redeploys
<1>14. CASE UNCHANGED vars
  BY <1>14, <1>a DEF TokenAgrees, Readable, vars
<1> QED BY <1>1, <1>2, <1>3, <1>4, <1>5, <1>6, <1>7, <1>8, <1>9, <1>10, <1>11, <1>12, <1>13, <1>14 DEF Next

(* Every action keeps the switch and its consequence.                      *)
LEMMA SwitchStep == IInv /\ [Next]_vars => SwitchAgrees'
<1> SUFFICES ASSUME IInv, [Next]_vars PROVE SwitchAgrees'
  OBVIOUS
<1>a. TypeOK /\ Phases /\ SwitchAgrees
  BY DEF IInv
<1>1. CASE Applies
  <2>1. enabled' = enabled /\ tracked' = tracked /\ op'.pc = op.pc
    BY <1>1, <1>a DEF Applies, TypeOK, Op
  <2>2. memory \in Document /\ memory'.global = memory.global
    BY <1>1, <1>a DEF TypeOK, Phases, Applies, Idle, Document
  <2>3. memory # Off
    BY <2>2, Kinds
  <2> QED BY <1>a, <2>1, <2>2, <2>3 DEF SwitchAgrees, Running
<1>2. CASE WriteSteps
  <2>1. enabled' = enabled /\ tracked' = tracked /\ op'.pc = op.pc /\ memory' = memory
    BY <1>2, <1>a DEF WriteSteps, Writes, Written, TypeOK, Op
  <2> QED BY <1>a, <2>1 DEF SwitchAgrees, Running
<1>3. CASE Replaces
  <2>1. enabled' = enabled /\ memory' = memory
    BY <1>3 DEF Replaces
  <2>2. Running' => Running
    BY <1>3, <1>a, <2>1, SavedIs, Kinds DEF Replaces, Running, Phases, Saving
  <2>3. ~enabled => tracked' = {}
    <3>1. CASE op.pc = "updating"
      BY <1>3, <1>a, <3>1, SavedIs DEF Replaces, SwitchAgrees, Registered
    <3>2. CASE op.pc # "updating"
      BY <1>3, <1>a, <3>2, SavedIs DEF Replaces, SwitchAgrees
    <3> QED BY <3>1, <3>2
  <2> QED BY <1>a, <2>1, <2>2, <2>3 DEF SwitchAgrees
<1>4. CASE SaveFails
  <2>1. enabled' = enabled /\ memory' = memory
    BY <1>4 DEF SaveFails
  <2>2. Running' => Running
    BY <1>4, <1>a, <2>1, SavedIs, Kinds DEF SaveFails, Running, Phases, Saving
  <2>3. ~enabled => tracked' = {}
    <3>1. CASE op.pc = "updating"
      BY <1>4, <1>a, <3>1, SavedIs DEF SaveFails, SwitchAgrees, Registered
    <3>2. CASE op.pc # "updating"
      BY <1>4, <1>a, <3>2, SavedIs DEF SaveFails, SwitchAgrees
    <3> QED BY <3>1, <3>2
  <2> QED BY <1>a, <2>1, <2>2, <2>3 DEF SwitchAgrees
<1>5. CASE Load
  <2>1. enabled' = enabled /\ tracked' = tracked
    BY <1>5 DEF Load
  <2> QED BY <1>5, <1>a, <2>1, LoadIs DEF SwitchAgrees, Running
<1>6. CASE Started
  <2>1. enabled' = memory.global /\ memory' = memory /\ tracked' = Registered({}, memory.global, ArmedAtStart)
    BY <1>6 DEF Started
  <2> QED BY <2>1 DEF SwitchAgrees, Registered
<1>7. CASE Ends
  BY <1>7 DEF Ends, SwitchAgrees, Running
<1>8. ASSUME NEW s \in Speakers, NEW auto \in {"on", "off", "keep"}, UpdateSpeaker(s, auto)
      PROVE  SwitchAgrees'
  <2>1. enabled' = enabled /\ tracked' = tracked /\ Running
    BY <1>8, Kinds DEF UpdateSpeaker, Serving, Running
  <2>2. memory \in Document /\ memory'.global = memory.global
    BY <1>8, <1>a DEF TypeOK, UpdateSpeaker, Serving, Document
  <2> QED BY <1>a, <2>1, <2>2 DEF SwitchAgrees
<1>9. ASSUME NEW s \in Speakers, Remove(s)
      PROVE  SwitchAgrees'
  <2>1. enabled' = enabled /\ tracked' = tracked \ {s} /\ Running
    BY <1>9, Kinds DEF Remove, Serving, Running
  <2>2. memory \in Document /\ memory'.global = memory.global
    BY <1>9, <1>a DEF TypeOK, Remove, Serving, Document
  <2> QED BY <1>a, <2>1, <2>2 DEF SwitchAgrees
<1>10. ASSUME NEW s \in Speakers, Pair(s)
      PROVE  SwitchAgrees'
  <2>1. enabled' = enabled /\ tracked' = Registered(tracked, enabled, {s}) /\ op' = op /\ memory' = memory
    BY <1>10 DEF Pair
  <2> QED BY <1>a, <2>1 DEF SwitchAgrees, Registered, Running
<1>11. ASSUME NEW s \in Speakers, NEW known \in Devices, Event(s, known)
      PROVE  SwitchAgrees'
  <2>1. /\ enabled' = enabled /\ tracked' \in {tracked, Registered(tracked, enabled, {s})}
        /\ op' = op /\ memory' = memory
    BY <1>11 DEF Event
  <2> QED BY <1>a, <2>1 DEF SwitchAgrees, Registered, Running
<1>12. ASSUME NEW on \in BOOLEAN, UpdateSystem(on)
      PROVE  SwitchAgrees'
  <2>1. enabled' = on /\ (~on => tracked' = {})
    BY <1>12 DEF UpdateSystem
  <2>2. memory \in Document /\ memory'.global = on
    BY <1>12, <1>a DEF TypeOK, UpdateSystem, Serving, Document
  <2> QED BY <2>1, <2>2 DEF SwitchAgrees
<1>13. ASSUME NEW token \in Configured \cup {NoToken}, Redeploys(token)
       PROVE  SwitchAgrees'
  BY <1>13, <1>a DEF SwitchAgrees, Running, Redeploys
<1>14. CASE UNCHANGED vars
  BY <1>14, <1>a DEF SwitchAgrees, Running, vars
<1> QED BY <1>1, <1>2, <1>3, <1>4, <1>5, <1>6, <1>7, <1>8, <1>9, <1>10, <1>11, <1>12, <1>13, <1>14 DEF Next

(* Every action keeps the trusted speakers armed.                          *)
LEMMA ArmedStep == IInv /\ [Next]_vars => Armed'
<1> SUFFICES ASSUME IInv, [Next]_vars PROVE Armed'
  OBVIOUS
<1>a. TypeOK /\ Phases /\ SwitchAgrees /\ Armed
  BY DEF IInv
<1>1. CASE Applies
  <2>1. /\ device' = device /\ tracked' = tracked /\ memory \in Document /\ memory # Off
        /\ op'.pc = "updating" /\ op.pc = "updating" /\ op'.speaker = op.speaker /\ op'.auto = op.auto
        /\ op.speaker \in Speakers
    BY <1>1, <1>a, Kinds DEF TypeOK, Phases, Applies, Idle, Op
  <2>2. /\ memory'.global = memory.global
        /\ op.auto # "keep" => memory'.auto = [memory.auto EXCEPT ![op.speaker] = op.auto]
        /\ op.auto = "keep" => memory'.auto = memory.auto
        /\ memory.auto \in [Speakers -> {"none", "on", "off"}]
    BY <1>1, <2>1 DEF Applies, Document
  <2>3. op.auto \in {"on", "off", "keep"}
    BY <1>a DEF TypeOK, Op
  <2> QED BY <1>a, <2>1, <2>2, <2>3 DEF Armed, Updates, Running, Trusted
<1>2. CASE WriteSteps
  <2>1. /\ device' = device /\ tracked' = tracked /\ memory' = memory
        /\ op'.pc = op.pc /\ op'.speaker = op.speaker /\ op'.auto = op.auto /\ op.stage # "apply"
    BY <1>2, <1>a DEF WriteSteps, Writes, Written, TypeOK, Op
  <2> QED BY <1>a, <2>1 DEF Armed, Updates, Running, Trusted
<1>3. CASE Replaces
  <2>1. /\ enabled' = enabled /\ memory' = memory /\ device' = device
        /\ op.stage \in {"open", "writing", "written"}
    BY <1>3 DEF Replaces
  <2>2. Running' => Running
    BY <1>3, <1>a, <2>1, SavedIs, Kinds DEF Replaces, Running, Phases, Saving
  <2>3. CASE op.pc = "creating"
    BY <1>3, <1>a, <2>1, <2>2, <2>3, SavedIs DEF Replaces, Armed, Updates, Trusted
  <2>4. CASE op.pc = "loading"
    BY <1>3, <1>a, <2>1, <2>4, SavedIs, Kinds DEF Replaces, Armed, Updates, Running
  <2>5. CASE op.pc = "updating"
    <3>1. op' = Idle
      BY <1>3, <1>a, <2>5, SavedIs DEF Replaces
    <3>2. ASSUME Running', memory'.global, NEW s \in Trusted', memory'.auto[s] # "off"
          PROVE  s \in tracked'
      <4>1. s \in Speakers /\ Running /\ enabled /\ (s \in tracked \/ Updates(s, "on"))
        BY <1>a, <2>1, <2>2, <3>2 DEF Armed, Trusted, SwitchAgrees
      <4>2. op.auto = "off" => s # op.speaker
        BY <1>a, <2>1, <2>5, <3>2, <4>1 DEF Armed, Updates
      <4>3. CASE op.auto = "on"
        BY <1>3, <1>a, <2>5, <4>1, <4>3, SavedIs DEF Replaces, Registered, Updates
      <4>4. CASE op.auto # "on"
        BY <1>3, <1>a, <2>5, <4>1, <4>2, <4>4, SavedIs DEF Replaces, Updates
      <4> QED BY <4>3, <4>4
    <3> QED BY <3>1, <3>2, Kinds DEF Armed, Updates
  <2>6. CASE op.pc \notin {"creating", "loading", "updating"}
    BY <1>3, <1>a, <2>1, <2>2, <2>6, SavedIs, Kinds DEF Replaces, Armed, Updates, Trusted
  <2> QED BY <2>3, <2>4, <2>5, <2>6
<1>4. CASE SaveFails
  <2>1. /\ enabled' = enabled /\ memory' = memory /\ device' = device
        /\ op.stage \in {"open", "writing", "written"}
    BY <1>4 DEF SaveFails
  <2>2. Running' => Running
    BY <1>4, <1>a, <2>1, SavedIs, Kinds DEF SaveFails, Running, Phases, Saving
  <2>3. CASE op.pc = "creating"
    BY <1>4, <1>a, <2>1, <2>2, <2>3, SavedIs DEF SaveFails, Armed, Updates, Trusted
  <2>4. CASE op.pc = "loading"
    BY <1>4, <1>a, <2>1, <2>4, SavedIs, Kinds DEF SaveFails, Armed, Updates, Running
  <2>5. CASE op.pc = "updating"
    <3>1. op' = Idle
      BY <1>4, <1>a, <2>5, SavedIs DEF SaveFails
    <3>2. ASSUME Running', memory'.global, NEW s \in Trusted', memory'.auto[s] # "off"
          PROVE  s \in tracked'
      <4>1. s \in Speakers /\ Running /\ enabled /\ (s \in tracked \/ Updates(s, "on"))
        BY <1>a, <2>1, <2>2, <3>2 DEF Armed, Trusted, SwitchAgrees
      <4>2. op.auto = "off" => s # op.speaker
        BY <1>a, <2>1, <2>5, <3>2, <4>1 DEF Armed, Updates
      <4>3. CASE op.auto = "on"
        BY <1>4, <1>a, <2>5, <4>1, <4>3, SavedIs DEF SaveFails, Registered, Updates
      <4>4. CASE op.auto # "on"
        BY <1>4, <1>a, <2>5, <4>1, <4>2, <4>4, SavedIs DEF SaveFails, Updates
      <4> QED BY <4>3, <4>4
    <3> QED BY <3>1, <3>2, Kinds DEF Armed, Updates
  <2>6. CASE op.pc \notin {"creating", "loading", "updating"}
    BY <1>4, <1>a, <2>1, <2>2, <2>6, SavedIs, Kinds DEF SaveFails, Armed, Updates, Trusted
  <2> QED BY <2>3, <2>4, <2>5, <2>6
<1>5. CASE Load
  BY <1>5, <1>a, LoadIs DEF Armed, Updates, Running
<1>6. CASE Started
  <2>1. /\ memory' = memory /\ op' = Idle /\ device' = device
        /\ tracked' = Registered({}, memory.global, ArmedAtStart)
    BY <1>6 DEF Started
  <2> QED BY <2>1, Kinds DEF Armed, Updates, Trusted, Registered, ArmedAtStart
<1>7. CASE Ends
  BY <1>7, Kinds DEF Ends, Armed, Updates, Running
<1>8. ASSUME NEW s \in Speakers, NEW auto \in {"on", "off", "keep"}, UpdateSpeaker(s, auto)
      PROVE  Armed'
  <2>1. /\ device' = device /\ tracked' = tracked /\ memory \in Document /\ op = Idle /\ Running
    BY <1>8, <1>a, Kinds DEF TypeOK, UpdateSpeaker, Serving, Running
  <2>2. /\ memory'.global = memory.global
        /\ memory'.auto = IF memory.auto[s] = "none" THEN [memory.auto EXCEPT ![s] = "on"] ELSE memory.auto
        /\ memory.auto \in [Speakers -> {"none", "on", "off"}]
    BY <1>8, <2>1 DEF UpdateSpeaker, Document
  <2>3. op'.pc = "creating" \/ op'.stage = "apply"
    BY <1>8 DEF UpdateSpeaker, Save
  <2> QED BY <1>a, <2>1, <2>2, <2>3, Kinds DEF Armed, Updates, Trusted
<1>9. ASSUME NEW s \in Speakers, Remove(s)
      PROVE  Armed'
  <2>1. /\ device' = [device EXCEPT ![s] = "absent"] /\ tracked' = tracked \ {s}
        /\ memory \in Document /\ op = Idle /\ Running /\ device \in [Speakers -> Devices]
    BY <1>9, <1>a, Kinds DEF TypeOK, Remove, Serving, Running
  <2>2. /\ memory'.global = memory.global /\ memory'.auto = [memory.auto EXCEPT ![s] = "none"]
        /\ memory.auto \in [Speakers -> {"none", "on", "off"}]
    BY <1>9, <2>1 DEF Remove, Document
  <2>3. op'.pc \in {"idle", "removing"}
    BY <1>9, <2>1, Kinds DEF Remove, Save
  <2> QED BY <1>a, <2>1, <2>2, <2>3, Kinds DEF Armed, Updates, Trusted
<1>10. ASSUME NEW s \in Speakers, Pair(s)
      PROVE  Armed'
  <2>1. tracked \subseteq tracked' /\ device' = device /\ memory' = memory /\ op' = op
    BY <1>10 DEF Pair, Registered
  <2> QED BY <1>a, <2>1 DEF Armed, Updates, Running, Trusted
<1>11. ASSUME NEW s \in Speakers, NEW known \in Devices, Event(s, known)
      PROVE  Armed'
  <2>1. /\ tracked \subseteq tracked' /\ device' = [device EXCEPT ![s] = known]
        /\ memory' = memory /\ op' = op /\ device \in [Speakers -> Devices]
    BY <1>11, <1>a DEF Event, Registered, TypeOK
  <2>2. (Running /\ memory.global /\ known = "trusted") => s \in tracked'
    BY <1>11, <1>a DEF Event, Arms, Registered, SwitchAgrees
  <2> QED BY <1>a, <2>1, <2>2 DEF Armed, Updates, Running, Trusted
<1>12. ASSUME NEW on \in BOOLEAN, UpdateSystem(on)
      PROVE  Armed'
  <2>1. /\ device' = device /\ memory \in Document /\ op'.pc = "system"
        /\ on => tracked' = (tracked \cup (Trusted \cup Set("on"))) \ Set("off")
    BY <1>12, <1>a DEF TypeOK, UpdateSystem, Serving, Save, Registered
  <2>2. memory'.global = on /\ memory'.auto = memory.auto
    BY <1>12, <2>1 DEF UpdateSystem, Document
  <2> QED BY <2>1, <2>2 DEF Armed, Updates, Trusted, Set
<1>13. ASSUME NEW token \in Configured \cup {NoToken}, Redeploys(token)
       PROVE  Armed'
  BY <1>13, <1>a DEF Armed, Updates, Running, Trusted, Redeploys
<1>14. CASE UNCHANGED vars
  BY <1>14, <1>a DEF Armed, Updates, Running, Trusted, vars
<1> QED BY <1>1, <1>2, <1>3, <1>4, <1>5, <1>6, <1>7, <1>8, <1>9, <1>10, <1>11, <1>12, <1>13, <1>14 DEF Next

-----------------------------------------------------------------------------
LEMMA InitIInv == Init => IInv
<1> SUFFICES ASSUME Init PROVE IInv
  OBVIOUS
<1>1. \A a \in [Speakers -> {"none", "on", "off"}] : [Blank EXCEPT !.auto = a] \in Document
  BY Kinds DEF Document
<1>2. TypeOK
  BY <1>1, Kinds, SettingsAssumption DEF Init, TypeOK, Devices, SettingsAssumption
<1>3. memory = Off /\ op = Idle /\ enabled = TRUE
  BY DEF Init
<1> QED BY <1>2, <1>3, Kinds DEF IInv, Phases, TokenAgrees, SwitchAgrees, Armed, Updates, Running, Saving

(* The inductive invariant of the settings.                                *)
THEOREM Invariance == Spec => []IInv
<1>1. IInv /\ [Next]_vars => IInv'
  BY TypeStep, PhasesStep, TokenStep, SwitchStep, ArmedStep DEF IInv
<1> QED BY InitIInv, <1>1, PTL DEF Spec

(* Every variable stays in its range: in particular nothing but a whole    *)
(* document ever replaces the settings file.                               *)
THEOREM TypeCorrect == Spec => []TypeOK
<1>1. IInv => TypeOK
  BY DEF IInv
<1> QED BY Invariance, <1>1, PTL

(* With reconnection off nobody is armed.                                  *)
THEOREM OffIsQuietAlways == Spec => []OffIsQuiet
<1>1. IInv => OffIsQuiet
  BY DEF IInv, SwitchAgrees, OffIsQuiet
<1> QED BY Invariance, <1>1, PTL

(* With reconnection on every trusted speaker is armed, unless its own     *)
(* setting says otherwise.                                                 *)
THEOREM TrustedIsArmedAlways == Spec => []TrustedIsArmed
<1>1. IInv => TrustedIsArmed
  <2> SUFFICES ASSUME IInv, Running, ~Saving, memory.global, NEW s \in Trusted, memory.auto[s] # "off"
               PROVE  s \in tracked
    BY DEF TrustedIsArmed
  <2>1. op.pc \notin {"creating", "updating"}
    BY DEF IInv, Phases, Saving
  <2> QED BY <2>1 DEF IInv, Armed, Updates
<1> QED BY Invariance, <1>1, PTL

(* A start leaves a file that it cannot read as it is.                     *)
THEOREM UnreadableIsKeptAlways == Spec => UnreadableIsKept
<1>1. IInv /\ [Next]_vars =>
        [(file = Foreign /\ file' # Foreign) => op.pc \in {"creating", "updating", "system", "removing"}]_vars
  <2> SUFFICES ASSUME IInv, Next, file = Foreign, file' # Foreign
               PROVE  op.pc \in {"creating", "updating", "system", "removing"}
    OBVIOUS
  <2>1. Replaces
    BY DEF Next, Applies, WriteSteps, Writes, Written, SaveFails, Load, Started, Ends,
           UpdateSpeaker, Remove, Pair, Event, UpdateSystem, Redeploys
  <2>2. Saving /\ op \in Op
    BY <2>1 DEF Replaces, Saving, IInv, TypeOK
  <2> QED BY <2>2 DEF IInv, Phases, Op
<1> QED BY Invariance, <1>1, PTL DEF Spec, UnreadableIsKept

(* A token that has reached the disk is there after every failed save,     *)
(* crash and restart, and none is generated in its place.                  *)
THEOREM TokenIsKeptAlways == Spec => TokenIsKept
<1>1. IInv /\ [Next]_vars =>
        [(Readable /\ file.token # NoToken) =>
           /\ file' \in Document
           /\ file'.token = file.token \/ (deployed # NoToken /\ file'.token = deployed)]_vars
  <2> SUFFICES ASSUME IInv, Next, Readable, file.token # NoToken
               PROVE  file' \in Document /\ file'.token = file.token
    OBVIOUS
  <2>1. CASE Replaces
    <3>1. file' = memory /\ memory \in Document /\ memory # Off
      BY <2>1, Kinds DEF Replaces, IInv, Phases, TypeOK
    <3> QED BY <3>1 DEF IInv, TokenAgrees
  <2>2. CASE file' = file
    BY <2>2 DEF Readable
  <2> QED
    BY <2>1, <2>2 DEF Next, Applies, WriteSteps, Writes, Written, SaveFails, Load, Started, Ends,
                      UpdateSpeaker, Remove, Pair, Event, UpdateSystem, Redeploys
<1> QED BY Invariance, <1>1, PTL DEF Spec, TokenIsKept

(* Every step is one of the store, or none that it sees.                   *)
LEMMA StoreStep == IInv /\ IInv' /\ [Next]_vars => [Store!Next]_<<memory, file>>
<1> SUFFICES ASSUME IInv, IInv', Next, ~UNCHANGED <<memory, file>>
             PROVE  Store!Next
  BY DEF vars
<1>1. TypeOK /\ Phases /\ TypeOK'
  BY DEF IInv
<1>2. CASE Replaces
  <2>1. Store!Keep
    BY <1>1, <1>2, Kinds DEF Replaces, Phases, Store!Keep
  <2> QED BY <2>1 DEF Store!Next
<1>3. CASE Load
  <2>1. Store!Restart
    BY <1>1, <1>3, LoadIs DEF Load, Store!Restart
  <2> QED BY <2>1 DEF Store!Next
<1>4. CASE Ends
  <2>1. Store!Crash
    BY <1>4 DEF Ends, Store!Crash
  <2> QED BY <2>1 DEF Store!Next
<1>5. CASE memory \in Document /\ memory' # Off /\ file' = file
  <2>1. Store!Change
    BY <1>1, <1>5, Kinds DEF TypeOK, Store!Change
  <2> QED BY <2>1 DEF Store!Next
<1>6. ASSUME Applies
      PROVE  memory \in Document /\ memory' # Off /\ file' = file
  <2>1. memory \in Document /\ file' = file
    BY <1>1, <1>6, Kinds DEF TypeOK, Phases, Applies
  <2>2. memory' \in Document
    BY <1>1, <1>6, <2>1 DEF TypeOK, Phases, Applies, Op, Document
  <2> QED BY <2>1, <2>2, Kinds
<1>7. ASSUME NEW s \in Speakers, NEW auto \in {"on", "off", "keep"}, UpdateSpeaker(s, auto)
      PROVE  memory \in Document /\ memory' # Off /\ file' = file
  <2>1. memory \in Document /\ file' = file
    BY <1>1, <1>7 DEF TypeOK, UpdateSpeaker, Serving
  <2>2. memory' \in Document
    BY <1>7, <2>1 DEF UpdateSpeaker, Document
  <2> QED BY <2>1, <2>2, Kinds
<1>8. ASSUME NEW s \in Speakers, Remove(s)
      PROVE  memory \in Document /\ memory' # Off /\ file' = file
  <2>1. memory \in Document /\ file' = file
    BY <1>1, <1>8 DEF TypeOK, Remove, Serving
  <2>2. memory' \in Document
    BY <1>8, <2>1 DEF Remove, Document
  <2> QED BY <2>1, <2>2, Kinds
<1>9. ASSUME NEW on \in BOOLEAN, UpdateSystem(on)
      PROVE  memory \in Document /\ memory' # Off /\ file' = file
  <2>1. memory \in Document /\ file' = file
    BY <1>1, <1>9 DEF TypeOK, UpdateSystem, Serving
  <2>2. memory' \in Document
    BY <1>9, <2>1, Edited DEF UpdateSystem
  <2> QED BY <2>1, <2>2, Kinds
<1>10. ~WriteSteps /\ ~SaveFails /\ ~Started
  BY DEF WriteSteps, Writes, Written, SaveFails, Started
<1>11. /\ \A s \in Speakers : ~Pair(s) /\ \A known \in Devices : ~Event(s, known)
       /\ \A token \in Configured \cup {NoToken} : ~Redeploys(token)
  BY DEF Pair, Event, Redeploys
<1> QED BY <1>2, <1>3, <1>4, <1>5, <1>6, <1>7, <1>8, <1>9, <1>10, <1>11 DEF Next

(* The settings implement the store: the file is replaced as a whole, and  *)
(* a start finds what was saved last.                                      *)
THEOREM StoreImplemented == Spec => ImplementsStore
<1>1. Init => Store!Init
  BY InitIInv, Kinds DEF Init, IInv, TypeOK, Store!Init
<1>2. IInv /\ IInv' /\ [Next]_vars => [Store!Next]_<<memory, file>>
  BY StoreStep
<1> QED BY Invariance, <1>1, <1>2, PTL DEF Spec, ImplementsStore, Store!Spec

=============================================================================
