--------------------------- MODULE PairingProofs ---------------------------
(***************************************************************************)
(* Theorems about Pairing, for any number of callers, speakers, adapters   *)
(* and PINs.                                                               *)
(***************************************************************************)
EXTENDS Pairing, SequenceTheorems, FiniteSetTheorems, TLAPS

(* A call has these five fields; what is left of its loop does not matter. *)
Fields == {"pc", "address", "pin", "left", "size"}

Frames == DOMAIN op = Callers /\ \A c \in Callers : DOMAIN op[c] = Fields

(* An open window is that of a call that still runs, or it was abandoned.  *)
Opens(c) ==
    op[c].pc \in {"opening", "pairing"} /\ op[c].address = window.address /\ op[c].pin = window.pin

Owned ==
    window # NoWindow =>
      (\E c \in Callers : Opens(c)) \/ <<window.address, window.pin>> \in abandoned

IInv == Frames /\ window \in Window \cup {NoWindow} /\ Owned

-----------------------------------------------------------------------------
(* A call whose loop over the adapters begins.                             *)
LEMMA LoopIs ==
    ASSUME NEW o, DOMAIN o = Fields, NEW pc
    PROVE  /\ DOMAIN Loop(o, pc) = Fields /\ Loop(o, pc).pc = pc
           /\ Loop(o, pc).address = o.address /\ Loop(o, pc).pin = o.pin
BY DEF Loop, Fields

LEMMA IdleIs == DOMAIN Idle = Fields /\ Idle.pc = "idle"
BY DEF Idle, Fields

(* One call moves, and the others stay.                                    *)
LEMMA Moves ==
    ASSUME NEW c \in Callers, Frames, NEW o, DOMAIN o = Fields, op' = [op EXCEPT ![c] = o]
    PROVE  Frames' /\ op'[c] = o /\ \A d \in Callers \ {c} : op'[d] = op[d]
BY DEF Frames

(* Every step of a call.                                                   *)
LEMMA CallStep ==
    ASSUME IInv, NEW c \in Callers,
           Open(c) \/ SetPairable(c) \/ LoopRaises(c) \/ Opened(c) \/ Paired(c) \/ Closed(c)
    PROVE  IInv'
<1>a. Frames /\ window \in Window \cup {NoWindow} /\ Owned
  BY DEF IInv
<1>b. DOMAIN op[c] = Fields
  BY <1>a DEF Frames
<1>1. CASE Open(c)
  <2>1. PICK address \in Addresses, pin \in Pins :
          /\ window' = [address |-> address, pin |-> pin, live |-> TRUE]
          /\ op' = [op EXCEPT ![c] = Loop([Idle EXCEPT !.address = address, !.pin = pin], "opening")]
    BY <1>1 DEF Open
  <2> DEFINE o == [Idle EXCEPT !.address = address, !.pin = pin]
  <2>2. DOMAIN o = Fields /\ o.address = address /\ o.pin = pin
    BY IdleIs DEF Fields
  <2> HIDE DEF o
  <2>3. /\ DOMAIN Loop(o, "opening") = Fields /\ Loop(o, "opening").pc = "opening"
        /\ Loop(o, "opening").address = address /\ Loop(o, "opening").pin = pin
    BY <2>2, LoopIs
  <2>4. Frames' /\ op'[c] = Loop(o, "opening")
    BY <1>a, <2>1, <2>3, Moves DEF o
  <2>5. window' \in Window /\ window'.address = address /\ window'.pin = pin
    BY <2>1 DEF Window
  <2> QED BY <2>3, <2>4, <2>5 DEF IInv, Owned, Opens
<1>2. CASE SetPairable(c)
  <2> DEFINE o == [op[c] EXCEPT !.left = Tail(@)]
  <2>1. op' = [op EXCEPT ![c] = o] /\ window' = window /\ abandoned' = abandoned
    BY <1>2 DEF SetPairable
  <2>2. DOMAIN o = Fields /\ o.pc = op[c].pc /\ o.address = op[c].address /\ o.pin = op[c].pin
    BY <1>b DEF Fields
  <2> HIDE DEF o
  <2>3. Frames' /\ op'[c] = o /\ \A d \in Callers \ {c} : op'[d] = op[d]
    BY <1>a, <2>1, <2>2, Moves
  <2>4. \A d \in Callers : /\ op'[d].pc = op[d].pc
                          /\ op'[d].address = op[d].address /\ op'[d].pin = op[d].pin
    BY <2>2, <2>3
  <2>5. \A d \in Callers : Opens(d)' <=> Opens(d)
    BY <2>1, <2>4 DEF Opens
  <2> QED BY <1>a, <2>1, <2>3, <2>5 DEF IInv, Owned
<1>3. CASE LoopRaises(c)
  <2>1. op' = [op EXCEPT ![c] = Idle]
    BY <1>3 DEF LoopRaises
  <2>2. /\ window' = window /\ op[c].pc \in {"opening", "closing"}
        /\ abandoned' = IF op[c].pc = "opening" THEN abandoned \cup {<<op[c].address, op[c].pin>>} ELSE abandoned
    BY <1>3 DEF LoopRaises
  <2>3. Frames' /\ \A d \in Callers \ {c} : Opens(d)' <=> Opens(d)
    BY <1>a, <2>1, <2>2, IdleIs, Moves DEF Opens
  <2>4. Opens(c) => <<window.address, window.pin>> \in abandoned'
    BY <2>2 DEF Opens
  <2> QED BY <1>a, <2>2, <2>3, <2>4 DEF IInv, Owned
<1>4. CASE Opened(c)
  <2> DEFINE o == [op[c] EXCEPT !.pc = "pairing"]
  <2>1. op' = [op EXCEPT ![c] = o] /\ window' = window /\ abandoned' = abandoned
    BY <1>4 DEF Opened
  <2>2. DOMAIN o = Fields /\ o.pc = "pairing" /\ o.address = op[c].address /\ o.pin = op[c].pin
    BY <1>b DEF Fields
  <2> HIDE DEF o
  <2>3. Frames' /\ \A d \in Callers : Opens(d) => Opens(d)'
    BY <1>a, <2>1, <2>2, Moves DEF Opens
  <2> QED BY <1>a, <2>1, <2>3 DEF IInv, Owned
<1>5. CASE Paired(c)
  <2>1. window' = NoWindow /\ op' = [op EXCEPT ![c] = Loop(op[c], "closing")]
    BY <1>5 DEF Paired, Close
  <2>2. Frames'
    BY <1>a, <1>b, <2>1, LoopIs, Moves
  <2> QED BY <2>1, <2>2 DEF IInv, Owned
<1>6. CASE Closed(c)
  <2>1. op' = [op EXCEPT ![c] = Idle] /\ window' = window /\ abandoned' = abandoned /\ op[c].pc = "closing"
    BY <1>6 DEF Closed
  <2>2. Frames' /\ \A d \in Callers : Opens(d) => Opens(d)'
    BY <1>a, <2>1, IdleIs, Moves DEF Opens
  <2> QED BY <1>a, <2>1, <2>2 DEF IInv, Owned
<1> QED BY <1>1, <1>2, <1>3, <1>4, <1>5, <1>6

(* The initial states: initialize is closing.                              *)
LEMMA InitIInv == Init => IInv
<1> SUFFICES ASSUME Init PROVE IInv
  OBVIOUS
<1>1. PICK boot \in Callers : op = [c \in Callers |-> IF c = boot THEN Loop(Idle, "closing") ELSE Idle]
  BY DEF Init
<1>2. Frames
  BY <1>1, IdleIs, LoopIs DEF Frames
<1> QED BY <1>2 DEF Init, IInv, Owned

(* The inductive invariant: every open window has its call.                *)
THEOREM Invariance == Spec => []IInv
<1>1. IInv /\ [Next]_vars => IInv'
  <2> SUFFICES ASSUME IInv, [Next]_vars PROVE IInv'
    OBVIOUS
  <2>1. CASE \E c \in Callers :
               Open(c) \/ SetPairable(c) \/ LoopRaises(c) \/ Opened(c) \/ Paired(c) \/ Closed(c)
    BY <2>1, CallStep
  <2>2. CASE UNCHANGED <<window, op, abandoned>>
    BY <2>2 DEF IInv, Frames, Owned, Opens
  <2>3. CASE Consulted
    BY <2>3 DEF Consulted, IInv, Frames, Owned
  <2>4. CASE Expire
    <3>1. window \in Window /\ window' = [window EXCEPT !.live = FALSE]
      BY <2>4 DEF Expire, IInv
    <3>2. window' \in Window /\ window'.address = window.address /\ window'.pin = window.pin
      BY <3>1 DEF Window
    <3>3. window # NoWindow /\ op' = op /\ abandoned' = abandoned
      BY <2>4 DEF Expire
    <3> QED BY <3>2, <3>3 DEF IInv, Frames, Owned, Opens
  <2> QED BY <2>1, <2>2, <2>3, <2>4 DEF Next, Untrust, Plug, Unplug, vars
<1> QED BY InitIInv, <1>1, PTL DEF Spec

(* However pairings overlap, expire, fail and are abandoned, the agent     *)
(* lets nobody in but a trusted speaker and the speaker of a pairing, and  *)
(* gives its PIN to that speaker only.                                     *)
THEOREM ConsentOnlyAlways == Spec => []ConsentOnly
<1>1. IInv => ConsentOnly
  <2> SUFFICES ASSUME IInv, NEW address \in Addresses, Active(address)
               PROVE  /\ window.pin \in Pins
                      /\ Called(address, {window.pin}) \/ <<address, window.pin>> \in abandoned
    BY DEF ConsentOnly, IsAuthorized, AuthorizedPin, Called
  <2>1. window \in Window /\ window.address = address
    BY DEF Active, IInv
  <2> QED BY <2>1 DEF IInv, Owned, Opens, Called, Window, Active
<1> QED BY Invariance, <1>1, PTL

-----------------------------------------------------------------------------
(* The table of adapters.                                                  *)

(* The table without one of its entries.                                   *)
LEMMA Removed ==
    ASSUME NEW S, NEW s \in Seq(S), IsInjective(s), NEW i \in DOMAIN s
    PROVE  /\ RemoveAt(s, i) \in Seq(S) /\ IsInjective(RemoveAt(s, i))
           /\ ToSet(RemoveAt(s, i)) = ToSet(s) \ {s[i]}
           /\ Len(RemoveAt(s, i)) = Len(s) - 1
<1> DEFINE n == Len(s)
           u == SubSeq(s, 1, i - 1)
           v == SubSeq(s, i + 1, n)
           t == RemoveAt(s, i)
<1>1. n \in Nat /\ i \in 1 .. n /\ DOMAIN s = 1 .. n
  BY LenProperties
<1>2. \A j \in 1 .. n : s[j] \in S
  BY <1>1, ElementOfSeq
<1>3. \A j \in 1 .. i - 1 : s[j] \in S
  BY <1>1, <1>2
<1>4. \A j \in i + 1 .. n : s[j] \in S
  BY <1>1, <1>2
<1>5. /\ u \in Seq(S) /\ Len(u) = i - 1 /\ \A j \in 1 .. i - 1 : u[j] = s[j]
  <2>1. 1 .. i - 1 \subseteq 1 .. n /\ i - 1 \in Int
    BY <1>1
  <2> QED BY <1>1, <1>3, <2>1, SubSeqProperties
<1>6. /\ v \in Seq(S) /\ Len(v) = n - i /\ \A j \in 1 .. n - i : v[j] = s[i + j]
  <2>1. IF i + 1 <= n + 1 THEN n - (i + 1) + 1 = n - i ELSE FALSE
    BY <1>1
  <2>2. \A j \in 1 .. n - i : (i + 1) + j - 1 = i + j
    BY <1>1
  <2>3. i + 1 \in Int /\ n \in Int
    BY <1>1
  <2> DEFINE first == i + 1
             size == n - i
  <2>4. IF first <= n + 1 THEN n - first + 1 = size ELSE FALSE
    BY <2>1
  <2>5. \A j \in 1 .. size : first + j - 1 = i + j
    BY <2>2
  <2>6. first \in Int /\ \A j \in first .. n : s[j] \in S
    BY <1>4, <2>3
  <2>7. v = SubSeq(s, first, n)
    OBVIOUS
  <2> HIDE DEF first, size, v
  <2>8. v \in Seq(S) /\ Len(v) = size /\ \A j \in 1 .. size : v[j] = s[first + j - 1]
    BY <2>3, <2>4, <2>6, <2>7, SubSeqProperties
  <2>9. \A j \in 1 .. size : v[j] = s[i + j]
    BY <2>5, <2>8
  <2> QED BY <2>8, <2>9 DEF size
<1>7. t = u \o v
  BY DEF RemoveAt
<1> HIDE DEF t, u, v
<1>a. /\ t \in Seq(S) /\ Len(t) = Len(u) + Len(v)
      /\ \A j \in 1 .. Len(u) + Len(v) : t[j] = IF j <= Len(u) THEN u[j] ELSE v[j - Len(u)]
  <2>1. u \in Seq(S) /\ v \in Seq(S)
    BY <1>5, <1>6
  <2> QED BY <2>1, <1>7, ConcatProperties
<1>b. Len(u) = i - 1 /\ Len(v) = n - i /\ Len(u) + Len(v) = n - 1
  BY <1>1, <1>5, <1>6
<1>8. t \in Seq(S) /\ Len(t) = n - 1
  BY <1>a, <1>b
<1>9. DOMAIN t = 1 .. n - 1
  BY <1>8, LenProperties
<1>10. \A j \in 1 .. n - 1 : t[j] = IF j < i THEN s[j] ELSE s[j + 1]
  <2> SUFFICES ASSUME NEW j \in 1 .. n - 1 PROVE t[j] = IF j < i THEN s[j] ELSE s[j + 1]
    OBVIOUS
  <2>1. t[j] = IF j <= Len(u) THEN u[j] ELSE v[j - Len(u)]
    BY <1>a, <1>b
  <2>2. CASE j < i
    <3>1. j <= Len(u) /\ j \in 1 .. i - 1
      BY <1>1, <1>b, <2>2
    <3>2. u[j] = s[j]
      BY <1>5, <3>1
    <3> QED BY <2>1, <2>2, <3>1, <3>2
  <2>3. CASE ~(j < i)
    <3> DEFINE k == j - (i - 1)
    <3>1. k \in 1 .. n - i /\ i + k = j + 1 /\ j > i - 1
      BY <1>1, <2>3
    <3>2. ~(j <= Len(u)) /\ j - Len(u) = k
      <4>1. Len(u) = i - 1 /\ i \in Int /\ j \in Int
        BY <1>1, <1>b
      <4> QED BY <3>1, <4>1
    <3>4. t[j] = v[j - Len(u)]
      BY <2>1, <3>2
    <3> HIDE DEF k
    <3>3. v[k] = s[i + k]
      BY <1>6, <3>1
    <3> QED BY <2>3, <3>1, <3>2, <3>3, <3>4
  <2> QED BY <2>2, <2>3
<1>11. \A j, k \in 1 .. n : s[j] = s[k] => j = k
  BY <1>1 DEF IsInjective
<1>12. IsInjective(t)
  <2> SUFFICES ASSUME NEW j \in 1 .. n - 1, NEW k \in 1 .. n - 1, t[j] = t[k] PROVE j = k
    BY <1>9 DEF IsInjective
  <2> DEFINE at(x) == IF x < i THEN x ELSE x + 1
  <2>1. at(j) \in 1 .. n /\ at(k) \in 1 .. n
    BY <1>1
  <2>2. s[at(j)] = s[at(k)]
    BY <1>10
  <2>3. at(j) = at(k) => j = k
    BY <1>1
  <2> HIDE DEF at
  <2> QED BY <1>11, <2>1, <2>2, <2>3
<1>13. ToSet(t) = ToSet(s) \ {s[i]}
  <2>1. ASSUME NEW j \in 1 .. n - 1 PROVE t[j] \in ToSet(s) /\ t[j] # s[i]
    <3> DEFINE k == IF j < i THEN j ELSE j + 1
    <3>1. k \in 1 .. n /\ k # i /\ t[j] = s[k]
      BY <1>1, <1>10
    <3> HIDE DEF k
    <3> QED BY <1>1, <1>11, <3>1 DEF ToSet
  <2>2. ASSUME NEW k \in 1 .. n, s[k] # s[i] PROVE s[k] \in ToSet(t)
    <3> DEFINE j == IF k < i THEN k ELSE k - 1
    <3>1. j \in 1 .. n - 1 /\ t[j] = s[k]
      BY <1>1, <1>10, <2>2
    <3> HIDE DEF j
    <3> QED BY <1>9, <3>1 DEF ToSet
  <2> QED BY <1>1, <1>9, <2>1, <2>2 DEF ToSet
<1> QED BY <1>8, <1>12, <1>13 DEF t

(* The initial table lists n adapters, each once.                          *)
LEMMA Listed ==
    ASSUME NEW n \in Adapters
    PROVE  /\ [a \in 1 .. n |-> a] \in Seq(Adapters) /\ IsInjective([a \in 1 .. n |-> a])
           /\ ToSet([a \in 1 .. n |-> a]) = 1 .. n
<1> DEFINE s == [a \in 1 .. n |-> a]
<1>1. MaxAdapters \in Nat /\ n \in Nat /\ 1 .. n \subseteq Adapters
  BY PairingAssumption DEF PairingAssumption, Adapters
<1>2. s \in [1 .. n -> Adapters]
  BY <1>1
<1>3. s \in Seq(Adapters)
  BY <1>1, <1>2
<1> QED BY <1>3 DEF IsInjective, ToSet

(* A table has no more entries than there are adapters.                    *)
LEMMA Bounded ==
    ASSUME NEW s \in Seq(Adapters), IsInjective(s)
    PROVE  Len(s) \in 0 .. MaxAdapters
<1> DEFINE n == Len(s)
<1>1. n \in Nat /\ DOMAIN s = 1 .. n /\ MaxAdapters \in Nat
  BY PairingAssumption, LenProperties DEF PairingAssumption
<1>2. IsFiniteSet(1 .. n) /\ Cardinality(1 .. n) = n
  <2>1. n \in Int /\ n - 1 + 1 = n /\ (1 > n => n = 0)
    BY <1>1
  <2> HIDE DEF n
  <2> QED BY <2>1, FS_Interval
<1>3. IsFiniteSet(Adapters) /\ Cardinality(Adapters) = MaxAdapters
  BY <1>1, FS_Interval DEF Adapters
<1>4. s \in [1 .. n -> Adapters]
  BY <1>1
<1>5. \A j, k \in 1 .. n : s[j] = s[k] => j = k
  BY <1>1 DEF IsInjective
<1>6. n <= MaxAdapters
  <2> SUFFICES ASSUME n > MaxAdapters PROVE FALSE
    BY <1>1
  <2>1. \E x, y \in 1 .. n : x # y /\ s[x] = s[y]
    BY <1>2, <1>3, <1>4, FS_PigeonHole
  <2> QED BY <1>5, <2>1
<1> QED BY <1>1, <1>6

-----------------------------------------------------------------------------
(* Types.                                                                  *)

LEMMA IdleType == Idle \in Op
BY PairingAssumption DEF PairingAssumption, Idle, Op

(* The loop over the adapters begins with the whole table.                 *)
LEMMA LoopType ==
    ASSUME adapters \in Seq(Adapters), IsInjective(adapters), NEW o \in Op,
           NEW pc \in {"opening", "closing"}
    PROVE  /\ Loop(o, pc) \in Op /\ Loop(o, pc).pc = pc /\ Loop(o, pc).left = adapters
           /\ Loop(o, pc).address = o.address /\ Loop(o, pc).pin = o.pin
<1>1. Len(adapters) \in 0 .. MaxAdapters
  BY Bounded
<1> QED BY <1>1 DEF Loop, Op

(* A pairing that is opening or running has its speaker and its PIN.       *)
Named ==
    \A c \in Callers :
      op[c].pc \in {"opening", "pairing"} => op[c].address \in Addresses /\ op[c].pin \in Pins

Typed == TypeOK /\ Named

(* One call moves, and the others stay.                                    *)
LEMMA CallMoves ==
    ASSUME TypeOK, Named, NEW c \in Callers, NEW o \in Op, op' = [op EXCEPT ![c] = o],
           o.pc \in {"opening", "pairing"} => o.address \in Addresses /\ o.pin \in Pins
    PROVE  op' \in [Callers -> Op] /\ Named'
<1>1. op \in [Callers -> Op]
  BY DEF TypeOK
<1>2. op' \in [Callers -> Op] /\ op'[c] = o /\ \A d \in Callers \ {c} : op'[d] = op[d]
  BY <1>1
<1> QED BY <1>2 DEF Named

(* Every step of a call.                                                   *)
LEMMA CallTypes ==
    ASSUME Typed, NEW c \in Callers,
           Open(c) \/ SetPairable(c) \/ LoopRaises(c) \/ Opened(c) \/ Paired(c) \/ Closed(c)
    PROVE  Typed'
<1>a. TypeOK /\ Named
  BY DEF Typed
<1>b. op[c] \in Op
  BY <1>a DEF TypeOK
<1>c. adapters \in Seq(Adapters) /\ IsInjective(adapters)
  BY <1>a DEF TypeOK
<1>1. CASE Open(c)
  <2>1. PICK address \in Addresses, pin \in Pins :
          /\ window' = [address |-> address, pin |-> pin, live |-> TRUE]
          /\ op' = [op EXCEPT ![c] = Loop([Idle EXCEPT !.address = address, !.pin = pin], "opening")]
    BY <1>1 DEF Open
  <2> DEFINE o == [Idle EXCEPT !.address = address, !.pin = pin]
  <2>2. o \in Op /\ o.address = address /\ o.pin = pin
    BY IdleType DEF Op
  <2> HIDE DEF o
  <2> DEFINE u == Loop(o, "opening")
  <2>3. u \in Op /\ u.address = address /\ u.pin = pin
    BY <1>c, <2>2, LoopType
  <2>4. op' = [op EXCEPT ![c] = u]
    BY <2>1 DEF o
  <2> HIDE DEF u
  <2>5. op' \in [Callers -> Op] /\ Named'
    BY <1>a, <2>3, <2>4, CallMoves
  <2>6. window' \in Window
    BY <2>1 DEF Window
  <2> QED BY <1>1, <1>a, <2>5, <2>6 DEF Open, Typed, TypeOK
<1>2. CASE SetPairable(c)
  <2>1. op[c].left \in Seq(Adapters) /\ op[c].left # <<>>
    BY <1>2, <1>b DEF SetPairable, Writing, Op
  <2> DEFINE left == Tail(op[c].left)
             o == [op[c] EXCEPT !.left = left]
  <2>2. Head(op[c].left) \in Adapters /\ left \in Seq(Adapters)
    BY <2>1
  <2>3. op' = [op EXCEPT ![c] = o]
    BY <1>2 DEF SetPairable
  <2> HIDE DEF left
  <2> DEFINE was == op[c]
  <2>c. was \in Op
    BY <1>b
  <2>d. o = [was EXCEPT !.left = left]
    OBVIOUS
  <2> HIDE DEF was, o
  <2>e. o \in Op /\ o.pc = was.pc /\ o.address = was.address /\ o.pin = was.pin
    BY <2>2, <2>c, <2>d DEF Op
  <2>4. o \in Op /\ o.pc = op[c].pc /\ o.address = op[c].address /\ o.pin = op[c].pin
    BY <2>e DEF was
  <2> HIDE DEF o
  <2>5. op' \in [Callers -> Op] /\ Named'
    BY <1>a, <2>3, <2>4, CallMoves DEF Named
  <2>6. pairable' \in [Adapters -> BOOLEAN]
    <3>1. (op[c].pc = "opening") \in BOOLEAN /\ pairable \in [Adapters -> BOOLEAN]
      BY <1>a DEF TypeOK
    <3> QED BY <1>2, <2>2, <3>1 DEF SetPairable
  <2>7. stuck' \in SUBSET Adapters
    BY <1>2, <1>a, <2>2 DEF SetPairable, TypeOK
  <2> QED BY <1>2, <1>a, <2>5, <2>6, <2>7 DEF SetPairable, Typed, TypeOK
<1>3. CASE LoopRaises(c)
  <2>1. ToSet(op[c].left) \subseteq Adapters
    <3>1. op[c].left \in Seq(Adapters)
      BY <1>b DEF Op
    <3> QED BY <3>1 DEF ToSet
  <2>2. op' \in [Callers -> Op] /\ Named'
    <3>1. op' = [op EXCEPT ![c] = Idle] /\ Idle.pc = "idle"
      BY <1>3 DEF LoopRaises, Idle
    <3> QED BY <1>a, <3>1, IdleType, CallMoves
  <2>3. stuck' \in SUBSET Adapters
    BY <1>3, <1>a, <2>1 DEF LoopRaises, TypeOK
  <2>4. abandoned' \in SUBSET (Addresses \X Pins)
    <3>1. op[c].pc = "opening" => <<op[c].address, op[c].pin>> \in Addresses \X Pins
      BY <1>a DEF Named
    <3> QED BY <1>3, <1>a, <3>1 DEF LoopRaises, TypeOK
  <2> QED BY <1>3, <1>a, <2>2, <2>3, <2>4 DEF LoopRaises, Typed, TypeOK
<1>4. CASE Opened(c)
  <2> DEFINE o == [op[c] EXCEPT !.pc = "pairing"]
  <2>1. op' = [op EXCEPT ![c] = o] /\ op[c].pc = "opening"
    BY <1>4 DEF Opened
  <2>2. o \in Op /\ o.address = op[c].address /\ o.pin = op[c].pin
    BY <1>b DEF Op
  <2> HIDE DEF o
  <2>3. op' \in [Callers -> Op] /\ Named'
    BY <1>a, <2>1, <2>2, CallMoves DEF Named
  <2> QED BY <1>4, <1>a, <2>3 DEF Opened, Typed, TypeOK
<1>5. CASE Paired(c)
  <2> DEFINE o == Loop(op[c], "closing")
  <2>1. o \in Op /\ o.pc = "closing"
    BY <1>b, <1>c, LoopType
  <2>2. op' = [op EXCEPT ![c] = o] /\ window' = NoWindow
    BY <1>5 DEF Paired, Close
  <2> HIDE DEF o
  <2>3. op' \in [Callers -> Op] /\ Named'
    BY <1>a, <2>1, <2>2, CallMoves
  <2>4. trusted' \in SUBSET Addresses
    BY <1>5, <1>a DEF Paired, Named, TypeOK
  <2> QED BY <1>5, <1>a, <2>2, <2>3, <2>4 DEF Paired, Typed, TypeOK
<1>6. CASE Closed(c)
  <2>1. op' = [op EXCEPT ![c] = Idle] /\ Idle.pc = "idle"
    BY <1>6 DEF Closed, Idle
  <2>2. op' \in [Callers -> Op] /\ Named'
    BY <1>a, <2>1, IdleType, CallMoves
  <2> QED BY <1>6, <1>a, <2>2 DEF Closed, Typed, TypeOK
<1> QED BY <1>1, <1>2, <1>3, <1>4, <1>5, <1>6

(* An adapter that is plugged in, or out.                                  *)
LEMMA TableTypes ==
    ASSUME Typed, NEW a \in Adapters, Plug(a) \/ Unplug(a)
    PROVE  Typed'
<1>a. adapters \in Seq(Adapters) /\ IsInjective(adapters)
  BY DEF Typed, TypeOK
<1>b. plugs' \in 0 .. MaxPlugs
  <2>1. plugs \in 0 .. MaxPlugs /\ MaxPlugs \in Nat /\ plugs < MaxPlugs /\ plugs' = plugs + 1
    BY PairingAssumption DEF PairingAssumption, Typed, TypeOK, Plug, Unplug
  <2> QED BY <2>1
<1>1. CASE Plug(a)
  <2>1. adapters' = Append(adapters, a) /\ a \notin ToSet(adapters)
    BY <1>1 DEF Plug
  <2>2. adapters' \in Seq(Adapters) /\ Len(adapters') = Len(adapters) + 1
    BY <1>a, <2>1, AppendProperties
  <2>3. DOMAIN adapters = 1 .. Len(adapters) /\ DOMAIN adapters' = 1 .. Len(adapters) + 1
        /\ Len(adapters) \in Nat
    BY <1>a, <2>2, LenProperties
  <2>4. /\ \A i \in 1 .. Len(adapters) : adapters'[i] = adapters[i]
        /\ adapters'[Len(adapters) + 1] = a
    BY <1>a, <2>1, AppendProperties
  <2>5. IsInjective(adapters')
    <3>1. \A i \in 1 .. Len(adapters) : adapters[i] # a
      BY <2>1, <2>3 DEF ToSet
    <3> QED BY <1>a, <2>3, <2>4, <3>1 DEF IsInjective
  <2>6. ToSet(adapters') \subseteq ToSet(adapters) \cup {a}
    BY <2>3, <2>4 DEF ToSet
  <2> QED BY <1>1, <1>b, <2>2, <2>5, <2>6 DEF Plug, Typed, TypeOK, Named
<1>2. CASE Unplug(a)
  <2>1. PICK i \in DOMAIN adapters : adapters[i] = a /\ adapters' = RemoveAt(adapters, i)
    BY <1>2 DEF Unplug
  <2>2. adapters' \in Seq(Adapters) /\ IsInjective(adapters') /\ ToSet(adapters') \subseteq ToSet(adapters)
    BY <1>a, <2>1, Removed
  <2> QED BY <1>2, <1>b, <2>2 DEF Unplug, Typed, TypeOK, Named
<1> QED BY <1>1, <1>2

(* The initial states: initialize is closing.                              *)
LEMMA InitTypes == Init => Typed
<1> SUFFICES ASSUME Init PROVE Typed
  OBVIOUS
<1>1. PICK n \in Adapters : adapters = [a \in 1 .. n |-> a]
  BY DEF Init
<1>2. adapters \in Seq(Adapters) /\ IsInjective(adapters)
  BY <1>1, Listed
<1>3. PICK boot \in Callers : op = [c \in Callers |-> IF c = boot THEN Loop(Idle, "closing") ELSE Idle]
  BY DEF Init
<1> DEFINE o == Loop(Idle, "closing")
<1>4. o \in Op /\ o.pc = "closing" /\ Idle \in Op /\ Idle.pc = "idle"
  <2>1. Idle.pc = "idle"
    BY DEF Idle
  <2> QED BY <1>2, <2>1, IdleType, LoopType
<1>5. op = [c \in Callers |-> IF c = boot THEN o ELSE Idle]
  BY <1>3
<1> HIDE DEF o
<1>6. op \in [Callers -> Op] /\ Named
  BY <1>4, <1>5 DEF Named
<1>7. plugs \in 0 .. MaxPlugs
  BY PairingAssumption DEF PairingAssumption, Init
<1> QED BY <1>2, <1>6, <1>7 DEF Init, Typed, TypeOK

(* Every step.                                                             *)
LEMMA StepTypes == ASSUME Typed, [Next]_vars PROVE Typed'
<1>1. CASE \E c \in Callers :
             Open(c) \/ SetPairable(c) \/ LoopRaises(c) \/ Opened(c) \/ Paired(c) \/ Closed(c)
  BY <1>1, CallTypes
<1>2. CASE Consulted
  BY <1>2 DEF Consulted, Typed, TypeOK, Named
<1>3. CASE Expire
  <2>1. window \in Window /\ window' = [window EXCEPT !.live = FALSE]
    BY <1>3 DEF Expire, Typed, TypeOK
  <2>2. window' \in Window
    BY <2>1 DEF Window
  <2> QED BY <1>3, <2>2 DEF Expire, Typed, TypeOK, Named
<1>4. CASE \E address \in Addresses : Untrust(address)
  BY <1>4 DEF Untrust, Typed, TypeOK, Named
<1>5. CASE \E a \in Adapters : Plug(a) \/ Unplug(a)
  BY <1>5, TableTypes
<1>6. CASE UNCHANGED vars
  BY <1>6 DEF vars, Typed, TypeOK, Named
<1> QED BY <1>1, <1>2, <1>3, <1>4, <1>5, <1>6 DEF Next

(* Types, and the speaker and the PIN of each pairing.                     *)
LEMMA AlwaysTyped == Spec => []Typed
<1>1. Typed /\ [Next]_vars => Typed'
  BY StepTypes
<1> QED BY InitTypes, <1>1, PTL DEF Spec

(* Every variable stays in its range, and the table of adapters lists none *)
(* of them twice.                                                          *)
THEOREM TypeCorrect == Spec => []TypeOK
<1>1. Typed => TypeOK
  BY DEF Typed
<1> QED BY AlwaysTyped, <1>1, PTL

-----------------------------------------------------------------------------
(* A quiet bridge.                                                         *)

(* An adapter that accepts pairings has a call that needs it, or that is   *)
(* about to write it.                                                      *)
Covering(c, a) ==
    op[c].pc \in {"opening", "pairing"} \/ (op[c].pc = "closing" /\ a \in ToSet(op[c].left))

Covered ==
    abandoned = {} =>
      \A a \in ToSet(adapters) : pairable[a] /\ a \notin stuck => \E c \in Callers : Covering(c, a)

(* The first adapter that is left, and the others.                         *)
LEMMA Lefts ==
    ASSUME NEW s \in Seq(Adapters), s # <<>>
    PROVE  ToSet(s) \subseteq {Head(s)} \cup ToSet(Tail(s))
<1>1. /\ DOMAIN s = 1 .. Len(s) /\ Len(s) \in Nat /\ Len(s) >= 1 /\ Head(s) = s[1]
      /\ DOMAIN Tail(s) = 1 .. Len(s) - 1
      /\ \A i \in 1 .. Len(s) - 1 : Tail(s)[i] = s[i + 1]
  BY HeadTailProperties, LenProperties, EmptySeq
<1>2. SUFFICES ASSUME NEW i \in 1 .. Len(s), i # 1 PROVE s[i] \in ToSet(Tail(s))
  BY <1>1 DEF ToSet
<1>3. i - 1 \in 1 .. Len(s) - 1 /\ s[i] = Tail(s)[i - 1]
  BY <1>1, <1>2
<1> QED BY <1>1, <1>3 DEF ToSet

(* A call that is idle, or that begins a loop.                             *)
LEMMA LoopCovers ==
    ASSUME Typed, NEW c \in Callers, NEW o \in Op, NEW pc \in {"opening", "closing"},
           op' = [op EXCEPT ![c] = Loop(o, pc)], adapters' = adapters
    PROVE  Covered'
<1>1. op'[c] = Loop(o, pc)
  BY DEF Typed, TypeOK
<1>2. op'[c].pc = pc /\ op'[c].left = adapters
  BY <1>1, LoopType DEF Typed, TypeOK
<1> QED BY <1>2 DEF Covered, Covering

(* Every step of a call.                                                   *)
LEMMA CallCovers ==
    ASSUME Typed, Covered, NEW c \in Callers,
           Open(c) \/ SetPairable(c) \/ LoopRaises(c) \/ Opened(c) \/ Paired(c) \/ Closed(c)
    PROVE  Covered'
<1>a. op \in [Callers -> Op]
  BY DEF Typed, TypeOK
<1>b. op[c] \in Op
  BY <1>a
<1>1. CASE Open(c)
  <2>1. PICK address \in Addresses, pin \in Pins :
          op' = [op EXCEPT ![c] = Loop([Idle EXCEPT !.address = address, !.pin = pin], "opening")]
    BY <1>1 DEF Open
  <2>2. [Idle EXCEPT !.address = address, !.pin = pin] \in Op /\ adapters' = adapters
    BY <1>1, IdleType DEF Op, Open
  <2> QED BY <2>1, <2>2, LoopCovers
<1>2. CASE SetPairable(c)
  <2> DEFINE first == Head(op[c].left)
             left == Tail(op[c].left)
             o == [op[c] EXCEPT !.left = left]
  <2>1. op[c].left \in Seq(Adapters) /\ op[c].left # <<>> /\ op[c].pc \in {"opening", "closing"}
    BY <1>2, <1>b DEF SetPairable, Writing, Op
  <2>2. op' = [op EXCEPT ![c] = o] /\ adapters' = adapters /\ abandoned' = abandoned
    BY <1>2 DEF SetPairable
  <2>3. o.pc = op[c].pc /\ o.left = left
    BY <1>b DEF Op
  <2>4. ToSet(op[c].left) \subseteq {first} \cup ToSet(left) /\ first \in Adapters
    BY <2>1, Lefts
  <2>5. op'[c] = o /\ \A d \in Callers \ {c} : op'[d] = op[d]
    BY <1>a, <2>2
  <2>6. CASE op[c].pc = "opening"
    BY <2>3, <2>5, <2>6 DEF Covered, Covering
  <2>7. CASE op[c].pc = "closing"
    <3>1. \A a \in Adapters \ {first} : pairable'[a] = pairable[a] /\ (a \in stuck <=> a \in stuck')
      BY <1>2, <2>7 DEF SetPairable, Typed, TypeOK
    <3>2. pairable'[first] => first \in stuck'
      <4>1. pairable \in [Adapters -> BOOLEAN]
        BY DEF Typed, TypeOK
      <4>2. PICK done \in BOOLEAN :
              /\ pairable' = IF done THEN [pairable EXCEPT ![first] = FALSE] ELSE pairable
              /\ stuck' = IF done THEN stuck \ {first} ELSE stuck \cup {first}
        BY <1>2, <2>7 DEF SetPairable
      <4> QED BY <2>4, <4>1, <4>2
    <3>3. \A d \in Callers, a \in Adapters \ {first} : Covering(d, a) => Covering(d, a)'
      <4> HIDE DEF first, left, o
      <4> QED BY <2>3, <2>4, <2>5, <2>7 DEF Covering
    <3>4. ToSet(adapters) \subseteq Adapters
      BY DEF Typed, TypeOK, ToSet
    <3> HIDE DEF first, left, o
    <3> QED BY <2>2, <3>1, <3>2, <3>3, <3>4 DEF Covered
  <2> QED BY <2>1, <2>6, <2>7
<1>3. CASE LoopRaises(c)
  <2>1. /\ op' = [op EXCEPT ![c] = Idle] /\ adapters' = adapters /\ pairable' = pairable
        /\ op[c].pc \in {"opening", "closing"}
    BY <1>3 DEF LoopRaises
  <2>2. \A d \in Callers \ {c} : op'[d] = op[d]
    BY <1>a, <2>1
  <2>3. CASE op[c].pc = "opening"
    BY <1>3, <2>3 DEF LoopRaises, Covered
  <2>4. CASE op[c].pc = "closing"
    BY <1>3, <2>1, <2>2, <2>4 DEF LoopRaises, Covered, Covering
  <2> QED BY <2>1, <2>3, <2>4
<1>4. CASE Opened(c)
  <2>1. op'[c].pc = "pairing"
    BY <1>4, <1>a, <1>b DEF Opened, Op
  <2> QED BY <2>1 DEF Covered, Covering
<1>5. CASE Paired(c)
  BY <1>5, <1>b, LoopCovers DEF Paired, Close
<1>6. CASE Closed(c)
  <2>1. /\ op' = [op EXCEPT ![c] = Idle] /\ op[c].pc = "closing" /\ op[c].left = <<>>
        /\ UNCHANGED <<adapters, pairable, stuck, abandoned>>
    BY <1>6 DEF Closed
  <2>2. \A a : ~Covering(c, a)
    BY <2>1 DEF Covering, ToSet
  <2>3. \A d \in Callers, a \in Adapters : Covering(d, a) => Covering(d, a)'
    BY <1>a, <2>1, <2>2 DEF Covering
  <2>4. ToSet(adapters) \subseteq Adapters
    BY DEF Typed, TypeOK, ToSet
  <2> QED BY <2>1, <2>3, <2>4 DEF Covered
<1> QED BY <1>1, <1>2, <1>3, <1>4, <1>5, <1>6

(* Every step.                                                             *)
LEMMA StepCovers == ASSUME Typed, Covered, [Next]_vars PROVE Covered'
<1>1. CASE \E c \in Callers :
             Open(c) \/ SetPairable(c) \/ LoopRaises(c) \/ Opened(c) \/ Paired(c) \/ Closed(c)
  BY <1>1, CallCovers
<1>2. CASE UNCHANGED <<adapters, pairable, op, stuck, abandoned>>
  BY <1>2 DEF Covered, Covering
<1>3. ASSUME NEW a \in Adapters, Plug(a) PROVE Covered'
  <2>1. ToSet(adapters') \subseteq ToSet(adapters) \cup {a}
    <3>1. adapters \in Seq(Adapters) /\ adapters' = Append(adapters, a)
      BY <1>3 DEF Typed, TypeOK, Plug
    <3> QED BY <3>1, AppendProperties, LenProperties DEF ToSet
  <2> QED BY <1>3, <2>1 DEF Plug, Covered, Covering
<1>4. ASSUME NEW a \in Adapters, Unplug(a) PROVE Covered'
  <2>1. ToSet(adapters') \subseteq ToSet(adapters)
    <3>1. adapters \in Seq(Adapters) /\ IsInjective(adapters)
      BY DEF Typed, TypeOK
    <3> QED BY <1>4, <3>1, Removed DEF Unplug
  <2> QED BY <1>4, <2>1 DEF Unplug, Covered, Covering
<1> QED BY <1>1, <1>2, <1>3, <1>4 DEF Next, Consulted, Expire, Untrust, vars

(* Whichever of several overlapping pairings ends last, with none running  *)
(* no adapter of the table accepts a pairing, but one that was plugged in, *)
(* that refused the write, or that an abandoned opening left open.         *)
THEOREM QuietIsNotPairableAlways == Spec => []QuietIsNotPairable
<1>1. Init => Covered
  <2> SUFFICES ASSUME Init PROVE Covered
    OBVIOUS
  <2>1. PICK boot \in Callers : op = [c \in Callers |-> IF c = boot THEN Loop(Idle, "closing") ELSE Idle]
    BY DEF Init
  <2>2. Typed
    BY InitTypes
  <2>3. op[boot].pc = "closing" /\ op[boot].left = adapters
    BY <2>1, <2>2, IdleType, LoopType DEF Typed, TypeOK
  <2> QED BY <2>3 DEF Covered, Covering
<1>2. Typed /\ Covered /\ [Next]_vars => Covered'
  BY StepCovers
<1>3. Covered => QuietIsNotPairable
  BY DEF Covered, Covering, QuietIsNotPairable, Quiet
<1> QED BY AlwaysTyped, <1>1, <1>2, <1>3, PTL DEF Spec
=============================================================================
