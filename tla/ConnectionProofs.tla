-------------------------- MODULE ConnectionProofs --------------------------
(***************************************************************************)
(* Theorems about Connection, for any finite set of callers, any overlaps  *)
(* and any number of adapters, but where a theorem says otherwise.         *)
(*                                                                         *)
(* A step of a task is described by Moves, one of BlueZ by Hears: the book *)
(* the cache becomes and what of it the invariants need.  The actions are  *)
(* shown to be such steps once, and each invariant is proved of these two. *)
(***************************************************************************)
EXTENDS Connection, SequenceTheorems, FiniteSetTheorems, WellFoundedInduction, TLAPS

-----------------------------------------------------------------------------
(* Lists.                                                                  *)

(* An injection between intervals does not shrink them.                    *)
LEMMA Fits ==
    ASSUME NEW m \in Nat, NEW S, IsFiniteSet(S), NEW f \in [1 .. m -> S],
           \A i, j \in 1 .. m : f[i] = f[j] => i = j
    PROVE  m <= Cardinality(S) /\ (m = Cardinality(S) => \A x \in S : \E i \in 1 .. m : f[i] = x)
<1>1. IsFiniteSet(1 .. m) /\ Cardinality(1 .. m) = m
  BY FS_Interval
<1>2. f \in Injection(1 .. m, S)
  BY DEF Injection, IsInjective
<1>3. m <= Cardinality(S) /\ (m = Cardinality(S) <=> f \in Surjection(1 .. m, S))
  BY <1>1, <1>2, FS_Injection
<1> QED BY <1>3 DEF Surjection

(* The members of S in ascending order are all there, once.                *)
LEMMA Ascends ==
    ASSUME NEW N \in Nat, NEW S \in SUBSET (1 .. N)
    PROVE  /\ IsFiniteSet(S) /\ Cardinality(S) \in Nat
           /\ Ascending(S) \in [1 .. Cardinality(S) -> S]
           /\ \A i, j \in 1 .. Cardinality(S) : i < j => Ascending(S)[i] < Ascending(S)[j]
           /\ \A x \in S : \E i \in 1 .. Cardinality(S) : Ascending(S)[i] = x
           /\ \A i, j \in 1 .. Cardinality(S) : Ascending(S)[i] = Ascending(S)[j] => i = j
<1> DEFINE n == Cardinality(S)
           upto(x) == {y \in S : y <= x}
           rank == [x \in S |-> Cardinality(upto(x))]
<1>1. IsFiniteSet(S) /\ n \in Nat
  <2>1. IsFiniteSet(1 .. N)
    BY FS_Interval
  <2> QED BY <2>1, FS_Subset, FS_CardinalityType
<1>2. \A x \in S : IsFiniteSet(upto(x)) /\ rank[x] \in 1 .. n
  <2> SUFFICES ASSUME NEW x \in S PROVE IsFiniteSet(upto(x)) /\ rank[x] \in 1 .. n
    OBVIOUS
  <2>1. upto(x) \in SUBSET S /\ x \in upto(x)
    OBVIOUS
  <2>2. IsFiniteSet(upto(x)) /\ Cardinality(upto(x)) <= n
    BY <1>1, <2>1, FS_Subset
  <2>3. Cardinality(upto(x)) \in Nat /\ Cardinality(upto(x)) # 0
    BY <2>1, <2>2, FS_CardinalityType, FS_EmptySet
  <2> QED BY <1>1, <2>2, <2>3
<1>3. \A x, y \in S : x < y => rank[x] < rank[y]
  <2> SUFFICES ASSUME NEW x \in S, NEW y \in S, x < y PROVE rank[x] < rank[y]
    OBVIOUS
  <2>0. x \in 1 .. N /\ y \in 1 .. N /\ \A z \in S : z \in 1 .. N
    OBVIOUS
  <2>1. upto(x) \in SUBSET upto(y) /\ y \in upto(y) /\ y \notin upto(x)
    <3>1. ~(y <= x) /\ y <= y /\ \A z \in S : z <= x => z <= y
      BY <2>0
    <3> QED BY <3>1
  <2>2. Cardinality(upto(x)) <= Cardinality(upto(y)) /\ Cardinality(upto(x)) # Cardinality(upto(y))
    BY <1>2, <2>1, FS_Subset
  <2>3. rank[x] \in Nat /\ rank[y] \in Nat
    BY <1>2
  <2> HIDE DEF upto
  <2> QED BY <2>2, <2>3
<1>4. \A k \in 1 .. n : \E x \in S : rank[x] = k
  <2>1. rank \in [S -> 1 .. n]
    BY <1>2
  <2>2. \A x, y \in S : rank[x] = rank[y] => x = y
    <3> SUFFICES ASSUME NEW x \in S, NEW y \in S, x # y PROVE rank[x] # rank[y]
      OBVIOUS
    <3>1. x < y \/ y < x
      OBVIOUS
    <3>2. rank[x] \in Nat /\ rank[y] \in Nat
      BY <1>2
    <3> HIDE DEF rank
    <3> QED BY <1>3, <3>1, <3>2
  <2> HIDE DEF rank
  <2>3. rank \in Injection(S, 1 .. n)
    BY <2>1, <2>2 DEF Injection, IsInjective
  <2>4. IsFiniteSet(1 .. n) /\ Cardinality(1 .. n) = n
    BY <1>1, FS_Interval
  <2>5. rank \in Surjection(S, 1 .. n)
    BY <2>3, <2>4, FS_Injection
  <2> QED BY <2>5 DEF Surjection
<1> HIDE DEF rank
<1>5. \E f \in [1 .. n -> S] : \A i, j \in 1 .. n : i < j => f[i] < f[j]
  <2> DEFINE f == [k \in 1 .. n |-> CHOOSE x \in S : rank[x] = k]
  <2>1. \A k \in 1 .. n : f[k] \in S /\ rank[f[k]] = k
    BY <1>4
  <2>2. f \in [1 .. n -> S]
    BY <2>1
  <2> HIDE DEF f
  <2>3. ASSUME NEW i \in 1 .. n, NEW j \in 1 .. n, i < j PROVE f[i] < f[j]
    <3>1. f[i] \in 1 .. N /\ f[j] \in 1 .. N
      BY <2>1
    <3>2. f[i] < f[j] \/ f[i] = f[j] \/ f[j] < f[i]
      BY <3>1
    <3>3. rank[f[i]] < rank[f[j]]
      BY <2>1, <2>3
    <3>4. rank[f[i]] \in Nat /\ rank[f[j]] \in Nat
      BY <1>2, <2>1
    <3>5. f[j] < f[i] => rank[f[j]] < rank[f[i]]
      BY <1>3, <2>1
    <3>6. f[i] # f[j] /\ ~(f[j] < f[i])
      BY <3>3, <3>4, <3>5
    <3> QED BY <3>2, <3>6
  <2> QED BY <2>2, <2>3
<1> DEFINE f == Ascending(S)
<1>6. f \in [1 .. n -> S] /\ \A i, j \in 1 .. n : i < j => f[i] < f[j]
  BY <1>5 DEF Ascending
<1> HIDE DEF f
<1>7. \A i, j \in 1 .. n : f[i] = f[j] => i = j
  <2> SUFFICES ASSUME NEW i \in 1 .. n, NEW j \in 1 .. n, i # j PROVE f[i] # f[j]
    OBVIOUS
  <2>1. i < j \/ j < i
    BY <1>1
  <2>2. f[i] \in 1 .. N /\ f[j] \in 1 .. N
    BY <1>6
  <2> QED BY <1>6, <2>1, <2>2
<1>8. \A x \in S : \E i \in 1 .. n : f[i] = x
  BY <1>1, <1>6, <1>7, Fits
<1> QED BY <1>1, <1>6, <1>7, <1>8 DEF f

(* A list without repetitions, and without the members of R.               *)
LEMMA WithoutIs ==
    ASSUME NEW T, NEW s \in Seq(T), IsInjective(s), NEW R
    PROVE  /\ Without(s, R) \in Seq(T) /\ IsInjective(Without(s, R))
           /\ ToSet(Without(s, R)) = ToSet(s) \ R
<1> DEFINE N == Len(s)
           S == {i \in DOMAIN s : s[i] \notin R}
           g == Ascending(S)
           n == Cardinality(S)
           t == Without(s, R)
<1>1. N \in Nat /\ DOMAIN s = 1 .. N /\ \A i \in 1 .. N : s[i] \in T
  BY LenProperties, ElementOfSeq
<1>2. S \in SUBSET (1 .. N)
  BY <1>1
<1> HIDE DEF N
<1>3. /\ n \in Nat /\ g \in [1 .. n -> S]
      /\ \A i, j \in 1 .. n : g[i] = g[j] => i = j
      /\ \A x \in S : \E i \in 1 .. n : g[i] = x
  <2> HIDE DEF S
  <2> QED BY <1>1, <1>2, Ascends
<1>4. t = [i \in DOMAIN g |-> s[g[i]]]
  BY DEF Without
<1> HIDE DEF g, n, t
<1>5. DOMAIN g = 1 .. n /\ \A i \in 1 .. n : g[i] \in 1 .. N /\ s[g[i]] \notin R
  BY <1>1, <1>3
<1>6. t = [i \in 1 .. n |-> s[g[i]]]
  BY <1>4, <1>5
<1>7. t \in Seq(T) /\ Len(t) = n /\ DOMAIN t = 1 .. n
  BY <1>1, <1>3, <1>5, <1>6
<1>8. \A i, j \in 1 .. N : s[i] = s[j] => i = j
  BY <1>1 DEF IsInjective
<1>9. IsInjective(t)
  BY <1>3, <1>5, <1>6, <1>7, <1>8 DEF IsInjective
<1>10. ToSet(t) = ToSet(s) \ R
  <2>1. ASSUME NEW c, c \in ToSet(t) PROVE c \in ToSet(s) \ R
    BY <1>1, <1>5, <1>6, <1>7, <2>1 DEF ToSet
  <2>2. ASSUME NEW i \in 1 .. N, s[i] \notin R PROVE s[i] \in ToSet(t)
    BY <1>1, <1>3, <1>6, <1>7, <2>2 DEF ToSet
  <2> QED BY <1>1, <2>1, <2>2 DEF ToSet
<1> QED BY <1>7, <1>9, <1>10 DEF t

(* What Append does to a list without repetitions.                         *)
LEMMA Appended ==
    ASSUME NEW T, NEW s \in Seq(T), NEW x \in T, IsInjective(s), x \notin ToSet(s)
    PROVE  /\ Append(s, x) \in Seq(T) /\ IsInjective(Append(s, x))
           /\ ToSet(Append(s, x)) = ToSet(s) \cup {x}
<1> DEFINE t == Append(s, x)
<1>1. /\ t \in Seq(T) /\ Len(t) = Len(s) + 1 /\ \A i \in 1 .. Len(s) : t[i] = s[i]
      /\ t[Len(s) + 1] = x
  BY AppendProperties
<1> HIDE DEF t
<1>2. Len(s) \in Nat /\ DOMAIN s = 1 .. Len(s) /\ DOMAIN t = 1 .. Len(s) + 1
  BY <1>1, LenProperties
<1>3. ToSet(t) = ToSet(s) \cup {x}
  BY <1>1, <1>2 DEF ToSet
<1>4. IsInjective(t)
  BY <1>1, <1>2 DEF IsInjective, ToSet
<1> QED BY <1>1, <1>3, <1>4 DEF t

(* What Tail does to one.                                                  *)
LEMMA Tailed ==
    ASSUME NEW T, NEW s \in Seq(T), IsInjective(s), s # <<>>
    PROVE  /\ Tail(s) \in Seq(T) /\ IsInjective(Tail(s))
           /\ ToSet(Tail(s)) = ToSet(s) \ {Head(s)} /\ Head(s) \in ToSet(s)
<1> DEFINE t == Tail(s)
           n == Len(s)
<1>1. n \in Nat /\ DOMAIN s = 1 .. n /\ n # 0
  BY LenProperties
<1>2. t \in Seq(T) /\ Len(t) = n - 1 /\ Head(s) = s[1] /\ \A i \in 1 .. n - 1 : t[i] = s[i + 1]
  BY <1>1, HeadTailProperties
<1> HIDE DEF t, n
<1>3. DOMAIN t = 1 .. n - 1
  BY <1>2, LenProperties
<1>4. \A i, j \in 1 .. n : s[i] = s[j] => i = j
  BY <1>1 DEF IsInjective
<1>5. \A i \in 1 .. n - 1 : i + 1 \in 1 .. n /\ i + 1 # 1
  BY <1>1
<1>6. IsInjective(t)
  BY <1>2, <1>3, <1>4, <1>5 DEF IsInjective
<1>7. ToSet(t) = ToSet(s) \ {Head(s)}
  <2>1. \A i \in 1 .. n - 1 : t[i] \in ToSet(s) /\ t[i] # Head(s)
    <3> SUFFICES ASSUME NEW i \in 1 .. n - 1 PROVE t[i] \in ToSet(s) /\ t[i] # Head(s)
      OBVIOUS
    <3>1. t[i] = s[i + 1] /\ i + 1 \in 1 .. n /\ i + 1 # 1 /\ 1 \in 1 .. n
      BY <1>1, <1>2, <1>5
    <3> QED BY <1>1, <1>2, <1>4, <3>1 DEF ToSet
  <2>2. ASSUME NEW i \in 1 .. n, s[i] # Head(s) PROVE s[i] \in ToSet(t)
    <3>1. i - 1 \in 1 .. n - 1 /\ (i - 1) + 1 = i
      BY <1>1, <1>2, <2>2
    <3>2. t[i - 1] = s[i]
      BY <1>2, <3>1
    <3> QED BY <1>3, <3>1, <3>2 DEF ToSet
  <2> QED BY <1>1, <1>3, <2>1, <2>2 DEF ToSet
<1>8. Head(s) \in ToSet(s)
  BY <1>1, <1>2 DEF ToSet
<1> QED BY <1>2, <1>6, <1>7, <1>8 DEF t

(* A set of numbers has a least one.                                       *)
LEMMA Least ==
    ASSUME NEW T \in SUBSET Nat, T # {}
    PROVE  Min(T) \in T
<1> DEFINE R == OpToRel(<, Nat)
<1>1. IsWellFoundedOn(R, Nat)
  BY NatLessThanWellFounded
<1>2. \A x, y \in Nat : <<x, y>> \in R <=> x < y
  BY DEF OpToRel
<1> HIDE DEF R
<1>3. PICK x \in T : \A y \in T : ~ (<<y, x>> \in R)
  BY <1>1, WFMin
<1>4. \A y \in T : ~(y < x)
  BY <1>2, <1>3
<1>5. \A y \in T : x =< y
  BY <1>4
<1> QED BY <1>3, <1>5 DEF Min

-----------------------------------------------------------------------------
(* Books.                                                                  *)

(* The records are devices, and no path has two in the table.              *)
Book(b) ==
    /\ b \in [rec : [Records -> Device], table : Seq(Records)]
    /\ IsInjective([i \in DOMAIN b.table |-> b.rec[b.table[i]].path])

(* The records that operations hold are the devices they were.             *)
Firm(b) ==
    \A c \in Callers : op[c].rec \in Records =>
      /\ b.rec[op[c].rec].path = cache.rec[op[c].rec].path
      /\ b.rec[op[c].rec].named = cache.rec[op[c].rec].named

(* Some record has the address.                                            *)
HasNamed(b) == \E r \in ToSet(b.table) : b.rec[r].named

(* The link is up, or changed under an answer, once the objects are o.     *)
Lit(a, o) == (o[a].present /\ o[a].connected) \/ OvertakenBy(o)[a]

(* What the live records of the table say is so.                           *)
TrueIn(b, o) ==
    \A r \in ToSet(b.table) : (b.rec[r].connected /\ ~b.rec[r].detached) => Lit(b.rec[r].path, o)

(* A book by its members.                                                  *)
LEMMA BookIs ==
    ASSUME NEW b, Book(b)
    PROVE  /\ b.rec \in [Records -> Device] /\ b.table \in Seq(Records)
           /\ b = [rec |-> b.rec, table |-> b.table]
           /\ IsInjective(b.table) /\ ToSet(b.table) \in SUBSET Records
           /\ \A q, r \in ToSet(b.table) : b.rec[q].path = b.rec[r].path => q = r
           /\ Len(b.table) \in Nat /\ DOMAIN b.table = 1 .. Len(b.table)
           /\ \A i \in 1 .. Len(b.table) : b.table[i] \in ToSet(b.table)
           /\ \A r \in Records : /\ b.rec[r] \in Device /\ b.rec[r].path \in Adapters
                                 /\ b.rec[r].named \in BOOLEAN /\ b.rec[r].detached \in BOOLEAN
<1>1. /\ b.rec \in [Records -> Device] /\ b.table \in Seq(Records)
      /\ b = [rec |-> b.rec, table |-> b.table]
  BY DEF Book
<1>2. /\ Len(b.table) \in Nat /\ DOMAIN b.table = 1 .. Len(b.table)
      /\ \A i \in 1 .. Len(b.table) : b.table[i] \in Records
  BY <1>1, LenProperties, ElementOfSeq
<1>3. \A i, j \in 1 .. Len(b.table) : b.rec[b.table[i]].path = b.rec[b.table[j]].path => i = j
  BY <1>2 DEF Book, IsInjective
<1>4. IsInjective(b.table)
  BY <1>2, <1>3 DEF IsInjective
<1>5. ToSet(b.table) \in SUBSET Records /\ \A i \in 1 .. Len(b.table) : b.table[i] \in ToSet(b.table)
  BY <1>2 DEF ToSet
<1>6. \A q, r \in ToSet(b.table) : b.rec[q].path = b.rec[r].path => q = r
  BY <1>2, <1>3 DEF ToSet
<1>7. \A r \in Records : /\ b.rec[r] \in Device /\ b.rec[r].path \in Adapters
                         /\ b.rec[r].named \in BOOLEAN /\ b.rec[r].detached \in BOOLEAN
  BY <1>1 DEF Device
<1> QED BY <1>1, <1>2, <1>4, <1>5, <1>6, <1>7

(* The same the other way.                                                 *)
LEMMA IsBook ==
    ASSUME NEW b, b \in [rec : [Records -> Device], table : Seq(Records)], IsInjective(b.table),
           \A q, r \in ToSet(b.table) : b.rec[q].path = b.rec[r].path => q = r
    PROVE  Book(b)
<1>1. DOMAIN b.table = 1 .. Len(b.table) /\ \A i \in DOMAIN b.table : b.table[i] \in ToSet(b.table)
  BY LenProperties DEF ToSet
<1>2. \A i, j \in DOMAIN b.table : b.rec[b.table[i]].path = b.rec[b.table[j]].path => i = j
  BY <1>1 DEF IsInjective
<1> QED BY <1>2 DEF Book, IsInjective

(* The record at a path, or that there is none.                            *)
LEMMA LookupIs ==
    ASSUME NEW b, Book(b), NEW path \in Adapters
    PROVE  \/ Lookup(b, path) = NoRecord /\ \A r \in ToSet(b.table) : b.rec[r].path # path
           \/ /\ Lookup(b, path) \in ToSet(b.table) /\ Lookup(b, path) \in Records
              /\ b.rec[Lookup(b, path)].path = path
<1> DEFINE I == {i \in 1 .. Len(b.table) : b.rec[b.table[i]].path = path}
<1>1. Lookup(b, path) = RecordAt(b, IF I # {} THEN Min(I) ELSE 0)
  BY DEF Lookup, SelectInSeq
<1>2. CASE I = {}
  <2>1. Lookup(b, path) = NoRecord
    BY <1>1, <1>2 DEF RecordAt
  <2>2. \A r \in ToSet(b.table) : b.rec[r].path # path
    <3>1. DOMAIN b.table = 1 .. Len(b.table)
      BY BookIs
    <3> SUFFICES ASSUME NEW i \in 1 .. Len(b.table) PROVE b.rec[b.table[i]].path # path
      BY <3>1 DEF ToSet
    <3> QED BY <1>2
  <2> QED BY <2>1, <2>2
<1>3. CASE I # {}
  <2>1. I \in SUBSET Nat /\ \A i \in I : i # 0
    BY BookIs
  <2>2. Min(I) \in I
    BY <1>3, <2>1, Least
  <2> DEFINE m == Min(I)
  <2>3. Lookup(b, path) = b.table[m]
    BY <1>1, <1>3, <2>1, <2>2 DEF RecordAt
  <2>4. m \in 1 .. Len(b.table) /\ b.rec[b.table[m]].path = path
    BY <2>2
  <2> HIDE DEF I, m
  <2>5. b.table[m] \in ToSet(b.table) /\ ToSet(b.table) \in SUBSET Records
    BY <2>4, BookIs
  <2> QED BY <2>3, <2>4, <2>5
<1> QED BY <1>2, <1>3

(* A record with the address, or that there is none.                       *)
LEMMA ByAddressIs ==
    ASSUME NEW b, Book(b)
    PROVE  \/ ByAddress(b) = NoRecord /\ ~HasNamed(b)
           \/ /\ ByAddress(b) \in ToSet(b.table) /\ ByAddress(b) \in Records
              /\ b.rec[ByAddress(b)].named /\ HasNamed(b) /\ ByAddress(b) # NoRecord
<1> DEFINE I == {i \in 1 .. Len(b.table) : b.rec[b.table[i]].named}
<1>1. ByAddress(b) = RecordAt(b, IF I # {} THEN Min(I) ELSE 0)
  BY DEF ByAddress, SelectInSeq
<1>2. CASE I = {}
  <2>1. ByAddress(b) = NoRecord
    BY <1>1, <1>2 DEF RecordAt
  <2>2. ~HasNamed(b)
    BY <1>2, BookIs DEF HasNamed, ToSet
  <2> QED BY <2>1, <2>2
<1>3. CASE I # {}
  <2>1. I \in SUBSET Nat /\ \A i \in I : i # 0
    BY BookIs
  <2>2. Min(I) \in I
    BY <1>3, <2>1, Least
  <2> DEFINE m == Min(I)
  <2>3. ByAddress(b) = b.table[m]
    BY <1>1, <1>3, <2>1, <2>2 DEF RecordAt
  <2>6. m \in 1 .. Len(b.table) /\ b.rec[b.table[m]].named
    BY <2>2
  <2> HIDE DEF I, m
  <2>7. b.table[m] \in ToSet(b.table) /\ ToSet(b.table) \in SUBSET Records
    BY <2>6, BookIs
  <2>4. ByAddress(b) \in ToSet(b.table) /\ ByAddress(b) \in Records /\ b.rec[ByAddress(b)].named
    BY <2>3, <2>6, <2>7
  <2>5. ByAddress(b) # NoRecord
    BY <2>4 DEF Records, NoRecord
  <2> QED BY <2>4, <2>5 DEF HasNamed
<1> QED BY <1>2, <1>3

(* Of the records there are enough: one for each path, one for each call   *)
(* and one more.                                                           *)
LEMMA NewRecordIs ==
    ASSUME NEW b, Book(b)
    PROVE  /\ NewRecord(b) \in Records /\ NewRecord(b) \notin ToSet(b.table)
           /\ \A c \in Callers : op[c].rec # NewRecord(b)
<1> DEFINE A == ToSet(b.table)
           H == {op[c].rec : c \in Callers}
           P == [r \in A |-> b.rec[r].path]
           C == [r \in H |-> CHOOSE c \in Callers : op[c].rec = r]
<1>0. /\ IsFiniteSet(Callers) /\ MaxAdapters \in Nat /\ MaxRecords \in Nat
      /\ MaxRecords > MaxAdapters + Cardinality(Callers) /\ Cardinality(Callers) \in Nat
  BY ConnectionAssumption, FS_CardinalityType DEF ConnectionAssumption
<1>1. IsFiniteSet(A) /\ Cardinality(A) <= MaxAdapters
  <2>1. IsFiniteSet(Adapters) /\ Cardinality(Adapters) = MaxAdapters
    BY <1>0, FS_Interval DEF Adapters
  <2>2. P \in [A -> Adapters] /\ \A q, r \in A : P[q] = P[r] => q = r
    BY BookIs
  <2> HIDE DEF P, A
  <2>3. P \in Injection(A, Adapters)
    BY <2>2 DEF Injection, IsInjective
  <2> QED BY <2>1, <2>3, FS_Injection
<1>2. IsFiniteSet(H) /\ Cardinality(H) <= Cardinality(Callers)
  <2>1. \A r \in H : C[r] \in Callers /\ op[C[r]].rec = r
    OBVIOUS
  <2>2. C \in [H -> Callers] /\ \A q, r \in H : C[q] = C[r] => q = r
    BY <2>1
  <2> HIDE DEF C, H
  <2>3. C \in Injection(H, Callers)
    BY <2>2 DEF Injection, IsInjective
  <2> QED BY <1>0, <2>3, FS_Injection
<1> HIDE DEF A, H
<1>3. IsFiniteSet(A \cup H) /\ Cardinality(A \cup H) <= MaxAdapters + Cardinality(Callers)
  <2>1. IsFiniteSet(A \cup H) /\ Cardinality(A \cup H) = Cardinality(A) + Cardinality(H) - Cardinality(A \cap H)
    BY <1>1, <1>2, FS_Union
  <2>2. A \cap H \in SUBSET A
    OBVIOUS
  <2>3. Cardinality(A) \in Nat /\ Cardinality(H) \in Nat /\ Cardinality(A \cap H) \in Nat
    BY <1>1, <1>2, <2>2, FS_Subset, FS_CardinalityType
  <2> QED BY <1>0, <1>1, <1>2, <2>1, <2>3
<1>4. \E r \in Records : r \notin A \cup H
  <2> SUFFICES ASSUME Records \in SUBSET (A \cup H) PROVE FALSE
    OBVIOUS
  <2>1. Cardinality(Records) = MaxRecords
    BY <1>0, FS_Interval DEF Records
  <2>2. Cardinality(Records) <= Cardinality(A \cup H)
    BY <1>3, FS_Subset
  <2>3. Cardinality(A \cup H) \in Nat
    BY <1>3, FS_CardinalityType
  <2> QED BY <1>0, <1>3, <2>1, <2>2, <2>3
<1>5. NewRecord(b) \in Records /\ NewRecord(b) \notin A \cup H
  BY <1>4 DEF NewRecord, A, H
<1> QED BY <1>5 DEF A, H

(* A book that loses the record of a path.                                 *)
LEMMA DropIs ==
    ASSUME NEW b, Book(b), NEW path \in Adapters
    PROVE  /\ Book(Drop(b, path)) /\ Drop(b, path).rec = b.rec
           /\ ToSet(Drop(b, path).table) = {r \in ToSet(b.table) : b.rec[r].path # path}
<1> DEFINE R == {r \in Records : b.rec[r].path = path}
           t == Without(b.table, R)
<1>1. Drop(b, path) = [rec |-> b.rec, table |-> t]
  BY BookIs DEF Drop
<1>2. t \in Seq(Records) /\ IsInjective(t) /\ ToSet(t) = ToSet(b.table) \ R
  BY BookIs, WithoutIs
<1>3. ToSet(t) = {r \in ToSet(b.table) : b.rec[r].path # path}
  BY <1>2, BookIs
<1> HIDE DEF t, R
<1>4. \A q, r \in ToSet(t) : b.rec[q].path = b.rec[r].path => q = r
  BY <1>3, BookIs
<1> DEFINE d == [rec |-> b.rec, table |-> t]
<1>5. d.rec = b.rec /\ d.table = t
  OBVIOUS
<1>6. d \in [rec : [Records -> Device], table : Seq(Records)]
  BY <1>2, BookIs
<1>7. d = Drop(b, path)
  BY <1>1
<1> HIDE DEF d
<1>8. Book(d)
  BY <1>2, <1>4, <1>5, <1>6, IsBook
<1> QED BY <1>3, <1>5, <1>7, <1>8

(* A member of the table is replaced by one that is not in it.             *)
LEMMA Replaced ==
    ASSUME NEW T, NEW s \in Seq(T), IsInjective(s), NEW i \in 1 .. Len(s), NEW x \in T, x \notin ToSet(s)
    PROVE  /\ ReplaceAt(s, i, x) \in Seq(T) /\ IsInjective(ReplaceAt(s, i, x))
           /\ ToSet(ReplaceAt(s, i, x)) = (ToSet(s) \ {s[i]}) \cup {x}
<1> DEFINE t == [s EXCEPT ![i] = x]
           n == Len(s)
<1>1. n \in Nat /\ DOMAIN s = 1 .. n /\ \A j \in 1 .. n : s[j] \in T
  BY LenProperties, ElementOfSeq
<1>2. t = [j \in 1 .. n |-> IF j = i THEN x ELSE s[j]]
  BY <1>1
<1> HIDE DEF t, n
<1>3. t \in Seq(T) /\ DOMAIN t = 1 .. n
  BY <1>1, <1>2
<1>4. i \in 1 .. n
  BY DEF n
<1>5. \A j, k \in 1 .. n : s[j] = s[k] => j = k
  BY <1>1 DEF IsInjective
<1>6. \A j \in 1 .. n : s[j] # x
  BY <1>1 DEF ToSet
<1>7. IsInjective(t)
  BY <1>2, <1>3, <1>5, <1>6 DEF IsInjective
<1>8. ToSet(t) = (ToSet(s) \ {s[i]}) \cup {x}
  <2>1. ASSUME NEW y, y \in ToSet(t) PROVE y \in (ToSet(s) \ {s[i]}) \cup {x}
    <3>1. PICK j \in 1 .. n : y = t[j]
      BY <1>3, <2>1 DEF ToSet
    <3>2. CASE j = i
      BY <1>2, <3>1, <3>2
    <3>3. CASE j # i
      BY <1>1, <1>2, <1>4, <1>5, <3>1, <3>3 DEF ToSet
    <3> QED BY <3>2, <3>3
  <2>2. ASSUME NEW j \in 1 .. n, s[j] # s[i] PROVE s[j] \in ToSet(t)
    <3>1. t[j] = s[j]
      BY <1>2, <2>2
    <3> QED BY <1>3, <3>1 DEF ToSet
  <2>3. x \in ToSet(t)
    BY <1>2, <1>3, <1>4 DEF ToSet
  <2> QED BY <1>1, <2>1, <2>2, <2>3 DEF ToSet
<1> QED BY <1>3, <1>7, <1>8 DEF t, ReplaceAt

(* A book that gets a new record: it is in the table, the record of its    *)
(* path is not, and others are missing only when they are its detached     *)
(* duplicates.                                                             *)
LEMMA PutIs ==
    ASSUME NEW b, Book(b), NEW device \in Device
    PROVE  /\ Book(Put(b, device))
           /\ Put(b, device).rec = [b.rec EXCEPT ![NewRecord(b)] = device]
           /\ NewRecord(b) \in ToSet(Put(b, device).table)
           /\ \A r \in ToSet(Put(b, device).table) :
                r = NewRecord(b) \/ (r \in ToSet(b.table) /\ b.rec[r].path # device.path)
           /\ \A r \in ToSet(b.table) :
                \/ r \in ToSet(Put(b, device).table)
                \/ b.rec[r].path = device.path \/ b.rec[r].named = device.named
<1> DEFINE new == NewRecord(b)
           recs == [b.rec EXCEPT ![new] = device]
           R == {r \in Records : recs[r].path # device.path /\ recs[r].detached /\ recs[r].named = device.named}
           kept == Without(b.table, R)
           I == {j \in 1 .. Len(kept) : recs[kept[j]].path = device.path}
           i == IF I # {} THEN Min(I) ELSE 0
           t == IF i = 0 THEN Append(kept, new) ELSE ReplaceAt(kept, i, new)
<1>1. new \in Records /\ new \notin ToSet(b.table)
  BY NewRecordIs
<1>2. Put(b, device) = [rec |-> recs, table |-> t]
  BY DEF Put, SelectInSeq
<1> HIDE DEF new
<1>3. /\ recs \in [Records -> Device] /\ recs[new] = device
      /\ \A r \in Records : r # new => recs[r] = b.rec[r]
  BY <1>1, BookIs
<1>4. \A r \in ToSet(b.table) : recs[r] = b.rec[r] /\ r \in Records
  BY <1>1, <1>3, BookIs
<1> HIDE DEF recs
<1>5. kept \in Seq(Records) /\ IsInjective(kept) /\ ToSet(kept) = ToSet(b.table) \ R
  BY BookIs, WithoutIs
<1> HIDE DEF kept, R
<1>6. Len(kept) \in Nat /\ DOMAIN kept = 1 .. Len(kept) /\ \A j \in 1 .. Len(kept) : kept[j] \in ToSet(kept)
  BY <1>5, LenProperties DEF ToSet
<1>7. \A q, r \in ToSet(kept) : recs[q].path = recs[r].path => q = r
  BY <1>4, <1>5, BookIs
<1>8. new \notin ToSet(kept)
  BY <1>1, <1>5
<1>9. /\ t \in Seq(Records) /\ IsInjective(t)
      /\ ToSet(t) = {r \in ToSet(kept) : recs[r].path # device.path} \cup {new}
  <2>1. CASE I = {}
    <3>1. t = Append(kept, new)
      BY <2>1
    <3>2. \A r \in ToSet(kept) : recs[r].path # device.path
      BY <1>6, <2>1 DEF ToSet
    <3>3. Append(kept, new) \in Seq(Records) /\ IsInjective(Append(kept, new))
          /\ ToSet(Append(kept, new)) = ToSet(kept) \cup {new}
      BY <1>1, <1>5, <1>8, Appended
    <3> QED BY <3>1, <3>2, <3>3
  <2>2. CASE I # {}
    <3>1. I \in SUBSET Nat /\ \A j \in I : j # 0
      BY <1>6
    <3>2. Min(I) \in I
      BY <2>2, <3>1, Least
    <3> DEFINE m == Min(I)
    <3>3. t = ReplaceAt(kept, m, new) /\ m \in 1 .. Len(kept) /\ recs[kept[m]].path = device.path
      BY <2>2, <3>1, <3>2
    <3> HIDE DEF m, I, t, i
    <3>4. /\ t \in Seq(Records) /\ IsInjective(t)
          /\ ToSet(t) = (ToSet(kept) \ {kept[m]}) \cup {new}
      BY <1>1, <1>5, <1>8, <3>3, Replaced
    <3>5. kept[m] \in ToSet(kept)
      BY <1>6, <3>3
    <3>6. \A r \in ToSet(kept) : recs[r].path = device.path <=> r = kept[m]
      BY <1>7, <3>3, <3>5
    <3> QED BY <3>4, <3>6
  <2> QED BY <2>1, <2>2
<1> HIDE DEF t, i, I
<1>10. \A q, r \in ToSet(t) : recs[q].path = recs[r].path => q = r
  BY <1>3, <1>7, <1>9
<1> DEFINE d == [rec |-> recs, table |-> t]
<1>11. d.rec = recs /\ d.table = t /\ d \in [rec : [Records -> Device], table : Seq(Records)]
  BY <1>3, <1>9
<1>12. d = Put(b, device)
  BY <1>2
<1> HIDE DEF d
<1>13. Book(d)
  BY <1>9, <1>10, <1>11, IsBook
<1>14. \A r \in ToSet(t) : r = new \/ (r \in ToSet(b.table) /\ b.rec[r].path # device.path)
  BY <1>4, <1>5, <1>9
<1>15. \A r \in ToSet(b.table) : \/ r \in ToSet(t)
                                 \/ b.rec[r].path = device.path \/ b.rec[r].named = device.named
  BY <1>4, <1>5, <1>9 DEF R
<1>16. new \in ToSet(t)
  BY <1>9
<1> QED BY <1>11, <1>12, <1>13, <1>14, <1>15, <1>16 DEF new, recs

(* A record of a book is rewritten; its path stays.                        *)
LEMMA RewriteIs ==
    ASSUME NEW b, Book(b), NEW r \in Records, NEW d \in Device, d.path = b.rec[r].path
    PROVE  Book([b EXCEPT !.rec[r] = d])
<1> DEFINE n == [b EXCEPT !.rec[r] = d]
<1>1. n.rec = [b.rec EXCEPT ![r] = d] /\ n.table = b.table
      /\ n \in [rec : [Records -> Device], table : Seq(Records)]
  BY BookIs DEF Book
<1> HIDE DEF n
<1>2. \A q \in Records : n.rec[q].path = b.rec[q].path
  BY <1>1, BookIs
<1>3. \A p, q \in ToSet(n.table) : n.rec[p].path = n.rec[q].path => p = q
  BY <1>1, <1>2, BookIs
<1>4. Book(n)
  BY <1>1, <1>3, BookIs, IsBook
<1> QED BY <1>4 DEF n

-----------------------------------------------------------------------------
(* The operations.                                                         *)

Operators == {"auto", "connect"}
Removing == {"untrusting", "unlinking", "removing"}

(* Where an operation of each kind can wait, and what it holds there.      *)
Proper(o) ==
    /\ o \in Op
    /\ o.kind = "none" => o = Idle
    /\ o.kind \in Operators => o.pc \in {"resolving", "settling", "resetting", "resting", "connecting", "trusting"}
    /\ o.kind = "disconnect" => o.pc \in {"resolving", "disconnecting"}
    /\ o.kind = "remove" => o.pc \in {"resolving"} \cup Removing
    /\ o.kind = "pair" => o.pc \in {"settling", "resolving", "seeking", "pairing", "connecting", "trusting"}
    /\ o.stage # "none" => o.kind = "pair"
    /\ o.stage = "refresh" => o.rec \in Records /\ o.pc # "seeking"
    /\ o.pc \notin {"idle", "resolving", "seeking", "settling"} => o.rec \in Records
    /\ o.pc = "settling" /\ o.kind # "pair" => o.rec \in Records
    /\ o.pc \notin Calls => o.answer = "none"
    /\ o.answer = "gone" => o.pc = "connecting"

(* A connection past its look-up holds the lock of its record.             *)
LockHeld ==
    \A c \in Callers : (Connects(c) /\ op[c].pc # "resolving")
                         => lock[LockName(cache.rec[op[c].rec])] = c

(* The inductive invariant.                                                *)
IInv ==
    /\ object \in [Adapters -> Object] /\ \A a \in Adapters : object[a].present \/ object[a] = NoObject
    /\ Book(cache)
    /\ lock \in [Adapters -> Callers \cup {Nobody}]
    /\ op \in [Callers -> Op] /\ \A c \in Callers : Proper(op[c])
    /\ ready \in Seq(Callers) /\ IsInjective(ready) /\ ToSet(ready) = {c \in Callers : op[c].answer # "none"}
    /\ owned \in {"no", "yes", "dropped"} /\ forgotten \in BOOLEAN /\ overtaken \in [Adapters -> BOOLEAN]
    /\ LockHeld

(* The rest of this section relates a state to the next one.               *)

(* The answers that wait are true, or what they say has changed since.     *)
Fresh ==
    \A c \in Callers : op[c].answer = "ok" =>
      /\ op[c].pc = "connecting" =>
           (object[Path(c)].present /\ object[Path(c)].connected) \/ overtaken[Path(c)]
      /\ op[c].pc = "resolving" =>
           (object[op[c].at].present /\ (op[c].seen.connected => object[op[c].at].connected)) \/ overtaken[op[c].at]

(* The history knows what the speaker's record says.                       *)
Known ==
    ByAddress(cache) # NoRecord =>
      owned = IF cache.rec[ByAddress(cache)].paired \/ cache.rec[ByAddress(cache)].trusted THEN "yes" ELSE "no"

(* A book b that follows the one in the cache, beside the objects o: what  *)
(* is held stays what it is, an owned speaker is not lost, no record lies  *)
(* and only an answer that was overtaken makes a record of nothing.        *)
Lasting(b) == (Known /\ owned = "yes" /\ HasNamed(cache)) => HasNamed(b)
Empty(b) == \A r \in ToSet(b.table) : overtaken[b.rec[r].path]
Truthful(b, o) == (Fresh /\ ConnectedIsTrue) => TrueIn(b, o)
Bare(b, o) ==
    (Fresh /\ Empty(cache) /\ \A a \in Adapters : ~object[a].present /\ ~o[a].present) => Empty(b)

Follows(b, o) == Book(b) /\ Firm(b) /\ Lasting(b) /\ Truthful(b, o) /\ Bare(b, o)

(* What becomes of the locks when c goes on as n.                          *)
Locks(c, n, b) ==
    /\ lock' \in [Adapters -> Callers \cup {Nobody}]
    /\ \A a \in Adapters : lock[a] \in Callers \ {c} => lock'[a] = lock[a]
    /\ (n.kind \in Operators /\ n.pc # "resolving") => lock'[LockName(b.rec[n.rec])] = c

(* c goes on as n, and the cache becomes b.                                *)
Moves(c, n, b) ==
    /\ op' = [op EXCEPT ![c] = n] /\ Proper(n) /\ n.answer = "none"
    /\ Locks(c, n, b)
    /\ Keep(b) /\ Book(b) /\ Firm(b) /\ Truthful(b, object') /\ Bare(b, object')
    /\ Lasting(b) \/ Removes(c) \/ (n.kind = "pair" /\ n.stage = "refresh")
    /\ Removes(c) => \A r \in ToSet(b.table) : b.rec[r].path # Path(c)

(* The types of an operation.                                              *)
LEMMA OpType ==
    ASSUME NEW o \in Op
    PROVE  /\ o.pc \in Pcs /\ o.kind \in Kinds \cup {"none"} /\ o.rec \in Records \cup {NoRecord}
           /\ o.at \in Adapters /\ o.next \in Adapters /\ o.stage \in Stages /\ o.offline \in BOOLEAN
           /\ o.answer \in {"none", "ok", "failed", "gone"} /\ o.seen \in Object
           /\ NoRecord \notin Records
BY DEF Op, Records, NoRecord

(* There is an adapter.                                                    *)
LEMMA First == MaxAdapters \in Nat /\ 1 \in Adapters /\ MaxAdapters \in Adapters
BY ConnectionAssumption DEF ConnectionAssumption, Adapters

(* What an operation that has ended is.                                    *)
LEMMA IdleIs ==
    Proper(Idle) /\ Idle.answer = "none" /\ Idle.kind = "none" /\ Idle.stage = "none" /\ Idle.pc = "idle"
    /\ Idle.rec = NoRecord
<1>1. Idle \in Op
  BY First DEF Idle, Op, Pcs, Calls, Stages, Object, NoObject
<1> QED BY <1>1 DEF Proper, Idle, Operators, Removing, Calls

(* A link that does not change.                                            *)
LEMMA LitSame ==
    ASSUME NEW a \in Adapters, NEW o, o[a] = object[a]
    PROVE  /\ OvertakenBy(o)[a] = overtaken[a]
           /\ Lit(a, o) <=> (object[a].present /\ object[a].connected) \/ overtaken[a]
BY DEF Lit, OvertakenBy, Link

(* The cache follows itself.                                               *)
LEMMA Stays ==
    ASSUME IInv
    PROVE  Follows(cache, object)
<1>1. Book(cache) /\ Firm(cache) /\ Lasting(cache) /\ Bare(cache, object)
  BY DEF IInv, Firm, Lasting, Bare
<1>2. ConnectedIsTrue => TrueIn(cache, object)
  <2> SUFFICES ASSUME ConnectedIsTrue, NEW r \in ToSet(cache.table),
                      cache.rec[r].connected, ~cache.rec[r].detached
               PROVE  Lit(cache.rec[r].path, object)
    BY DEF TrueIn
  <2>1. cache.rec[r].path \in Adapters
    BY <1>1, BookIs
  <2>2. (object[cache.rec[r].path].present /\ object[cache.rec[r].path].connected) \/ overtaken[cache.rec[r].path]
    BY DEF ConnectedIsTrue
  <2> QED BY <2>1, <2>2, LitSame
<1> QED BY <1>1, <1>2 DEF Follows, Truthful

(* A record names a lock.                                                  *)
LEMMA LockNameIs ==
    ASSUME NEW b, Book(b), NEW r \in Records
    PROVE  LockName(b.rec[r]) \in Adapters
BY BookIs, First DEF LockName

(* An operation that waits keeps what it is.                               *)
LEMMA Waits ==
    ASSUME IInv, NEW c \in Callers, NEW o \in Op, NEW pc \in Pcs, NEW r \in Records \cup {NoRecord},
           Await(c, o, pc, r)
    PROVE  \E n \in Op : /\ op' = [op EXCEPT ![c] = n]
                         /\ n.pc = pc /\ n.rec = r /\ n.answer = "none"
                         /\ n.kind = o.kind /\ n.stage = o.stage /\ n.at = o.at
<1> DEFINE n == [o EXCEPT !.pc = pc, !.rec = r, !.answer = "none", !.seen = NoObject]
<1>1. NoObject \in Object
  BY DEF NoObject, Object
<1>2. n \in Op
  BY <1>1 DEF Op
<1>3. n.pc = pc /\ n.rec = r /\ n.answer = "none" /\ n.kind = o.kind /\ n.stage = o.stage /\ n.at = o.at
  BY DEF Op
<1>4. op' = [op EXCEPT ![c] = n]
  BY DEF Await
<1> QED BY <1>2, <1>3, <1>4

(* The same, for one that keeps its locks.                                 *)
LEMMA Becomes ==
    ASSUME IInv, NEW c \in Callers, NEW o \in Op, NEW pc \in Pcs, NEW r \in Records \cup {NoRecord},
           Become(c, o, pc, r), NEW b, Firm(b),
           (o.kind \in Operators /\ pc # "resolving")
             => Connects(c) /\ op[c].pc # "resolving" /\ r = op[c].rec /\ r \in Records
    PROVE  \E n \in Op : /\ op' = [op EXCEPT ![c] = n]
                         /\ n.pc = pc /\ n.rec = r /\ n.answer = "none"
                         /\ n.kind = o.kind /\ n.stage = o.stage /\ n.at = o.at
                         /\ Locks(c, n, b)
<1>1. PICK n \in Op : /\ op' = [op EXCEPT ![c] = n]
                      /\ n.pc = pc /\ n.rec = r /\ n.answer = "none"
                      /\ n.kind = o.kind /\ n.stage = o.stage /\ n.at = o.at
  BY Waits DEF Become
<1>2. lock' = lock /\ lock \in [Adapters -> Callers \cup {Nobody}]
  BY DEF Become, IInv
<1>3. (n.kind \in Operators /\ n.pc # "resolving") => lock[LockName(b.rec[n.rec])] = c
  <2> SUFFICES ASSUME n.kind \in Operators, n.pc # "resolving" PROVE lock[LockName(b.rec[n.rec])] = c
    OBVIOUS
  <2>1. Connects(c) /\ op[c].pc # "resolving" /\ n.rec = op[c].rec /\ op[c].rec \in Records
    BY <1>1
  <2>2. lock[LockName(cache.rec[op[c].rec])] = c
    BY <2>1 DEF IInv, LockHeld
  <2>3. LockName(b.rec[op[c].rec]) = LockName(cache.rec[op[c].rec])
    BY <2>1 DEF Firm, LockName
  <2> QED BY <2>1, <2>2, <2>3
<1>4. Locks(c, n, b)
  BY <1>2, <1>3 DEF Locks
<1> QED BY <1>1, <1>4

(* An operation that ends gives back what it holds.                        *)
LEMMA Finishes ==
    ASSUME IInv, NEW c \in Callers, Finish(c), NEW b
    PROVE  op' = [op EXCEPT ![c] = Idle] /\ Proper(Idle) /\ Idle.answer = "none" /\ Locks(c, Idle, b)
<1>1. lock' = [a \in Adapters |-> IF lock[a] = c THEN Nobody ELSE lock[a]]
      /\ lock \in [Adapters -> Callers \cup {Nobody}]
  BY DEF Finish, IInv
<1>2. Locks(c, Idle, b)
  BY <1>1, IdleIs DEF Locks, Operators
<1> QED BY <1>2, IdleIs DEF Finish

(* A connection takes its lock or ends.                                    *)
LEMMA TakesLock ==
    ASSUME IInv, NEW c \in Callers, NEW o \in Op, o.kind \in Operators, o.stage = "none",
           NEW b, Book(b), NEW r \in Records, TakeLock(c, o, b, r)
    PROVE  \E n \in Op : op' = [op EXCEPT ![c] = n] /\ Proper(n) /\ n.answer = "none" /\ Locks(c, n, b)
<1>1. CASE Finish(c)
  BY <1>1, Finishes DEF Proper
<1>2. CASE /\ lock[LockName(b.rec[r])] = Nobody
           /\ Await(c, o, "settling", r) /\ lock' = [lock EXCEPT ![LockName(b.rec[r])] = c]
  <2>1. PICK n \in Op : /\ op' = [op EXCEPT ![c] = n]
                        /\ n.pc = "settling" /\ n.rec = r /\ n.answer = "none"
                        /\ n.kind = o.kind /\ n.stage = o.stage /\ n.at = o.at
    BY <1>2, Waits DEF Pcs
  <2>2. Proper(n)
    BY <2>1 DEF Proper, Operators, Calls
  <2>3. Nobody \notin Callers
    BY ConnectionAssumption DEF ConnectionAssumption
  <2>4. LockName(b.rec[r]) \in Adapters /\ lock \in [Adapters -> Callers \cup {Nobody}]
    BY LockNameIs DEF IInv
  <2>5. Locks(c, n, b)
    BY <1>2, <2>1, <2>3, <2>4 DEF Locks
  <2> QED BY <2>1, <2>2, <2>5
<1> QED BY <1>1, <1>2 DEF TakeLock

(* What asks for the speaker: an operation that begins or looks it up.     *)
Asker(o) ==
    /\ o \in Op /\ o.kind \in Kinds
    /\ o.stage # "none" => o.kind = "pair"
    /\ o.stage = "refresh" => o.rec \in Records

(* It is not a removal past its look-up, and BlueZ does nothing meanwhile. *)
Asks(c) == c \in Callers /\ object' = object /\ (op[c].kind = "remove" => op[c].pc = "resolving")

(* A new request.                                                          *)
LEMMA RequestIs ==
    ASSUME NEW kind \in Kinds
    PROVE  /\ Asker(Request(kind)) /\ Request(kind).kind = kind /\ Request(kind).stage = "none"
           /\ Request(kind).rec = NoRecord
<1>1. Idle \in Op
  BY IdleIs DEF Proper
<1>2. Request(kind) \in Op
  BY <1>1 DEF Request, Op, Kinds
<1>3. Request(kind).kind = kind /\ Request(kind).stage = "none" /\ Request(kind).rec = NoRecord
  BY DEF Request, Idle
<1> QED BY <1>2, <1>3 DEF Asker

(* An operation that asks and goes on.                                     *)
LEMMA Arrives ==
    ASSUME IInv, NEW c \in Callers, Asks(c), NEW n \in Op, NEW b, Follows(b, object), Keep(b),
           op' = [op EXCEPT ![c] = n], Proper(n), n.answer = "none", Locks(c, n, b)
    PROVE  Moves(c, n, b)
<1>1. ~Removes(c)
  BY DEF Asks, Removes
<1> QED BY <1>1 DEF Moves, Follows, Asks

(* A list with no members.                                                 *)
LEMMA Emptied ==
    ASSUME NEW T, NEW s \in Seq(T), ToSet(s) = {}
    PROVE  s = <<>>
<1>1. DOMAIN s = {} /\ DOMAIN s = 1 .. Len(s) /\ Len(s) \in Nat
  BY LenProperties DEF ToSet
<1>2. Len(s) = 0
  BY <1>1
<1> QED BY <1>2, EmptySeq

(* A pairing with its record: what it drops it may find again.             *)
LEMMA PairsWith ==
    ASSUME IInv, NEW c \in Callers, Asks(c), NEW o, Asker(o), o.kind = "pair",
           NEW b, Follows(b, object), NEW r \in Records, PairWith(c, o, b, r)
    PROVE  \E n \in Op : \E m : Moves(c, n, m)
<1> DEFINE d == Drop(b, b.rec[r].path)
           again == Usable(d)
<1>0. Book(b) /\ b.rec[r].path \in Adapters /\ "pair" \in Kinds /\ {"pairing", "resolving"} \in SUBSET Pcs
  BY BookIs DEF Follows, Kinds, Pcs, Calls
<1>1. Book(d) /\ d.rec = b.rec /\ ToSet(d.table) \in SUBSET ToSet(b.table) /\ Firm(d)
  <2>1. Book(d) /\ d.rec = b.rec /\ ToSet(d.table) \in SUBSET ToSet(b.table)
    <3> DEFINE path == b.rec[r].path
    <3>1. path \in Adapters
      BY <1>0
    <3> HIDE DEF path
    <3>2. Book(Drop(b, path)) /\ Drop(b, path).rec = b.rec
          /\ ToSet(Drop(b, path).table) \in SUBSET ToSet(b.table)
      BY <1>0, <3>1, DropIs
    <3> QED BY <3>2 DEF path
  <2> QED BY <2>1 DEF Follows, Firm
<1>2. Truthful(d, object)
  BY <1>1 DEF Follows, Truthful, TrueIn
<1>3. Bare(d, object)
  <2>1. Empty(b) => Empty(d)
    BY <1>1 DEF Empty
  <2> QED BY <2>1 DEF Follows, Bare
<1>4. ~Removes(c)
  BY DEF Asks, Removes
<1>5. CASE o.stage = "first" /\ ~b.rec[r].connected /\ again = NoRecord
  <2> DEFINE q == [o EXCEPT !.at = 1, !.stage = "refresh"]
  <2>1. Become(c, q, "resolving", r) /\ Keep(d)
    BY <1>5 DEF PairWith
  <2>2. q \in Op /\ q.kind = "pair" /\ q.stage = "refresh"
    BY First DEF Asker, Op, Stages
  <2> HIDE DEF q, d
  <2>3. PICK n \in Op : /\ op' = [op EXCEPT ![c] = n]
                        /\ n.pc = "resolving" /\ n.rec = r /\ n.answer = "none"
                        /\ n.kind = q.kind /\ n.stage = q.stage /\ n.at = q.at
                        /\ Locks(c, n, d)
    BY <1>0, <1>1, <2>1, <2>2, Becomes DEF Operators
  <2>4. Proper(n)
    BY <2>2, <2>3 DEF Proper, Operators, Calls
  <2>5. Moves(c, n, d)
    BY <1>1, <1>2, <1>3, <1>4, <2>1, <2>2, <2>3, <2>4 DEF Moves, Asks
  <2> QED BY <2>5
<1>6. ASSUME NEW m, NEW p \in Records, Follows(m, object), Keep(m),
             Become(c, Request("pair"), "pairing", p)
      PROVE  \E n \in Op : Moves(c, n, m)
  <2> DEFINE q == Request("pair")
  <2>1. q \in Op /\ q.kind = "pair" /\ q.stage = "none" /\ Firm(m)
    BY <1>0, <1>6, RequestIs DEF Asker, Follows
  <2>2. Become(c, q, "pairing", p)
    BY <1>6
  <2> HIDE DEF q
  <2>3. PICK n \in Op : /\ op' = [op EXCEPT ![c] = n]
                        /\ n.pc = "pairing" /\ n.rec = p /\ n.answer = "none"
                        /\ n.kind = q.kind /\ n.stage = q.stage /\ n.at = q.at
                        /\ Locks(c, n, m)
    BY <1>0, <2>1, <2>2, Becomes DEF Operators
  <2>4. Proper(n)
    BY <2>1, <2>3 DEF Proper, Operators, Removing, Calls
  <2> QED BY <1>6, <2>3, <2>4, Arrives
<1>7. CASE o.stage = "first" /\ ~b.rec[r].connected /\ again # NoRecord
  <2>1. Become(c, Request("pair"), "pairing", again) /\ Keep(d)
    BY <1>7 DEF PairWith
  <2>2. again \in Records /\ HasNamed(d)
    <3>1. again = ByAddress(d)
      BY <1>7 DEF Usable
    <3> HIDE DEF d
    <3> QED BY <1>1, <1>7, <3>1, ByAddressIs
  <2>3. Follows(d, object)
    BY <1>1, <1>2, <1>3, <2>2 DEF Follows, Lasting
  <2> QED BY <1>6, <2>1, <2>2, <2>3
<1>8. CASE ~(o.stage = "first" /\ ~b.rec[r].connected)
  BY <1>6, <1>8 DEF PairWith
<1> QED BY <1>5, <1>7, <1>8

(* What follows ensure_device, in every kind of operation.                 *)
LEMMA Finds ==
    ASSUME IInv, NEW c \in Callers, Asks(c), NEW o, Asker(o),
           NEW b, Follows(b, object), NEW r \in Records, Found(c, o, b, r)
    PROVE  \E n \in Op : \E m : Moves(c, n, m)
<1>0. o \in Op /\ Book(b) /\ Firm(b) /\ {"disconnecting", "untrusting"} \in SUBSET Pcs
  BY DEF Asker, Follows, Pcs, Calls
<1>1. CASE o.kind \in Operators
  <2>1. TakeLock(c, o, b, r) /\ Keep(b)
    BY <1>1 DEF Found, Operators
  <2>2. o.stage = "none"
    BY <1>0, <1>1 DEF Asker, Operators
  <2> QED BY <1>0, <1>1, <2>1, <2>2, TakesLock, Arrives
<1>2. ASSUME NEW pc \in {"disconnecting", "untrusting"}, Become(c, o, pc, r), Keep(b),
             o.kind = IF pc = "disconnecting" THEN "disconnect" ELSE "remove"
      PROVE  \E n \in Op : \E m : Moves(c, n, m)
  <2>0. o.kind \notin Operators /\ o.kind # "pair" /\ o.kind # "none" /\ o.stage = "none" /\ pc \in Pcs
    BY <1>0, <1>2 DEF Operators, Asker
  <2>1. PICK n \in Op : /\ op' = [op EXCEPT ![c] = n]
                        /\ n.pc = pc /\ n.rec = r /\ n.answer = "none"
                        /\ n.kind = o.kind /\ n.stage = o.stage /\ n.at = o.at
                        /\ Locks(c, n, b)
    BY <1>0, <1>2, <2>0, Becomes
  <2>2. Proper(n)
    BY <1>2, <2>0, <2>1 DEF Proper, Operators, Removing, Calls
  <2> QED BY <1>2, <2>1, <2>2, Arrives
<1>3. CASE o.kind = "disconnect"
  BY <1>2, <1>3 DEF Found
<1>4. CASE o.kind = "remove"
  BY <1>2, <1>4 DEF Found
<1>5. CASE o.kind = "pair"
  BY <1>5, PairsWith DEF Found
<1> QED BY <1>1, <1>3, <1>4, <1>5 DEF Asker, Kinds, Operators

(* BlueZ is asked at one adapter.                                          *)
LEMMA Looks ==
    ASSUME IInv, NEW c \in Callers, Asks(c), NEW o, Asker(o), NEW a \in Adapters,
           NEW b, Follows(b, object), Become(c, [o EXCEPT !.at = a], "resolving", o.rec), Keep(b)
    PROVE  \E n \in Op : \E m : Moves(c, n, m)
<1> DEFINE q == [o EXCEPT !.at = a]
<1>1. q \in Op /\ q.kind = o.kind /\ q.stage = o.stage /\ o.rec \in Records \cup {NoRecord}
      /\ "resolving" \in Pcs /\ Firm(b)
  BY DEF Asker, Op, Follows, Pcs, Calls
<1>2. Become(c, q, "resolving", o.rec)
  OBVIOUS
<1> HIDE DEF q
<1>3. PICK n \in Op : /\ op' = [op EXCEPT ![c] = n]
                      /\ n.pc = "resolving" /\ n.rec = o.rec /\ n.answer = "none"
                      /\ n.kind = q.kind /\ n.stage = q.stage /\ n.at = q.at
                      /\ Locks(c, n, b)
  BY <1>1, <1>2, Becomes
<1>4. Proper(n)
  BY <1>1, <1>3 DEF Proper, Operators, Removing, Calls, Asker, Kinds
<1> QED BY <1>3, <1>4, Arrives

(* ensure_device, from the record or by way of BlueZ.                      *)
LEMMA Ensures ==
    ASSUME IInv, NEW c \in Callers, Asks(c), NEW o, Asker(o),
           NEW b, Follows(b, object), Ensure(c, o, b)
    PROVE  \E n \in Op : \E m : Moves(c, n, m)
<1>1. CASE Usable(b) # NoRecord
  <2>1. Found(c, o, b, Usable(b))
    BY <1>1 DEF Ensure
  <2>2. Usable(b) \in Records
    BY <1>1, ByAddressIs DEF Usable, Follows
  <2> QED BY <2>1, <2>2, Finds
<1>2. CASE Usable(b) = NoRecord
  BY <1>2, First, Looks DEF Ensure
<1> QED BY <1>1, <1>2

(* A pairing that seeks the speaker with its next adapter.                 *)
LEMMA SeeksNext ==
    ASSUME IInv, NEW c \in Callers, Asks(c), NEW o, Asker(o), o.kind = "pair", o.stage # "refresh",
           SeekNext(c, o)
    PROVE  \E n \in Op : \E m : Moves(c, n, m)
<1>1. CASE o.next < MaxAdapters
  <2> DEFINE q == [o EXCEPT !.next = @ + 1]
  <2>1. Become(c, q, "seeking", NoRecord) /\ Keep(cache)
    BY <1>1 DEF SeekNext
  <2>2. q \in Op /\ q.kind = "pair" /\ q.stage = o.stage
    <3>1. o.next + 1 \in Adapters
      BY <1>1, First DEF Asker, Op, Adapters
    <3> QED BY <3>1 DEF Asker, Op
  <2> HIDE DEF q
  <2>3. Follows(cache, object) /\ Firm(cache) /\ "seeking" \in Pcs
    BY Stays DEF Follows, Pcs, Calls
  <2>4. PICK n \in Op : /\ op' = [op EXCEPT ![c] = n]
                        /\ n.pc = "seeking" /\ n.rec = NoRecord /\ n.answer = "none"
                        /\ n.kind = q.kind /\ n.stage = q.stage /\ n.at = q.at
                        /\ Locks(c, n, cache)
    BY <2>1, <2>2, <2>3, Becomes DEF Operators
  <2>5. Proper(n)
    BY <2>2, <2>4 DEF Proper, Operators, Calls
  <2> QED BY <2>1, <2>3, <2>4, <2>5, Arrives
<1>2. CASE ~(o.next < MaxAdapters)
  <2> DEFINE q == [o EXCEPT !.stage = "final"]
  <2>1. Ensure(c, q, cache)
    BY <1>2 DEF SeekNext
  <2>2. Asker(q)
    BY DEF Asker, Op, Stages
  <2> HIDE DEF q
  <2> QED BY <2>1, <2>2, Stays, Ensures
<1> QED BY <1>1, <1>2

(* A look-up that fails.                                                   *)
LEMMA FindsNothing ==
    ASSUME IInv, NEW c \in Callers, Asks(c), NEW o, Asker(o), NotFound(c, o)
    PROVE  \E n \in Op : \E m : Moves(c, n, m)
<1>0. Follows(cache, object) /\ Firm(cache) /\ {"seeking", "pairing"} \in SUBSET Pcs
  BY Stays DEF Follows, Pcs, Calls
<1>1. CASE o.stage = "seek"
  BY <1>1, SeeksNext DEF NotFound, Asker
<1>2. CASE Finish(c) /\ Keep(cache)
  BY <1>0, <1>2, Finishes, Arrives DEF Proper
<1>3. CASE o.stage = "refresh"
  <2> DEFINE q == Request("pair")
  <2>1. Become(c, q, "pairing", o.rec) /\ Keep(cache) /\ o.rec \in Records
    BY <1>3 DEF NotFound, Asker
  <2>2. q \in Op /\ q.kind = "pair" /\ q.stage = "none"
    BY RequestIs DEF Asker, Kinds
  <2> HIDE DEF q
  <2>3. PICK n \in Op : /\ op' = [op EXCEPT ![c] = n]
                        /\ n.pc = "pairing" /\ n.rec = o.rec /\ n.answer = "none"
                        /\ n.kind = q.kind /\ n.stage = q.stage /\ n.at = q.at
                        /\ Locks(c, n, cache)
    BY <1>0, <2>1, <2>2, Becomes DEF Operators
  <2>4. Proper(n)
    BY <2>1, <2>2, <2>3 DEF Proper, Operators, Removing, Calls
  <2> QED BY <1>0, <2>1, <2>3, <2>4, Arrives
<1>4. CASE o.stage = "first"
  <2> DEFINE q == [o EXCEPT !.stage = "seek"]
  <2>1. Become(c, q, "seeking", NoRecord) /\ Keep(cache)
    BY <1>4 DEF NotFound
  <2>2. q \in Op /\ q.kind = "pair" /\ q.stage = "seek"
    BY <1>4 DEF Asker, Op, Stages
  <2> HIDE DEF q
  <2>4. PICK n \in Op : /\ op' = [op EXCEPT ![c] = n]
                        /\ n.pc = "seeking" /\ n.rec = NoRecord /\ n.answer = "none"
                        /\ n.kind = q.kind /\ n.stage = q.stage /\ n.at = q.at
                        /\ Locks(c, n, cache)
    BY <1>0, <2>1, <2>2, Becomes DEF Operators
  <2>5. Proper(n)
    BY <2>2, <2>4 DEF Proper, Operators, Removing, Calls
  <2> QED BY <1>0, <2>1, <2>4, <2>5, Arrives
<1>5. CASE o.stage \notin {"first", "refresh", "seek"}
  BY <1>2, <1>5 DEF NotFound
<1> QED BY <1>1, <1>3, <1>4, <1>5

-----------------------------------------------------------------------------
(* Books that follow the one in the cache.                                 *)

(* A new record.                                                           *)
LEMMA PutFollows ==
    ASSUME IInv, NEW device \in Device, NEW o,
           device.named \/ \A r \in ToSet(cache.table) : cache.rec[r].path # device.path,
           \A a \in Adapters : a # device.path => o[a] = object[a],
           Fresh => o[device.path].present \/ overtaken[device.path],
           (Fresh /\ device.connected) => Lit(device.path, o)
    PROVE  Follows(Put(cache, device), o)
<1> DEFINE b == Put(cache, device)
           new == NewRecord(cache)
<1>1. Book(cache)
  BY DEF IInv
<1>2. /\ Book(b) /\ b.rec = [cache.rec EXCEPT ![new] = device]
      /\ new \in ToSet(b.table)
      /\ \A r \in ToSet(b.table) : r = new \/ (r \in ToSet(cache.table) /\ cache.rec[r].path # device.path)
      /\ \A r \in ToSet(cache.table) :
           r \in ToSet(b.table) \/ cache.rec[r].path = device.path \/ cache.rec[r].named = device.named
  BY <1>1, PutIs
<1>3. new \in Records /\ new \notin ToSet(cache.table) /\ \A c \in Callers : op[c].rec # new
  BY <1>1, NewRecordIs
<1> HIDE DEF b, new
<1>4. /\ b.rec[new] = device /\ \A r \in Records : r # new => b.rec[r] = cache.rec[r]
      /\ ToSet(cache.table) \in SUBSET Records
      /\ \A r \in Records : cache.rec[r].path \in Adapters /\ cache.rec[r].named \in BOOLEAN
      /\ device.path \in Adapters /\ device.named \in BOOLEAN
  BY <1>1, <1>2, <1>3, BookIs DEF Device
<1>5. Firm(b)
  BY <1>3, <1>4 DEF Firm
<1>6. Lasting(b)
  <2> SUFFICES ASSUME NEW r \in ToSet(cache.table), cache.rec[r].named PROVE HasNamed(b)
    BY DEF Lasting, HasNamed
  <2>1. CASE device.named
    BY <1>2, <1>4, <2>1 DEF HasNamed
  <2>2. CASE ~device.named
    <3>1. r \in ToSet(b.table)
      BY <1>2, <1>4, <2>2
    <3>2. b.rec[r] = cache.rec[r]
      BY <1>3, <1>4
    <3> QED BY <3>1, <3>2 DEF HasNamed
  <2> QED BY <2>1, <2>2
<1>7. Truthful(b, o)
  <2> SUFFICES ASSUME Fresh, ConnectedIsTrue, NEW r \in ToSet(b.table),
                      b.rec[r].connected, ~b.rec[r].detached
               PROVE  Lit(b.rec[r].path, o)
    BY DEF Truthful, TrueIn
  <2>1. CASE r = new
    BY <1>4, <2>1
  <2>2. CASE r # new
    <3>1. r \in ToSet(cache.table) /\ cache.rec[r].path # device.path /\ b.rec[r] = cache.rec[r]
          /\ cache.rec[r].path \in Adapters
      BY <1>2, <1>4, <2>2
    <3>2. (object[cache.rec[r].path].present /\ object[cache.rec[r].path].connected) \/ overtaken[cache.rec[r].path]
      BY <3>1 DEF ConnectedIsTrue
    <3>3. o[cache.rec[r].path] = object[cache.rec[r].path]
      BY <3>1
    <3> QED BY <3>1, <3>2, <3>3, LitSame
  <2> QED BY <2>1, <2>2
<1>8. Bare(b, o)
  <2> SUFFICES ASSUME Fresh, Empty(cache), ~o[device.path].present, NEW r \in ToSet(b.table)
               PROVE  overtaken[b.rec[r].path]
    BY <1>4 DEF Bare, Empty
  <2>1. r = new \/ (r \in ToSet(cache.table) /\ b.rec[r] = cache.rec[r])
    BY <1>2, <1>4
  <2> QED BY <1>4, <2>1 DEF Empty
<1> QED BY <1>2, <1>5, <1>6, <1>7, <1>8 DEF Follows, b

(* A record that is rewritten.                                             *)
LEMMA RewriteFollows ==
    ASSUME IInv, NEW r \in Records, NEW d \in Device, NEW o,
           d.path = cache.rec[r].path, d.named = cache.rec[r].named,
           \A a \in Adapters : a # d.path => o[a] = object[a],
           \/ o = object
           \/ r \in ToSet(cache.table),
           (Fresh /\ ConnectedIsTrue /\ r \in ToSet(cache.table) /\ d.connected /\ ~d.detached)
             => Lit(d.path, o)
    PROVE  Follows([cache EXCEPT !.rec[r] = d], o)
<1> DEFINE b == [cache EXCEPT !.rec[r] = d]
<1>1. Book(cache) /\ Book(b)
  BY RewriteIs DEF IInv
<1>2. b.rec = [cache.rec EXCEPT ![r] = d] /\ b.table = cache.table
  BY <1>1, BookIs
<1> HIDE DEF b
<1>3. /\ b.rec[r] = d /\ \A q \in Records : q # r => b.rec[q] = cache.rec[q]
      /\ ToSet(cache.table) \in SUBSET Records
      /\ \A q \in Records : cache.rec[q].path \in Adapters
      /\ \A p, q \in ToSet(cache.table) : cache.rec[p].path = cache.rec[q].path => p = q
  BY <1>1, <1>2, BookIs
<1>4. Firm(b)
  BY <1>3 DEF Firm
<1>5. Lasting(b)
  BY <1>2, <1>3 DEF Lasting, HasNamed
<1>6. Truthful(b, o)
  <2> SUFFICES ASSUME Fresh, ConnectedIsTrue, NEW q \in ToSet(cache.table),
                      b.rec[q].connected, ~b.rec[q].detached
               PROVE  Lit(b.rec[q].path, o)
    BY <1>2 DEF Truthful, TrueIn
  <2>1. CASE q = r
    BY <1>3, <2>1
  <2>2. CASE q # r
    <3>1. b.rec[q] = cache.rec[q] /\ cache.rec[q].path \in Adapters
      BY <1>3, <2>2
    <3>2. o[cache.rec[q].path] = object[cache.rec[q].path]
      BY <1>3, <2>2, <3>1
    <3>3. (object[cache.rec[q].path].present /\ object[cache.rec[q].path].connected) \/ overtaken[cache.rec[q].path]
      BY <3>1 DEF ConnectedIsTrue
    <3> QED BY <3>1, <3>2, <3>3, LitSame
  <2> QED BY <2>1, <2>2
<1>7. Bare(b, o)
  <2>1. Empty(cache) => Empty(b)
    BY <1>2, <1>3 DEF Empty
  <2> QED BY <2>1 DEF Bare
<1> QED BY <1>1, <1>4, <1>5, <1>6, <1>7 DEF Follows, b

(* A record that is dropped, and was not an owned speaker's.               *)
LEMMA DropFollows ==
    ASSUME IInv, NEW path \in Adapters, NEW o,
           \A a \in Adapters : a # path => o[a] = object[a],
           \A r \in ToSet(cache.table) : cache.rec[r].path = path => ~(cache.rec[r].paired \/ cache.rec[r].trusted)
    PROVE  Follows(Drop(cache, path), o)
<1> DEFINE b == Drop(cache, path)
<1>1. /\ Book(cache) /\ Book(b) /\ b.rec = cache.rec
      /\ ToSet(b.table) = {r \in ToSet(cache.table) : cache.rec[r].path # path}
  BY DropIs DEF IInv
<1> HIDE DEF b
<1>2. Firm(b)
  BY <1>1 DEF Firm
<1>3. Lasting(b)
  <2> SUFFICES ASSUME Known, owned = "yes", HasNamed(cache) PROVE HasNamed(b)
    BY DEF Lasting
  <2> DEFINE k == ByAddress(cache)
  <2>1. k \in ToSet(cache.table) /\ cache.rec[k].named /\ k # NoRecord
    BY <1>1, ByAddressIs
  <2>2. cache.rec[k].paired \/ cache.rec[k].trusted
    BY <2>1 DEF Known
  <2> HIDE DEF k
  <2> QED BY <1>1, <2>1, <2>2 DEF HasNamed
<1>4. Truthful(b, o)
  <2> SUFFICES ASSUME ConnectedIsTrue, NEW q \in ToSet(b.table), b.rec[q].connected, ~b.rec[q].detached
               PROVE  Lit(b.rec[q].path, o)
    BY DEF Truthful, TrueIn
  <2>1. q \in ToSet(cache.table) /\ cache.rec[q].path # path /\ cache.rec[q].path \in Adapters
    BY <1>1, BookIs
  <2>2. (object[cache.rec[q].path].present /\ object[cache.rec[q].path].connected) \/ overtaken[cache.rec[q].path]
    BY <1>1, <2>1 DEF ConnectedIsTrue
  <2>3. o[cache.rec[q].path] = object[cache.rec[q].path]
    BY <2>1
  <2> QED BY <1>1, <2>1, <2>2, <2>3, LitSame
<1>5. Bare(b, o)
  <2>1. Empty(cache) => Empty(b)
    BY <1>1 DEF Empty
  <2> QED BY <2>1 DEF Bare
<1> QED BY <1>1, <1>2, <1>3, <1>4, <1>5 DEF Follows, b

(* A device of an object.                                                  *)
LEMMA FromObjectIs ==
    ASSUME NEW path \in Adapters, NEW o \in Object
    PROVE  /\ FromObject(path, o) \in Device /\ FromObject(path, o).path = path
           /\ FromObject(path, o).named /\ ~FromObject(path, o).detached
           /\ FromObject(path, o).connected = o.connected
BY DEF FromObject, Device, Object

(* A withdrawn object.                                                     *)
LEMMA WithdrawnFollows ==
    ASSUME IInv, NEW path \in Adapters
    PROVE  Follows(Withdrawn(cache, path), [object EXCEPT ![path] = NoObject])
<1> DEFINE o == [object EXCEPT ![path] = NoObject]
           r == Lookup(cache, path)
<1>0. Book(cache) /\ \A a \in Adapters : a # path => o[a] = object[a]
  BY DEF IInv
<1>1. \/ r = NoRecord /\ \A q \in ToSet(cache.table) : cache.rec[q].path # path
      \/ r \in ToSet(cache.table) /\ r \in Records /\ cache.rec[r].path = path
  BY <1>0, LookupIs
<1>2. CASE r # NoRecord /\ (cache.rec[r].paired \/ cache.rec[r].trusted)
  <2> DEFINE d == [cache.rec[r] EXCEPT !.detached = TRUE, !.connected = FALSE]
  <2>1. Withdrawn(cache, path) = [cache EXCEPT !.rec[r].detached = TRUE, !.rec[r].connected = FALSE]
    BY <1>2 DEF Withdrawn
  <2> HIDE DEF r
  <2>2. r \in Records /\ cache.rec[r] \in Device /\ cache \in [rec : [Records -> Device], table : Seq(Records)]
    BY <1>0, <1>1, <1>2, BookIs DEF Book
  <2>3. Withdrawn(cache, path) = [cache EXCEPT !.rec[r] = d]
    BY <2>1, <2>2
  <2>4. d \in Device /\ d.path = cache.rec[r].path /\ d.named = cache.rec[r].named /\ d.connected = FALSE
    BY <2>2 DEF Device
  <2> HIDE DEF d, o
  <2>5. Follows([cache EXCEPT !.rec[r] = d], o)
    BY <1>0, <1>1, <1>2, <2>2, <2>4, RewriteFollows
  <2> QED BY <2>3, <2>5 DEF o
<1>3. CASE ~(r # NoRecord /\ (cache.rec[r].paired \/ cache.rec[r].trusted))
  <2>1. Withdrawn(cache, path) = Drop(cache, path)
    BY <1>3 DEF Withdrawn
  <2> HIDE DEF r, o
  <2>2. \A q \in ToSet(cache.table) : cache.rec[q].path = path => ~(cache.rec[q].paired \/ cache.rec[q].trusted)
    BY <1>0, <1>1, <1>3, BookIs DEF NoRecord, Records
  <2>3. Follows(Drop(cache, path), o)
    BY <1>0, <2>2, DropFollows
  <2> QED BY <2>1, <2>3 DEF o
<1> QED BY <1>2, <1>3

(* A changed object: what changed is written, and what did not was right.  *)
LEMMA ChangedFollows ==
    ASSUME IInv, NEW path \in Adapters, NEW new \in Object, object[path].present, new.present
    PROVE  Follows(Changed(cache, path, object[path], new), [object EXCEPT ![path] = new])
<1> DEFINE old == object[path]
           Patch(d) == [d EXCEPT !.connected = IF new.connected # old.connected THEN new.connected ELSE @,
                                 !.paired = IF new.paired # old.paired THEN new.paired ELSE @,
                                 !.trusted = IF new.trusted # old.trusted THEN new.trusted ELSE @]
           o == [object EXCEPT ![path] = new]
           r == Lookup(cache, path)
<1>0. /\ Book(cache) /\ \A a \in Adapters : a # path => o[a] = object[a]
      /\ o[path] = new /\ old \in Object
  BY DEF IInv
<1>1. \/ r = NoRecord /\ \A q \in ToSet(cache.table) : cache.rec[q].path # path
      \/ r \in ToSet(cache.table) /\ r \in Records /\ cache.rec[r].path = path
  BY <1>0, LookupIs
<1>2. ASSUME NEW d \in Device
      PROVE  /\ Patch(d) \in Device /\ Patch(d).path = d.path /\ Patch(d).named = d.named
             /\ Patch(d).detached = d.detached
             /\ Patch(d).connected = IF new.connected # old.connected THEN new.connected ELSE d.connected
  BY <1>0 DEF Device, Object
<1>3. CASE r # NoRecord
  <2> DEFINE d == Patch(cache.rec[r])
  <2>1. Changed(cache, path, object[path], new) = [cache EXCEPT !.rec[r] = d]
    BY <1>3 DEF Changed
  <2> HIDE DEF r, Patch, o
  <2>2. r \in Records /\ r \in ToSet(cache.table) /\ cache.rec[r] \in Device /\ cache.rec[r].path = path
    BY <1>0, <1>1, <1>3, BookIs
  <2>3. d \in Device /\ d.path = path /\ d.named = cache.rec[r].named /\ d.detached = cache.rec[r].detached
        /\ d.connected = IF new.connected # old.connected THEN new.connected ELSE cache.rec[r].connected
    BY <1>2, <2>2
  <2> HIDE DEF d
  <2>4. (ConnectedIsTrue /\ d.connected /\ ~d.detached) => Lit(d.path, o)
    <3>1. ConnectedIsTrue /\ cache.rec[r].connected /\ ~cache.rec[r].detached => old.connected \/ overtaken[path]
      BY <2>2 DEF ConnectedIsTrue
    <3>2. new.connected => Lit(path, o)
      BY <1>0 DEF Lit
    <3>3. (new.connected = old.connected /\ overtaken[path]) => Lit(path, o)
      BY <1>0 DEF Lit, OvertakenBy, Link, Object
    <3>4. new.connected \in BOOLEAN /\ old.connected \in BOOLEAN
      BY <1>0 DEF Object
    <3> HIDE DEF old
    <3> QED BY <2>3, <3>1, <3>2, <3>3, <3>4
  <2>5. Follows([cache EXCEPT !.rec[r] = d], o)
    BY <1>0, <2>2, <2>3, <2>4, RewriteFollows
  <2> QED BY <2>1, <2>5 DEF o
<1>4. CASE r = NoRecord
  <2> DEFINE u == [Unused EXCEPT !.path = path]
             d == Patch(u)
  <2>1. Changed(cache, path, object[path], new) = Put(cache, d)
    BY <1>4 DEF Changed
  <2>2. u \in Device /\ u.path = path /\ u.connected = FALSE
    BY DEF Unused, Device
  <2> HIDE DEF r, Patch, o, u
  <2>3. d \in Device /\ d.path = path
        /\ d.connected = IF new.connected # old.connected THEN new.connected ELSE FALSE
    BY <1>2, <2>2
  <2>4. \A q \in ToSet(cache.table) : cache.rec[q].path # d.path
    BY <1>0, <1>1, <1>4, <2>3, BookIs DEF NoRecord, Records
  <2>5. d.connected => Lit(path, o)
    <3>1. d.connected => new.connected
      BY <1>0, <2>3
    <3> QED BY <1>0, <3>1 DEF Lit
  <2> HIDE DEF d
  <2>6. Follows(Put(cache, d), o)
    BY <1>0, <2>3, <2>4, <2>5, PutFollows
  <2> QED BY <2>1, <2>6 DEF o
<1> QED BY <1>3, <1>4

(* What the bridge makes of BlueZ's signals.                               *)
LEMMA HeardFollows ==
    ASSUME IInv, NEW path \in Adapters, NEW new \in Object, new.present \/ new = NoObject
    PROVE  Follows(Heard(cache, path, object[path], new), [object EXCEPT ![path] = new])
<1>0. object \in [Adapters -> Object] /\ (object[path].present \/ object[path] = NoObject) /\ ~NoObject.present
      /\ object[path].present \in BOOLEAN /\ new.present \in BOOLEAN
  BY DEF IInv, NoObject, Object
<1>1. CASE ~object[path].present /\ new.present
  <2> DEFINE d == FromObject(path, new)
  <2>1. Heard(cache, path, object[path], new) = Put(cache, d)
    BY <1>0, <1>1 DEF Heard
  <2>2. d \in Device /\ d.path = path /\ d.named /\ d.connected = new.connected
    BY FromObjectIs
  <2> HIDE DEF d
  <2> DEFINE o == [object EXCEPT ![path] = new]
  <2>3. o[path] = new /\ \A a \in Adapters : a # path => o[a] = object[a]
    BY <1>0
  <2> HIDE DEF o
  <2>4. d.connected => Lit(path, o)
    BY <1>1, <2>2, <2>3 DEF Lit
  <2>5. Follows(Put(cache, d), o)
    BY <1>1, <2>2, <2>3, <2>4, PutFollows
  <2> QED BY <2>1, <2>5 DEF o
<1>2. CASE object[path].present /\ ~new.present
  <2>1. Heard(cache, path, object[path], new) = Withdrawn(cache, path) /\ new = NoObject
    BY <1>0, <1>2 DEF Heard
  <2> QED BY <2>1, WithdrawnFollows
<1>3. CASE object[path].present /\ new.present /\ object[path] # new
  <2>1. Heard(cache, path, object[path], new) = Changed(cache, path, object[path], new)
    BY <1>0, <1>3 DEF Heard
  <2> QED BY <1>3, <2>1, ChangedFollows
<1>4. CASE object[path] = new
  <2>1. Heard(cache, path, object[path], new) = cache
    BY <1>0, <1>4 DEF Heard
  <2>2. [object EXCEPT ![path] = new] = object
    BY <1>0, <1>4
  <2> QED BY <2>1, <2>2, Stays
<1> QED BY <1>0, <1>1, <1>2, <1>3, <1>4

-----------------------------------------------------------------------------
(* The steps of an operation.                                              *)

(* What is left to wait when c goes on.                                    *)
Dequeued(c) ==
    ready' \in Seq(Callers) /\ IsInjective(ready') /\ ToSet(ready') = ToSet(ready) \ {c}

(* BlueZ's objects are objects, and one that is absent has no properties.  *)
Objects(o) == o \in [Adapters -> Object] /\ \A a \in Adapters : o[a].present \/ o[a] = NoObject

(* A whole step of c.                                                      *)
Advances(c) ==
    /\ \E n \in Op : \E b : Moves(c, n, b)
    /\ Dequeued(c)
    /\ Objects(object')

(* The ways to leave the queue.                                            *)
LEMMA Dequeues ==
    ASSUME IInv, NEW c \in Callers,
           \/ ready' = ready /\ op[c].pc \notin Calls
           \/ ready # <<>> /\ Head(ready) = c /\ ready' = Tail(ready)
           \/ ready' = Without(ready, {c})
    PROVE  Dequeued(c)
<1>1. ready \in Seq(Callers) /\ IsInjective(ready) /\ ToSet(ready) = {d \in Callers : op[d].answer # "none"}
  BY DEF IInv
<1>2. CASE ready' = ready /\ op[c].pc \notin Calls
  <2>1. op[c].answer = "none"
    BY <1>2 DEF IInv, Proper
  <2> QED BY <1>1, <1>2, <2>1 DEF Dequeued
<1>3. CASE ready # <<>> /\ Head(ready) = c /\ ready' = Tail(ready)
  BY <1>1, <1>3, Tailed DEF Dequeued
<1>4. CASE ready' = Without(ready, {c})
  BY <1>1, <1>4, WithoutIs DEF Dequeued
<1> QED BY <1>2, <1>3, <1>4

(* An operation that goes on, without the end of a removal.                *)
LEMMA Goes ==
    ASSUME IInv, NEW c \in Callers, NEW n \in Op, NEW b, Follows(b, object'), Keep(b), ~Removes(c),
           op' = [op EXCEPT ![c] = n], Proper(n), n.answer = "none", Locks(c, n, b)
    PROVE  Moves(c, n, b)
BY DEF Moves, Follows

(* An operation that is not a removal ends.                                *)
LEMMA Ends ==
    ASSUME IInv, NEW c \in Callers, Finish(c), NEW b, Follows(b, object'), Keep(b),
           op[c].kind # "remove" \/ op[c].pc = "resolving"
    PROVE  \E n \in Op : \E m : Moves(c, n, m)
<1>1. ~Removes(c)
  BY DEF Removes
<1>2. op' = [op EXCEPT ![c] = Idle] /\ Proper(Idle) /\ Idle.answer = "none" /\ Locks(c, Idle, b)
  BY Finishes
<1>3. Idle \in Op
  BY IdleIs DEF Proper
<1> QED BY <1>1, <1>2, <1>3, Goes

(* An operation keeps its record, and waits for the next call.             *)
LEMMA Continues ==
    ASSUME IInv, NEW c \in Callers, NEW pc \in Pcs, NEW r, r = op[c].rec, r \in Records,
           Become(c, op[c], pc, r), NEW b, Follows(b, object'), Keep(b),
           op[c].pc \notin {"idle", "resolving"},
           op[c].kind \in Operators => pc \in {"resetting", "resting", "connecting", "trusting"},
           op[c].kind = "remove" => pc \in Removing,
           op[c].kind = "pair" => pc \in {"connecting", "trusting"},
           op[c].kind # "disconnect"
    PROVE  \E n \in Op : \E m : Moves(c, n, m)
<1>1. /\ op[c] \in Op /\ op[c].kind \in Kinds /\ Proper(op[c]) /\ op \in [Callers -> Op]
      /\ Firm(b) /\ r \in Records \cup {NoRecord}
  BY IdleIs DEF IInv, Proper, Op, Follows
<1>2. (op[c].kind \in Operators /\ pc # "resolving")
        => Connects(c) /\ op[c].pc # "resolving" /\ r = op[c].rec /\ r \in Records
  BY DEF Operators, Connects
<1>3. PICK n \in Op : /\ op' = [op EXCEPT ![c] = n]
                      /\ n.pc = pc /\ n.rec = r /\ n.answer = "none"
                      /\ n.kind = op[c].kind /\ n.stage = op[c].stage /\ n.at = op[c].at
                      /\ Locks(c, n, b)
  BY <1>1, <1>2, Becomes
<1>4. pc \in Removing \cup {"resetting", "resting", "connecting", "trusting"}
  BY <1>1 DEF Kinds, Operators
<1>5. Proper(n)
  BY <1>1, <1>3, <1>4 DEF Proper, Operators, Removing, Calls, Kinds
<1>6. ~Removes(c)
  BY <1>1, <1>3, <1>4 DEF Removes, Removing
<1> QED BY <1>1, <1>3, <1>5, <1>6, Goes

(* What an operation in flight is.                                         *)
LEMMA InFlight ==
    ASSUME IInv, NEW c \in Callers
    PROVE  /\ op[c] \in Op /\ Proper(op[c]) /\ (op[c].pc # "idle" => op[c].kind \in Kinds /\ Asker(op[c]))
           /\ op[c].pc \notin {"idle", "resolving", "seeking", "settling"} => op[c].rec \in Records
           /\ op[c].pc = "idle" => op[c].kind = "none" /\ op[c].rec = NoRecord
           /\ (op[c].pc = "settling" /\ Connects(c)) => op[c].rec \in Records
           /\ op \in [Callers -> Op]
<1>1. op[c] \in Op /\ Proper(op[c]) /\ op \in [Callers -> Op]
  BY DEF IInv
<1>2. op[c].kind \in Kinds \cup {"none"}
  BY <1>1 DEF Op
<1>3. op[c].pc = "idle" => op[c].kind = "none" /\ op[c].rec = NoRecord
  BY <1>1, <1>2, IdleIs DEF Proper, Kinds, Operators, Removing
<1>4. op[c].pc # "idle" => op[c].kind \in Kinds
  BY <1>1, <1>2, IdleIs DEF Proper
<1>5. op[c].pc # "idle" => Asker(op[c])
  BY <1>1, <1>4 DEF Proper, Asker
<1>6. op[c].pc \notin {"idle", "resolving", "seeking", "settling"} => op[c].rec \in Records
  BY <1>1 DEF Proper
<1>7. (op[c].pc = "settling" /\ Connects(c)) => op[c].rec \in Records
  BY <1>1 DEF Proper, Connects
<1> QED BY <1>1, <1>3, <1>4, <1>5, <1>6, <1>7

(* BlueZ's objects, left alone.                                            *)
LEMMA Unchanging ==
    ASSUME IInv, object' = object
    PROVE  Objects(object')
BY DEF IInv, Objects

(* A property of a record is written.                                      *)
LEMMA Writes ==
    ASSUME IInv, NEW r \in Records
    PROVE  /\ Follows([cache EXCEPT !.rec[r].connected = FALSE], object)
           /\ Follows([cache EXCEPT !.rec[r].detached = TRUE, !.rec[r].connected = FALSE], object)
           /\ \A v \in BOOLEAN : Follows([cache EXCEPT !.rec[r].trusted = v], object)
           /\ \A v \in BOOLEAN : Follows([cache EXCEPT !.rec[r].paired = v], object)
           /\ (Fresh => Lit(cache.rec[r].path, object))
                => Follows([cache EXCEPT !.rec[r].connected = TRUE], object)
<1> DEFINE d == cache.rec[r]
<1>1. cache \in [rec : [Records -> Device], table : Seq(Records)] /\ d \in Device
  BY BookIs DEF IInv, Book
<1>2. (ConnectedIsTrue /\ r \in ToSet(cache.table) /\ d.connected /\ ~d.detached) => Lit(d.path, object)
  <2>1. d.path \in Adapters
    BY <1>1 DEF Device
  <2> QED BY <2>1, LitSame DEF ConnectedIsTrue
<1>3. ASSUME NEW e \in Device, e.path = d.path, e.named = d.named,
             (Fresh /\ ConnectedIsTrue /\ r \in ToSet(cache.table) /\ e.connected /\ ~e.detached)
               => Lit(d.path, object)
      PROVE  Follows([cache EXCEPT !.rec[r] = e], object)
  <2> HIDE DEF d
  <2>1. e.path = cache.rec[r].path /\ e.named = cache.rec[r].named
    BY <1>3 DEF d
  <2> QED BY <1>3, <2>1, RewriteFollows
<1>4. Follows([cache EXCEPT !.rec[r].connected = FALSE], object)
  <2> DEFINE e == [d EXCEPT !.connected = FALSE]
  <2>1. [cache EXCEPT !.rec[r].connected = FALSE] = [cache EXCEPT !.rec[r] = e]
    BY <1>1
  <2>2. e \in Device /\ e.path = d.path /\ e.named = d.named /\ ~e.connected
    BY <1>1 DEF Device
  <2> HIDE DEF d, e
  <2> QED BY <1>3, <2>1, <2>2
<1>5. Follows([cache EXCEPT !.rec[r].detached = TRUE, !.rec[r].connected = FALSE], object)
  <2> DEFINE e == [d EXCEPT !.detached = TRUE, !.connected = FALSE]
  <2>1. [cache EXCEPT !.rec[r].detached = TRUE, !.rec[r].connected = FALSE] = [cache EXCEPT !.rec[r] = e]
    BY <1>1
  <2>2. e \in Device /\ e.path = d.path /\ e.named = d.named /\ ~e.connected
    BY <1>1 DEF Device
  <2> HIDE DEF d, e
  <2> QED BY <1>3, <2>1, <2>2
<1>6. ASSUME NEW v \in BOOLEAN PROVE Follows([cache EXCEPT !.rec[r].trusted = v], object)
  <2> DEFINE e == [d EXCEPT !.trusted = v]
  <2>1. [cache EXCEPT !.rec[r].trusted = v] = [cache EXCEPT !.rec[r] = e]
    BY <1>1
  <2>2. e \in Device /\ e.path = d.path /\ e.named = d.named
        /\ e.connected = d.connected /\ e.detached = d.detached
    BY <1>1 DEF Device
  <2> HIDE DEF d, e
  <2> QED BY <1>2, <1>3, <2>1, <2>2
<1>7. ASSUME NEW v \in BOOLEAN PROVE Follows([cache EXCEPT !.rec[r].paired = v], object)
  <2> DEFINE e == [d EXCEPT !.paired = v]
  <2>1. [cache EXCEPT !.rec[r].paired = v] = [cache EXCEPT !.rec[r] = e]
    BY <1>1
  <2>2. e \in Device /\ e.path = d.path /\ e.named = d.named
        /\ e.connected = d.connected /\ e.detached = d.detached
    BY <1>1 DEF Device
  <2> HIDE DEF d, e
  <2> QED BY <1>2, <1>3, <2>1, <2>2
<1>8. ASSUME Fresh => Lit(d.path, object)
      PROVE  Follows([cache EXCEPT !.rec[r].connected = TRUE], object)
  <2> DEFINE e == [d EXCEPT !.connected = TRUE]
  <2>1. [cache EXCEPT !.rec[r].connected = TRUE] = [cache EXCEPT !.rec[r] = e]
    BY <1>1
  <2>2. e \in Device /\ e.path = d.path /\ e.named = d.named
    BY <1>1 DEF Device
  <2> HIDE DEF d, e
  <2> QED BY <1>3, <1>8, <2>1, <2>2
<1> QED BY <1>4, <1>5, <1>6, <1>7, <1>8

(* A task that resumes has its answer, and is no longer waiting.           *)
LEMMA Resuming ==
    ASSUME IInv, NEW c \in Callers, NEW pc, Resumes(c, pc)
    PROVE  /\ Dequeued(c) /\ object' = object /\ Objects(object') /\ op[c].pc = pc
           /\ op[c].answer # "none" /\ op[c].pc \in Calls
<1>1. ready # <<>> /\ Head(ready) = c /\ ready' = Tail(ready) /\ object' = object /\ op[c].pc = pc
  BY DEF Resumes
<1>2. ready \in Seq(Callers) /\ ToSet(ready) = {d \in Callers : op[d].answer # "none"} /\ IsInjective(ready)
  BY DEF IInv
<1>3. Head(ready) \in ToSet(ready)
  BY <1>1, <1>2, Tailed
<1>4. op[c].answer # "none"
  BY <1>1, <1>2, <1>3
<1>5. op[c].pc \in Calls
  BY <1>4, InFlight DEF Proper
<1> QED BY <1>1, <1>4, <1>5, Dequeues, Unchanging

(* Operations begin.                                                       *)
LEMMA Starting ==
    ASSUME IInv, NEW c \in Callers, op[c].pc = "idle", object' = object, ready' = ready
    PROVE  Asks(c) /\ Dequeued(c) /\ Objects(object') /\ Follows(cache, object)
<1>1. op[c].pc \notin Calls
  BY DEF Calls
<1>2. op[c].kind # "remove"
  BY InFlight
<1> QED BY <1>1, <1>2, Dequeues, Unchanging, Stays DEF Asks

(* connect_device and disconnect_device.                                   *)
LEMMA StartMoves ==
    ASSUME IInv, NEW c \in Callers, NEW kind \in Kinds, Start(c, kind)
    PROVE  Advances(c)
<1>1. op[c].pc = "idle" /\ object' = object /\ ready' = ready /\ Ensure(c, Request(kind), cache)
  BY DEF Start, Begins
<1> QED BY <1>1, Starting, RequestIs, Ensures DEF Advances

(* pair_and_trust.                                                         *)
LEMMA StartPairMoves ==
    ASSUME IInv, NEW c \in Callers, StartPair(c)
    PROVE  Advances(c)
<1> DEFINE q == [Request("pair") EXCEPT !.stage = "first"]
<1>1. op[c].pc = "idle" /\ object' = object /\ ready' = ready /\ Become(c, q, "settling", NoRecord) /\ Keep(cache)
  BY DEF StartPair, Begins
<1>2. q \in Op /\ q.kind = "pair" /\ q.stage = "first"
  <2>1. Request("pair") \in Op /\ Request("pair").kind = "pair"
    BY RequestIs DEF Asker, Kinds
  <2> QED BY <2>1 DEF Op, Stages
<1> HIDE DEF q
<1>3. Asks(c) /\ Dequeued(c) /\ Objects(object') /\ Follows(cache, object) /\ Firm(cache) /\ "settling" \in Pcs
  BY <1>1, Starting DEF Follows, Pcs
<1>4. PICK n \in Op : /\ op' = [op EXCEPT ![c] = n]
                      /\ n.pc = "settling" /\ n.rec = NoRecord /\ n.answer = "none"
                      /\ n.kind = q.kind /\ n.stage = q.stage /\ n.at = q.at
                      /\ Locks(c, n, cache)
  BY <1>1, <1>2, <1>3, Becomes DEF Operators
<1>5. Proper(n)
  BY <1>2, <1>4 DEF Proper, Operators, Calls
<1>6. Moves(c, n, cache)
  BY <1>1, <1>3, <1>4, <1>5, Arrives
<1> QED BY <1>1, <1>3, <1>6 DEF Advances

(* remove_device.                                                          *)
LEMMA StartRemoveMoves ==
    ASSUME IInv, NEW c \in Callers, StartRemove(c)
    PROVE  Advances(c)
<1> DEFINE r == ByAddress(cache)
           q == [Request("remove") EXCEPT !.offline = cache.rec[r].detached]
<1>1. op[c].pc = "idle" /\ object' = object /\ ready' = ready
  BY DEF StartRemove, Begins
<1>2. Asks(c) /\ Dequeued(c) /\ Objects(object') /\ Follows(cache, object)
  BY <1>1, Starting
<1>3. Asker(Request("remove")) /\ Request("remove").kind = "remove" /\ Request("remove").stage = "none"
  BY RequestIs DEF Kinds
<1>4. CASE r = NoRecord
  <2>1. Ensure(c, Request("remove"), cache)
    BY <1>4 DEF StartRemove
  <2> QED BY <1>1, <1>2, <1>3, <2>1, Ensures DEF Advances
<1>5. CASE r # NoRecord
  <2>1. Found(c, q, cache, r)
    BY <1>5 DEF StartRemove
  <2>2. r \in Records
    BY <1>5, ByAddressIs DEF IInv
  <2> HIDE DEF r
  <2>3. cache.rec[r].detached \in BOOLEAN
    BY <2>2, BookIs DEF IInv
  <2>4. Asker(q)
    BY <1>3, <2>3 DEF Asker, Op
  <2> HIDE DEF q
  <2> QED BY <1>1, <1>2, <2>1, <2>2, <2>4, Finds DEF Advances
<1> QED BY <1>4, <1>5

(* BlueZ has been asked for the speaker's object.                          *)
LEMMA ResolveMoves ==
    ASSUME IInv, NEW c \in Callers, Resolve(c)
    PROVE  Advances(c)
<1> DEFINE o == op[c]
           current == Lookup(cache, o.at)
           d == FromObject(o.at, o.seen)
           b == Put(cache, d)
<1>1. Dequeued(c) /\ object' = object /\ Objects(object') /\ o.pc = "resolving"
  BY Resuming DEF Resolve
<1>2. Asks(c) /\ Asker(o) /\ o \in Op /\ o.at \in Adapters /\ o.seen \in Object
  BY <1>1, InFlight, OpType DEF Asks
<1>3. \E n \in Op : \E m : Moves(c, n, m)
  <2>1. CASE o.answer = "ok" /\ current # NoRecord /\ Found(c, o, cache, current)
    <3>1. current \in Records
      BY <1>2, <2>1, LookupIs DEF IInv
    <3> QED BY <1>2, <2>1, <3>1, Stays, Finds
  <2>2. CASE o.answer = "ok" /\ Found(c, o, b, NewRecord(cache))
    <3>1. d \in Device /\ d.path = o.at /\ d.named /\ d.connected = o.seen.connected
      BY <1>2, FromObjectIs
    <3>2. Fresh => /\ object[o.at].present \/ overtaken[o.at]
                   /\ o.seen.connected => Lit(o.at, object)
      <4>1. Fresh => (object[o.at].present /\ (o.seen.connected => object[o.at].connected)) \/ overtaken[o.at]
        BY <1>1, <2>2 DEF Fresh
      <4> QED BY <1>2, <4>1, LitSame
    <3>3. NewRecord(cache) \in Records
      BY NewRecordIs DEF IInv
    <3> HIDE DEF d
    <3>4. Follows(b, object)
      BY <3>1, <3>2, PutFollows
    <3> QED BY <1>2, <2>2, <3>3, <3>4, Finds
  <2>3. CASE o.at < MaxAdapters /\ Become(c, [o EXCEPT !.at = @ + 1], "resolving", o.rec) /\ Keep(cache)
    <3>1. o.at + 1 \in Adapters
      BY <1>2, <2>3, First DEF Adapters
    <3> QED BY <1>2, <2>3, <3>1, Stays, Looks
  <2>4. CASE NotFound(c, o)
    BY <1>2, <2>4, FindsNothing
  <2> QED BY <2>1, <2>2, <2>3, <2>4 DEF Resolve
<1> QED BY <1>1, <1>3 DEF Advances

(* Under the lock.                                                         *)
LEMMA SettledMoves ==
    ASSUME IInv, NEW c \in Callers, Settled(c)
    PROVE  Advances(c)
<1>1. /\ op[c].pc = "settling" /\ Connects(c) /\ object' = object /\ ready' = ready /\ Keep(cache)
      /\ op[c].pc \notin Calls /\ op[c].rec \in Records
  BY InFlight DEF Settled, Calls
<1>2. Dequeued(c) /\ Objects(object') /\ Follows(cache, object')
  BY <1>1, Dequeues, Unchanging, Stays
<1>3. op[c].kind \in Operators /\ op[c].kind \notin {"remove", "pair", "disconnect"}
  BY <1>1 DEF Connects, Operators
<1>4. CASE Finish(c)
  BY <1>1, <1>2, <1>3, <1>4, Ends DEF Advances
<1>5. ASSUME NEW pc \in {"resetting", "connecting"}, Become(c, op[c], pc, op[c].rec)
      PROVE  Advances(c)
  <2>1. pc \in Pcs
    BY DEF Pcs, Calls
  <2> QED BY <1>1, <1>2, <1>3, <1>5, <2>1, Continues DEF Advances
<1> QED BY <1>4, <1>5 DEF Settled

(* A pairing whose adapter has settled looks for the speaker.              *)
LEMMA PairSettledMoves ==
    ASSUME IInv, NEW c \in Callers, PairSettled(c)
    PROVE  Advances(c)
<1>1. /\ op[c].pc = "settling" /\ op[c].kind = "pair" /\ object' = object /\ ready' = ready
      /\ op[c].pc \notin Calls /\ Ensure(c, op[c], cache)
  BY DEF PairSettled, Calls
<1>2. Dequeued(c) /\ Objects(object') /\ Asks(c) /\ Asker(op[c])
  BY <1>1, Dequeues, Unchanging, InFlight DEF Asks
<1> QED BY <1>1, <1>2, Stays, Ensures DEF Advances

(* The link is reset.                                                      *)
LEMMA ResetMoves ==
    ASSUME IInv, NEW c \in Callers, Reset(c)
    PROVE  Advances(c)
<1>1. Dequeued(c) /\ object' = object /\ Objects(object') /\ op[c].pc = "resetting"
  BY Resuming DEF Reset
<1>2. op[c].rec \in Records /\ op[c].kind \in Operators
  BY <1>1, InFlight DEF Proper, Kinds, Operators, Removing
<1>3. Follows(Unlinked(c), object') /\ Keep(Unlinked(c)) /\ Become(c, op[c], "resting", op[c].rec)
  BY <1>1, <1>2, Writes DEF Unlinked, Reset
<1>4. "resting" \in Pcs /\ op[c].kind \notin {"remove", "pair", "disconnect"}
  BY <1>2 DEF Pcs, Operators
<1> QED BY <1>1, <1>2, <1>3, <1>4, Continues DEF Advances

(* And has rested.                                                         *)
LEMMA RestedMoves ==
    ASSUME IInv, NEW c \in Callers, Rested(c)
    PROVE  Advances(c)
<1>1. /\ op[c].pc = "resting" /\ object' = object /\ ready' = ready /\ Keep(cache)
      /\ op[c].pc \notin Calls
  BY DEF Rested, Calls
<1>2. op[c].rec \in Records /\ op[c].kind \in Operators
  BY <1>1, InFlight DEF Proper, Kinds, Operators, Removing
<1>3. Dequeued(c) /\ Objects(object') /\ Follows(cache, object')
  BY <1>1, Dequeues, Unchanging, Stays
<1>4. "connecting" \in Pcs /\ op[c].kind \notin {"remove", "pair", "disconnect"}
  BY <1>2 DEF Pcs, Calls, Operators
<1>5. CASE Finish(c)
  BY <1>1, <1>3, <1>4, <1>5, Ends DEF Advances
<1>6. CASE Become(c, op[c], "connecting", op[c].rec)
  BY <1>1, <1>2, <1>3, <1>4, <1>6, Continues DEF Advances
<1> QED BY <1>5, <1>6 DEF Rested

(* A connection that succeeds: the link is up, unless it was overtaken.    *)
LEMMA ConnectSucceedsMoves ==
    ASSUME IInv, NEW c \in Callers, ConnectSucceeds(c)
    PROVE  Advances(c)
<1>1. Dequeued(c) /\ object' = object /\ Objects(object') /\ op[c].pc = "connecting" /\ op[c].answer = "ok"
  BY Resuming DEF ConnectSucceeds
<1>2. op[c].rec \in Records /\ op[c].kind \in Operators \cup {"pair"}
  BY <1>1, InFlight DEF Proper, Kinds, Operators, Removing
<1> DEFINE b == [cache EXCEPT !.rec[op[c].rec].connected = TRUE]
<1>3. Keep(b) /\ Become(c, op[c], "trusting", op[c].rec)
  BY DEF ConnectSucceeds
<1>4. Follows(b, object')
  <2>1. Fresh => Lit(cache.rec[op[c].rec].path, object)
    <3>1. Fresh => (object[Path(c)].present /\ object[Path(c)].connected) \/ overtaken[Path(c)]
      BY <1>1 DEF Fresh
    <3>2. Path(c) \in Adapters /\ Path(c) = cache.rec[op[c].rec].path
      BY <1>2, BookIs DEF IInv, Path
    <3> QED BY <3>1, <3>2, LitSame
  <2> QED BY <1>1, <1>2, <2>1, Writes
<1> HIDE DEF b
<1>5. "trusting" \in Pcs /\ op[c].kind \notin {"remove", "disconnect"}
  BY <1>2 DEF Pcs, Calls, Operators
<1> QED BY <1>1, <1>2, <1>3, <1>4, <1>5, Continues DEF Advances

(* A connection that fails.                                                *)
LEMMA ConnectFailsMoves ==
    ASSUME IInv, NEW c \in Callers, ConnectFails(c)
    PROVE  Advances(c)
<1>1. Dequeued(c) /\ object' = object /\ Objects(object') /\ op[c].pc = "connecting" /\ Finish(c)
  BY Resuming DEF ConnectFails
<1>2. op[c].rec \in Records /\ op[c].kind # "remove"
  BY <1>1, InFlight DEF Proper, Removing
<1>3. \E b : Follows(b, object') /\ Keep(b)
  BY <1>1, <1>2, Writes, Stays DEF ConnectFails
<1> QED BY <1>1, <1>2, <1>3, Ends DEF Advances

(* The end of a connection.                                                *)
LEMMA TrustedMoves ==
    ASSUME IInv, NEW c \in Callers, Trusted(c)
    PROVE  Advances(c)
<1>1. Dequeued(c) /\ object' = object /\ Objects(object') /\ op[c].pc = "trusting" /\ Finish(c)
  BY Resuming DEF Trusted
<1>2. op[c].rec \in Records /\ op[c].kind # "remove"
  BY <1>1, InFlight DEF Proper, Removing
<1>3. \E b : Follows(b, object') /\ Keep(b)
  BY <1>1, <1>2, Writes DEF Trusted
<1> QED BY <1>1, <1>2, <1>3, Ends DEF Advances

(* The end of a disconnection.                                             *)
LEMMA DisconnectedMoves ==
    ASSUME IInv, NEW c \in Callers, Disconnected(c)
    PROVE  Advances(c)
<1>1. Dequeued(c) /\ object' = object /\ Objects(object') /\ op[c].pc = "disconnecting" /\ Finish(c)
  BY Resuming DEF Disconnected
<1>2. op[c].rec \in Records /\ op[c].kind # "remove"
  BY <1>1, InFlight DEF Proper, Removing
<1>3. \E b : Follows(b, object') /\ Keep(b)
  BY <1>1, <1>2, Writes DEF Disconnected, Unlinked
<1> QED BY <1>1, <1>2, <1>3, Ends DEF Advances

(* BlueZ has paired, or not.                                               *)
LEMMA PairsMoves ==
    ASSUME IInv, NEW c \in Callers, Pairs(c)
    PROVE  Advances(c)
<1>1. Dequeued(c) /\ object' = object /\ Objects(object') /\ op[c].pc = "pairing"
  BY Resuming DEF Pairs
<1>2. op[c].rec \in Records /\ op[c].kind = "pair"
  BY <1>1, InFlight DEF Proper, Kinds, Operators, Removing
<1>3. CASE Finish(c) /\ Keep(cache)
  BY <1>1, <1>2, <1>3, Stays, Ends DEF Advances
<1>4. CASE /\ Become(c, op[c], "connecting", op[c].rec)
           /\ Keep([cache EXCEPT !.rec[op[c].rec].paired = TRUE])
  <2> DEFINE b == [cache EXCEPT !.rec[op[c].rec].paired = TRUE]
  <2>1. Follows(b, object') /\ Keep(b) /\ "connecting" \in Pcs
    BY <1>1, <1>2, <1>4, Writes DEF Pcs, Calls
  <2> HIDE DEF b
  <2> QED BY <1>1, <1>2, <1>4, <2>1, Continues DEF Advances, Operators
<1> QED BY <1>3, <1>4 DEF Pairs

(* An adapter has been asked for the speaker.                              *)
LEMMA SeekMoves ==
    ASSUME IInv, NEW c \in Callers, Seek(c)
    PROVE  Advances(c)
<1>1. Dequeued(c) /\ object' = object /\ Objects(object') /\ op[c].pc = "seeking"
  BY Resuming DEF Seek
<1>2. op[c].kind = "pair" /\ op[c].stage # "refresh" /\ Asker(op[c])
  BY <1>1, InFlight DEF Proper, Kinds, Operators, Removing
<1>3. Asks(c)
  BY <1>1, <1>2 DEF Asks
<1> QED BY <1>1, <1>2, <1>3, Stays, Ensures, SeeksNext DEF Seek, Advances

(* A removal.                                                              *)
LEMMA Drops ==
    ASSUME IInv, NEW c \in Callers, object' = object, op[c].kind = "remove", op[c].pc \in Removing,
           NEW b, Follows(b, object), Finish(c), Keep(Drop(b, Path(c)))
    PROVE  \E n \in Op : \E m : Moves(c, n, m)
<1> DEFINE d == Drop(b, Path(c))
<1>1. op[c].rec \in Records /\ Path(c) \in Adapters /\ Book(b)
  <2>1. op[c].rec \in Records
    BY InFlight DEF Removing
  <2> QED BY <2>1, BookIs DEF Path, IInv, Follows
<1>2. Book(d) /\ d.rec = b.rec /\ ToSet(d.table) = {r \in ToSet(b.table) : b.rec[r].path # Path(c)}
  BY <1>1, DropIs
<1> HIDE DEF d
<1>3. Firm(d) /\ Truthful(d, object)
  BY <1>2 DEF Follows, Firm, Truthful, TrueIn
<1>4. Bare(d, object)
  <2>1. Empty(b) => Empty(d)
    BY <1>2 DEF Empty
  <2> QED BY <2>1 DEF Follows, Bare
<1>5. op' = [op EXCEPT ![c] = Idle] /\ Proper(Idle) /\ Idle.answer = "none" /\ Locks(c, Idle, d) /\ Idle \in Op
  BY Finishes DEF Proper
<1>6. Removes(c)
  <2>1. op'[c] = Idle
    BY <1>5, InFlight
  <2> QED BY <2>1, IdleIs DEF Removes, Removing
<1>7. Keep(d)
  BY DEF d
<1>8. Moves(c, Idle, d)
  BY <1>2, <1>3, <1>4, <1>5, <1>6, <1>7 DEF Moves
<1> QED BY <1>5, <1>8

(* A removal past its look-up drops the record, or asks BlueZ to.          *)
LEMMA Dismisses ==
    ASSUME IInv, NEW c \in Callers, object' = object, op[c].kind = "remove", op[c].pc \in Removing,
           NEW b, Follows(b, object), Dismiss(c, b)
    PROVE  \E n \in Op : \E m : Moves(c, n, m)
<1>1. CASE Finish(c) /\ Keep(Drop(b, Path(c)))
  BY <1>1, Drops
<1>2. CASE Become(c, op[c], "removing", op[c].rec) /\ Keep(b)
  <2>1. op[c].rec \in Records /\ "removing" \in Pcs /\ "removing" \in Removing /\ op[c].pc \notin {"idle", "resolving"}
    BY InFlight DEF Removing, Pcs, Calls
  <2> QED BY <1>2, <2>1, Continues DEF Operators
<1> QED BY <1>1, <1>2 DEF Dismiss

(* The steps of a removal.                                                 *)
LEMMA RemovalMoves ==
    ASSUME IInv, NEW c \in Callers, Untrusted(c) \/ Dismissed(c) \/ Removed(c)
    PROVE  Advances(c)
<1>1. Dequeued(c) /\ object' = object /\ Objects(object') /\ op[c].pc \in Removing
  BY Resuming DEF Untrusted, Dismissed, Removed, Removing
<1>2. op[c].rec \in Records /\ op[c].kind = "remove"
  BY <1>1, InFlight DEF Proper, Kinds, Operators, Removing
<1>3. CASE Untrusted(c)
  <2> DEFINE b == [cache EXCEPT !.rec[op[c].rec].trusted = FALSE]
  <2>1. Follows(b, object)
    BY <1>2, Writes
  <2>2. (Become(c, op[c], "unlinking", op[c].rec) /\ Keep(b)) \/ Dismiss(c, b)
    BY <1>3 DEF Untrusted
  <2> HIDE DEF b
  <2>3. "unlinking" \in Pcs /\ "unlinking" \in Removing /\ op[c].pc \notin {"idle", "resolving"}
    BY <1>1 DEF Removing, Pcs, Calls
  <2> QED BY <1>1, <1>2, <2>1, <2>2, <2>3, Continues, Dismisses DEF Operators, Advances
<1>4. CASE Dismissed(c)
  <2>1. Follows(Unlinked(c), object) /\ Dismiss(c, Unlinked(c))
    BY <1>2, <1>4, Writes DEF Unlinked, Dismissed
  <2> QED BY <1>1, <1>2, <2>1, Dismisses DEF Advances
<1>5. CASE Removed(c)
  BY <1>1, <1>2, <1>5, Stays, Drops DEF Removed, Advances
<1> QED BY <1>3, <1>4, <1>5

-----------------------------------------------------------------------------
(* BlueZ.                                                                  *)

(* What BlueZ can make of an object.                                       *)
LEMMA EffectsAre ==
    ASSUME IInv, NEW c \in Callers, op[c].pc \in Calls, NEW new \in Effects(c)
    PROVE  /\ Asked(c) \in Adapters /\ new \in Object /\ (new.present \/ new = NoObject)
           /\ (op[c].pc \in {"connecting", "resolving"} /\ Possible(c))
                => object[Asked(c)].present
<1>1. Asked(c) \in Adapters
  <2>1. op[c].at \in Adapters /\ op[c].next \in Adapters
    BY InFlight, OpType
  <2>2. op[c].pc \notin {"resolving", "seeking"} => cache.rec[op[c].rec].path \in Adapters
    <3>1. op[c].pc \notin {"resolving", "seeking"} => op[c].rec \in Records
      BY InFlight DEF Calls
    <3> QED BY <3>1, BookIs DEF IInv
  <2> QED BY <2>1, <2>2 DEF Asked
<1> DEFINE o == object[Asked(c)]
<1>2. o \in Object /\ (o.present \/ o = NoObject)
  BY <1>1 DEF IInv
<1>3. Possible(c) => o.present = (op[c].pc # "seeking")
  BY DEF Possible
<1> HIDE DEF o
<1>4. NoObject \in Object
  BY DEF NoObject, Object
<1>5. Possible(c) => After(op[c].pc, o) \in Object /\ (After(op[c].pc, o).present \/ After(op[c].pc, o) = NoObject)
  <2> SUFFICES ASSUME Possible(c)
               PROVE  After(op[c].pc, o) \in Object /\ (After(op[c].pc, o).present \/ After(op[c].pc, o) = NoObject)
    OBVIOUS
  <2>1. CASE op[c].pc = "seeking"
    BY <1>4, <2>1 DEF After, Object
  <2>2. CASE op[c].pc = "removing"
    BY <1>4, <2>2 DEF After
  <2>3. CASE op[c].pc \notin {"seeking", "removing"}
    <3>1. o.present
      BY <1>3, <2>3
    <3> QED BY <1>2, <2>3, <3>1 DEF After, Object
  <2> QED BY <2>1, <2>2, <2>3
<1>6. new \in {o} \cup (IF Possible(c) THEN {After(op[c].pc, o)} ELSE {})
  BY DEF Effects, o
<1>7. (op[c].pc \in {"connecting", "resolving"} /\ Possible(c)) => object[Asked(c)].present
  BY <1>3 DEF o
<1> QED BY <1>1, <1>2, <1>5, <1>6, <1>7

(* An object that is replaced.                                             *)
LEMMA ObjectsAre ==
    ASSUME IInv, NEW a \in Adapters, NEW new \in Object, new.present \/ new = NoObject
    PROVE  Objects([object EXCEPT ![a] = new])
BY DEF IInv, Objects

(* A connection that is cut off, whatever BlueZ has done by then.          *)
LEMMA TimesOutMoves ==
    ASSUME IInv, NEW c \in Callers, TimesOut(c)
    PROVE  Advances(c)
<1>1. Dequeued(c) /\ Finish(c)
  BY Dequeues DEF TimesOut
<1>2. op[c].kind # "remove"
  BY DEF TimesOut, Connects
<1>3. CASE op[c].pc \in Calls /\ op[c].answer = "none"
  <2>1. PICK new \in Effects(c) :
               /\ object' = [object EXCEPT ![Asked(c)] = new]
               /\ Keep(Heard(cache, Asked(c), object[Asked(c)], new))
    BY <1>3 DEF TimesOut
  <2>3. Asked(c) \in Adapters /\ new \in Object /\ (new.present \/ new = NoObject)
    BY <1>3, <2>1, EffectsAre
  <2>4. Objects(object')
    BY <2>1, <2>3, ObjectsAre
  <2>5. Follows(Heard(cache, Asked(c), object[Asked(c)], new), object')
    BY <2>1, <2>3, HeardFollows
  <2> QED BY <1>1, <1>2, <2>1, <2>4, <2>5, Ends DEF Advances
<1>4. CASE object' = object /\ Keep(cache)
  BY <1>1, <1>2, <1>4, Stays, Unchanging, Ends DEF Advances
<1> QED BY <1>3, <1>4 DEF TimesOut

(* A task does one of these steps at a time.                               *)
LEMMA StepAdvances ==
    ASSUME IInv, NEW c \in Callers, Steps(c)
    PROVE  Advances(c)
<1>1. {"auto", "connect", "disconnect"} \in SUBSET Kinds
  BY DEF Kinds
<1>2. CASE \E kind \in {"auto", "connect", "disconnect"} : Start(c, kind)
  BY <1>1, <1>2, StartMoves
<1>3. CASE StartPair(c) \/ StartRemove(c) \/ Resolve(c) \/ Settled(c) \/ PairSettled(c)
  BY <1>3, StartPairMoves, StartRemoveMoves, ResolveMoves, SettledMoves, PairSettledMoves
<1>4. CASE Reset(c) \/ Rested(c) \/ ConnectSucceeds(c) \/ ConnectFails(c) \/ Trusted(c) \/ TimesOut(c)
  BY <1>4, ResetMoves, RestedMoves, ConnectSucceedsMoves, ConnectFailsMoves, TrustedMoves, TimesOutMoves
<1>5. CASE Disconnected(c) \/ Untrusted(c) \/ Dismissed(c) \/ Removed(c) \/ Seek(c) \/ Pairs(c)
  BY <1>5, DisconnectedMoves, RemovalMoves, SeekMoves, PairsMoves
<1> QED BY <1>2, <1>3, <1>4, <1>5 DEF Steps

(* What BlueZ does, with the answer of c or by itself: the bridge hears it. *)
Hears ==
    \E b :
      /\ Keep(b) /\ Follows(b, object') /\ Objects(object') /\ lock' = lock
      /\ \A c \in Callers : op'[c].pc = op[c].pc /\ op'[c].kind = op[c].kind /\ op'[c].rec = op[c].rec
      /\ \A c \in Callers : op'[c].stage = op[c].stage /\ Proper(op'[c])
      /\ op' \in [Callers -> Op]
      /\ ready' \in Seq(Callers) /\ IsInjective(ready') /\ ToSet(ready') = {c \in Callers : op'[c].answer # "none"}
      /\ \A c \in Callers : op[c].answer # "none" => op'[c] = op[c]
      /\ \A c \in Callers : (op[c].answer = "none" /\ op'[c].answer = "ok") =>
           /\ op[c].pc = "connecting" => object'[Path(c)].present /\ object'[Path(c)].connected
           /\ op[c].pc = "resolving" => /\ op'[c].seen = object'[op[c].at] /\ op'[c].seen.present
                                        /\ op'[c].at = op[c].at

(* A call that BlueZ handles, with its signals and its answer.             *)
LEMMA AnswerHeard ==
    ASSUME IInv, NEW c \in Callers, Answers(c)
    PROVE  Hears
<1>1. op[c].pc \in Calls /\ op[c].answer = "none" /\ ready' = Append(ready, c) /\ lock' = lock
  BY DEF Answers
<1>2. PICK outcome \in Outcomes(c) :
         /\ object' = [object EXCEPT ![Asked(c)] = outcome[2]]
         /\ op' = [op EXCEPT ![c].answer = outcome[1],
                             ![c].seen = IF op[c].pc = "resolving" THEN outcome[2] ELSE NoObject]
         /\ Keep(Heard(cache, Asked(c), object[Asked(c)], outcome[2]))
  BY DEF Answers
<1> DEFINE answer == outcome[1]
           new == outcome[2]
<1>3. /\ new \in Effects(c) /\ answer \in {"ok", "failed", "gone"}
      /\ answer = "gone" => op[c].pc = "connecting"
      /\ (answer = "ok" /\ op[c].pc \in {"connecting", "resolving"})
           => Possible(c) /\ new = After(op[c].pc, object[Asked(c)])
  BY DEF Outcomes, Effects, Swallowed
<1> HIDE DEF answer, new
<1>4. /\ Asked(c) \in Adapters /\ new \in Object /\ (new.present \/ new = NoObject)
      /\ (op[c].pc \in {"connecting", "resolving"} /\ Possible(c)) => object[Asked(c)].present
  BY <1>1, <1>3, EffectsAre
<1> DEFINE n == [op[c] EXCEPT !.answer = answer, !.seen = IF op[c].pc = "resolving" THEN new ELSE NoObject]
<1>5. op' = [op EXCEPT ![c] = n] /\ op \in [Callers -> Op] /\ op[c] \in Op
  <2>1. op \in [Callers -> Op] /\ op[c] \in Op
    BY InFlight
  <2> QED BY <1>2, <2>1 DEF answer, new
<1>6. /\ n \in Op /\ n.pc = op[c].pc /\ n.kind = op[c].kind /\ n.rec = op[c].rec /\ n.stage = op[c].stage
      /\ n.at = op[c].at /\ n.answer = answer /\ (op[c].pc = "resolving" => n.seen = new)
  <2>1. NoObject \in Object
    BY DEF NoObject, Object
  <2> QED BY <1>3, <1>4, <1>5, <2>1 DEF Op
<1>7. Proper(n)
  <2>1. Proper(op[c]) /\ op[c].kind \in Kinds
    BY <1>1, InFlight DEF Calls
  <2> QED BY <1>1, <1>3, <1>6, <2>1 DEF Proper, Kinds
<1> HIDE DEF n
<1>8. op'[c] = n /\ \A d \in Callers \ {c} : op'[d] = op[d]
  BY <1>5
<1>9. op' \in [Callers -> Op] /\ \A d \in Callers : Proper(op'[d])
  BY <1>5, <1>6, <1>7, <1>8, InFlight
<1>10. ready' \in Seq(Callers) /\ IsInjective(ready') /\ ToSet(ready') = {d \in Callers : op'[d].answer # "none"}
  <2>1. ready \in Seq(Callers) /\ IsInjective(ready) /\ ToSet(ready) = {d \in Callers : op[d].answer # "none"}
    BY DEF IInv
  <2>2. ready' \in Seq(Callers) /\ IsInjective(ready') /\ ToSet(ready') = ToSet(ready) \cup {c}
    BY <1>1, <2>1, Appended
  <2> QED BY <1>3, <1>6, <1>8, <2>1, <2>2
<1>11. object' = [object EXCEPT ![Asked(c)] = new] /\ object'[Asked(c)] = new
  BY <1>2, <1>4 DEF new, IInv
<1>12. Follows(Heard(cache, Asked(c), object[Asked(c)], new), object') /\ Objects(object')
  BY <1>4, <1>11, HeardFollows, ObjectsAre
<1>13. answer = "ok" =>
         /\ op[c].pc = "connecting" => object'[Path(c)].present /\ object'[Path(c)].connected
         /\ op[c].pc = "resolving" => n.seen = object'[op[c].at] /\ n.seen.present /\ n.at = op[c].at
  <2>1. object[Asked(c)] \in Object
    BY <1>4 DEF IInv
  <2>2. CASE op[c].pc = "connecting"
    <3>1. Asked(c) = Path(c)
      BY <2>2 DEF Asked, Path
    <3>2. answer = "ok" => new = [object[Asked(c)] EXCEPT !.connected = TRUE] /\ object[Asked(c)].present
      BY <1>3, <1>4, <2>2 DEF After
    <3>3. answer = "ok" => new.present /\ new.connected
      BY <2>1, <3>2 DEF Object
    <3> QED BY <1>11, <2>2, <3>1, <3>3
  <2>3. CASE op[c].pc = "resolving"
    <3>1. Asked(c) = op[c].at
      BY <2>3 DEF Asked
    <3>2. answer = "ok" => new = object[Asked(c)] /\ object[Asked(c)].present
      BY <1>3, <1>4, <2>3 DEF After
    <3> QED BY <1>6, <1>11, <2>3, <3>1, <3>2
  <2> QED BY <2>2, <2>3
<1>14. Keep(Heard(cache, Asked(c), object[Asked(c)], new))
  BY <1>2 DEF new
<1>15. \A d \in Callers : /\ op'[d].pc = op[d].pc /\ op'[d].kind = op[d].kind /\ op'[d].rec = op[d].rec
                          /\ op'[d].stage = op[d].stage
  BY <1>6, <1>8
<1>16. \A d \in Callers : (op[d].answer = "none" /\ op'[d].answer = "ok") =>
           /\ op[d].pc = "connecting" => object'[Path(d)].present /\ object'[Path(d)].connected
           /\ op[d].pc = "resolving" => /\ op'[d].seen = object'[op[d].at] /\ op'[d].seen.present
                                        /\ op'[d].at = op[d].at
  BY <1>6, <1>8, <1>13
<1>17. \A d \in Callers : op[d].answer # "none" => op'[d] = op[d]
  BY <1>1, <1>8
<1> QED BY <1>1, <1>9, <1>10, <1>12, <1>14, <1>15, <1>16, <1>17 DEF Hears

(* What BlueZ reports by itself.                                           *)
LEMMA ReportHeard ==
    ASSUME IInv, NEW a \in Adapters, Withdraws(a) \/ Appears(a) \/ Changes(a)
    PROVE  Hears
<1>1. PICK new, b : /\ new \in Object /\ Reports(a, new) /\ Keep(b) /\ (new.present \/ new = NoObject)
                    /\ Follows(b, [object EXCEPT ![a] = new])
  <2>0. object[a] \in Object
    BY DEF IInv
  <2>1. CASE Withdraws(a)
    <3>1. Reports(a, NoObject) /\ Keep(Withdrawn(cache, a)) /\ NoObject \in Object
      BY <2>1 DEF Withdraws, NoObject, Object
    <3> QED BY <3>1, WithdrawnFollows
  <2>2. CASE Appears(a)
    <3>1. PICK paired, trusted \in BOOLEAN :
             LET new == [present |-> TRUE, connected |-> FALSE, paired |-> paired, trusted |-> trusted]
             IN  Reports(a, new) /\ Keep(Put(cache, FromObject(a, new)))
      BY <2>2 DEF Appears
    <3> DEFINE new == [present |-> TRUE, connected |-> FALSE, paired |-> paired, trusted |-> trusted]
    <3>2. new \in Object /\ new.present /\ ~new.connected
      BY DEF Object
    <3>3. Reports(a, new) /\ Keep(Put(cache, FromObject(a, new)))
      BY <3>1
    <3> HIDE DEF new
    <3>4. [object EXCEPT ![a] = new][a] = new /\ \A x \in Adapters : x # a => [object EXCEPT ![a] = new][x] = object[x]
      BY DEF IInv
    <3>5. Follows(Put(cache, FromObject(a, new)), [object EXCEPT ![a] = new])
      <4> DEFINE d == FromObject(a, new)
                 o == [object EXCEPT ![a] = new]
      <4>1. d \in Device /\ d.path = a /\ d.named /\ ~d.connected
        BY <3>2, FromObjectIs
      <4>2. o[a] = new /\ \A x \in Adapters : x # a => o[x] = object[x]
        BY <3>4
      <4> HIDE DEF d, o
      <4>3. Follows(Put(cache, d), o)
        BY <3>2, <4>1, <4>2, PutFollows
      <4> QED BY <4>3 DEF d, o
    <3> QED BY <3>2, <3>3, <3>5
  <2>3. CASE Changes(a)
    <3>1. PICK up \in BOOLEAN :
             LET new == [object[a] EXCEPT !.connected = up]
             IN  Reports(a, new) /\ Keep(Changed(cache, a, object[a], new))
      BY <2>3 DEF Changes
    <3> DEFINE new == [object[a] EXCEPT !.connected = up]
    <3>2. new \in Object /\ new.present /\ object[a].present
      BY <2>0, <2>3 DEF Object, Changes
    <3>3. Reports(a, new) /\ Keep(Changed(cache, a, object[a], new))
      BY <3>1
    <3> HIDE DEF new
    <3> QED BY <3>2, <3>3, ChangedFollows
  <2> QED BY <2>1, <2>2, <2>3
<1>2. object' = [object EXCEPT ![a] = new] /\ lock' = lock /\ op' = op /\ ready' = ready
  BY <1>1 DEF Reports
<1>3. Objects(object')
  BY <1>1, <1>2, ObjectsAre
<1>4. /\ op \in [Callers -> Op] /\ \A c \in Callers : Proper(op[c])
      /\ ready \in Seq(Callers) /\ IsInjective(ready) /\ ToSet(ready) = {c \in Callers : op[c].answer # "none"}
  BY DEF IInv
<1> QED BY <1>1, <1>2, <1>3, <1>4 DEF Hears

-----------------------------------------------------------------------------
(* The invariant.                                                          *)

(* What is kept of a book.                                                 *)
LEMMA KeepIs ==
    ASSUME IInv, NEW b, Book(b), Keep(b), op' \in [Callers -> Op]
    PROVE  /\ Book(cache') /\ cache'.table = b.table
           /\ \A r \in ToSet(b.table) : cache'.rec[r] = b.rec[r]
           /\ \A c \in Callers : op'[c].rec \in Records =>
                /\ cache'.rec[op'[c].rec].path = b.rec[op'[c].rec].path
                /\ cache'.rec[op'[c].rec].named = b.rec[op'[c].rec].named
           /\ ByAddress(cache') = ByAddress(b)
           /\ owned' \in {"no", "yes", "dropped"} /\ forgotten' \in BOOLEAN /\ overtaken' \in [Adapters -> BOOLEAN]
<1> DEFINE held == {op'[c].rec : c \in Callers}
           F == [r \in Records |->
                   CASE r \in ToSet(b.table) -> b.rec[r]
                     [] r \in held \ ToSet(b.table) -> [b.rec[r] EXCEPT !.paired = FALSE, !.trusted = FALSE]
                     [] OTHER -> Unused]
<1>1. /\ b = [rec |-> b.rec, table |-> b.table] /\ b.rec \in [Records -> Device]
      /\ b.table \in Seq(Records) /\ ToSet(b.table) \in SUBSET Records
  BY BookIs
<1>2. cache' = [rec |-> F, table |-> b.table]
  BY <1>1 DEF Keep
<1>3. Unused \in Device
  BY First DEF Unused, Device
<1>4. ASSUME NEW d \in Device
      PROVE  LET e == [d EXCEPT !.paired = FALSE, !.trusted = FALSE]
             IN  e \in Device /\ e.path = d.path /\ e.named = d.named
  BY DEF Device
<1>5. F \in [Records -> Device]
  BY <1>1, <1>3, <1>4
<1>6. /\ \A r \in ToSet(b.table) : F[r] = b.rec[r]
      /\ \A r \in Records : r \in held => F[r].path = b.rec[r].path /\ F[r].named = b.rec[r].named
  BY <1>1, <1>4
<1>7. \A c \in Callers : op'[c].rec \in held
  OBVIOUS
<1> HIDE DEF F, held
<1>8. cache'.rec = F /\ cache'.table = b.table
  BY <1>2
<1>9. Book(cache')
  <2>1. cache' \in [rec : [Records -> Device], table : Seq(Records)]
    BY <1>1, <1>2, <1>5
  <2> QED BY <1>6, <1>8, <2>1, BookIs, IsBook
<1>10. ByAddress(cache') = ByAddress(b)
  <2>1. {i \in 1 .. Len(cache'.table) : cache'.rec[cache'.table[i]].named}
          = {i \in 1 .. Len(b.table) : b.rec[b.table[i]].named}
    BY <1>6, <1>8, BookIs
  <2> DEFINE I == {i \in 1 .. Len(cache'.table) : cache'.rec[cache'.table[i]].named}
             J == {i \in 1 .. Len(b.table) : b.rec[b.table[i]].named}
  <2>2. SelectInSeq(cache'.table, LAMBDA r : cache'.rec[r].named) = IF I # {} THEN Min(I) ELSE 0
    BY DEF SelectInSeq
  <2>3. SelectInSeq(b.table, LAMBDA r : b.rec[r].named) = IF J # {} THEN Min(J) ELSE 0
    BY DEF SelectInSeq
  <2>4. I = J
    BY <2>1
  <2> HIDE DEF I, J
  <2> QED BY <1>8, <2>2, <2>3, <2>4 DEF ByAddress, RecordAt
<1>11. owned' \in {"no", "yes", "dropped"} /\ forgotten' \in BOOLEAN
  BY DEF Keep, Remember, IInv
<1>12. overtaken' \in [Adapters -> BOOLEAN]
  <2>1. overtaken' = OvertakenBy(object') /\ overtaken \in [Adapters -> BOOLEAN]
    BY DEF Keep, Remember, IInv
  <2> QED BY <2>1 DEF OvertakenBy, Unread
<1> QED BY <1>6, <1>7, <1>8, <1>9, <1>10, <1>11, <1>12

(* A list whose members are in T.                                          *)
LEMMA Narrowed ==
    ASSUME NEW S, NEW s \in Seq(S), NEW T, ToSet(s) \in SUBSET T
    PROVE  s \in Seq(T)
<1>1. Len(s) \in Nat /\ s = [i \in 1 .. Len(s) |-> s[i]] /\ \A i \in 1 .. Len(s) : s[i] \in T
  BY LenProperties DEF ToSet
<1> QED BY <1>1, IsASeq

(* A step of an operation keeps the invariant: the others keep their locks, *)
(* since the records they hold keep their names.                           *)
LEMMA MovesKeep ==
    ASSUME IInv, NEW c \in Callers, NEW n \in Op, NEW b, Moves(c, n, b), Dequeued(c), Objects(object')
    PROVE  IInv'
<1>1. /\ op' = [op EXCEPT ![c] = n] /\ Proper(n) /\ n.answer = "none" /\ Locks(c, n, b)
      /\ Keep(b) /\ Book(b) /\ Firm(b)
  BY DEF Moves
<1>2. op \in [Callers -> Op] /\ \A d \in Callers : Proper(op[d])
  BY DEF IInv
<1>3. op' \in [Callers -> Op] /\ op'[c] = n /\ \A d \in Callers \ {c} : op'[d] = op[d]
  BY <1>1, <1>2
<1>4. \A d \in Callers : Proper(op'[d])
  BY <1>1, <1>2, <1>3
<1>5. /\ Book(cache')
      /\ \A d \in Callers : op'[d].rec \in Records =>
           /\ cache'.rec[op'[d].rec].path = b.rec[op'[d].rec].path
           /\ cache'.rec[op'[d].rec].named = b.rec[op'[d].rec].named
      /\ owned' \in {"no", "yes", "dropped"} /\ forgotten' \in BOOLEAN /\ overtaken' \in [Adapters -> BOOLEAN]
  BY <1>1, <1>3, KeepIs
<1>6. ready' \in Seq(Callers) /\ IsInjective(ready') /\ ToSet(ready') = {d \in Callers : op'[d].answer # "none"}
  BY <1>1, <1>3 DEF Dequeued, IInv
<1>7. lock' \in [Adapters -> Callers \cup {Nobody}]
  BY <1>1 DEF Locks
<1>8. LockHeld'
  <2> SUFFICES ASSUME NEW d \in Callers, op'[d].kind \in Operators, op'[d].pc # "resolving"
               PROVE  lock'[LockName(cache'.rec[op'[d].rec])] = d
    BY DEF LockHeld, Connects, Operators
  <2>1. op'[d].rec \in Records
    BY <1>4 DEF Proper, Operators
  <2>2. LockName(cache'.rec[op'[d].rec]) = LockName(b.rec[op'[d].rec])
    BY <1>5, <2>1 DEF LockName
  <2>3. CASE d = c
    BY <1>1, <1>3, <2>2, <2>3 DEF Locks
  <2>4. CASE d # c
    <3>1. op'[d] = op[d]
      BY <1>3, <2>4
    <3>2. LockName(b.rec[op[d].rec]) = LockName(cache.rec[op[d].rec])
      BY <1>1, <2>1, <3>1 DEF Firm, LockName
    <3>3. lock[LockName(cache.rec[op[d].rec])] = d
      BY <3>1 DEF IInv, LockHeld, Connects, Operators
    <3>4. LockName(cache.rec[op[d].rec]) \in Adapters
      BY <2>1, <3>1, LockNameIs DEF IInv
    <3> QED BY <1>1, <2>2, <2>4, <3>1, <3>2, <3>3, <3>4 DEF Locks
  <2> QED BY <2>3, <2>4
<1> QED BY <1>3, <1>4, <1>5, <1>6, <1>7, <1>8 DEF IInv, Objects

(* A signal keeps the invariant: it touches no lock.                       *)
LEMMA HearsKeep ==
    ASSUME IInv, Hears
    PROVE  IInv'
<1>1. PICK b :
      /\ Keep(b) /\ Follows(b, object') /\ Objects(object') /\ lock' = lock
      /\ \A c \in Callers : op'[c].pc = op[c].pc /\ op'[c].kind = op[c].kind /\ op'[c].rec = op[c].rec
      /\ \A c \in Callers : Proper(op'[c])
      /\ op' \in [Callers -> Op]
      /\ ready' \in Seq(Callers) /\ IsInjective(ready') /\ ToSet(ready') = {c \in Callers : op'[c].answer # "none"}
  BY DEF Hears
<1>2. Book(b) /\ Firm(b)
  BY <1>1 DEF Follows
<1>3. /\ Book(cache')
      /\ \A d \in Callers : op'[d].rec \in Records =>
           /\ cache'.rec[op'[d].rec].path = b.rec[op'[d].rec].path
           /\ cache'.rec[op'[d].rec].named = b.rec[op'[d].rec].named
      /\ owned' \in {"no", "yes", "dropped"} /\ forgotten' \in BOOLEAN /\ overtaken' \in [Adapters -> BOOLEAN]
  BY <1>1, <1>2, KeepIs
<1>4. LockHeld'
  <2> SUFFICES ASSUME NEW d \in Callers, op'[d].kind \in Operators, op'[d].pc # "resolving"
               PROVE  lock'[LockName(cache'.rec[op'[d].rec])] = d
    BY DEF LockHeld, Connects, Operators
  <2>1. op'[d].rec \in Records
    BY <1>1 DEF Proper, Operators
  <2>2. LockName(cache'.rec[op'[d].rec]) = LockName(cache.rec[op[d].rec])
    <3>1. op'[d].rec = op[d].rec
      BY <1>1
    <3> DEFINE r == op[d].rec
    <3>2. r \in Records /\ cache'.rec[r].path = b.rec[r].path /\ cache'.rec[r].named = b.rec[r].named
      BY <1>3, <2>1, <3>1
    <3>3. b.rec[r].path = cache.rec[r].path /\ b.rec[r].named = cache.rec[r].named
      BY <1>2, <3>2 DEF Firm
    <3> HIDE DEF r
    <3>4. LockName(cache'.rec[r]) = LockName(cache.rec[r])
      BY <3>2, <3>3 DEF LockName
    <3> QED BY <3>1, <3>4 DEF r
  <2>3. lock[LockName(cache.rec[op[d].rec])] = d
    BY <1>1 DEF IInv, LockHeld, Connects, Operators
  <2> QED BY <1>1, <2>2, <2>3
<1>5. lock' \in [Adapters -> Callers \cup {Nobody}]
  BY <1>1 DEF IInv
<1> QED BY <1>1, <1>3, <1>4, <1>5 DEF IInv, Objects

(* What a step of the system is.                                           *)
LEMMA NextIs ==
    ASSUME IInv, Next
    PROVE  Hears \/ \E c \in Callers : Advances(c)
BY AnswerHeard, ReportHeard, StepAdvances DEF Next

(* Every step keeps the invariant.                                         *)
LEMMA Preserved ==
    ASSUME IInv, [Next]_vars
    PROVE  IInv'
<1>1. CASE Hears
  BY <1>1, HearsKeep
<1>2. ASSUME NEW c \in Callers, Advances(c) PROVE IInv'
  BY <1>2, MovesKeep DEF Advances
<1>3. CASE UNCHANGED vars
  BY <1>3 DEF vars, IInv, LockHeld, Connects, Book
<1> QED BY <1>1, <1>2, <1>3, NextIs

-----------------------------------------------------------------------------
(* The beginning.                                                          *)

(* A record of the speaker at the head of the list is the known one.       *)
LEMMA KnownFirst ==
    ASSUME NEW b, Book(b), b.table # <<>>, b.rec[b.table[1]].named
    PROVE  ByAddress(b) = b.table[1]
<1> DEFINE I == {i \in 1 .. Len(b.table) : b.rec[b.table[i]].named}
<1>1. 1 \in I /\ I \in SUBSET Nat /\ \A i \in I : 1 =< i
  BY BookIs, EmptySeq
<1>2. SelectInSeq(b.table, LAMBDA r : b.rec[r].named) = IF I # {} THEN Min(I) ELSE 0
  BY DEF SelectInSeq
<1> HIDE DEF I
<1>3. Min(I) = 1
  <2>1. Min(I) \in I /\ \A i \in I : Min(I) =< i
    BY <1>1 DEF Min
  <2>2. Min(I) \in Nat /\ 1 =< Min(I) /\ Min(I) =< 1
    BY <1>1, <2>1
  <2> QED BY <2>2
<1>4. I # {}
  BY <1>1
<1> QED BY <1>2, <1>3, <1>4 DEF ByAddress, RecordAt

(* At first the records are those of BlueZ's objects.                      *)
LEMMA InitIs ==
    ASSUME Init
    PROVE  /\ IInv
           /\ \A a \in Adapters : ~object[a].connected
           /\ \A r \in ToSet(cache.table) : ~cache.rec[r].connected
           /\ Known /\ (owned = "yes" => HasNamed(cache))
<1> DEFINE S == {a \in Adapters : object[a].present}
           f == Ascending(S)
           k == Cardinality(S)
<1>1. /\ object \in [Adapters -> Object] /\ \A a \in Adapters : object[a].present \/ object[a] = NoObject
      /\ \A a \in Adapters : ~object[a].connected /\ object[a].paired = object[a].trusted
  <2> DEFINE x == [NoObject EXCEPT !.present = TRUE]
             y == [NoObject EXCEPT !.present = TRUE, !.paired = TRUE, !.trusted = TRUE]
             T == {NoObject, x, y}
  <2>3. NoObject \in Object /\ ~NoObject.connected /\ NoObject.paired = NoObject.trusted
    BY DEF NoObject, Object
  <2>4. x \in Object /\ x.present /\ ~x.connected /\ x.paired = x.trusted
    BY DEF NoObject, Object
  <2>5. y \in Object /\ y.present /\ ~y.connected /\ y.paired = y.trusted
    BY DEF NoObject, Object
  <2>6. T = {NoObject, x, y}
    OBVIOUS
  <2>2. object \in [Adapters -> T]
    BY Zenon DEF Init, T
  <2> HIDE DEF x, y, T
  <2>1. \A o \in T : o \in Object /\ (o.present \/ o = NoObject) /\ ~o.connected /\ o.paired = o.trusted
    BY <2>3, <2>4, <2>5, <2>6
  <2> QED BY <2>1, <2>2
<1>2. /\ S \in SUBSET (1 .. MaxAdapters) /\ k \in Nat /\ f \in [1 .. k -> S]
      /\ \A i, j \in 1 .. k : f[i] = f[j] => i = j
  <2>1. S \in SUBSET (1 .. MaxAdapters) /\ MaxAdapters \in Nat
    BY First DEF Adapters
  <2> HIDE DEF S
  <2> QED BY <2>1, Ascends
<1>3. k <= MaxAdapters
  <2>1. MaxAdapters \in Nat
    BY First
  <2>2. IsFiniteSet(1 .. MaxAdapters) /\ Cardinality(1 .. MaxAdapters) = MaxAdapters
    BY <2>1, FS_Interval
  <2> HIDE DEF S
  <2>3. S \in SUBSET (1 .. MaxAdapters)
    BY <1>2
  <2>4. Cardinality(S) <= Cardinality(1 .. MaxAdapters)
    BY <2>2, <2>3, FS_Subset
  <2> QED BY <2>2, <2>4
<1>4. \A i \in 1 .. k : i \in Records
  <2>1. MaxRecords \in Nat /\ MaxRecords > MaxAdapters + Cardinality(Callers) /\ MaxAdapters \in Nat
        /\ Cardinality(Callers) \in Nat
    BY ConnectionAssumption, FS_CardinalityType DEF ConnectionAssumption
  <2> HIDE DEF S
  <2> QED BY <1>2, <1>3, <2>1 DEF Records
<1> DEFINE P == [r \in Records |-> IF r \in 1 .. k THEN FromObject(f[r], object[f[r]]) ELSE Unused]
           t == [i \in 1 .. k |-> i]
<1>5. f \in Seq(S) /\ Len(f) = k
  <2> HIDE DEF S, f, k
  <2> QED BY <1>2, SeqDef, LenProperties, IsASeq
<1>6. cache = [rec |-> P, table |-> t] /\ (owned = IF f # <<>> /\ object[f[1]].paired THEN "yes" ELSE "no")
  BY <1>5 DEF Init
<1>7. \A i \in 1 .. k : f[i] \in Adapters /\ f[i] \in S
  BY <1>2
<1> HIDE DEF f, k, S
<1>8. Unused \in Device
  BY First DEF Unused, Device
<1>9. P \in [Records -> Device]
  <2>1. ASSUME NEW r \in 1 .. k PROVE FromObject(f[r], object[f[r]]) \in Device
    BY <1>1, <1>7, FromObjectIs
  <2> QED BY <1>8, <2>1
<1>10. \A i \in 1 .. k : P[i].path = f[i] /\ P[i].named /\ ~P[i].connected
                         /\ P[i].paired = object[f[i]].paired /\ P[i].trusted = object[f[i]].paired
  BY <1>1, <1>4, <1>7 DEF FromObject
<1>11. t \in Seq(Records) /\ IsInjective(t) /\ ToSet(t) = 1 .. k /\ DOMAIN t = 1 .. k
  <2>1. t \in Seq(Records)
    BY <1>2, <1>4, IsASeq
  <2>2. IsInjective(t) /\ ToSet(t) = 1 .. k
    BY DEF IsInjective, ToSet
  <2> QED BY <2>1, <2>2
<1> HIDE DEF P, t
<1>12. cache.rec = P /\ cache.table = t
  BY <1>6
<1>13. Book(cache)
  <2>1. cache \in [rec : [Records -> Device], table : Seq(Records)]
    BY <1>6, <1>9, <1>11
  <2> QED BY <1>2, <1>10, <1>11, <1>12, <2>1, IsBook
<1>14. \A r \in ToSet(cache.table) : ~cache.rec[r].connected /\ cache.rec[r].named
  BY <1>10, <1>11, <1>12
<1>15. Known /\ (owned = "yes" => HasNamed(cache))
  <2>1. CASE t = <<>>
    <3>1. ToSet(t) = {}
      BY <2>1 DEF ToSet
    <3>2. k = 0 /\ f = <<>>
      <4>1. k = 0
        <5>1. k \in Nat /\ 1 .. k = {}
          BY <1>2, <1>11, <3>1
        <5> QED BY <5>1
      <4> QED BY <1>5, <4>1, EmptySeq
    <3>3. ~HasNamed(cache)
      BY <1>12, <3>1 DEF HasNamed
    <3> QED BY <1>6, <1>13, <3>2, <3>3, ByAddressIs DEF Known
  <2>2. CASE t # <<>>
    <3>1. 1 \in 1 .. k /\ t[1] = 1
      <4>1. 1 \in 1 .. k
        BY <1>2, <1>11, <2>2, EmptySeq, LenProperties
      <4> QED BY <4>1 DEF t
    <3>2. ByAddress(cache) = 1
      BY <1>10, <1>12, <1>13, <2>2, <3>1, KnownFirst
    <3>3. f # <<>>
      <4>1. Len(f) # 0
        BY <1>2, <1>5, <3>1
      <4> QED BY <4>1
    <3>4. object[f[1]].paired \in BOOLEAN
      BY <1>1, <1>7, <3>1 DEF Object
    <3>5. HasNamed(cache)
      BY <1>11, <1>12, <1>14, <3>1 DEF HasNamed
    <3> QED BY <1>6, <1>10, <1>12, <3>1, <3>2, <3>3, <3>4, <3>5 DEF Known
  <2> QED BY <2>1, <2>2
<1>16. /\ lock \in [Adapters -> Callers \cup {Nobody}] /\ op = [c \in Callers |-> Idle]
       /\ ready = <<>> /\ forgotten = FALSE /\ owned \in {"no", "yes", "dropped"}
       /\ overtaken \in [Adapters -> BOOLEAN]
  BY <1>6 DEF Init
<1>17. /\ op \in [Callers -> Op] /\ \A c \in Callers : Proper(op[c]) /\ op[c].answer = "none" /\ op[c].kind = "none"
  BY <1>16, IdleIs DEF Proper
<1>18. ready \in Seq(Callers) /\ IsInjective(ready) /\ ToSet(ready) = {c \in Callers : op[c].answer # "none"}
  <2>1. <<>> \in Seq(Callers) /\ DOMAIN <<>> = {}
    BY EmptySeq
  <2>2. ToSet(<<>>) = {} /\ IsInjective(<<>>)
    BY DEF ToSet, IsInjective
  <2> QED BY <1>16, <1>17, <2>1, <2>2
<1>19. LockHeld
  BY <1>17 DEF LockHeld, Connects
<1> QED BY <1>1, <1>13, <1>14, <1>15, <1>16, <1>17, <1>18, <1>19 DEF IInv

-----------------------------------------------------------------------------
(* The theorems.                                                           *)

(* The invariant of the manager, for any callers, adapters and overlaps.   *)
THEOREM Invariance == Spec => []IInv
<1>1. Init => IInv
  BY InitIs
<1>2. IInv /\ [Next]_vars => IInv'
  BY Preserved
<1> QED BY <1>1, <1>2, PTL DEF Spec

(* The ranges are a part of the invariant.                                 *)
LEMMA TypesFollow ==
    ASSUME IInv
    PROVE  TypeOK
<1>1. ready \in Seq({c \in Callers : op[c].answer # "none"})
  BY Narrowed DEF IInv
<1> QED BY <1>1 DEF IInv, TypeOK, Book

(* Every variable stays in its range: no path has two records, and the     *)
(* queue holds the operations whose answer has arrived, once each.         *)
THEOREM TypeCorrect == Spec => []TypeOK
BY Invariance, TypesFollow, PTL

(* One connection past its look-up for each lock.                          *)
LEMMA LocksApart ==
    ASSUME IInv, NEW c \in Callers, NEW d \in Callers, c # d, Connects(c), Connects(d),
           {op[c].pc, op[d].pc} \cap {"idle", "resolving"} = {}
    PROVE  /\ LockName(cache.rec[op[c].rec]) # LockName(cache.rec[op[d].rec])
           /\ op[c].rec \in Records /\ op[d].rec \in Records
<1>1. op[c].pc # "resolving" /\ op[d].pc # "resolving" /\ op[c].pc # "idle" /\ op[d].pc # "idle"
  OBVIOUS
<1>2. lock[LockName(cache.rec[op[c].rec])] = c /\ lock[LockName(cache.rec[op[d].rec])] = d
  BY <1>1 DEF IInv, LockHeld
<1>3. Proper(op[c]) /\ Proper(op[d])
  BY InFlight
<1>4. op[c].rec \in Records /\ op[d].rec \in Records
  BY <1>1, <1>3 DEF Proper, Operators, Connects
<1> QED BY <1>2, <1>4

(* Two connections past their look-up, by their adapters.                  *)
NamedApart ==
    \A c, d \in Callers :
      (/\ c # d /\ Connects(c) /\ Connects(d) /\ {op[c].pc, op[d].pc} \cap {"idle", "resolving"} = {}
       /\ cache.rec[op[c].rec].named /\ cache.rec[op[d].rec].named)
        => Path(c) # Path(d)

(* Two calls of connect_device past their look-up work on different        *)
(* adapters, for any number of adapters, as long as their records are named. *)
THEOREM NamedApartAlways == Spec => []NamedApart
<1>1. IInv => NamedApart
  <2> SUFFICES ASSUME IInv, NEW c \in Callers, NEW d \in Callers, c # d, Connects(c), Connects(d),
                      {op[c].pc, op[d].pc} \cap {"idle", "resolving"} = {},
                      cache.rec[op[c].rec].named, cache.rec[op[d].rec].named
               PROVE  Path(c) # Path(d)
    BY DEF NamedApart
  <2> QED BY LocksApart DEF LockName, Path
<1> QED BY <1>1, Invariance, PTL

(* On a host with one adapter, two calls of connect_device never work on it *)
(* at once: connect_device's lock.  With more adapters a record without an *)
(* address takes hci0's lock for another adapter's speaker.                *)
THEOREM OneConnectionAlways ==
    ASSUME MaxAdapters = 1
    PROVE  Spec => []OneConnection
<1>1. IInv => OneConnection
  <2> SUFFICES ASSUME IInv, NEW c \in Callers, NEW d \in Callers, c # d, Connects(c), Connects(d),
                      {op[c].pc, op[d].pc} \cap {"idle", "resolving"} = {}
               PROVE  FALSE
    BY DEF OneConnection
  <2>1. /\ LockName(cache.rec[op[c].rec]) # LockName(cache.rec[op[d].rec])
        /\ op[c].rec \in Records /\ op[d].rec \in Records
    BY LocksApart
  <2>2. LockName(cache.rec[op[c].rec]) \in Adapters /\ LockName(cache.rec[op[d].rec]) \in Adapters
    BY <2>1, LockNameIs DEF IInv
  <2>3. \A a, b \in Adapters : a = b
    BY DEF Adapters
  <2> QED BY <2>1, <2>2, <2>3
<1> QED BY <1>1, Invariance, PTL

-----------------------------------------------------------------------------
(* The history of the known record.                                        *)

(* The history, of the known record and of one that is gone.               *)
History == Known /\ (owned = "yes" => HasNamed(cache))

(* The history stays right: a record of an owned speaker is lost to a      *)
(* removal or a pairing only.                                              *)
LEMMA Recalled ==
    ASSUME IInv, History, NEW b, Book(b), Keep(b), op' \in [Callers -> Op],
           \/ Lasting(b)
           \/ \E c \in Callers : Removes(c)
           \/ \E c \in Callers : op'[c].kind = "pair" /\ op'[c].stage = "refresh"
    PROVE  History'
<1> DEFINE k == ByAddress(b)
<1>1. /\ cache'.table = b.table /\ ByAddress(cache') = k /\ Book(cache')
      /\ \A r \in ToSet(b.table) : cache'.rec[r] = b.rec[r]
  BY KeepIs
<1>2. HasNamed(cache') = HasNamed(b)
  BY <1>1 DEF HasNamed
<1>3. (k = NoRecord /\ ~HasNamed(b)) \/ (k \in ToSet(b.table) /\ k # NoRecord /\ HasNamed(b))
  BY ByAddressIs
<1> DEFINE removed == \E c \in Callers : Removes(c)
           pairing == \E c \in Callers : op'[c].kind = "pair" /\ op'[c].stage = "refresh"
<1>4. owned' = CASE k # NoRecord -> IF b.rec[k].paired \/ b.rec[k].trusted THEN "yes" ELSE "no"
                 [] k = NoRecord /\ removed -> "no"
                 [] k = NoRecord /\ ~removed /\ pairing /\ owned = "yes" -> "dropped"
                 [] OTHER -> owned
  BY DEF Keep, Remember
<1>5. Lasting(b) \/ removed \/ pairing
  OBVIOUS
<1> HIDE DEF k, removed, pairing
<1>6. k # NoRecord => owned' = IF b.rec[k].paired \/ b.rec[k].trusted THEN "yes" ELSE "no"
  BY <1>4
<1>7. Known'
  <2> SUFFICES ASSUME ByAddress(cache') # NoRecord
               PROVE  owned' = IF cache'.rec[ByAddress(cache')].paired \/ cache'.rec[ByAddress(cache')].trusted
                                 THEN "yes" ELSE "no"
    BY DEF Known
  <2>1. k # NoRecord /\ k \in ToSet(b.table)
    BY <1>1, <1>3
  <2> QED BY <1>1, <1>6, <2>1
<1>8. owned' = "yes" => HasNamed(b)
  <2> SUFFICES ASSUME owned' = "yes", ~HasNamed(b) PROVE FALSE
    OBVIOUS
  <2>1. k = NoRecord
    BY <1>3
  <2>2. ~removed
    BY <1>4, <2>1
  <2>3. ~(pairing /\ owned = "yes") /\ owned = "yes"
    BY <1>4, <2>1, <2>2
  <2>4. HasNamed(cache) /\ Known
    BY <2>3 DEF History
  <2> QED BY <1>5, <2>2, <2>3, <2>4 DEF Lasting
<1> QED BY <1>2, <1>7, <1>8 DEF History

(* The same for every step.                                                *)
LEMMA RecallsAlways ==
    ASSUME IInv, History, [Next]_vars
    PROVE  History'
<1>1. CASE Hears
  <2>1. PICK b : Keep(b) /\ Follows(b, object') /\ op' \in [Callers -> Op]
    BY <1>1 DEF Hears
  <2> QED BY <2>1, Recalled DEF Follows
<1>2. ASSUME NEW c \in Callers, Advances(c) PROVE History'
  <2>1. PICK n, b : n \in Op /\ Moves(c, n, b)
    BY <1>2 DEF Advances
  <2>2. op' = [op EXCEPT ![c] = n] /\ Keep(b) /\ Book(b)
        /\ (Lasting(b) \/ Removes(c) \/ (n.kind = "pair" /\ n.stage = "refresh"))
    BY <2>1 DEF Moves
  <2>3. op' \in [Callers -> Op] /\ op'[c] = n
    BY <2>1, <2>2, InFlight
  <2> QED BY <2>2, <2>3, Recalled
<1>3. CASE UNCHANGED vars
  <2>1. cache' = cache /\ owned' = owned
    BY <1>3 DEF vars
  <2>2. ByAddress(cache') = ByAddress(cache) /\ HasNamed(cache') = HasNamed(cache)
    BY <2>1
  <2> QED BY <2>1, <2>2 DEF History, Known
<1> QED BY <1>1, <1>2, <1>3, NextIs

(* A speaker last known as paired or trusted keeps its record, whatever    *)
(* BlueZ withdraws and whatever overlaps, until it is removed or paired anew. *)
THEOREM SpeakerIsKeptAlways == Spec => []SpeakerIsKept
<1>1. Init => IInv /\ History
  BY InitIs DEF History
<1>2. (IInv /\ History) /\ [Next]_vars => (IInv /\ History)'
  BY Preserved, RecallsAlways
<1>3. IInv /\ History => SpeakerIsKept
  BY ByAddressIs DEF IInv, History, SpeakerIsKept
<1> QED BY <1>1, <1>2, <1>3, PTL DEF Spec

-----------------------------------------------------------------------------
(* The truth of the records.                                               *)

Truth == Fresh /\ ConnectedIsTrue

(* What overtakes an answer: each link that changes while one is unread.   *)
LEMMA Overtakes ==
    ASSUME IInv, NEW b, Keep(b), NEW a \in Adapters
    PROVE  /\ overtaken' = OvertakenBy(object')
           /\ object'[a].present = object[a].present /\ object'[a].connected = object[a].connected
                => overtaken'[a] = overtaken[a]
           /\ \/ object'[a].present = object[a].present /\ object'[a].connected = object[a].connected
              \/ overtaken'[a] = Unread(a)
BY DEF Keep, Remember, OvertakenBy, Link

(* The records of a book that is kept say what the book says.              *)
LEMMA Told ==
    ASSUME IInv, Truth, NEW b, Book(b), Keep(b), op' \in [Callers -> Op], Truthful(b, object')
    PROVE  ConnectedIsTrue'
<1>1. /\ cache'.table = b.table /\ \A r \in ToSet(b.table) : cache'.rec[r] = b.rec[r]
  BY KeepIs
<1>2. TrueIn(b, object')
  BY DEF Truthful, Truth
<1>3. overtaken' = OvertakenBy(object')
  BY DEF Keep, Remember
<1> QED BY <1>1, <1>2, <1>3 DEF TrueIn, Lit, ConnectedIsTrue

(* An answer that goes on waiting is true, or what it says has changed.    *)
LEMMA Waiting ==
    ASSUME IInv, Fresh, NEW b, Keep(b), NEW d \in Callers, op[d].answer = "ok"
    PROVE  /\ op[d].pc = "connecting" =>
                (object'[Path(d)].present /\ object'[Path(d)].connected) \/ overtaken'[Path(d)]
           /\ op[d].pc = "resolving" =>
                \/ object'[op[d].at].present /\ (op[d].seen.connected => object'[op[d].at].connected)
                \/ overtaken'[op[d].at]
<1>1. CASE op[d].pc = "connecting"
  <2>1. Path(d) \in Adapters
    <3>1. op[d].rec \in Records
      BY <1>1, InFlight
    <3> QED BY <3>1, BookIs DEF IInv, Path
  <2>2. (object[Path(d)].present /\ object[Path(d)].connected) \/ overtaken[Path(d)]
    BY <1>1 DEF Fresh
  <2>3. Unread(Path(d))
    BY <1>1 DEF Unread, Asked, Path
  <2> QED BY <1>1, <2>1, <2>2, <2>3, Overtakes
<1>2. CASE op[d].pc = "resolving"
  <2>1. op[d].at \in Adapters
    BY InFlight, OpType
  <2>2. \/ object[op[d].at].present /\ (op[d].seen.connected => object[op[d].at].connected)
        \/ overtaken[op[d].at]
    BY <1>2 DEF Fresh
  <2>3. Unread(op[d].at)
    BY <1>2 DEF Unread, Asked
  <2> QED BY <1>2, <2>1, <2>2, <2>3, Overtakes
<1> QED BY <1>1, <1>2

(* A step of an operation tells the truth.                                 *)
LEMMA MovesTruly ==
    ASSUME IInv, Truth, NEW c \in Callers, Advances(c)
    PROVE  Truth'
<1>1. PICK n, b : n \in Op /\ Moves(c, n, b)
  BY DEF Advances
<1>2. /\ op' = [op EXCEPT ![c] = n] /\ n.answer = "none" /\ Keep(b) /\ Book(b) /\ Firm(b)
      /\ Truthful(b, object')
  BY <1>1 DEF Moves
<1>3. op' \in [Callers -> Op] /\ op'[c] = n /\ \A d \in Callers \ {c} : op'[d] = op[d]
  BY <1>1, <1>2, InFlight
<1>4. ConnectedIsTrue'
  BY <1>2, <1>3, Told
<1>5. \A d \in Callers : op'[d].rec \in Records => cache'.rec[op'[d].rec].path = b.rec[op'[d].rec].path
  BY <1>2, <1>3, KeepIs
<1>6. ASSUME NEW d \in Callers, op'[d].answer = "ok"
      PROVE  /\ op'[d].pc = "connecting" =>
                  LET a == cache'.rec[op'[d].rec].path
                  IN  (object'[a].present /\ object'[a].connected) \/ overtaken'[a]
             /\ op'[d].pc = "resolving" =>
                  LET a == op'[d].at
                  IN  (object'[a].present /\ (op'[d].seen.connected => object'[a].connected)) \/ overtaken'[a]
  <2>1. d # c /\ op'[d] = op[d] /\ op[d].answer = "ok"
    BY <1>2, <1>3, <1>6
  <2>2. op[d].pc = "connecting" => op[d].rec \in Records
    BY InFlight
  <2>3. op[d].pc = "connecting" => cache'.rec[op'[d].rec].path = Path(d)
    BY <1>2, <1>5, <2>1, <2>2 DEF Firm, Path
  <2>4. Fresh
    BY DEF Truth
  <2> QED BY <1>2, <2>1, <2>3, <2>4, Waiting
<1>7. Fresh'
  BY <1>6 DEF Fresh, Path
<1> QED BY <1>4, <1>7 DEF Truth

(* A signal tells the truth: an answer that it contradicts is overtaken.   *)
LEMMA HearsTruly ==
    ASSUME IInv, Truth, Hears
    PROVE  Truth'
<1>1. PICK b :
      /\ Keep(b) /\ Follows(b, object')
      /\ \A c \in Callers : op'[c].pc = op[c].pc /\ op'[c].rec = op[c].rec
      /\ op' \in [Callers -> Op]
      /\ \A c \in Callers : op[c].answer # "none" => op'[c] = op[c]
      /\ \A c \in Callers : (op[c].answer = "none" /\ op'[c].answer = "ok") =>
           /\ op[c].pc = "connecting" => object'[Path(c)].present /\ object'[Path(c)].connected
           /\ op[c].pc = "resolving" => /\ op'[c].seen = object'[op[c].at] /\ op'[c].seen.present
                                        /\ op'[c].at = op[c].at
  BY DEF Hears
<1>2. Book(b) /\ Firm(b) /\ Truthful(b, object')
  BY <1>1 DEF Follows
<1>3. ConnectedIsTrue'
  BY <1>1, <1>2, Told
<1>4. \A d \in Callers : op'[d].rec \in Records => cache'.rec[op'[d].rec].path = b.rec[op'[d].rec].path
  BY <1>1, <1>2, KeepIs
<1>5. ASSUME NEW d \in Callers, op'[d].answer = "ok"
      PROVE  /\ op'[d].pc = "connecting" =>
                  LET a == cache'.rec[op'[d].rec].path
                  IN  (object'[a].present /\ object'[a].connected) \/ overtaken'[a]
             /\ op'[d].pc = "resolving" =>
                  LET a == op'[d].at
                  IN  (object'[a].present /\ (op'[d].seen.connected => object'[a].connected)) \/ overtaken'[a]
  <2>1. op[d].pc = "connecting" => op[d].rec \in Records
    BY InFlight
  <2>2. op'[d].rec = op[d].rec /\ op'[d].pc = op[d].pc
    BY <1>1
  <2>3. ASSUME op[d].pc = "connecting" PROVE cache'.rec[op'[d].rec].path = Path(d)
    <3>1. b.rec[op[d].rec].path = cache.rec[op[d].rec].path
      BY <1>2, <2>1, <2>3 DEF Firm
    <3>2. cache'.rec[op[d].rec].path = b.rec[op[d].rec].path
      BY <1>4, <2>1, <2>2, <2>3
    <3> QED BY <2>2, <3>1, <3>2 DEF Path
  <2>4. CASE op[d].answer = "none"
    BY <1>1, <1>5, <2>2, <2>3, <2>4
  <2>5. CASE op[d].answer # "none"
    <3>1. op'[d] = op[d] /\ op[d].answer = "ok" /\ Fresh
      BY <1>1, <1>5, <2>5 DEF Truth
    <3> QED BY <1>1, <2>2, <2>3, <3>1, Waiting
  <2> QED BY <2>4, <2>5
<1>6. Fresh'
  BY <1>5 DEF Fresh, Path
<1> QED BY <1>3, <1>6 DEF Truth

(* The same for every step.                                                *)
LEMMA TruthAlways ==
    ASSUME IInv, Truth, [Next]_vars
    PROVE  Truth'
<1>1. CASE UNCHANGED vars
  BY <1>1 DEF vars, Truth, Fresh, ConnectedIsTrue, Path
<1> QED BY <1>1, NextIs, MovesTruly, HearsTruly

(* At first nobody is connected and no answer waits.                       *)
LEMMA TruthFirst ==
    ASSUME Init
    PROVE  Truth
<1>1. \A c \in Callers : op[c].answer = "none"
  BY IdleIs DEF Init
<1>2. ConnectedIsTrue
  BY InitIs DEF ConnectedIsTrue
<1> QED BY <1>1, <1>2 DEF Truth, Fresh

(* A live record that says connected is right, for any callers, adapters   *)
(* and overlaps, but where the link has changed since an answer that was   *)
(* still to be taken: the task then writes what is no longer so.           *)
THEOREM ConnectedIsTrueAlways == Spec => []ConnectedIsTrue
<1>1. Init => IInv /\ Truth
  BY InitIs, TruthFirst
<1>2. (IInv /\ Truth) /\ [Next]_vars => (IInv /\ Truth)'
  BY Preserved, TruthAlways
<1>3. IInv /\ Truth => ConnectedIsTrue
  BY DEF Truth
<1> QED BY <1>1, <1>2, <1>3, PTL DEF Spec

-----------------------------------------------------------------------------
(* A speaker that is forgotten, on a host with one adapter.                *)

(* A forgotten speaker has no object, and no record but by such an answer. *)
Forgot == forgotten => Empty(cache) /\ \A a \in Adapters : ~object[a].present

(* Nothing but being asked for brings it back.                             *)
LEMMA NotAsked ==
    ASSUME NEW b, Keep(b), forgotten'
    PROVE  /\ \A a \in Adapters : object'[a].present => object[a].present
           /\ (\E c \in Callers : Removes(c)) => \A a \in Adapters : ~object'[a].present
           /\ ~(\E c \in Callers : Removes(c)) => forgotten
BY DEF Keep, Remember, AskedFor

(* A step that is not the end of a removal.                                *)
LEMMA StaysForgotten ==
    ASSUME IInv, Fresh, Forgot, NEW b, Book(b), Keep(b), op' \in [Callers -> Op], Bare(b, object'),
           Objects(object'), ~\E c \in Callers : Removes(c)
    PROVE  Forgot'
<1>1. /\ cache'.table = b.table /\ \A r \in ToSet(b.table) : cache'.rec[r] = b.rec[r]
      /\ \A r \in ToSet(b.table) : b.rec[r].path \in Adapters
  BY KeepIs, BookIs
<1> SUFFICES ASSUME forgotten' PROVE Empty(cache)' /\ \A a \in Adapters : ~object'[a].present
  BY DEF Forgot
<1>2. forgotten /\ \A a \in Adapters : object'[a].present => object[a].present
  BY NotAsked
<1>3. Empty(cache) /\ \A a \in Adapters : ~object[a].present /\ ~object'[a].present
  BY <1>2 DEF Forgot
<1>4. \A a \in Adapters : object'[a] = object[a]
  BY <1>3 DEF IInv, Objects
<1>5. \A a \in Adapters : overtaken'[a] = overtaken[a]
  BY <1>4, Overtakes
<1>6. Empty(b)
  BY <1>3 DEF Bare
<1> QED BY <1>1, <1>3, <1>5, <1>6 DEF Empty

(* The same for every step: a removal drops the only record there can be.  *)
LEMMA ForgotAlways ==
    ASSUME IInv, Fresh, Forgot, MaxAdapters = 1, [Next]_vars
    PROVE  Forgot'
<1>0. \A d \in Callers : op[d].kind = "remove" => op[d].pc # "idle"
  BY InFlight
<1>1. CASE Hears
  <2>1. PICK b : /\ Keep(b) /\ Follows(b, object') /\ Objects(object') /\ op' \in [Callers -> Op]
                 /\ \A d \in Callers : op'[d].pc = op[d].pc
    BY <1>1 DEF Hears
  <2>2. ~\E d \in Callers : Removes(d)
    BY <1>0, <2>1 DEF Removes
  <2> QED BY <2>1, <2>2, StaysForgotten DEF Follows
<1>2. ASSUME NEW c \in Callers, Advances(c) PROVE Forgot'
  <2>1. PICK n, b : n \in Op /\ Moves(c, n, b)
    BY <1>2 DEF Advances
  <2>2. /\ op' = [op EXCEPT ![c] = n] /\ Keep(b) /\ Book(b) /\ Bare(b, object') /\ Objects(object')
        /\ Removes(c) => \A r \in ToSet(b.table) : b.rec[r].path # Path(c)
    BY <1>2, <2>1 DEF Moves, Advances
  <2>3. op' \in [Callers -> Op] /\ \A d \in Callers \ {c} : op'[d] = op[d]
    BY <2>1, <2>2, InFlight
  <2>4. \A d \in Callers \ {c} : ~Removes(d)
    BY <1>0, <2>3 DEF Removes
  <2>5. CASE Removes(c)
    <3>1. op[c].rec \in Records
      <4>1. op[c].kind = "remove" /\ op[c].pc # "resolving"
        BY <2>5 DEF Removes
      <4> QED BY <4>1, InFlight DEF Proper, Removing
    <3>2. Path(c) \in Adapters /\ \A r \in ToSet(b.table) : b.rec[r].path \in Adapters
      BY <2>2, <3>1, BookIs DEF IInv, Path
    <3>3. \A x, y \in Adapters : x = y
      BY DEF Adapters
    <3>4. ToSet(b.table) = {}
      BY <2>2, <2>5, <3>2, <3>3
    <3>5. cache'.table = b.table
      BY <2>2, <2>3, KeepIs
    <3>6. forgotten' => \A a \in Adapters : ~object'[a].present
      BY <2>2, <2>5, NotAsked
    <3> QED BY <3>4, <3>5, <3>6 DEF Forgot, Empty
  <2>6. CASE ~Removes(c)
    <3>1. ~\E d \in Callers : Removes(d)
      BY <2>4, <2>6
    <3> QED BY <2>2, <2>3, <3>1, StaysForgotten
  <2> QED BY <2>5, <2>6
<1>3. CASE UNCHANGED vars
  BY <1>3 DEF vars, Forgot, Empty
<1> QED BY <1>1, <1>2, <1>3, NextIs

(* A speaker that is removed from the bridge and from BlueZ stays forgotten *)
(* until it is asked for, on a host with one adapter: an answer lists it   *)
(* again only if it was given before the object was withdrawn, and taken   *)
(* after.                                                                  *)
THEOREM RemovedIsForgottenAlways ==
    ASSUME MaxAdapters = 1
    PROVE  Spec => []RemovedIsForgotten
<1>1. Init => IInv /\ Truth /\ Forgot
  BY InitIs, TruthFirst DEF Init, Forgot
<1>2. (IInv /\ Truth /\ Forgot) /\ [Next]_vars => (IInv /\ Truth /\ Forgot)'
  BY Preserved, TruthAlways, ForgotAlways DEF Truth
<1>3. IInv /\ Truth /\ Forgot => RemovedIsForgotten
  BY DEF RemovedIsForgotten, Forgot, Empty
<1> QED BY <1>1, <1>2, <1>3, PTL DEF Spec
=============================================================================
