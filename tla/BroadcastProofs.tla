-------------------------- MODULE BroadcastProofs --------------------------
(***************************************************************************)
(* Theorems about Broadcast, for any finite number of clients and any      *)
(* number of events.                                                       *)
(***************************************************************************)
EXTENDS Broadcast, SequenceTheorems, FiniteSetTheorems, TLAPS

-----------------------------------------------------------------------------
(* The list of clients.                                                    *)

(* An injection between intervals does not shrink them.                    *)
LEMMA Fits ==
    ASSUME NEW m \in Nat, NEW S, IsFiniteSet(S), NEW f \in [1 .. m -> S],
           \A i, j \in 1 .. m : f[i] = f[j] => i = j
    PROVE  m <= Cardinality(S) /\ (m = Cardinality(S) => \A x \in S : \E i \in 1 .. m : f[i] = x)
<1>1. IsFiniteSet(1 .. m) /\ Cardinality(1 .. m) = m
  BY FS_Interval
<1>2. f \in Injection(1 .. m, S)
  BY DEF Injection, IsInjective
<1>3. m <= Cardinality(S) /\ (m = Cardinality(S) <=> f \in Surjection(1 .. m, S))
  BY <1>1, <1>2, FS_Injection
<1> QED BY <1>3 DEF Surjection

(* The members of S in ascending order are all there, and none is before   *)
(* its number.                                                             *)
LEMMA Ascends ==
    ASSUME NEW N \in Nat, NEW S \in SUBSET (1 .. N)
    PROVE  /\ IsFiniteSet(S) /\ Cardinality(S) \in Nat
           /\ Ascending(S) \in [1 .. Cardinality(S) -> S]
           /\ \A i, j \in 1 .. Cardinality(S) : i < j => Ascending(S)[i] < Ascending(S)[j]
           /\ \A x \in S : \E i \in 1 .. Cardinality(S) : Ascending(S)[i] = x
           /\ \A i \in 1 .. Cardinality(S) : i <= Ascending(S)[i]
<1> DEFINE n == Cardinality(S)
           upto(x) == {y \in S : y <= x}
           rank == [x \in S |-> Cardinality(upto(x))]
<1>1. IsFiniteSet(S) /\ n \in Nat
  <2>1. IsFiniteSet(1 .. N)
    BY FS_Interval
  <2> QED BY <2>1, FS_Subset, FS_CardinalityType
<1>2. \A x \in S : IsFiniteSet(upto(x)) /\ rank[x] \in 1 .. n
  <2> SUFFICES ASSUME NEW x \in S PROVE IsFiniteSet(upto(x)) /\ rank[x] \in 1 .. n
    OBVIOUS
  <2>1. upto(x) \in SUBSET S /\ x \in upto(x)
    OBVIOUS
  <2>2. IsFiniteSet(upto(x)) /\ Cardinality(upto(x)) <= n
    BY <1>1, <2>1, FS_Subset
  <2>3. Cardinality(upto(x)) \in Nat /\ Cardinality(upto(x)) # 0
    BY <2>1, <2>2, FS_CardinalityType, FS_EmptySet
  <2> QED BY <1>1, <2>2, <2>3
<1>3. \A x, y \in S : x < y => rank[x] < rank[y]
  <2> SUFFICES ASSUME NEW x \in S, NEW y \in S, x < y PROVE rank[x] < rank[y]
    OBVIOUS
  <2>0. x \in 1 .. N /\ y \in 1 .. N /\ \A z \in S : z \in 1 .. N
    OBVIOUS
  <2>1. upto(x) \in SUBSET upto(y) /\ y \in upto(y) /\ y \notin upto(x)
    <3>1. ~(y <= x) /\ y <= y /\ \A z \in S : z <= x => z <= y
      BY <2>0
    <3> QED BY <3>1
  <2>2. Cardinality(upto(x)) <= Cardinality(upto(y)) /\ Cardinality(upto(x)) # Cardinality(upto(y))
    BY <1>2, <2>1, FS_Subset
  <2>3. rank[x] \in Nat /\ rank[y] \in Nat
    BY <1>2
  <2> HIDE DEF upto
  <2> QED BY <2>2, <2>3
<1>4. \A k \in 1 .. n : \E x \in S : rank[x] = k
  <2>1. rank \in [S -> 1 .. n]
    BY <1>2
  <2>2. \A x, y \in S : rank[x] = rank[y] => x = y
    <3> SUFFICES ASSUME NEW x \in S, NEW y \in S, x # y PROVE rank[x] # rank[y]
      OBVIOUS
    <3>1. x < y \/ y < x
      OBVIOUS
    <3>2. rank[x] \in Nat /\ rank[y] \in Nat
      BY <1>2
    <3> HIDE DEF rank
    <3> QED BY <1>3, <3>1, <3>2
  <2> HIDE DEF rank
  <2>3. rank \in Injection(S, 1 .. n)
    BY <2>1, <2>2 DEF Injection, IsInjective
  <2>4. IsFiniteSet(1 .. n) /\ Cardinality(1 .. n) = n
    BY <1>1, FS_Interval
  <2>5. rank \in Surjection(S, 1 .. n)
    BY <2>3, <2>4, FS_Injection
  <2> QED BY <2>5 DEF Surjection
<1> HIDE DEF rank
<1>5. \E f \in [1 .. n -> S] : \A i, j \in 1 .. n : i < j => f[i] < f[j]
  <2> DEFINE f == [k \in 1 .. n |-> CHOOSE x \in S : rank[x] = k]
  <2>1. \A k \in 1 .. n : f[k] \in S /\ rank[f[k]] = k
    BY <1>4
  <2>2. f \in [1 .. n -> S]
    BY <2>1
  <2> HIDE DEF f
  <2>3. ASSUME NEW i \in 1 .. n, NEW j \in 1 .. n, i < j PROVE f[i] < f[j]
    <3>1. f[i] \in 1 .. N /\ f[j] \in 1 .. N
      BY <2>1
    <3>2. f[i] < f[j] \/ f[i] = f[j] \/ f[j] < f[i]
      BY <3>1
    <3>3. rank[f[i]] < rank[f[j]]
      BY <2>1, <2>3
    <3>4. rank[f[i]] \in Nat /\ rank[f[j]] \in Nat
      BY <1>2, <2>1
    <3>5. f[j] < f[i] => rank[f[j]] < rank[f[i]]
      BY <1>3, <2>1
    <3>6. f[i] # f[j] /\ ~(f[j] < f[i])
      BY <3>3, <3>4, <3>5
    <3> QED BY <3>2, <3>6
  <2> QED BY <2>2, <2>3
<1> DEFINE f == Ascending(S)
<1>6. f \in [1 .. n -> S] /\ \A i, j \in 1 .. n : i < j => f[i] < f[j]
  BY <1>5 DEF Ascending
<1> HIDE DEF f
<1>7. \A i, j \in 1 .. n : f[i] = f[j] => i = j
  <2> SUFFICES ASSUME NEW i \in 1 .. n, NEW j \in 1 .. n, i # j PROVE f[i] # f[j]
    OBVIOUS
  <2>1. i < j \/ j < i
    BY <1>1
  <2>2. f[i] \in 1 .. N /\ f[j] \in 1 .. N
    BY <1>6
  <2> QED BY <1>6, <2>1, <2>2
<1>8. \A x \in S : \E i \in 1 .. n : f[i] = x
  BY <1>1, <1>6, <1>7, Fits
<1>9. ASSUME NEW i \in 1 .. n PROVE i <= f[i]
  <2> DEFINE h == [j \in 1 .. i |-> f[j]]
  <2>0. f[i] \in 1 .. N
    BY <1>6
  <2>1. f[i] \in 1 .. N /\ IsFiniteSet(1 .. f[i]) /\ Cardinality(1 .. f[i]) = f[i]
    <3>1. f[i] \in Int /\ 1 \in Int /\ f[i] - 1 + 1 = f[i] /\ ~(1 > f[i])
      BY <2>0
    <3> HIDE DEF f
    <3> QED BY <2>0, <3>1, FS_Interval
  <2>2. \A j \in 1 .. i : j \in 1 .. n /\ f[j] \in 1 .. f[i]
    <3> SUFFICES ASSUME NEW j \in 1 .. i PROVE j \in 1 .. n /\ f[j] \in 1 .. f[i]
      OBVIOUS
    <3>1. j \in 1 .. n /\ (j = i \/ j < i)
      BY <1>1
    <3>2. f[j] \in 1 .. N
      BY <1>6, <3>1
    <3> QED BY <1>6, <2>1, <3>1, <3>2
  <2>3. h \in [1 .. i -> 1 .. f[i]] /\ \A j, k \in 1 .. i : h[j] = h[k] => j = k
    BY <1>7, <2>2
  <2>4. i \in Nat
    BY <1>1
  <2> DEFINE I == 1 .. f[i]
  <2>5. h \in [1 .. i -> I] /\ IsFiniteSet(I)
    BY <2>1, <2>3
  <2> HIDE DEF h, I
  <2>6. i <= Cardinality(I)
    BY <2>3, <2>4, <2>5, Fits
  <2> QED BY <2>1, <2>6 DEF I
<1> QED BY <1>1, <1>6, <1>8, <1>9 DEF f

(* The positions up to p whose client is in cs, and the clients that come  *)
(* to be among the first p of t and were not among those of s.             *)
Lost(s, cs, p) == {i \in DOMAIN s : i <= p /\ s[i] \in cs}
Slid(s, t, p) ==
    {c \in Clients : \E i \in DOMAIN s, j \in DOMAIN t : j <= p /\ p < i /\ s[i] = c /\ t[j] = c}

(* A list without some of its clients.                                     *)
LEMMA WithoutIs ==
    ASSUME NEW s \in Seq(Clients), IsInjective(s), NEW cs, NEW t, t = Without(s, cs)
    PROVE  /\ t \in Seq(Clients) /\ IsInjective(t) /\ ToSet(t) = ToSet(s) \ cs
           /\ \A i \in DOMAIN s, j \in DOMAIN t : t[j] = s[i] => j <= i
           /\ \A p \in DOMAIN s : (\A i \in 1 .. p : s[i] \notin cs) => p \in DOMAIN t /\ t[p] = s[p]
<1> DEFINE N == Len(s)
           S == {i \in DOMAIN s : s[i] \notin cs}
           g == Ascending(S)
           n == Cardinality(S)
<1>1. N \in Nat /\ DOMAIN s = 1 .. N /\ \A i \in 1 .. N : s[i] \in Clients
  BY LenProperties, ElementOfSeq
<1>2. S \in SUBSET (1 .. N)
  BY <1>1
<1> HIDE DEF N
<1>3. /\ n \in Nat /\ g \in [1 .. n -> S]
      /\ \A i, j \in 1 .. n : i < j => g[i] < g[j]
      /\ \A x \in S : \E i \in 1 .. n : g[i] = x
      /\ \A i \in 1 .. n : i <= g[i]
  <2> HIDE DEF S
  <2> QED BY <1>1, <1>2, Ascends
<1>4. t = [i \in DOMAIN g |-> s[g[i]]]
  BY DEF Without
<1> HIDE DEF g, n
<1>5. DOMAIN g = 1 .. n /\ \A i \in 1 .. n : g[i] \in 1 .. N /\ s[g[i]] \notin cs
  BY <1>1, <1>3
<1>6. t = [i \in 1 .. n |-> s[g[i]]]
  BY <1>4, <1>5
<1>7. t \in Seq(Clients) /\ Len(t) = n /\ DOMAIN t = 1 .. n
  BY <1>1, <1>3, <1>5, <1>6
<1>8. \A i, j \in 1 .. N : s[i] = s[j] => i = j
  BY <1>1 DEF IsInjective
<1>9. \A i, j \in 1 .. n : g[i] = g[j] => i = j
  <2> SUFFICES ASSUME NEW i \in 1 .. n, NEW j \in 1 .. n, i # j PROVE g[i] # g[j]
    OBVIOUS
  <2>1. i < j \/ j < i
    BY <1>3
  <2>2. g[i] \in 1 .. N /\ g[j] \in 1 .. N
    BY <1>5
  <2> QED BY <1>1, <1>3, <2>1, <2>2
<1>10. IsInjective(t)
  BY <1>5, <1>6, <1>7, <1>8, <1>9 DEF IsInjective
<1>11. ToSet(t) = ToSet(s) \ cs
  <2>1. ASSUME NEW c, c \in ToSet(t) PROVE c \in ToSet(s) \ cs
    BY <1>1, <1>5, <1>6, <1>7, <2>1 DEF ToSet
  <2>2. ASSUME NEW i \in 1 .. N, s[i] \notin cs PROVE s[i] \in ToSet(t)
    <3>1. i \in S
      BY <1>1, <2>2
    <3> HIDE DEF S
    <3>2. PICK j \in 1 .. n : g[j] = i
      BY <1>3, <3>1
    <3>3. j \in DOMAIN t /\ t[j] = s[i]
      BY <1>6, <1>7, <3>2
    <3> QED BY <3>3 DEF ToSet
  <2> QED BY <1>1, <2>1, <2>2 DEF ToSet
<1>12. \A i \in DOMAIN s, j \in DOMAIN t : t[j] = s[i] => j <= i /\ g[j] = i
  BY <1>1, <1>3, <1>5, <1>6, <1>7, <1>8
<1>13. ASSUME NEW p \in DOMAIN s, \A i \in 1 .. p : s[i] \notin cs PROVE p \in DOMAIN t /\ t[p] = s[p]
  <2> DEFINE h == [i \in 1 .. p |-> CHOOSE j \in 1 .. n : g[j] = i]
  <2>1. \A i \in 1 .. p : i \in S
    BY <1>1, <1>13
  <2>2. \A i \in 1 .. p : h[i] \in 1 .. n /\ g[h[i]] = i
    BY <1>3, <2>1
  <2>3. p \in Nat /\ p \in 1 .. p
    BY <1>1
  <2> HIDE DEF h
  <2>4. h[p] \in 1 .. n /\ g[h[p]] = p /\ h[p] <= p
    BY <1>3, <2>2, <2>3
  <2>5. \A i \in 1 .. p : h[i] \in 1 .. h[p]
    <3> SUFFICES ASSUME NEW i \in 1 .. p, h[p] < h[i] PROVE FALSE
      <4> SUFFICES ASSUME NEW i \in 1 .. p PROVE h[p] < h[i] \/ h[i] \in 1 .. h[p]
        OBVIOUS
      <4>1. h[i] \in 1 .. n /\ h[p] \in 1 .. n
        BY <2>2, <2>4
      <4>2. n \in Nat
        BY <1>3
      <4>3. \A x, y \in 1 .. n : y < x \/ x \in 1 .. y
        BY <4>2
      <4> QED BY <4>1, <4>3
    <3>1. g[h[p]] < g[h[i]]
      BY <1>3, <2>2, <2>4
    <3> QED BY <2>2, <2>3, <3>1
  <2>6. \A i, j \in 1 .. p : h[i] = h[j] => i = j
    BY <2>2
  <2>7. p <= h[p]
    <3> DEFINE k == [i \in 1 .. p |-> h[i]]
               q == h[p]
    <3>1. k \in [1 .. p -> 1 .. q] /\ \A i, j \in 1 .. p : k[i] = k[j] => i = j
      BY <2>5, <2>6
    <3>3. q \in Nat
      BY <2>4
    <3> HIDE DEF k, q
    <3>2. IsFiniteSet(1 .. q) /\ Cardinality(1 .. q) = q
      BY <3>3, FS_Interval
    <3> DEFINE I == 1 .. q
    <3>5. k \in [1 .. p -> I] /\ IsFiniteSet(I)
      BY <3>1, <3>2
    <3> HIDE DEF I
    <3>6. p <= Cardinality(I)
      BY <2>3, <3>1, <3>5, Fits
    <3>4. p <= q
      BY <3>2, <3>6 DEF I
    <3> QED BY <3>4 DEF q
  <2>8. h[p] = p
    BY <2>3, <2>4, <2>7
  <2> QED BY <1>6, <1>7, <2>4, <2>8
<1> QED BY <1>7, <1>10, <1>11, <1>12, <1>13

(* No more clients slide below p than are taken off up to p.               *)
LEMMA Slides ==
    ASSUME NEW s \in Seq(Clients), IsInjective(s), NEW cs, NEW p \in Nat
    PROVE  /\ IsFiniteSet(Lost(s, cs, p)) /\ IsFiniteSet(Slid(s, Without(s, cs), p))
           /\ Cardinality(Lost(s, cs, p)) \in Nat /\ Cardinality(Slid(s, Without(s, cs), p)) \in Nat
           /\ Cardinality(Slid(s, Without(s, cs), p)) <= Cardinality(Lost(s, cs, p))
<1> DEFINE N == Len(s)
           t == Without(s, cs)
           R == Lost(s, cs, p)
           A == Slid(s, t, p)
           K == (1 .. p) \ R
           B == {c \in Clients : \E i \in K : s[i] = c}
<1>1. N \in Nat /\ DOMAIN s = 1 .. N /\ \A i \in 1 .. N : s[i] \in Clients
  BY LenProperties, ElementOfSeq
<1>2. \A i, j \in 1 .. N : s[i] = s[j] => i = j
  BY <1>1 DEF IsInjective
<1>3. /\ t \in Seq(Clients) /\ IsInjective(t) /\ ToSet(t) = ToSet(s) \ cs
      /\ \A i \in DOMAIN s, j \in DOMAIN t : t[j] = s[i] => j <= i
  BY WithoutIs
<1> HIDE DEF N, t
<1>4. IsFiniteSet(Clients) /\ IsFiniteSet(1 .. N) /\ IsFiniteSet(1 .. p) /\ Cardinality(1 .. p) = p
  BY <1>1, FS_Interval, BroadcastAssumption DEF BroadcastAssumption
<1>5. R \in SUBSET (1 .. N) /\ R \in SUBSET (1 .. p) /\ A \in SUBSET Clients /\ B \in SUBSET Clients
  BY <1>1 DEF Lost, Slid
<1>6. IsFiniteSet(R) /\ IsFiniteSet(A) /\ IsFiniteSet(B) /\ IsFiniteSet(K)
  BY <1>4, <1>5, FS_Subset
<1>7. Cardinality(R) \in Nat /\ Cardinality(A) \in Nat /\ Cardinality(B) \in Nat /\ Cardinality(K) \in Nat
  BY <1>6, FS_CardinalityType
<1>8. CASE p > N
  <2>1. A = {}
    BY <1>1, <1>8 DEF Slid
  <2>2. Cardinality(A) = 0
    BY <2>1, FS_EmptySet
  <2> HIDE DEF A, R
  <2> QED BY <1>6, <1>7, <2>2 DEF A, R, t
<1>9. CASE p <= N
  <2>1. R \cap (1 .. p) = R /\ K = (1 .. p) \ R
    BY <1>5
  <2>2. Cardinality(K) = p - Cardinality(R)
    <3>1. Cardinality(K) = Cardinality(1 .. p) - Cardinality((1 .. p) \cap R)
      BY <1>4, FS_Difference
    <3>2. (1 .. p) \cap R = R
      BY <2>1
    <3> HIDE DEF R, K
    <3> QED BY <1>4, <3>1, <3>2
  <2>3. Cardinality(K) <= Cardinality(B)
    <3> DEFINE f == [i \in K |-> s[i]]
    <3>1. \A i \in K : i \in 1 .. N
      BY <1>9, <1>1
    <3>2. f \in Injection(K, B)
      BY <1>1, <1>2, <3>1 DEF Injection, IsInjective
    <3> HIDE DEF f, K, B
    <3> QED BY <1>6, <3>2, FS_Injection
  <2>4. A \cap B = {}
    <3> SUFFICES ASSUME NEW c \in A, c \in B PROVE FALSE
      OBVIOUS
    <3>1. PICK i \in 1 .. N : p < i /\ s[i] = c
      BY <1>1 DEF Slid
    <3>2. PICK k \in K : s[k] = c
      OBVIOUS
    <3>3. k \in 1 .. N /\ k <= p
      BY <1>9, <1>1
    <3> QED BY <1>1, <1>2, <3>1, <3>2, <3>3
  <2>5. \A c \in A \cup B : \E j \in 1 .. p : j \in DOMAIN t /\ t[j] = c
    <3>0. \A j \in DOMAIN t : j \in Nat \ {0}
      <4>1. Len(t) \in Nat /\ DOMAIN t = 1 .. Len(t)
        BY <1>3, LenProperties
      <4> QED BY <4>1
    <3>1. ASSUME NEW c \in A PROVE \E j \in 1 .. p : j \in DOMAIN t /\ t[j] = c
      BY <3>0 DEF Slid
    <3>2. ASSUME NEW c \in B PROVE \E j \in 1 .. p : j \in DOMAIN t /\ t[j] = c
      <4>1. PICK k \in K : s[k] = c
        OBVIOUS
      <4>2. k \in DOMAIN s /\ k <= p /\ s[k] \notin cs
        BY <1>9, <1>1 DEF Lost
      <4>3. c \in ToSet(t)
        BY <1>3, <4>1, <4>2 DEF ToSet
      <4>4. PICK j \in DOMAIN t : t[j] = c
        BY <4>3 DEF ToSet
      <4>5. j <= k
        BY <1>3, <4>1, <4>2, <4>4
      <4>6. j \in 1 .. p
        BY <1>1, <3>0, <4>2, <4>5
      <4> QED BY <4>4, <4>6
    <3> QED BY <3>1, <3>2
  <2>6. IsFiniteSet(A \cup B) /\ Cardinality(A \cup B) = Cardinality(A) + Cardinality(B)
    <3> HIDE DEF A, B
    <3>1. Cardinality(A \cup B) = Cardinality(A) + Cardinality(B) - Cardinality(A \cap B)
      BY <1>6, FS_Union
    <3>2. Cardinality(A \cap B) = 0
      BY <2>4, FS_EmptySet
    <3> QED BY <1>6, <1>7, <3>1, <3>2, FS_Union
  <2>7. Cardinality(A \cup B) <= p
    <3> DEFINE f == [c \in A \cup B |-> CHOOSE j \in 1 .. p : j \in DOMAIN t /\ t[j] = c]
    <3>1. \A c \in A \cup B : f[c] \in 1 .. p /\ t[f[c]] = c
      BY <2>5
    <3> HIDE DEF A, B
    <3>2. f \in [A \cup B -> 1 .. p]
      BY <3>1
    <3> HIDE DEF f
    <3>3. f \in Injection(A \cup B, 1 .. p)
      BY <3>1, <3>2 DEF Injection, IsInjective
    <3> QED BY <1>4, <3>3, FS_Injection
  <2> HIDE DEF A, B, K, R
  <2>8. Cardinality(A) <= Cardinality(R)
    BY <1>7, <2>2, <2>3, <2>6, <2>7
  <2> QED BY <1>6, <1>7, <2>8 DEF A, R, t
<1> QED BY <1>1, <1>8, <1>9

-----------------------------------------------------------------------------
(* Lists that grow.                                                      *)

(* What Append does to a list.                                             *)
LEMMA Appended ==
    ASSUME NEW T, NEW s \in Seq(T), NEW x \in T
    PROVE  /\ Append(s, x) \in Seq(T) /\ ToSet(Append(s, x)) = ToSet(s) \cup {x}
           /\ Len(s) \in Nat /\ DOMAIN s = 1 .. Len(s) /\ DOMAIN Append(s, x) = 1 .. Len(s) + 1
           /\ \A i \in DOMAIN s : Append(s, x)[i] = s[i]
           /\ Append(s, x)[Len(s) + 1] = x
           /\ IsInjective(s) /\ x \notin ToSet(s) => IsInjective(Append(s, x))
<1> DEFINE t == Append(s, x)
<1>1. /\ t \in Seq(T) /\ Len(t) = Len(s) + 1 /\ \A i \in 1 .. Len(s) : t[i] = s[i]
      /\ t[Len(s) + 1] = x
  BY AppendProperties
<1> HIDE DEF t
<1>2. Len(s) \in Nat /\ DOMAIN s = 1 .. Len(s) /\ DOMAIN t = 1 .. Len(s) + 1
  BY <1>1, LenProperties
<1>3. ToSet(t) = ToSet(s) \cup {x}
  BY <1>1, <1>2 DEF ToSet
<1>4. IsInjective(s) /\ x \notin ToSet(s) => IsInjective(t)
  BY <1>1, <1>2 DEF IsInjective, ToSet
<1> QED BY <1>1, <1>2, <1>3, <1>4 DEF t

(* As many positions as clients are taken off.                             *)
LEMMA Counts ==
    ASSUME NEW s \in Seq(Clients), IsInjective(s), NEW cs, NEW p \in Nat
    PROVE  /\ IsFiniteSet(ToSet(s) \cap cs) /\ Cardinality(ToSet(s) \cap cs) \in Nat
           /\ Cardinality(Lost(s, cs, p)) <= Cardinality(ToSet(s) \cap cs)
<1> DEFINE R == Lost(s, cs, p)
           C == ToSet(s) \cap cs
<1>1. IsFiniteSet(Clients) /\ C \in SUBSET Clients
  BY BroadcastAssumption DEF BroadcastAssumption, ToSet
<1>2. IsFiniteSet(C)
  BY <1>1, FS_Subset
<1> DEFINE f == [i \in R |-> s[i]]
<1>3. f \in Injection(R, C)
  BY DEF Injection, IsInjective, Lost, ToSet
<1> HIDE DEF f, R, C
<1> QED BY <1>2, <1>3, FS_Injection, FS_CardinalityType DEF R, C

(* The list is no longer than there are clients.                           *)
LEMMA ListFits ==
    ASSUME NEW s \in Seq(Clients), IsInjective(s)
    PROVE  Len(s) \in Nat /\ Len(s) <= Cardinality(Clients) /\ Cardinality(Clients) \in Nat
<1> DEFINE n == Len(s)
           f == [i \in 1 .. n |-> s[i]]
<1>1. n \in Nat /\ DOMAIN s = 1 .. n
  BY LenProperties
<1>2. f \in [1 .. n -> Clients] /\ \A i, j \in 1 .. n : f[i] = f[j] => i = j
  BY <1>1 DEF IsInjective
<1>3. IsFiniteSet(Clients) /\ Cardinality(Clients) \in Nat
  BY BroadcastAssumption, FS_CardinalityType DEF BroadcastAssumption
<1> HIDE DEF f, n
<1>4. n <= Cardinality(Clients)
  BY <1>1, <1>2, <1>3, Fits
<1> QED BY <1>1, <1>3, <1>4 DEF n

-----------------------------------------------------------------------------
(* Types.                                                                  *)

(* A client that is listed has joined and not left, and an open one is     *)
(* listed; what a client was given is kept while it is there.              *)
Listing ==
    /\ \A c \in ToSet(connections) : socket[c] \in {"open", "broken"}
    /\ \A c \in Clients : socket[c] = "open" => c \in ToSet(connections)
    /\ \A c \in Clients : socket[c] \in {"new", "gone"} => got[c] = <<>>

(* A broadcast that waits has a client; those that failed it are lost.     *)
Walking ==
    \A e \in Events :
      /\ task[e].pc = "new" => task[e] = NoTask
      /\ task[e].pc = "sending" =>
           task[e].at >= 1 /\ task[e].to \in Clients /\ socket[task[e].to] # "new"
      /\ \A c \in task[e].dead : socket[c] \in {"broken", "gone"}
      /\ \A c \in task[e].heirs : socket[c] # "new"

(* The clients that were taken off the list: no broadcast counted more.    *)
Off == {c \in Clients : socket[c] # "new" /\ c \notin ToSet(connections)}

Slipping == \A e \in Events : slips[e] <= Cardinality(Off)

IInv == TypeOK /\ Listing /\ Walking /\ Slipping

(* The broadcast e, in the state t, is to go on.                           *)
Turn(e, t) ==
    t \in Task /\ t.at = task[e].at /\ \A c \in t.dead : socket[c] \in {"broken", "gone"}

(* It waits for its next client, or it is over.                            *)
Reached(e, t, c) ==
    /\ t.at + 1 \in DOMAIN connections /\ c = connections[t.at + 1] /\ t.at \in Nat
    /\ task' \in [Events -> Task] /\ \A d \in Events \ {e} : task'[d] = task[d]
    /\ task'[e].pc = "sending" /\ task'[e].at = t.at + 1 /\ task'[e].to = c
    /\ task'[e].dead = t.dead /\ task'[e].heirs = t.heirs
    /\ UNCHANGED <<connections, socket, slips>>

Ended(e, t) ==
    /\ Len(connections) <= t.at /\ t.at \in Nat
    /\ task' \in [Events -> Task] /\ \A d \in Events \ {e} : task'[d] = task[d]
    /\ task'[e].pc = "done" /\ task'[e].dead = {} /\ task'[e].heirs = t.heirs
    /\ Discard(t.dead, Underway \ {e})
    /\ UNCHANGED socket

(* A broadcast that goes on waits for the next client or ends.             *)
LEMMA Proceeds ==
    ASSUME IInv, NEW e \in Events, NEW t, Turn(e, t), Proceed(e, t), UNCHANGED socket
    PROVE  Ended(e, t) \/ \E c \in Clients : Reached(e, t, c)
<1> DEFINE n == Onward(t)
           next == t.at + 1
<1>1. /\ connections \in Seq(Clients) /\ IsInjective(connections) /\ task \in [Events -> Task]
      /\ t \in Task /\ t.at \in Nat
  BY DEF IInv, TypeOK, Turn, Task
<1>2. Len(connections) \in Nat /\ DOMAIN connections = 1 .. Len(connections)
  BY <1>1, LenProperties
<1>3. task' = [task EXCEPT ![e] = n]
  BY DEF Proceed
<1>4. CASE t.at < Len(connections)
  <2>1. next \in 1 .. Len(connections) /\ next \in 0 .. Cardinality(Clients)
    <3>1. Len(connections) <= Cardinality(Clients) /\ Cardinality(Clients) \in Nat
      BY <1>1, ListFits
    <3> QED BY <1>1, <1>2, <1>4, <3>1
  <2> DEFINE c == connections[next]
  <2>2. c \in Clients
    BY <1>1, <2>1, ElementOfSeq
  <2> HIDE DEF next
  <2>3. n = [t EXCEPT !.pc = "sending", !.at = next, !.to = c]
    BY <1>4 DEF Onward, next
  <2> HIDE DEF n, c
  <2>4. /\ n \in Task /\ n.pc = "sending" /\ n.at = next /\ n.to = c /\ n.dead = t.dead
        /\ n.heirs = t.heirs
    BY <1>1, <2>1, <2>2, <2>3 DEF Task
  <2>5. /\ task' \in [Events -> Task] /\ task'[e] = n /\ \A d \in Events \ {e} : task'[d] = task[d]
    BY <1>1, <1>3, <2>4
  <2>6. UNCHANGED <<connections, slips>>
    BY <2>4 DEF Proceed, n
  <2>7. Reached(e, t, c)
    BY <1>1, <1>2, <2>1, <2>4, <2>5, <2>6 DEF Reached, c, next
  <2> QED BY <2>2, <2>7
<1>5. CASE ~(t.at < Len(connections))
  <2>1. n = [NoTask EXCEPT !.pc = "done", !.heirs = t.heirs]
    BY <1>5 DEF Onward
  <2> HIDE DEF n
  <2>2. n \in Task /\ n.pc = "done" /\ n.dead = {} /\ n.heirs = t.heirs
    <3>1. 0 \in 0 .. Cardinality(Clients)
      BY <1>1, ListFits
    <3> QED BY <1>1, <2>1, <3>1 DEF Task, NoTask
  <2>3. task' \in [Events -> Task] /\ task'[e] = n /\ \A d \in Events \ {e} : task'[d] = task[d]
    BY <1>1, <1>3, <2>2
  <2>4. Discard(t.dead, Underway \ {e})
    BY <2>2 DEF Proceed, n
  <2> QED BY <1>1, <1>2, <1>5, <2>2, <2>3, <2>4 DEF Ended
<1> QED BY <1>4, <1>5

(* The client that e waits for is given it, if it is still there.          *)
Sent(e, c) == got' = IF socket[c] = "open" THEN [got EXCEPT ![c] = Append(@, e)] ELSE got

(* The broadcast that goes on when it begins, and when its client was      *)
(* written to or failed.                                                   *)
Turns(e, t) ==
    /\ Turn(e, t)
    /\ \/ /\ task[e].pc = "new" /\ t.heirs = ToSet(connections) /\ got' = got
       \/ /\ task[e].pc = "sending" /\ t.heirs = task[e].heirs
          /\ task[e].to \in Clients /\ Sent(e, task[e].to)

(* Begin and Resume are turns of their broadcast, with the task it goes on *)
(* with.                                                                   *)
LEMMA Advances ==
    ASSUME IInv, NEW e \in Events, Begin(e) \/ Resume(e)
    PROVE  \E t : Turns(e, t) /\ (Ended(e, t) \/ \E c \in Clients : Reached(e, t, c))
<1>0. task \in [Events -> Task] /\ task[e] \in Task
  BY DEF IInv, TypeOK
<1>1. CASE Begin(e)
  <2> DEFINE t == [task[e] EXCEPT !.heirs = ToSet(connections)]
  <2>1. ToSet(connections) \in SUBSET Clients
    BY DEF IInv, TypeOK, ToSet
  <2>2. t \in Task /\ t.at = task[e].at /\ t.dead = task[e].dead /\ t.heirs = ToSet(connections)
    BY <1>0, <2>1 DEF Task
  <2>3. Proceed(e, t) /\ task[e].pc = "new" /\ UNCHANGED <<socket, got>>
    BY <1>1 DEF Begin
  <2> HIDE DEF t
  <2>4. Turn(e, t)
    BY <2>2 DEF Turn, IInv, Walking
  <2> QED BY <2>2, <2>3, <2>4, Proceeds DEF Turns
<1>2. CASE Resume(e)
  <2> DEFINE w == task[e].to
             u == [task[e] EXCEPT !.dead = @ \cup {w}]
  <2>1. task[e].pc = "sending" /\ w \in Clients /\ UNCHANGED socket /\ Sent(e, w)
    BY <1>2 DEF Resume, IInv, Walking, Sent
  <2>2. Proceed(e, task[e]) \/ (socket[w] # "open" /\ Proceed(e, u))
    BY <1>2 DEF Resume, Failed
  <2>3. u \in Task /\ u.at = task[e].at /\ u.dead = task[e].dead \cup {w} /\ u.heirs = task[e].heirs
    BY <1>0, <2>1 DEF Task
  <2> HIDE DEF w, u
  <2>4. /\ \A c \in task[e].dead : socket[c] \in {"broken", "gone"}
        /\ socket[w] # "open" => socket[w] \in {"broken", "gone"}
    BY <2>1 DEF IInv, Walking, TypeOK, Sockets, w
  <2>5. Turn(e, task[e]) /\ (socket[w] # "open" => Turn(e, u))
    BY <1>0, <2>3, <2>4 DEF Turn
  <2> QED BY <2>1, <2>2, <2>3, <2>5, Proceeds DEF Turns, w
<1> QED BY <1>1, <1>2

(* What a client was given is of its type, and kept while it is there.     *)
LEMMA Gives ==
    ASSUME IInv, NEW e \in Events, NEW t, Turns(e, t)
    PROVE  /\ got' \in [Clients -> Seq(Events)]
           /\ \A c \in Clients : ToSet(got[c]) \subseteq ToSet(got'[c])
           /\ \A c \in Clients : socket[c] \in {"new", "gone"} => got'[c] = got[c]
           /\ \A c \in Clients : got'[c] = got[c]
                \/ (c = task[e].to /\ task[e].pc = "sending" /\ got'[c] = Append(got[c], e)
                      /\ ToSet(got'[c]) = ToSet(got[c]) \cup {e})
           /\ task[e].pc = "sending" /\ socket[task[e].to] = "open" => e \in ToSet(got'[task[e].to])
<1>1. got \in [Clients -> Seq(Events)]
  BY DEF IInv, TypeOK
<1>2. CASE got' = got /\ task[e].pc = "new"
  BY <1>1, <1>2
<1>3. ASSUME NEW w \in Clients, w = task[e].to, task[e].pc = "sending", Sent(e, w)
      PROVE  /\ got' \in [Clients -> Seq(Events)]
             /\ \A c \in Clients \ {w} : got'[c] = got[c]
             /\ got'[w] = IF socket[w] = "open" THEN Append(got[w], e) ELSE got[w]
             /\ ToSet(Append(got[w], e)) = ToSet(got[w]) \cup {e}
  <2>1. Append(got[w], e) \in Seq(Events) /\ ToSet(Append(got[w], e)) = ToSet(got[w]) \cup {e}
    BY <1>1, Appended
  <2> QED BY <1>1, <1>3, <2>1 DEF Sent
<1>4. CASE task[e].pc = "sending" /\ task[e].to \in Clients /\ Sent(e, task[e].to)
  BY <1>3, <1>4
<1> QED BY <1>2, <1>4 DEF Turns

(* Clients are taken off the list while the broadcasts of es go on.        *)
LEMMA Discards ==
    ASSUME IInv, NEW cs, NEW es \in SUBSET Events, Discard(cs, es)
    PROVE  /\ connections' \in Seq(Clients) /\ IsInjective(connections')
           /\ ToSet(connections') = ToSet(connections) \ cs
           /\ \A e \in Events \ es : slips'[e] = slips[e]
           /\ \A e \in es : slips'[e] = slips[e] + Cardinality(Lost(connections, cs, task[e].at))
           /\ DOMAIN slips' = Events
           /\ \A e \in Events : task[e].at \in Nat /\ slips[e] \in Nat
                                /\ Cardinality(Lost(connections, cs, task[e].at)) \in Nat
<1>1. /\ connections \in Seq(Clients) /\ IsInjective(connections) /\ task \in [Events -> Task]
      /\ slips \in [Events -> 0 .. Cardinality(Clients)]
  BY DEF IInv, TypeOK
<1>2. \A e \in Events : task[e].at \in Nat /\ slips[e] \in Nat
  BY <1>1 DEF Task
<1>3. \A e \in Events : Cardinality(Lost(connections, cs, task[e].at)) \in Nat
  BY <1>1, <1>2, Slides
<1>4. connections' = Without(connections, cs)
  BY DEF Discard
<1>5. slips' = [e \in Events |->
         IF e \in es THEN slips[e] + Cardinality(Lost(connections, cs, task[e].at)) ELSE slips[e]]
  BY DEF Discard, Lost
<1> QED BY <1>1, <1>2, <1>3, <1>4, <1>5, WithoutIs

(* No broadcast counts more clients than were taken off.                   *)
LEMMA DiscardSlips ==
    ASSUME IInv, NEW cs, NEW es \in SUBSET Events, Discard(cs, es),
           \A c \in Clients : socket'[c] = "new" <=> socket[c] = "new"
    PROVE  Slipping' /\ slips' \in [Events -> 0 .. Cardinality(Clients)]
<1> DEFINE C == ToSet(connections) \cap cs
<1>1. /\ connections \in Seq(Clients) /\ IsInjective(connections) /\ ToSet(connections) \subseteq Clients
      /\ ToSet(connections') = ToSet(connections) \ cs
  <2>1. ToSet(connections') = ToSet(connections) \ cs
    BY Discards
  <2>2. connections \in Seq(Clients) /\ IsInjective(connections)
    BY DEF IInv, TypeOK
  <2>3. ToSet(connections) \subseteq Clients
    BY <2>2 DEF ToSet
  <2> QED BY <2>1, <2>2, <2>3
<1>2. IsFiniteSet(Clients) /\ Cardinality(Clients) \in Nat
  BY BroadcastAssumption, FS_CardinalityType DEF BroadcastAssumption
<1>3. Off' = Off \cup C /\ Off \cap C = {}
  <2>1. \A c \in ToSet(connections) : socket[c] # "new"
    BY DEF IInv, Listing
  <2>2. \A c \in Clients : c \in Off <=> (c \notin ToSet(connections) /\ socket[c] # "new")
    BY DEF Off
  <2>3. \A c \in Clients : c \in Off' <=> (c \notin ToSet(connections') /\ socket[c] # "new")
    BY DEF Off
  <2>4. Off \subseteq Clients /\ Off' \subseteq Clients
    BY DEF Off
  <2> DEFINE L == ToSet(connections)
             M == ToSet(connections')
  <2>5. /\ L \subseteq Clients /\ M = L \ cs /\ C = L \cap cs
        /\ \A c \in L : socket[c] # "new"
        /\ \A c \in Clients : c \in Off <=> (c \notin L /\ socket[c] # "new")
        /\ \A c \in Clients : c \in Off' <=> (c \notin M /\ socket[c] # "new")
    BY <1>1, <2>1, <2>2, <2>3
  <2> HIDE DEF L, M, C
  <2> QED BY <2>4, <2>5
<1>4. Off \in SUBSET Clients /\ C \in SUBSET Clients /\ Off' \in SUBSET Clients
  BY <1>1 DEF Off
<1> HIDE DEF C
<1>5. IsFiniteSet(Off) /\ IsFiniteSet(C) /\ Cardinality(Off') <= Cardinality(Clients)
  BY <1>2, <1>4, FS_Subset
<1>6. Cardinality(Off) \in Nat /\ Cardinality(C) \in Nat
  BY <1>5, FS_CardinalityType
<1>7. Cardinality(Off') = Cardinality(Off) + Cardinality(C)
  <2>1. Cardinality(Off \cap C) = 0
    BY <1>3, FS_EmptySet
  <2>2. Cardinality(Off \cup C) = Cardinality(Off) + Cardinality(C) - Cardinality(Off \cap C)
    BY <1>5, FS_Union
  <2> QED BY <1>3, <1>6, <2>1, <2>2
<1>8. ASSUME NEW e \in Events PROVE slips'[e] <= Cardinality(Off') /\ slips'[e] \in 0 .. Cardinality(Clients)
  <2> DEFINE k == Cardinality(Lost(connections, cs, task[e].at))
  <2>1. /\ k \in Nat /\ slips[e] \in Nat /\ task[e].at \in Nat
        /\ slips'[e] = slips[e] \/ slips'[e] = slips[e] + k
    BY Discards
  <2>2. slips[e] <= Cardinality(Off)
    BY DEF IInv, Slipping
  <2>3. k <= Cardinality(C)
    BY <1>1, <2>1, Counts DEF C
  <2> HIDE DEF k
  <2> QED BY <1>2, <1>5, <1>6, <1>7, <2>1, <2>2, <2>3
<1>9. DOMAIN slips' = Events /\ slips' = [e \in Events |-> slips'[e]]
  <2> DEFINE F(e) == IF e \in es
         THEN slips[e] + Cardinality({i \in DOMAIN connections : i <= task[e].at /\ connections[i] \in cs})
         ELSE slips[e]
  <2>1. slips' = [e \in Events |-> F(e)]
    BY DEF Discard
  <2> HIDE DEF F
  <2> QED BY <2>1
<1> QED BY <1>8, <1>9 DEF Slipping

(* Each step keeps the invariant: a client joins at the end of the list.   *)
LEMMA ConnectInv == ASSUME IInv, NEW c \in Clients, Connect(c) PROVE IInv'
<1>1. /\ connections \in Seq(Clients) /\ IsInjective(connections) /\ socket \in [Clients -> Sockets]
      /\ socket[c] = "new" /\ socket' = [socket EXCEPT ![c] = "open"]
      /\ connections' = Append(connections, c) /\ UNCHANGED <<task, got, slips>>
  BY DEF IInv, TypeOK, Connect, Listed
<1>2. c \notin ToSet(connections)
  BY <1>1 DEF IInv, Listing
<1>3. /\ connections' \in Seq(Clients) /\ IsInjective(connections')
      /\ ToSet(connections') = ToSet(connections) \cup {c}
  BY <1>1, <1>2, Appended
<1>4. socket' \in [Clients -> Sockets] /\ socket'[c] = "open" /\ \A d \in Clients \ {c} : socket'[d] = socket[d]
  BY <1>1 DEF Sockets
<1>5. ToSet(connections) \subseteq Clients
  BY <1>1 DEF ToSet
<1>6. Listing'
  BY <1>1, <1>3, <1>4, <1>5 DEF IInv, Listing
<1>7. Off' = Off
  BY <1>1, <1>3, <1>4 DEF Off
<1>8. Slipping'
  BY <1>1, <1>7 DEF IInv, Slipping
<1>9. Walking'
  <2>1. ASSUME NEW e \in Events, NEW d \in task[e].dead PROVE socket'[d] \in {"broken", "gone"}
    <3>1. d \in Clients /\ socket[d] \in {"broken", "gone"}
      BY DEF IInv, Walking, TypeOK, Task
    <3> QED BY <1>1, <1>4, <3>1
  <2>2. ASSUME NEW e \in Events, task[e].pc = "sending" PROVE socket'[task[e].to] # "new"
    BY <1>1, <1>4, <2>2 DEF IInv, Walking
  <2>3. ASSUME NEW e \in Events, NEW d \in task[e].heirs PROVE socket'[d] # "new"
    <3>1. d \in Clients /\ socket[d] # "new"
      BY DEF IInv, Walking, TypeOK, Task
    <3> QED BY <1>4, <3>1
  <2> QED BY <1>1, <2>1, <2>2, <2>3 DEF IInv, Walking
<1>10. TypeOK'
  BY <1>1, <1>3, <1>4 DEF IInv, TypeOK
<1> QED BY <1>6, <1>8, <1>9, <1>10 DEF IInv

(* Only the socket changes.                                                *)
LEMMA BreakInv == ASSUME IInv, NEW c \in Clients, Break(c) PROVE IInv'
<1>1. /\ socket \in [Clients -> Sockets] /\ socket[c] = "open" /\ socket' = [socket EXCEPT ![c] = "broken"]
      /\ UNCHANGED <<connections, task, got, slips>>
  BY DEF IInv, TypeOK, Break
<1>2. socket' \in [Clients -> Sockets] /\ socket'[c] = "broken" /\ \A d \in Clients \ {c} : socket'[d] = socket[d]
  BY <1>1 DEF Sockets
<1>3. ToSet(connections) \subseteq Clients
  BY DEF IInv, TypeOK, ToSet
<1>4. Listing'
  BY <1>1, <1>2, <1>3 DEF IInv, Listing
<1>5. Off' = Off
  BY <1>1, <1>2 DEF Off
<1>6. Walking'
  <2>1. \A e \in Events : task[e].dead \in SUBSET Clients /\ task[e].heirs \in SUBSET Clients
    BY DEF IInv, TypeOK, Task
  <2> QED BY <1>1, <1>2, <2>1 DEF IInv, Walking
<1>7. TypeOK'
  BY <1>1, <1>2 DEF IInv, TypeOK
<1> QED BY <1>1, <1>4, <1>5, <1>6, <1>7 DEF IInv, Slipping

(* The list moves down under every iterator.                               *)
LEMMA LeaveInv == ASSUME IInv, NEW c \in Clients, Leave(c) PROVE IInv'
<1>1. /\ socket \in [Clients -> Sockets] /\ socket[c] \in {"open", "broken"}
      /\ socket' = [socket EXCEPT ![c] = "gone"] /\ got' = [got EXCEPT ![c] = <<>>]
      /\ Discard({c}, Underway) /\ UNCHANGED task
  BY DEF IInv, TypeOK, Leave
<1>2. socket' \in [Clients -> Sockets] /\ socket'[c] = "gone" /\ \A d \in Clients \ {c} : socket'[d] = socket[d]
  BY <1>1 DEF Sockets
<1>3. Underway \in SUBSET Events
  BY DEF Underway
<1>4. /\ connections' \in Seq(Clients) /\ IsInjective(connections')
      /\ ToSet(connections') = ToSet(connections) \ {c}
  BY <1>1, <1>3, Discards
<1>5. ToSet(connections) \subseteq Clients
  BY DEF IInv, TypeOK, ToSet
<1>6. got' \in [Clients -> Seq(Events)] /\ got'[c] = <<>> /\ \A d \in Clients \ {c} : got'[d] = got[d]
  BY <1>1 DEF IInv, TypeOK
<1>7. Listing'
  BY <1>2, <1>4, <1>5, <1>6 DEF IInv, Listing
<1>8. Slipping' /\ slips' \in [Events -> 0 .. Cardinality(Clients)]
  BY <1>1, <1>2, <1>3, DiscardSlips
<1>9. Walking'
  <2>1. \A e \in Events : task[e].dead \in SUBSET Clients /\ task[e].heirs \in SUBSET Clients
    BY DEF IInv, TypeOK, Task
  <2> QED BY <1>1, <1>2, <2>1 DEF IInv, Walking
<1>10. TypeOK'
  BY <1>1, <1>2, <1>4, <1>6, <1>8 DEF IInv, TypeOK
<1> QED BY <1>7, <1>8, <1>9, <1>10 DEF IInv

(* A broadcast waits for its next client.                                  *)
LEMMA ReachedInv ==
    ASSUME IInv, NEW e \in Events, NEW t, Turns(e, t), \A d \in t.heirs : socket[d] # "new",
           NEW c \in Clients, Reached(e, t, c)
    PROVE  IInv'
<1>1. /\ task' \in [Events -> Task] /\ \A d \in Events \ {e} : task'[d] = task[d]
      /\ task'[e].pc = "sending" /\ task'[e].at = t.at + 1 /\ task'[e].to = c /\ task'[e].dead = t.dead
      /\ t.at \in Nat /\ UNCHANGED <<connections, socket, slips>>
  BY DEF Reached
<1>2. socket[c] \in {"open", "broken"}
  BY DEF Reached, IInv, Listing, ToSet
<1>3. Off' = Off
  BY <1>1 DEF Off
<1>4. got' \in [Clients -> Seq(Events)] /\ \A d \in Clients : socket[d] \in {"new", "gone"} => got'[d] = got[d]
  BY Gives
<1>5. Listing'
  BY <1>1, <1>4 DEF IInv, Listing
<1>6. Walking'
  <2>1. \A d \in task'[e].dead : socket'[d] \in {"broken", "gone"}
    BY <1>1 DEF Turns, Turn
  <2>2. t.at + 1 >= 1
    BY <1>1
  <2>3. ASSUME NEW d \in Events \ {e}
        PROVE  /\ task'[d].pc = "new" => task'[d] = NoTask
               /\ task'[d].pc = "sending" =>
                    task'[d].at >= 1 /\ task'[d].to \in Clients /\ socket'[task'[d].to] # "new"
               /\ \A b \in task'[d].dead : socket'[b] \in {"broken", "gone"}
               /\ \A b \in task'[d].heirs : socket'[b] # "new"
    BY <1>1 DEF IInv, Walking
  <2>4. \A b \in task'[e].heirs : socket'[b] # "new"
    BY <1>1 DEF Reached
  <2> QED BY <1>1, <1>2, <2>1, <2>2, <2>3, <2>4 DEF Walking
<1>7. TypeOK'
  BY <1>1, <1>4 DEF IInv, TypeOK
<1> QED BY <1>1, <1>3, <1>5, <1>6, <1>7 DEF IInv, Slipping

(* A broadcast ends and discards the clients that failed.                  *)
LEMMA EndedInv ==
    ASSUME IInv, NEW e \in Events, NEW t, Turns(e, t), Ended(e, t),
           \A d \in t.heirs : socket[d] # "new"
    PROVE  IInv'
<1>1. /\ task' \in [Events -> Task] /\ \A d \in Events \ {e} : task'[d] = task[d]
      /\ task'[e].pc = "done" /\ task'[e].dead = {}
      /\ Discard(t.dead, Underway \ {e}) /\ UNCHANGED socket
  BY DEF Ended
<1>2. Underway \ {e} \in SUBSET Events
  BY DEF Underway
<1>3. /\ connections' \in Seq(Clients) /\ IsInjective(connections')
      /\ ToSet(connections') = ToSet(connections) \ t.dead
  BY <1>1, <1>2, Discards
<1>4. \A c \in t.dead : socket[c] \in {"broken", "gone"}
  BY DEF Turns, Turn
<1>5. got' \in [Clients -> Seq(Events)] /\ \A d \in Clients : socket[d] \in {"new", "gone"} => got'[d] = got[d]
  BY Gives
<1>6. Listing'
  BY <1>1, <1>3, <1>4, <1>5 DEF IInv, Listing
<1>7. Slipping' /\ slips' \in [Events -> 0 .. Cardinality(Clients)]
  BY <1>1, <1>2, DiscardSlips
<1>8. Walking'
  <2>1. \A c \in task'[e].heirs : socket'[c] # "new"
    BY <1>1 DEF Ended
  <2> QED BY <1>1, <2>1 DEF IInv, Walking
<1>9. TypeOK'
  BY <1>1, <1>3, <1>5, <1>7 DEF IInv, TypeOK
<1> QED BY <1>6, <1>7, <1>8, <1>9 DEF IInv

(* The initial states: nobody has joined.                                  *)
LEMMA InitIInv == Init => IInv
<1> SUFFICES ASSUME Init PROVE IInv
  OBVIOUS
<1>1. 0 \in 0 .. Cardinality(Clients) /\ Cardinality(Clients) \in Nat
  BY BroadcastAssumption, FS_CardinalityType DEF BroadcastAssumption
<1>2. NoTask \in Task /\ NoTask.pc = "new" /\ NoTask.dead = {} /\ NoTask.heirs = {}
  BY <1>1 DEF NoTask, Task
<1>3. ToSet(<<>>) = {} /\ IsInjective(<<>>)
  BY DEF ToSet, IsInjective
<1>4. Cardinality(Off) \in Nat
  <2>1. Off \in SUBSET Clients
    BY DEF Off
  <2> QED BY <2>1, FS_Subset, FS_CardinalityType, BroadcastAssumption DEF BroadcastAssumption
<1>5. TypeOK
  BY <1>1, <1>2, <1>3 DEF Init, TypeOK, Sockets
<1>6. Listing /\ Walking
  BY <1>2, <1>3 DEF Init, Listing, Walking
<1>7. Slipping
  BY <1>4 DEF Init, Slipping
<1> QED BY <1>5, <1>6, <1>7 DEF IInv

(* Every step keeps the invariant.                                         *)
LEMMA StepIInv == ASSUME IInv, [Next]_vars PROVE IInv'
<1>1. CASE \E c \in Clients : Connect(c) \/ Leave(c) \/ Break(c)
  BY <1>1, ConnectInv, LeaveInv, BreakInv
<1>2. ASSUME NEW e \in Events, Begin(e) \/ Resume(e) PROVE IInv'
  <2>1. PICK t : Turns(e, t) /\ (Ended(e, t) \/ \E c \in Clients : Reached(e, t, c))
    BY <1>2, Advances
  <2>2. \A d \in t.heirs : socket[d] # "new"
    BY <2>1 DEF Turns, IInv, Listing, Walking
  <2> QED BY <2>1, <2>2, EndedInv, ReachedInv
<1>3. CASE UNCHANGED vars
  BY <1>3 DEF vars, IInv, TypeOK, Listing, Walking, Slipping, Off
<1> QED BY <1>1, <1>2, <1>3 DEF Next

(* Types, the list and the sockets, and the count of those taken off it.   *)
THEOREM Invariance == Spec => []IInv
<1>1. IInv /\ [Next]_vars => IInv'
  BY StepIInv
<1> QED BY InitIInv, <1>1, PTL DEF Spec

(* Every variable stays in its range, for any number of clients and        *)
(* overlapping events.                                                     *)
THEOREM TypeCorrect == Spec => []TypeOK
<1>1. IInv => TypeOK
  BY DEF IInv
<1> QED BY Invariance, <1>1, PTL

-----------------------------------------------------------------------------
(* Once each.                                                              *)

(* No client that was given an event, and not the one that is waited for,  *)
(* is ahead of its iterator; the one that is waited for was not given it.  *)
Behind ==
    \A e \in Events :
      /\ \A c \in Clients : e \in ToSet(got[c]) => task[e].pc # "new"
      /\ task[e].pc = "sending" =>
           /\ e \notin ToSet(got[task[e].to])
           /\ \A i \in DOMAIN connections :
                connections[i] = task[e].to \/ e \in ToSet(got[connections[i]]) => i <= task[e].at

Given == Behind /\ OnceEach

(* A list some clients are taken off: the others only move down.           *)
LEMMA Settles ==
    ASSUME IInv, NEW cs, NEW es \in SUBSET Events, Discard(cs, es), NEW j \in DOMAIN connections'
    PROVE  \E i \in DOMAIN connections : connections[i] = connections'[j] /\ j <= i /\ i \in Nat /\ j \in Nat
<1> DEFINE t == Without(connections, cs)
<1>1. connections \in Seq(Clients) /\ IsInjective(connections)
  BY DEF IInv, TypeOK
<1>2. /\ t \in Seq(Clients) /\ ToSet(t) = ToSet(connections) \ cs
      /\ \A i \in DOMAIN connections, k \in DOMAIN t : t[k] = connections[i] => k <= i
  BY <1>1, WithoutIs
<1>3. connections' = t
  BY DEF Discard
<1> HIDE DEF t
<1>4. t[j] \in ToSet(connections)
  BY <1>2, <1>3 DEF ToSet
<1>5. PICK i \in DOMAIN connections : connections[i] = t[j]
  BY <1>4 DEF ToSet
<1>6. i \in Nat /\ j \in Nat
  <2>1. DOMAIN connections = 1 .. Len(connections) /\ DOMAIN t = 1 .. Len(t)
    BY <1>1, <1>2, LenProperties
  <2> QED BY <1>3, <2>1
<1> QED BY <1>2, <1>3, <1>5, <1>6

(* Clients leave and fail: the iterators of the others stay ahead.         *)
LEMMA DiscardBehind ==
    ASSUME IInv, Behind, NEW cs, NEW es \in SUBSET Events, Discard(cs, es), NEW e \in Events,
           task'[e] = task[e], \A c \in Clients : e \in ToSet(got'[c]) => e \in ToSet(got[c]),
           task[e].pc = "sending"
    PROVE  /\ e \notin ToSet(got'[task[e].to])
           /\ \A i \in DOMAIN connections' :
                connections'[i] = task[e].to \/ e \in ToSet(got'[connections'[i]]) => i <= task[e].at
<1>1. /\ e \notin ToSet(got[task[e].to]) /\ task[e].to \in Clients
      /\ \A i \in DOMAIN connections :
           connections[i] = task[e].to \/ e \in ToSet(got[connections[i]]) => i <= task[e].at
  BY DEF Behind, IInv, Walking
<1>2. task[e].at \in Nat
  BY DEF IInv, TypeOK, Task
<1>3. ASSUME NEW j \in DOMAIN connections',
             connections'[j] = task[e].to \/ e \in ToSet(got'[connections'[j]])
      PROVE  j <= task[e].at
  <2>1. PICK i \in DOMAIN connections :
          connections[i] = connections'[j] /\ j <= i /\ i \in Nat /\ j \in Nat
    BY Settles
  <2>2. connections[i] \in Clients
    BY ElementOfSeq, LenProperties DEF IInv, TypeOK
  <2>3. i <= task[e].at
    BY <1>1, <1>3, <2>1, <2>2
  <2> QED BY <1>2, <2>1, <2>3
<1> QED BY <1>1, <1>3

(* The broadcast that goes on has given its event to those behind its      *)
(* iterator only, and to none of them twice.                               *)
LEMMA GivesOnce ==
    ASSUME IInv, Given, NEW e \in Events, NEW t, Turns(e, t)
    PROVE  /\ OnceEach' /\ t.at = task[e].at /\ t.at \in Nat
           /\ \A i \in DOMAIN connections : e \in ToSet(got'[connections[i]]) => i <= t.at
           /\ \A c \in Clients, d \in Events \ {e} : d \in ToSet(got'[c]) <=> d \in ToSet(got[c])
<1>1. /\ connections \in Seq(Clients) /\ got \in [Clients -> Seq(Events)]
      /\ \A c \in Clients : IsInjective(got[c])
  BY DEF IInv, TypeOK, Given, OnceEach
<1>2. t.at = task[e].at /\ t.at \in Nat
  BY DEF Turns, Turn, Task
<1>3. \A i \in DOMAIN connections : connections[i] \in Clients
  BY <1>1, ElementOfSeq, LenProperties
<1>4. \A c \in Clients : got'[c] = got[c]
        \/ (c = task[e].to /\ task[e].pc = "sending" /\ got'[c] = Append(got[c], e)
              /\ ToSet(got'[c]) = ToSet(got[c]) \cup {e})
  BY Gives
<1>5. OnceEach'
  <2> SUFFICES ASSUME NEW c \in Clients, got'[c] = Append(got[c], e), c = task[e].to, task[e].pc = "sending"
               PROVE  IsInjective(got'[c])
    BY <1>1, <1>4 DEF OnceEach
  <2>1. e \notin ToSet(got[c])
    BY DEF Given, Behind
  <2> QED BY <1>1, <2>1, Appended
<1>6. \A i \in DOMAIN connections : e \in ToSet(got'[connections[i]]) => i <= t.at
  <2> SUFFICES ASSUME NEW i \in DOMAIN connections, e \in ToSet(got'[connections[i]]) PROVE i <= t.at
    OBVIOUS
  <2>1. \/ e \in ToSet(got[connections[i]])
        \/ connections[i] = task[e].to /\ task[e].pc = "sending"
    BY <1>3, <1>4
  <2>2. task[e].pc = "sending"
    BY <1>3, <2>1 DEF Given, Behind, Turns
  <2> QED BY <1>2, <2>1, <2>2 DEF Given, Behind
<1> QED BY <1>2, <1>4, <1>5, <1>6

(* The next client was not given the event yet.                            *)
LEMMA ReachedGiven ==
    ASSUME IInv, Given, NEW e \in Events, NEW t, Turns(e, t), NEW c \in Clients, Reached(e, t, c)
    PROVE  Given'
<1>1. /\ t.at + 1 \in DOMAIN connections /\ c = connections[t.at + 1] /\ t.at \in Nat
      /\ \A d \in Events \ {e} : task'[d] = task[d]
      /\ task'[e].pc = "sending" /\ task'[e].at = t.at + 1 /\ task'[e].to = c
      /\ UNCHANGED <<connections, socket, slips>>
  BY DEF Reached
<1>2. /\ OnceEach'
      /\ \A i \in DOMAIN connections : e \in ToSet(got'[connections[i]]) => i <= t.at
      /\ \A b \in Clients, d \in Events \ {e} : d \in ToSet(got'[b]) <=> d \in ToSet(got[b])
  BY GivesOnce
<1>3. connections \in Seq(Clients) /\ IsInjective(connections)
  BY DEF IInv, TypeOK
<1>4. \A i \in DOMAIN connections : i \in Nat /\ connections[i] \in Clients
  <2>1. DOMAIN connections = 1 .. Len(connections)
    BY <1>3, LenProperties
  <2> QED BY <1>3, <2>1, ElementOfSeq
<1>5. /\ e \notin ToSet(got'[c])
      /\ \A i \in DOMAIN connections :
           connections[i] = c \/ e \in ToSet(got'[connections[i]]) => i <= t.at + 1
  <2>1. ~(t.at + 1 <= t.at) /\ \A i \in Nat : (i <= t.at => i <= t.at + 1) /\ t.at + 1 <= t.at + 1
    BY <1>1
  <2>2. \A i \in DOMAIN connections : connections[i] = c => i = t.at + 1
    BY <1>1, <1>3 DEF IsInjective
  <2> QED BY <1>1, <1>2, <1>4, <2>1, <2>2
<1>6. Behind'
  <2> SUFFICES ASSUME NEW d \in Events
               PROVE  /\ \A b \in Clients : d \in ToSet(got'[b]) => task'[d].pc # "new"
                      /\ task'[d].pc = "sending" =>
                           /\ d \notin ToSet(got'[task'[d].to])
                           /\ \A i \in DOMAIN connections :
                                connections[i] = task'[d].to \/ d \in ToSet(got'[connections[i]])
                                  => i <= task'[d].at
    BY <1>1 DEF Behind
  <2>1. CASE d = e
    BY <1>1, <1>5, <2>1
  <2>2. CASE d # e
    <3>1. task[d].pc = "sending" => task[d].to \in Clients
      BY DEF IInv, Walking
    <3> QED BY <1>1, <1>2, <1>4, <2>2, <3>1 DEF Given, Behind
  <2> QED BY <2>1, <2>2
<1> QED BY <1>2, <1>6 DEF Given

(* A broadcast that ends waits for nobody, and the others go on.           *)
LEMMA EndedGiven ==
    ASSUME IInv, Given, NEW e \in Events, NEW t, Turns(e, t), Ended(e, t)
    PROVE  Given'
<1>1. /\ Discard(t.dead, Underway \ {e}) /\ Underway \ {e} \in SUBSET Events
      /\ \A d \in Events \ {e} : task'[d] = task[d]
      /\ task'[e].pc = "done"
  BY DEF Ended, Underway
<1>2. /\ OnceEach'
      /\ \A b \in Clients, d \in Events \ {e} : d \in ToSet(got'[b]) <=> d \in ToSet(got[b])
  BY GivesOnce
<1>3. ASSUME NEW d \in Events \ {e}, task[d].pc = "sending"
      PROVE  /\ d \notin ToSet(got'[task[d].to])
             /\ \A i \in DOMAIN connections' :
                  connections'[i] = task[d].to \/ d \in ToSet(got'[connections'[i]]) => i <= task[d].at
  BY <1>1, <1>2, <1>3, DiscardBehind DEF Given
<1>4. Behind'
  BY <1>1, <1>2, <1>3 DEF Given, Behind
<1> QED BY <1>2, <1>4 DEF Given

(* Every step keeps Given.                                                 *)
LEMMA StepGiven == ASSUME IInv, Given, [Next]_vars PROVE Given'
<1>1. ASSUME NEW c \in Clients, Connect(c) PROVE Given'
  <2>1. /\ connections \in Seq(Clients) /\ connections' = Append(connections, c) /\ socket[c] = "new"
        /\ UNCHANGED <<task, got>>
    BY <1>1 DEF IInv, TypeOK, Connect, Listed
  <2>2. /\ DOMAIN connections' = DOMAIN connections \cup {Len(connections) + 1}
        /\ \A i \in DOMAIN connections : connections'[i] = connections[i]
        /\ connections'[Len(connections) + 1] = c
    BY <2>1, Appended
  <2>3. ToSet(got[c]) = {}
    BY <2>1 DEF IInv, Listing, ToSet
  <2>4. \A e \in Events : task[e].pc = "sending" => task[e].to # c
    BY <2>1 DEF IInv, Walking
  <2>5. Behind'
    BY <2>1, <2>2, <2>3, <2>4 DEF Given, Behind
  <2> QED BY <2>1, <2>5 DEF Given, OnceEach
<1>2. ASSUME NEW c \in Clients, Leave(c) PROVE Given'
  <2>1. /\ got \in [Clients -> Seq(Events)] /\ got' = [got EXCEPT ![c] = <<>>] /\ Discard({c}, Underway)
        /\ task' = task /\ Underway \in SUBSET Events
    BY <1>2 DEF IInv, TypeOK, Leave, Underway
  <2>2. IsInjective(<<>>) /\ ToSet(<<>>) = {}
    BY DEF IsInjective, ToSet
  <2>3. \A d \in Clients : got'[d] = got[d] \/ got'[d] = <<>>
    BY <2>1
  <2>4. OnceEach'
    BY <2>2, <2>3 DEF Given, OnceEach
  <2>5. \A d \in Clients : ToSet(got'[d]) \subseteq ToSet(got[d])
    BY <2>2, <2>3
  <2>6. ASSUME NEW e \in Events, task[e].pc = "sending"
        PROVE  /\ e \notin ToSet(got'[task[e].to])
               /\ \A i \in DOMAIN connections' :
                    connections'[i] = task[e].to \/ e \in ToSet(got'[connections'[i]]) => i <= task[e].at
    BY <2>1, <2>5, <2>6, DiscardBehind DEF Given
  <2>7. Behind'
    BY <2>1, <2>5, <2>6 DEF Given, Behind
  <2> QED BY <2>4, <2>7 DEF Given
<1>3. ASSUME NEW e \in Events, Begin(e) \/ Resume(e) PROVE Given'
  <2>1. PICK t : Turns(e, t) /\ (Ended(e, t) \/ \E c \in Clients : Reached(e, t, c))
    BY <1>3, Advances
  <2> QED BY <2>1, EndedGiven, ReachedGiven
<1>4. CASE UNCHANGED <<connections, task, got>>
  BY <1>4 DEF Given, Behind, OnceEach
<1> QED BY <1>1, <1>2, <1>3, <1>4 DEF Next, Break, vars

(* Given is an invariant.                                                  *)
LEMMA AlwaysGiven == Spec => []Given
<1>1. Init => Given
  <2>1. IsInjective(<<>>) /\ ToSet(<<>>) = {}
    BY DEF IsInjective, ToSet
  <2> QED BY <2>1 DEF Init, Given, Behind, OnceEach, NoTask
<1>2. IInv /\ Given /\ [Next]_vars => Given'
  BY StepGiven
<1> QED BY Invariance, <1>1, <1>2, PTL DEF Spec

(* No client is given an event twice, although the list moves under the    *)
(* iterators of any number of broadcasts.                                  *)
THEOREM OnceEachAlways == Spec => []OnceEach
<1>1. Given => OnceEach
  BY DEF Given
<1> QED BY AlwaysGiven, <1>1, PTL

-----------------------------------------------------------------------------
(* Who is missed.                                                          *)

(* The open clients that e's iterator has passed, and that e has missed.   *)
Passed(e) ==
    {c \in Missed(e) \ {task[e].to} : \E i \in DOMAIN connections : i <= task[e].at /\ connections[i] = c}

Skipping == \A e \in Underway : Cardinality(Passed(e)) <= slips[e]

Served == Skipping /\ HeirsAreServed

(* The sets that are counted are finite.                                   *)
LEMMA MissedType ==
    ASSUME IInv, NEW e \in Events
    PROVE  /\ Missed(e) \in SUBSET Clients /\ IsFiniteSet(Missed(e)) /\ Cardinality(Missed(e)) \in Nat
           /\ IsFiniteSet(Passed(e)) /\ Cardinality(Passed(e)) \in Nat
           /\ slips[e] \in Nat /\ task[e].at \in Nat
<1>1. task[e] \in Task /\ slips[e] \in 0 .. Cardinality(Clients)
  BY DEF IInv, TypeOK
<1>2. slips[e] \in Nat /\ task[e].at \in Nat /\ task[e].heirs \in SUBSET Clients
  BY <1>1 DEF Task
<1>3. Missed(e) \in SUBSET Clients /\ Passed(e) \in SUBSET Missed(e)
  BY <1>2 DEF Missed, Passed
<1>4. IsFiniteSet(Missed(e)) /\ IsFiniteSet(Passed(e))
  BY <1>3, FS_Subset, BroadcastAssumption DEF BroadcastAssumption
<1> QED BY <1>2, <1>3, <1>4, FS_CardinalityType

(* A smaller set costs no more.                                            *)
LEMMA Fewer ==
    ASSUME NEW S, IsFiniteSet(S), NEW T \in SUBSET S, NEW n \in Nat, Cardinality(S) <= n
    PROVE  Cardinality(T) <= n
<1>1. Cardinality(S) \in Nat /\ Cardinality(T) <= Cardinality(S) /\ Cardinality(T) \in Nat
  BY FS_Subset, FS_CardinalityType
<1> QED BY <1>1

(* A step that gives nobody less: the broadcasts that it leaves alone miss *)
(* no more.                                                                *)
LEMMA StillServed ==
    ASSUME IInv, Served, NEW e \in Events,
           task'[e] = task[e], slips'[e] = slips[e], Missed(e)' \subseteq Missed(e),
           task[e].pc = "sending" =>
             \A c \in Missed(e)' \ {task[e].to}, i \in DOMAIN connections' :
               connections'[i] = c /\ i <= task[e].at => c \in Passed(e)
    PROVE  /\ task'[e].pc = "sending" => Cardinality(Passed(e)') <= slips'[e]
           /\ task'[e].pc = "done" => Cardinality(Missed(e)') <= slips'[e]
<1>1. /\ IsFiniteSet(Missed(e)) /\ IsFiniteSet(Passed(e)) /\ slips[e] \in Nat
  BY MissedType
<1>2. CASE task[e].pc = "sending"
  <2>1. Cardinality(Passed(e)) <= slips[e]
    BY <1>2 DEF Served, Skipping, Underway
  <2>2. Passed(e)' \in SUBSET Passed(e)
    BY <1>2 DEF Passed
  <2>3. Cardinality(Passed(e)') <= slips[e]
    BY <1>1, <2>1, <2>2, Fewer
  <2> QED BY <1>2, <2>3
<1>3. CASE task[e].pc = "done"
  <2>1. Cardinality(Missed(e)) <= slips[e]
    BY <1>3 DEF Served, HeirsAreServed
  <2>2. Cardinality(Missed(e)') <= slips[e]
    BY <1>1, <2>1, Fewer
  <2> QED BY <1>3, <2>2
<1> QED BY <1>2, <1>3

(* Clients are taken off the list: a broadcast that goes on misses at most *)
(* one more for each of them.                                              *)
LEMMA DiscardServed ==
    ASSUME IInv, Served, NEW cs, NEW es \in SUBSET Events, Discard(cs, es), NEW e \in Events,
           task'[e] = task[e], Missed(e)' \subseteq Missed(e),
           task[e].pc = "sending" => e \in es
    PROVE  /\ task'[e].pc = "sending" => Cardinality(Passed(e)') <= slips'[e]
           /\ task'[e].pc = "done" => Cardinality(Missed(e)') <= slips'[e]
<1> DEFINE p == task[e].at
           t == Without(connections, cs)
           R == Lost(connections, cs, p)
           A == Slid(connections, t, p)
<1>0. connections \in Seq(Clients) /\ IsInjective(connections) /\ connections' = t
  BY DEF IInv, TypeOK, Discard
<1>1. /\ IsFiniteSet(Missed(e)) /\ IsFiniteSet(Passed(e)) /\ slips[e] \in Nat /\ p \in Nat
      /\ Missed(e) \in SUBSET Clients /\ Cardinality(Passed(e)) \in Nat
  BY MissedType
<1>2. /\ IsFiniteSet(A) /\ Cardinality(A) \in Nat /\ Cardinality(R) \in Nat
      /\ Cardinality(A) <= Cardinality(R)
  BY <1>0, <1>1, Slides
<1>3. slips'[e] = slips[e] \/ (e \in es /\ slips'[e] = slips[e] + Cardinality(R))
  BY Discards
<1>4. e \in es => slips'[e] = slips[e] + Cardinality(R)
  BY Discards
<1>5. CASE task[e].pc = "sending"
  <2>1. Cardinality(Passed(e)) <= slips[e]
    BY <1>5 DEF Served, Skipping, Underway
  <2>2. Passed(e)' \in SUBSET (Passed(e) \cup A)
    <3> SUFFICES ASSUME NEW c \in Passed(e)', c \notin Passed(e) PROVE c \in A
      OBVIOUS
    <3>1. c \in Missed(e) /\ c \in Clients
      BY <1>1 DEF Passed
    <3>2. PICK j \in DOMAIN t : j <= p /\ t[j] = c
      BY <1>0 DEF Passed
    <3>3. PICK i \in DOMAIN connections :
            connections[i] = connections'[j] /\ j <= i /\ i \in Nat /\ j \in Nat
      BY <1>0, Settles
    <3>4. p < i
      BY <1>0, <1>1, <3>1, <3>2, <3>3 DEF Passed
    <3> QED BY <1>0, <3>1, <3>2, <3>3, <3>4 DEF Slid
  <2> HIDE DEF A, R
  <2>3. IsFiniteSet(Passed(e) \cup A) /\ Cardinality(Passed(e) \cup A) <= Cardinality(Passed(e)) + Cardinality(A)
    <3>1. IsFiniteSet(Passed(e) \cap A) /\ IsFiniteSet(Passed(e) \cup A)
      BY <1>1, <1>2, FS_Union, FS_Intersection
    <3>2. Cardinality(Passed(e) \cap A) \in Nat /\ Cardinality(Passed(e) \cup A) \in Nat
      BY <3>1, FS_CardinalityType
    <3>3. Cardinality(Passed(e) \cup A) = Cardinality(Passed(e)) + Cardinality(A) - Cardinality(Passed(e) \cap A)
      BY <1>1, <1>2, FS_Union
    <3> QED BY <1>1, <1>2, <3>1, <3>2, <3>3
  <2>4. Cardinality(Passed(e) \cup A) \in Nat
    BY <2>3, FS_CardinalityType
  <2>5. slips'[e] \in Nat /\ Cardinality(Passed(e) \cup A) <= slips'[e]
    BY <1>1, <1>2, <1>4, <1>5, <2>1, <2>3, <2>4
  <2>6. Cardinality(Passed(e)') <= slips'[e]
    BY <2>2, <2>3, <2>5, Fewer
  <2> QED BY <1>5, <2>6
<1>6. CASE task[e].pc = "done"
  <2> HIDE DEF R
  <2>1. Cardinality(Missed(e)) <= slips[e]
    BY <1>6 DEF Served, HeirsAreServed
  <2>2. slips'[e] \in Nat /\ slips[e] <= slips'[e]
    BY <1>1, <1>2, <1>3
  <2>3. Cardinality(Missed(e)) <= slips'[e]
    <3>1. Cardinality(Missed(e)) \in Nat
      BY MissedType
    <3> QED BY <1>1, <2>1, <2>2, <3>1
  <2>4. Cardinality(Missed(e)') <= slips'[e]
    BY <1>1, <2>2, <2>3, Fewer
  <2> QED BY <1>6, <2>4
<1> QED BY <1>5, <1>6

(* It is enough to look at each event by itself.                           *)
LEMMA EachServed ==
    ASSUME \A e \in Events :
             /\ task'[e].pc = "sending" => Cardinality(Passed(e)') <= slips'[e]
             /\ task'[e].pc = "done" => Cardinality(Missed(e)') <= slips'[e]
    PROVE  Served'
BY DEF Served, Skipping, HeirsAreServed, Underway

(* The client that was waited for is given the event, unless it is not     *)
(* open; the next one is waited for.                                       *)
LEMMA ReachedServed ==
    ASSUME IInv, Given, Served, NEW e \in Events, NEW t, Turns(e, t), NEW c \in Clients, Reached(e, t, c)
    PROVE  Served'
<1>1. /\ t.at + 1 \in DOMAIN connections /\ c = connections[t.at + 1] /\ t.at \in Nat /\ t.at = task[e].at
      /\ \A d \in Events \ {e} : task'[d] = task[d]
      /\ task'[e].pc = "sending" /\ task'[e].at = t.at + 1 /\ task'[e].to = c /\ task'[e].heirs = t.heirs
      /\ UNCHANGED <<connections, socket, slips>>
  BY DEF Reached, Turns, Turn
<1>2. connections \in Seq(Clients)
  BY DEF IInv, TypeOK
<1>3. /\ \A d \in Clients : ToSet(got[d]) \subseteq ToSet(got'[d])
      /\ task[e].pc = "sending" /\ socket[task[e].to] = "open" => e \in ToSet(got'[task[e].to])
  BY Gives
<1>4. ASSUME NEW d \in Events \ {e}
      PROVE  /\ task'[d].pc = "sending" => Cardinality(Passed(d)') <= slips'[d]
             /\ task'[d].pc = "done" => Cardinality(Missed(d)') <= slips'[d]
  <2>1. task[d].heirs \in SUBSET Clients
    BY DEF IInv, TypeOK, Task
  <2>2. Missed(d)' \subseteq Missed(d)
    BY <1>1, <1>3, <2>1 DEF Missed
  <2>3. \A b \in Missed(d)' \ {task[d].to}, i \in DOMAIN connections' :
          connections'[i] = b /\ i <= task[d].at => b \in Passed(d)
    BY <1>1, <2>2 DEF Passed
  <2> QED BY <1>1, <2>2, <2>3, StillServed
<1>5. Cardinality(Passed(e)') <= slips'[e]
  <2>1. task'[e].heirs \in SUBSET Clients
    BY DEF Reached, Task
  <2>2. \A i \in DOMAIN connections : i \in Nat /\ i >= 1
    <3>1. DOMAIN connections = 1 .. Len(connections)
      BY <1>2, LenProperties
    <3> QED BY <3>1
  <2>3. ASSUME NEW b \in Passed(e)'
        PROVE  \E i \in DOMAIN connections : connections[i] = b /\ i <= t.at
    <3>1. b # c
      BY <1>1 DEF Passed
    <3>2. PICK i \in DOMAIN connections : i <= t.at + 1 /\ connections[i] = b
      BY <1>1 DEF Passed
    <3>3. i <= t.at
      BY <1>1, <2>2, <3>1, <3>2
    <3> QED BY <3>2, <3>3
  <2>4. slips[e] \in Nat /\ IsFiniteSet(Passed(e))
    BY MissedType
  <2>5. CASE task[e].pc = "new"
    <3>1. t.at = 0
      BY <1>1, <2>5 DEF IInv, Walking, NoTask
    <3>2. Passed(e)' = {}
      BY <2>2, <2>3, <3>1
    <3> QED BY <1>1, <2>4, <3>2, FS_EmptySet
  <2>6. CASE task[e].pc = "sending"
    <3>1. t.heirs = task[e].heirs
      BY <2>6 DEF Turns
    <3>2. Passed(e)' \in SUBSET (Missed(e) \ {task[e].to})
      BY <1>1, <1>3, <2>1, <2>6, <3>1 DEF Passed, Missed
    <3>3. Passed(e)' \in SUBSET Passed(e)
      BY <1>1, <2>3, <3>2 DEF Passed
    <3>4. Cardinality(Passed(e)) <= slips[e]
      BY <2>6 DEF Served, Skipping, Underway
    <3> QED BY <1>1, <2>4, <3>3, <3>4, Fewer
  <2> QED BY <2>5, <2>6 DEF Turns
<1> QED BY <1>1, <1>4, <1>5, EachServed

(* At the end of the list every heir that is open has been passed.         *)
LEMMA EndedServed ==
    ASSUME IInv, Served, NEW e \in Events, NEW t, Turns(e, t), Ended(e, t)
    PROVE  Served'
<1>1. /\ Len(connections) <= t.at /\ t.at \in Nat /\ t.at = task[e].at
      /\ \A d \in Events \ {e} : task'[d] = task[d]
      /\ task'[e].pc = "done" /\ task'[e].heirs = t.heirs
      /\ Discard(t.dead, Underway \ {e}) /\ UNCHANGED socket
  BY DEF Ended, Turns, Turn
<1>2. /\ Underway \ {e} \in SUBSET Events
      /\ \A d \in Clients : ToSet(got[d]) \subseteq ToSet(got'[d])
      /\ task[e].pc = "sending" /\ socket[task[e].to] = "open" => e \in ToSet(got'[task[e].to])
  BY Gives DEF Underway
<1>3. ASSUME NEW d \in Events \ {e}
      PROVE  /\ task'[d].pc = "sending" => Cardinality(Passed(d)') <= slips'[d]
             /\ task'[d].pc = "done" => Cardinality(Missed(d)') <= slips'[d]
  <2>1. Missed(d)' \subseteq Missed(d) /\ (task[d].pc = "sending" => d \in Underway \ {e})
    <3>1. task[d].heirs \in SUBSET Clients
      BY DEF IInv, TypeOK, Task
    <3> QED BY <1>1, <1>2, <3>1 DEF Missed, Underway
  <2> QED BY <1>1, <1>2, <2>1, DiscardServed
<1>4. Cardinality(Missed(e)') <= slips'[e]
  <2>1. slips'[e] = slips[e]
    BY <1>1, <1>2, Discards
  <2>2. connections \in Seq(Clients) /\ slips[e] \in Nat /\ IsFiniteSet(Passed(e))
    BY MissedType DEF IInv, TypeOK
  <2>3. Len(connections) \in Nat /\ DOMAIN connections = 1 .. Len(connections)
    BY <2>2, LenProperties
  <2>4. t.heirs \in SUBSET Clients
    BY DEF Turns, Turn, Task
  <2>5. ASSUME NEW c \in Missed(e)'
        PROVE  c \in ToSet(connections) /\ \E i \in DOMAIN connections : i <= t.at /\ connections[i] = c
    <3>1. c \in Clients /\ socket[c] = "open"
      BY <1>1, <2>4 DEF Missed
    <3>2. c \in ToSet(connections)
      BY <3>1 DEF IInv, Listing
    <3>3. \A i \in DOMAIN connections : i <= t.at
      BY <1>1, <2>3
    <3> QED BY <3>2, <3>3 DEF ToSet
  <2>6. CASE task[e].pc = "new"
    <3>1. t.at = 0
      BY <1>1, <2>6 DEF IInv, Walking, NoTask
    <3>2. Missed(e)' = {}
      BY <1>1, <2>3, <2>5, <3>1
    <3> QED BY <2>1, <2>2, <3>2, FS_EmptySet
  <2>7. CASE task[e].pc = "sending"
    <3>1. t.heirs = task[e].heirs
      BY <2>7 DEF Turns
    <3>2. Missed(e)' \in SUBSET (Missed(e) \ {task[e].to})
      BY <1>1, <1>2, <2>4, <2>7, <3>1 DEF Missed
    <3>3. Missed(e)' \in SUBSET Passed(e)
      BY <1>1, <2>5, <3>2 DEF Passed
    <3>4. Cardinality(Passed(e)) <= slips[e]
      BY <2>7 DEF Served, Skipping, Underway
    <3> QED BY <2>1, <2>2, <3>3, <3>4, Fewer
  <2> QED BY <2>6, <2>7 DEF Turns
<1> QED BY <1>1, <1>3, <1>4, EachServed

(* Every step keeps Served.                                                *)
LEMMA StepServed == ASSUME IInv, Given, Served, [Next]_vars PROVE Served'
<1>1. ASSUME NEW c \in Clients, Connect(c) PROVE Served'
  <2>1. /\ socket \in [Clients -> Sockets] /\ connections \in Seq(Clients) /\ socket[c] = "new"
        /\ socket' = [socket EXCEPT ![c] = "open"] /\ connections' = Append(connections, c)
        /\ UNCHANGED <<task, got, slips>>
    BY <1>1 DEF IInv, TypeOK, Connect, Listed
  <2>2. /\ DOMAIN connections' = DOMAIN connections \cup {Len(connections) + 1}
        /\ \A i \in DOMAIN connections : connections'[i] = connections[i]
        /\ connections'[Len(connections) + 1] = c
    BY <2>1, Appended
  <2>3. ASSUME NEW e \in Events
        PROVE  /\ task'[e].pc = "sending" => Cardinality(Passed(e)') <= slips'[e]
               /\ task'[e].pc = "done" => Cardinality(Missed(e)') <= slips'[e]
    <3>1. task[e].heirs \in SUBSET Clients /\ c \notin task[e].heirs
      BY <2>1 DEF IInv, TypeOK, Task, Walking
    <3>2. Missed(e)' \subseteq Missed(e) /\ c \notin Missed(e)'
      BY <2>1, <3>1 DEF Missed
    <3>3. \A d \in Missed(e)' \ {task[e].to}, i \in DOMAIN connections' :
            connections'[i] = d /\ i <= task[e].at => d \in Passed(e)
      BY <2>2, <3>2 DEF Passed
    <3> QED BY <2>1, <3>2, <3>3, StillServed
  <2> QED BY <2>3, EachServed
<1>2. ASSUME NEW c \in Clients, Break(c) PROVE Served'
  <2>1. /\ socket \in [Clients -> Sockets] /\ socket' = [socket EXCEPT ![c] = "broken"]
        /\ UNCHANGED <<connections, task, got, slips>>
    BY <1>2 DEF IInv, TypeOK, Break
  <2>2. ASSUME NEW e \in Events
        PROVE  /\ task'[e].pc = "sending" => Cardinality(Passed(e)') <= slips'[e]
               /\ task'[e].pc = "done" => Cardinality(Missed(e)') <= slips'[e]
    <3>1. task[e].heirs \in SUBSET Clients
      BY DEF IInv, TypeOK, Task
    <3>2. Missed(e)' \subseteq Missed(e)
      BY <2>1, <3>1 DEF Missed
    <3>3. \A d \in Missed(e)' \ {task[e].to}, i \in DOMAIN connections' :
            connections'[i] = d /\ i <= task[e].at => d \in Passed(e)
      BY <2>1, <3>2 DEF Passed
    <3> QED BY <2>1, <3>2, <3>3, StillServed
  <2> QED BY <2>2, EachServed
<1>3. ASSUME NEW c \in Clients, Leave(c) PROVE Served'
  <2>1. /\ socket \in [Clients -> Sockets] /\ socket' = [socket EXCEPT ![c] = "gone"]
        /\ got \in [Clients -> Seq(Events)] /\ got' = [got EXCEPT ![c] = <<>>]
        /\ Discard({c}, Underway) /\ task' = task /\ Underway \in SUBSET Events
    BY <1>3 DEF IInv, TypeOK, Leave, Underway
  <2>2. ASSUME NEW e \in Events
        PROVE  /\ task'[e].pc = "sending" => Cardinality(Passed(e)') <= slips'[e]
               /\ task'[e].pc = "done" => Cardinality(Missed(e)') <= slips'[e]
    <3>1. task[e].heirs \in SUBSET Clients
      BY DEF IInv, TypeOK, Task
    <3>2. Missed(e)' \subseteq Missed(e) /\ (task[e].pc = "sending" => e \in Underway)
      BY <2>1, <3>1 DEF Missed, Underway
    <3> QED BY <2>1, <3>2, DiscardServed
  <2> QED BY <2>2, EachServed
<1>4. ASSUME NEW e \in Events, Begin(e) \/ Resume(e) PROVE Served'
  <2>1. PICK t : Turns(e, t) /\ (Ended(e, t) \/ \E c \in Clients : Reached(e, t, c))
    BY <1>4, Advances
  <2> QED BY <2>1, EndedServed, ReachedServed
<1>5. CASE UNCHANGED vars
  BY <1>5 DEF vars, Served, Skipping, HeirsAreServed, Passed, Missed, Underway
<1> QED BY <1>1, <1>2, <1>3, <1>4, <1>5 DEF Next

(* A broadcast misses at most one of the clients that were there from its  *)
(* beginning to its end for each client that was taken off the list at or  *)
(* before its iterator, for any number of clients and broadcasts.          *)
THEOREM HeirsAreServedAlways == Spec => []HeirsAreServed
<1>1. Init => Served
  BY DEF Init, Served, Skipping, HeirsAreServed, Underway, NoTask
<1>2. IInv /\ Given /\ Served /\ [Next]_vars => Served'
  BY StepServed
<1>3. Served => HeirsAreServed
  BY DEF Served
<1> QED BY Invariance, AlwaysGiven, <1>1, <1>2, <1>3, PTL DEF Spec

=============================================================================
