------------------------------- MODULE Lists -------------------------------
(***************************************************************************)
(* Lists that lose several of their members at once and keep the order of  *)
(* the others: the clients of a broadcast, the records of a speaker.       *)
(***************************************************************************)
EXTENDS Naturals, Sequences, FiniteSets

(* The members of a set of numbers, in ascending order.                    *)
Ascending(S) ==
    CHOOSE f \in [1 .. Cardinality(S) -> S] : \A i, j \in 1 .. Cardinality(S) : i < j => f[i] < f[j]

(* The list s without the members of R.                                    *)
Without(s, R) ==
    LET kept == Ascending({i \in DOMAIN s : s[i] \notin R})
    IN  [n \in DOMAIN kept |-> s[kept[n]]]
=============================================================================
