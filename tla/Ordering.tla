------------------------------ MODULE Ordering ------------------------------
(***************************************************************************)
(* Two sorts.  Array.prototype.sort with a comparison of numbers is        *)
(* stable; a database, or such a sort of what it answers, leaves open how  *)
(* equal keys are ordered.                                                 *)
(***************************************************************************)
EXTENDS Integers, FiniteSets, Functions

ComesBefore(i, j, key) == key[i] < key[j] \/ (key[i] = key[j] /\ i < j)

\* The numbers of a finite set in ascending order of their keys, equal keys in
\* ascending order of the numbers: at place k is the one that k - 1 others come
\* before.
InOrder(S, key) ==
    [k \in 1..Cardinality(S) |->
        CHOOSE i \in S : Cardinality({j \in S : ComesBefore(j, i, key)}) = k - 1]

\* The elements of a finite set, those of larger keys first.
Descends(order, key) ==
    \A i, j \in DOMAIN order : i < j => key[order[i]] >= key[order[j]]

Descending(S, key) ==
    CHOOSE order \in [1..Cardinality(S) -> S] : IsInjective(order) /\ Descends(order, key)

\* No more than limit of them.
First(order, limit) == [i \in {k \in DOMAIN order : k <= limit} |-> order[i]]
=============================================================================
