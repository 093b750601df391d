------------------------------- MODULE Sorting -------------------------------
(***************************************************************************)
(* The standard library's sort of a slice by an integer key.  It is stable *)
(* (sort, sort_by_key); where the code takes sort_unstable the elements    *)
(* are the keys and equal ones cannot be told apart.                       *)
(***************************************************************************)
EXTENDS Integers, Sequences, FiniteSets

\* The place of the i-th element in the order of the keys.
Place(key, i) ==
    Cardinality({j \in DOMAIN key : key[j] < key[i] \/ (key[j] = key[i] /\ j <= i)})

SortBy(s, key) == [k \in DOMAIN s |-> s[CHOOSE i \in DOMAIN s : Place(key, i) = k]]

Ascending(s) == SortBy(s, s)
==============================================================================
