------------------------------ MODULE MatchCount ------------------------------
(***************************************************************************)
(* What matching promises, without the book that implements it: of every   *)
(* signature the sources that reported it are remembered, and the matched  *)
(* count is the number of signatures that at least MinSources of them      *)
(* reported.  Repetitions and the order of the reports make no difference. *)
(***************************************************************************)
EXTENDS Naturals, FiniteSets

CONSTANTS Source,       \* the configured streams
          Sig,          \* transaction signatures
          MinSources    \* run.minimum_match_sources

VARIABLES seen,         \* seen[sig]: the sources that reported sig
          count         \* the matched count the runner reads

vars == <<seen, count>>

MatchedIn(sn) == {sig \in Sig : Cardinality(sn[sig]) >= MinSources}

Init == /\ seen = [sig \in Sig |-> {}]
        /\ count = 0

Report(sig, s) ==
    /\ seen' = [seen EXCEPT ![sig] = @ \cup {s}]
    /\ count' = Cardinality(MatchedIn(seen'))

Next == \E sig \in Sig, s \in Source : Report(sig, s)

Spec == Init /\ [][Next]_vars
===============================================================================
