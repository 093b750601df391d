---------------------------- MODULE MCStreamReport ----------------------------
(* MatchBook and StreamReport with three sources.  Offsets are not in step   *)
(* with the order of the calls: a task stamps before it waits for the        *)
(* channel, so a repetition may carry a smaller offset than what it repeats. *)
EXTENDS StreamReport

CONSTANT MaxDuplicates   \* bound: repetitions in all

DuplicatesBounded == SumFunction(duplicates) <= MaxDuplicates

\* The configuration need not list the sources in the order of their names.
Configured == <<2, 3, 1>>

Symmetry == Permutations(Sig)
===============================================================================
