------------------------------ MODULE MCStreamRun ------------------------------
(* StreamRun on two or three sources and one or two signatures, for TLC.     *)
EXTENDS StreamRun, TLC

Symmetry == Permutations(Sig) \cup Permutations(Required)
                              \cup Permutations(Source \ Required)
================================================================================
