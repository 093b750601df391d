------------------------------ MODULE MCGrpcRace ------------------------------
(* GrpcRace on two endpoints and two events, for TLC.                        *)
EXTENDS GrpcRace, TLC

Symmetry == Permutations(Endpoint) \cup Permutations(Event)
================================================================================
