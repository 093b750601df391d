---------------------------- MODULE MCProbeResults ----------------------------
\* Three endpoints in the order of the command line, two of them on one host.
EXTENDS ProbeResults

CONSTANTS a, b, c

InOrder == <<a, b, c>>
Hosts   == [e \in {a, b, c} |-> IF e = a THEN "private" ELSE "public"]
================================================================================
