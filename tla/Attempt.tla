-------------------------------- MODULE Attempt --------------------------------
(***************************************************************************)
(* What a stream attempt promises to whoever reads its directory: while it *)
(* runs the manifest says "created" and nothing is published; it is closed *)
(* at most once; the matched evidence and the count that the manifest      *)
(* states are then exactly what was matched; and it is "completed" only    *)
(* with at least Target matched signatures.  An attempt that is never      *)
(* closed (a crash, a full disk) stays "created".                          *)
(***************************************************************************)
EXTENDS Naturals, FiniteSets

CONSTANTS Sig,      \* transaction signatures
          Target    \* target_matched_signatures

VARIABLES evidence,     \* signatures matched so far
          manifest,     \* manifest.json: status and matched_signatures
          published     \* signatures in matched-events.ndjson

vars == <<evidence, manifest, published>>

Created == [status |-> "created", matched |-> 0]

Init == /\ evidence = {}
        /\ manifest = Created
        /\ published = {}

Match(sig) == /\ manifest = Created
              /\ evidence' = evidence \cup {sig}
              /\ UNCHANGED <<manifest, published>>

Close(status) == /\ manifest = Created
                 /\ manifest' = [status  |-> status,
                                 matched |-> Cardinality(evidence)]
                 /\ published' = evidence
                 /\ UNCHANGED evidence

Complete == Cardinality(evidence) >= Target /\ Close("completed")

Abort == Close("aborted")

Next == (\E sig \in Sig : Match(sig)) \/ Complete \/ Abort

Spec == Init /\ [][Next]_vars
================================================================================
