---------------------------- MODULE MCAttemptStore -----------------------------
(* AttemptStore with the names of a directory in one order.                   *)
EXTENDS AttemptStore

Listed == <<"manifest", "config", "manifest.tmp", "matched", "summary.tmp", "health",
            "report.tmp", "observations", "summary", "health.tmp", "report">>

Ranks == [f \in Covered |-> CHOOSE k \in 1..Len(Listed) : Listed[k] = f]
================================================================================
