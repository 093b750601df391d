------------------------------ MODULE AttemptStore ------------------------------
(***************************************************************************)
(* The directory of a stream attempt, file by file: ArtifactWriter writes  *)
(* it (stream/artifacts.rs), `stream verify` judges it (verify.rs),        *)
(* `stream report` renders it and copies a public bundle out of it         *)
(* (report.rs), `stream attach-validation` adds to it (validation.rs).     *)
(* Both commands may be given while the run is at work.  The run and the   *)
(* command take turns read by read and write by write, and either may stop *)
(* at any of them.                                                         *)
(*                                                                         *)
(* A file's content is what a reader here can tell about it: the           *)
(* manifest's status and count, the rows of an NDJSON file, what a page    *)
(* was rendered from.  The hash of a content is the content.  One file is  *)
(* read, hashed or written in one step, but for what atomic_json writes:   *)
(* first the *.tmp, which is a file of the directory like any other, then  *)
(* the rename.  summary.{json,md} is one file here, report.{json,md,html}  *)
(* another.                                                                *)
(***************************************************************************)
EXTENDS Naturals, Sequences

CONSTANTS Targets,      \* target_matched_signatures, of a config or a smoke run
          PublishMin,   \* of an operator publication (50,000 in the code)
          MaxRows,      \* bound: rows of observations.ndjson, and matches
          MaxCommands,  \* bound: offline commands that are given
          Rank,         \* of a name in the order in which the directory is listed
          Absent, Broken, Whole     \* no file; a part of one; one without detail

Scopes   == {"private", "operator"}
Evidence == {"manifest", "config", "observations", "matched", "health"}
Page     == {"summary", "report"}
Temp     == {"manifest.tmp", "health.tmp", "summary.tmp", "report.tmp"}
Covered  == Evidence \cup Page \cup Temp
File     == Covered \cup {"checksums"}

Row      == [rows : 0..MaxRows, torn : BOOLEAN]
Recorded == [target : Targets, matched : 0..MaxRows,
             status : {"created", "completed", "aborted"}]
Rendered == [scope : Scopes, of : Recorded, events : 0..MaxRows]

ASSUME StoreAssumption ==
    /\ Targets \subseteq 1..MaxRows /\ MaxRows \in Nat
    /\ PublishMin \in Nat /\ MaxCommands \in Nat
    /\ Rank \in [Covered -> Nat]
    /\ Absent \notin {Broken, Whole} /\ Broken # Whole
    /\ {Absent, Broken, Whole} \cap (Row \cup Recorded \cup Rendered) = {}

VARIABLES
    pc, step,   \* of the run and of the command
    manifest,   \* ArtifactWriter.manifest
    written,    \* rows handed to the two BufWriters
    disk,       \* the directory
    sums,       \* write_checksums: what was listed, and its hash or Absent
    commands,   \* given so far
    scope, read,    \* render's scope, and what it has read
    fresh,      \* history: the command listed the files after the run's end
    doubt,      \* history: a command wrote during the run, or stopped as it wrote
    out         \* the public bundle's directory

runVars  == <<manifest, written>>
toolVars == <<commands, scope, read, fresh, out>>
vars == <<pc, step, runVars, disk, sums, toolVars, doubt>>

Process == {"run", "tool"}
Live    == pc["run"] \in {"create", "running", "finish", "seal"}

NoFiles  == [f \in File |-> Absent]
Nothing  == [f \in {} |-> Absent]
Unread   == [f \in {"manifest", "matched"} |-> Absent]
Contents(d) == [f \in {f \in Covered : d[f] # Absent} |-> d[f]]

\* An NDJSON file with n whole lines, and perhaps part of one more.
Rows(n, torn) == [rows |-> n, torn |-> torn]

\* count_ndjson_records: a line that is not empty counts, whole or not.
Records(c) == IF c.torn THEN c.rows + 1 ELSE c.rows

-------------------------------------------------------------------------------
(* verify(): what the command answers about a directory.                     *)

ChecksumsMatch(d) ==
    d["checksums"] # Absent =>
      \A f \in DOMAIN d["checksums"] : d[f] = d["checksums"][f]

Eligible(d) ==
    /\ d["manifest"].status = "completed" =>
         /\ d["manifest"].matched >= d["manifest"].target
         /\ Records(d["matched"]) >= d["manifest"].target
    /\ d["manifest"].status # "aborted"

Verifies(d) ==
    /\ d["manifest"] # Absent
    /\ ChecksumsMatch(d)
    /\ d["matched"] \notin {Absent, Broken}
    /\ Eligible(d)

-------------------------------------------------------------------------------
Init ==
    /\ pc = [p \in Process |-> IF p = "run" THEN "create" ELSE "idle"]
    /\ step = [p \in Process |-> 1]
    /\ manifest \in [target : Targets, matched : {0}, status : {"created"}]
    /\ written = [observations |-> 0, matched |-> 0]
    /\ disk = NoFiles
    /\ sums = [p \in Process |-> Nothing]
    /\ commands = 0
    /\ scope = "private"
    /\ read = Unread
    /\ fresh = FALSE /\ doubt = FALSE
    /\ out = NoFiles

Go(p, state) == pc' = [pc EXCEPT ![p] = state] /\ step' = [step EXCEPT ![p] = 1]
NextStep(p)  == step' = [step EXCEPT ![p] = @ + 1] /\ UNCHANGED pc

(* Files that are written in a fixed order, by the run and by render.        *)

CreateFiles == <<"manifest.tmp", "manifest", "config", "observations", "matched">>

\* Mutant: the buffers are left to Drop, after the manifest.
FinishManifestFirst ==
    <<"manifest.tmp", "manifest", "observations", "matched", "health.tmp", "health">>

\* finish(): the buffers are flushed, then the two tables are replaced.
FinishFiles ==
    <<"observations", "matched", "manifest.tmp", "manifest", "health.tmp", "health">>

RenderFiles == <<"summary.tmp", "summary", "report.tmp", "report">>

Order == [create |-> CreateFiles, finish |-> FinishFiles, render |-> RenderFiles,
          attach |-> <<>>]

Writing(p) == pc[p] \in DOMAIN Order /\ step[p] <= Len(Order[pc[p]])
Written(p) == pc[p] \in DOMAIN Order /\ step[p] > Len(Order[pc[p]])

TempOf == [manifest |-> "manifest.tmp", health |-> "health.tmp",
           summary |-> "summary.tmp", report |-> "report.tmp"]

\* The file is there, and the temporary it was renamed from is not.
Put(d, f, content) ==
    [g \in File |-> IF g = f THEN content
                    ELSE IF f \in DOMAIN TempOf /\ g = TempOf[f] THEN Absent ELSE d[g]]

Content(f) ==
    CASE f \in Temp -> Broken
      [] f = "manifest" -> manifest
      [] f \in {"observations", "matched"} -> Rows(written[f], FALSE)
      [] f \in Page -> [scope |-> scope, of |-> read["manifest"],
                        events |-> read["matched"].rows]
      [] OTHER -> Whole

Write(p) ==
    /\ Writing(p)
    /\ LET f == Order[pc[p]][step[p]] IN disk' = Put(disk, f, Content(f))
    /\ NextStep(p)
    /\ doubt' = (doubt \/ (p = "tool" /\ Live))
    /\ UNCHANGED <<runVars, sums, toolVars>>

(* write_checksums: the files are listed, opened and hashed one by one, and  *)
(* then the list is written.                                                 *)

\* Mutant: a file that is on the old list is not hashed again.
ListAnew(p) ==
    /\ Written(p) /\ pc[p] # "create" /\ Go(p, "seal")
    /\ sums' = [sums EXCEPT ![p] = [f \in DOMAIN Contents(disk) |->
                  IF disk["checksums"] # Absent /\ f \in DOMAIN disk["checksums"]
                  THEN disk["checksums"][f] ELSE Absent]]
    /\ fresh' = IF p = "tool" THEN ~Live ELSE fresh
    /\ UNCHANGED <<runVars, disk, commands, scope, read, out, doubt>>

List(p) ==
    /\ Written(p) /\ pc[p] # "create" /\ Go(p, "seal")
    /\ sums' = [sums EXCEPT ![p] = [f \in DOMAIN Contents(disk) |-> Absent]]
    /\ fresh' = IF p = "tool" THEN ~Live ELSE fresh
    /\ UNCHANGED <<runVars, disk, commands, scope, read, out, doubt>>

Hash(p, f) ==
    /\ pc[p] = "seal" /\ f \in DOMAIN sums[p]
    /\ sums[p][f] = Absent /\ disk[f] # Absent
    /\ \A g \in DOMAIN sums[p] : Rank[g] < Rank[f] => sums[p][g] # Absent
    /\ sums' = [sums EXCEPT ![p] = [g \in DOMAIN sums[p] |->
                                     IF g = f THEN disk[f] ELSE sums[p][g]]]
    /\ UNCHANGED <<pc, step, runVars, disk, toolVars, doubt>>

Hashed(p) == pc[p] = "seal" /\ \A f \in DOMAIN sums[p] : sums[p][f] # Absent

\* The public bundle, where one was asked for and may be, comes after the seal.
AfterSeal(p) == IF p = "run" THEN {"done"}
                ELSE IF scope = "operator" THEN {"idle", "bundle"} ELSE {"idle"}

\* What a command held in memory goes with it.
Forget(p) == IF p = "run" THEN UNCHANGED <<scope, read, fresh>>
             ELSE scope' = "private" /\ read' = Unread /\ fresh' = FALSE

Seal(p) ==
    /\ Hashed(p)
    /\ disk' = Put(disk, "checksums", sums[p])
    /\ \E state \in AfterSeal(p) : Go(p, state)
    /\ sums' = [sums EXCEPT ![p] = Nothing]
    /\ doubt' = IF p = "tool" THEN ~fresh ELSE doubt
    /\ Forget(p)
    /\ UNCHANGED <<runVars, commands, out>>

\* The process is killed, or an error ends it: what it reads is missing or torn, a
\* write fails, a file it has listed is gone.  The list may be left empty.
Stop(p) ==
    /\ pc[p] \notin {"idle", "done", "dead"}
    /\ Go(p, IF p = "run" THEN "dead" ELSE "idle")
    /\ disk' \in {disk} \cup (IF Hashed(p) THEN {Put(disk, "checksums", Nothing)} ELSE {})
    /\ sums' = [sums EXCEPT ![p] = Nothing]
    /\ doubt' = (doubt \/ (p = "tool" /\ pc[p] \in {"render", "seal"}))
    /\ Forget(p)
    /\ UNCHANGED <<runVars, commands, out>>

-------------------------------------------------------------------------------
(* ArtifactWriter                                                            *)

Created ==
    /\ pc["run"] = "create" /\ Written("run") /\ Go("run", "running")
    /\ UNCHANGED <<runVars, disk, sums, toolVars, doubt>>

Observation ==
    /\ pc["run"] = "running" /\ written.observations < MaxRows
    /\ written' = [written EXCEPT !.observations = @ + 1]
    /\ UNCHANGED <<pc, step, manifest, disk, sums, toolVars, doubt>>

\* Mutant: the count handed to finish() is off by one.
MatchedOneMore ==
    /\ pc["run"] = "running" /\ Go("run", "finish")
    /\ \E m \in 0..MaxRows, status \in {"completed", "aborted"} :
         /\ status = "completed" => m >= manifest.target
         /\ m <= written.observations
         /\ manifest' = [manifest EXCEPT !.status = status, !.matched = m + 1]
         /\ written' = [written EXCEPT !.matched = m]
    /\ UNCHANGED <<disk, sums, toolVars, doubt>>

\* The loop is over and the matched events are written, to the buffer.  The
\* runner completes only what meets the target (StreamRun's ImplementsAttempt).
Matched ==
    /\ pc["run"] = "running" /\ Go("run", "finish")
    /\ \E m \in 0..MaxRows, status \in {"completed", "aborted"} :
         /\ status = "completed" => m >= manifest.target
         /\ m <= written.observations
         /\ manifest' = [manifest EXCEPT !.status = status, !.matched = m]
         /\ written' = [written EXCEPT !.matched = m]
    /\ UNCHANGED <<disk, sums, toolVars, doubt>>

Size(c) == 2 * c.rows + (IF c.torn THEN 1 ELSE 0)

\* A full BufWriter goes to the file, in the middle of a line if it so happens.
Spill(f) ==
    /\ pc["run"] \in {"running", "finish"}
    /\ \E c \in Row :
         /\ Size(c) > Size(disk[f]) /\ Records(c) <= written[f]
         /\ disk' = Put(disk, f, c)
    /\ UNCHANGED <<pc, step, runVars, sums, toolVars, doubt>>

-------------------------------------------------------------------------------
(* stream report                                                             *)

\* One command at a time.
Give(state) == /\ pc["tool"] = "idle" /\ Go("tool", state)
               /\ commands < MaxCommands /\ commands' = commands + 1

StartReport(sc) ==
    /\ Give("read") /\ scope' = sc
    /\ UNCHANGED <<runVars, disk, sums, read, fresh, out, doubt>>

\* Mutant: the events are read before the manifest they are counted for.
ReadEventsFirst == <<"matched", "manifest", "health">>

ReadOrder == <<"manifest", "matched", "health">>

\* A file that is not there stops render(), and so does a line that is cut.
Read ==
    /\ pc["tool"] = "read" /\ step["tool"] <= Len(ReadOrder)
    /\ LET f == ReadOrder[step["tool"]]
       IN  /\ disk[f] # Absent /\ (f = "matched" => ~disk[f].torn)
           /\ read' = [g \in DOMAIN read |-> IF g = f THEN disk[g] ELSE read[g]]
    /\ NextStep("tool")
    /\ UNCHANGED <<runVars, disk, sums, commands, scope, fresh, out, doubt>>

\* validate_operator_lifecycle, of what a run can get wrong; the names of the
\* sources and the host are the configuration's.
Publishable(m) == /\ m.target >= PublishMin /\ m.matched >= PublishMin
                  /\ m.status = "completed"

StartRender ==
    /\ pc["tool"] = "read" /\ step["tool"] > Len(ReadOrder)
    /\ scope = "operator" => Publishable(read["manifest"])
    /\ Go("tool", "render")
    /\ UNCHANGED <<runVars, disk, sums, toolVars, doubt>>

\* Mutant: the evidence is compressed before the rest is copied.
BundleEvidenceFirst ==
    <<"manifest", "matched", "matched", "config", "health", "summary", "report", "checksums">>

\* The copies, the compressed evidence (created, then complete), the checksums.
BundleFiles ==
    <<"manifest", "config", "health", "summary", "report", "matched", "matched", "checksums">>

\* public_bundle: an output that is not empty is refused.
Bundle ==
    /\ pc["tool"] = "bundle" /\ (step["tool"] = 1 => out = NoFiles)
    /\ LET f == BundleFiles[step["tool"]]
       IN  out' = [out EXCEPT ![f] =
             IF f = "checksums" THEN Contents(out)
             ELSE IF f = "matched" /\ out[f] = Absent THEN Broken
             ELSE disk[f]]
    /\ IF step["tool"] < Len(BundleFiles) THEN NextStep("tool") ELSE Go("tool", "idle")
    /\ UNCHANGED <<runVars, disk, sums, commands, scope, read, fresh, doubt>>

\* stream attach-validation: the attachment lies in a subdirectory, which the
\* checksums do not cover; they are written again all the same.  verify() reads
\* one file after the other: of a run at work it may answer anything.
StartAttach ==
    /\ Give("attach") /\ disk["matched"] # Absent
    /\ Live \/ Verifies(disk)
    /\ scope' = "private"
    /\ UNCHANGED <<runVars, disk, sums, read, fresh, out, doubt>>

-------------------------------------------------------------------------------
Run == Created \/ Observation \/ Matched \/ \E f \in {"observations", "matched"} : Spill(f)

Tool == \/ \E sc \in Scopes : StartReport(sc)
        \/ Read \/ StartRender \/ Bundle \/ StartAttach

Common(p) == \/ Write(p) \/ List(p) \/ Seal(p) \/ Stop(p)
             \/ \E f \in Covered : Hash(p, f)

AtRest == pc["run"] \in {"done", "dead"} /\ pc["tool"] = "idle" /\ UNCHANGED vars

Next == Run \/ Tool \/ (\E p \in Process : Common(p)) \/ AtRest

Spec == Init /\ [][Next]_vars

-------------------------------------------------------------------------------
RunState == {"create", "running", "finish", "seal", "done", "dead"}
ToolState == {"idle", "read", "render", "attach", "seal", "bundle"}

TypeOK ==
    /\ pc \in [Process -> RunState \cup ToolState]
    /\ pc["run"] \in RunState /\ pc["tool"] \in ToolState
    /\ step \in [Process -> 1..8]
    /\ manifest \in Recorded
    /\ written \in [observations : 0..MaxRows, matched : 0..MaxRows]
    /\ DOMAIN disk = File /\ DOMAIN out = File
    /\ disk["manifest"] \in Recorded \cup {Absent}
    /\ {disk["config"], disk["health"]} \subseteq {Whole, Absent}
    /\ {disk["observations"], disk["matched"]} \subseteq Row \cup {Absent}
    /\ \A f \in Page : disk[f] \in Rendered \cup {Absent}
    /\ \A f \in Temp : disk[f] \in {Broken, Absent}
    /\ DOMAIN sums = Process /\ \A p \in Process : DOMAIN sums[p] \subseteq Covered
    /\ commands \in 0..MaxCommands /\ scope \in Scopes
    /\ DOMAIN read = {"manifest", "matched"}
    /\ read["manifest"] \in Recorded \cup {Absent}
    /\ read["matched"] \in Row \cup {Absent}
    /\ fresh \in BOOLEAN /\ doubt \in BOOLEAN

\* A manifest that says "completed" stands beside all of its evidence, wherever
\* the run was stopped: both buffers reach their files before the manifest.
CompletedIsBacked ==
    disk["manifest"] # Absent /\ disk["manifest"].status = "completed" =>
      /\ disk["matched"] = Rows(disk["manifest"].matched, FALSE)
      /\ disk["observations"] = Rows(written.observations, FALSE)

\* A page whose manifest was final when render() read it shows that manifest and
\* all of its events, although render() and finish() take turns file by file.  One
\* whose manifest was not is beside a manifest that has become final: what is
\* missing while a run is at work is source-health.json.  And no page with an
\* operator's scope is of anything but a completed attempt of enough events.
ReportIsBacked ==
    \A f \in Page : disk[f] # Absent =>
      /\ disk["manifest"].status # "created"
      /\ disk[f].of.status # "created" =>
           disk[f].of = disk["manifest"] /\ disk[f].events = disk["manifest"].matched
      /\ disk[f].scope = "operator" =>
           disk[f].of.status = "completed" /\ disk[f].events >= PublishMin

\* When the run has ended and no command is writing, the checksums are those of the
\* files, and a completed attempt verifies, whatever commands have run and in
\* whatever order, unless one wrote during the run or stopped as it wrote; and
\* again as soon as one has listed the files after the run's end and sealed them.
FinishedVerifies ==
    ~Live /\ pc["tool"] \notin {"render", "seal"} /\ ~doubt =>
      /\ ChecksumsMatch(disk)
      /\ pc["run"] = "done" /\ disk["manifest"].status = "completed" => Verifies(disk)

\* A public bundle that verifies is a whole one, of the attempt as it is: one that
\* was cut short does not verify, and none is of an attempt that may not be
\* published.
BundleIsWhole ==
    Verifies(out) =>
      /\ \A f \in Evidence \cup Page : f # "observations" => out[f] # Absent
      /\ out["manifest"] = disk["manifest"] /\ out["matched"] = disk["matched"]
      /\ out["manifest"].status = "completed"
      /\ Records(out["matched"]) >= PublishMin

-------------------------------------------------------------------------------
\* docs/artifacts.md: "`stream verify` validates ... completion eligibility".
\* When no run is at work, what verify accepts has been completed.
VerifiedIsCompleted ==
    ~Live /\ Verifies(disk) => disk["manifest"].status = "completed"
================================================================================
