--------------------------- MODULE AttemptStoreProofs ---------------------------
(***************************************************************************)
(* Theorems about AttemptStore, for every target, publication minimum,     *)
(* number of rows and of commands, and order of listing a directory.       *)
(*                                                                         *)
(* Inv says of the run how far its files have come at each step (Stages)   *)
(* and that a manifest which is not the first is the last (Ending); of the *)
(* command, that what it has read of a final manifest is what is there     *)
(* (Reading, Rendering); and of both, whose lists of hashes can still be   *)
(* trusted (Sealing).  A step of one is shown to keep the other's part     *)
(* from what it leaves alone (RunKept, ToolKept, BundleKept).              *)
(***************************************************************************)
EXTENDS AttemptStore, TLAPS

\* What finish() is handed.
Outcome ==
    /\ manifest.status # "created" /\ manifest.matched = written.matched
    /\ manifest.status = "completed" => manifest.matched >= manifest.target

\* The manifest is in place, with all of its evidence.
Final ==
    /\ Outcome /\ disk["manifest"] = manifest
    /\ disk["observations"] = Rows(written.observations, FALSE)
    /\ disk["matched"] = Rows(written.matched, FALSE)

Recording == Absent \notin {disk["config"], disk["observations"], disk["matched"]}

\* Up to the fourth write of finish() the manifest says "created"; by then both
\* buffers are in their files.
Stages ==
    /\ pc["run"] = "create" =>
         /\ step["run"] \in 1..6 /\ manifest.status = "created"
         /\ disk["manifest"] \in {Absent, manifest} /\ disk["health"] = Absent
         /\ step["run"] >= 3 => disk["manifest"] = manifest
         /\ step["run"] >= 4 => disk["config"] # Absent
         /\ step["run"] >= 5 => disk["observations"] # Absent
         /\ step["run"] >= 6 => disk["matched"] # Absent
    /\ pc["run"] = "running" =>
         /\ manifest.status = "created" /\ disk["manifest"] = manifest
         /\ disk["health"] = Absent /\ Recording
    /\ pc["run"] = "finish" =>
         /\ step["run"] \in 1..7 /\ Outcome /\ Recording
         /\ step["run"] >= 2 => disk["observations"] = Rows(written.observations, FALSE)
         /\ step["run"] >= 3 => disk["matched"] = Rows(written.matched, FALSE)
         /\ step["run"] <= 4 => disk["manifest"] # Absent /\ disk["manifest"].status = "created"
         /\ step["run"] >= 5 => disk["manifest"] = manifest
         /\ step["run"] <= 6 => disk["health"] = Absent
    /\ pc["run"] \in {"seal", "done"} => Final

\* A manifest that is not the first is the last, and the health table is later.
Ending ==
    /\ disk["manifest"] # Absent /\ disk["manifest"].status # "created" => Final
    /\ disk["health"] # Absent => Final /\ \A f \in Evidence : disk[f] # Absent

\* What render() has read and checked.
Reading ==
    /\ read["manifest"] # Absent /\ read["manifest"].status # "created" =>
         disk["manifest"] = read["manifest"]
    /\ pc["tool"] = "read" =>
         /\ step["tool"] \in 1..4
         /\ step["tool"] >= 2 => read["manifest"] # Absent
    /\ pc["tool"] = "render" \/ (pc["tool"] = "read" /\ step["tool"] >= 3) =>
         /\ read["manifest"] # Absent /\ read["matched"] # Absent
         /\ read["manifest"].status # "created" => read["matched"] = disk["matched"]
    /\ pc["tool"] = "render" \/ (pc["tool"] = "read" /\ step["tool"] >= 4) =>
         disk["health"] # Absent
    /\ pc["tool"] = "render" /\ scope = "operator" => Publishable(read["manifest"])
    /\ pc["tool"] = "attach" => scope = "private" /\ step["tool"] = 1

\* What it has written, and what is copied.
Rendering ==
    /\ pc["tool"] = "render" =>
         /\ step["tool"] \in 1..5
         /\ step["tool"] >= 3 => disk["summary"] # Absent
         /\ step["tool"] >= 5 => disk["report"] # Absent
    /\ (pc["tool"] = "seal" /\ scope = "operator") \/ pc["tool"] = "bundle" =>
         /\ Publishable(disk["manifest"]) /\ disk["health"] # Absent
         /\ \A f \in Page : disk[f] # Absent
    /\ \A f \in Page : disk[f] # Absent => disk["health"] # Absent

\* The run's list is of files that nobody has written since, and so is that of a
\* command which had the directory to itself.
Sealing ==
    /\ pc["run"] = "seal" /\ ~doubt =>
         \A f \in DOMAIN sums["run"] : sums["run"][f] \in {Absent, disk[f]}
    /\ pc["tool"] = "seal" /\ fresh =>
         /\ ~Live
         /\ \A f \in DOMAIN sums["tool"] : sums["tool"][f] \in {Absent, disk[f]}
    /\ Live /\ ~doubt => disk["checksums"] = Absent
    /\ ~Live /\ pc["tool"] \notin {"render", "seal"} /\ ~doubt => ChecksumsMatch(disk)

\* The bundle is written from front to back, once.
Bundling ==
    /\ pc["tool"] = "bundle" =>
         /\ \A k \in 1..5 : step["tool"] > k => out[BundleFiles[k]] # Absent
         /\ step["tool"] \in 2..6 => out["matched"] = Absent
    /\ out["matched"] \notin {Absent, Broken} =>
         /\ \A f \in {"manifest", "config", "health"} \cup Page : out[f] # Absent
         /\ out["matched"] = disk["matched"]
    /\ out["manifest"] # Absent =>
         /\ out["manifest"] = disk["manifest"] /\ disk["health"] # Absent
         /\ Publishable(disk["manifest"])

Inv == /\ TypeOK /\ Stages /\ Ending /\ Reading /\ Rendering /\ ReportIsBacked
       /\ Sealing /\ Bundling

-------------------------------------------------------------------------------
(* Files, their names and their contents.                                    *)

LEMMA Names ==
    /\ Process = {"run", "tool"} /\ "run" \in Process /\ "tool" \in Process
    /\ Covered \subseteq File /\ "checksums" \in File /\ "checksums" \notin Covered
    /\ Evidence \subseteq Covered /\ Page \subseteq Covered /\ Temp \subseteq Covered
    /\ \A f \in Temp : f \notin Evidence \cup Page
    /\ Len(CreateFiles) = 5 /\ Len(FinishFiles) = 6 /\ Len(RenderFiles) = 4
    /\ Len(ReadOrder) = 3 /\ Len(BundleFiles) = 8
BY DEF Process, File, Covered, Evidence, Page, Temp, CreateFiles, FinishFiles, RenderFiles,
       ReadOrder, BundleFiles

LEMMA Present ==
    /\ Absent # Broken /\ Absent # Whole
    /\ \A x \in Row \cup Recorded \cup Rendered : x # Absent /\ x # Broken
    /\ MaxRows \in Nat /\ PublishMin \in Nat /\ MaxCommands \in Nat
    /\ Targets \subseteq 1..MaxRows
BY StoreAssumption

LEMMA RowFacts ==
    ASSUME NEW n \in 0..MaxRows
    PROVE  /\ Rows(n, FALSE) \in Row /\ Rows(n, FALSE) \notin {Absent, Broken}
           /\ Records(Rows(n, FALSE)) = n /\ Rows(n, FALSE).rows = n
<1>1. Rows(n, FALSE) \in Row
  BY DEF Rows, Row
<1>2. QED
  BY <1>1, Present DEF Rows, Records

\* What is put changes one file, and its temporary.
LEMMA PutFacts ==
    ASSUME NEW d, NEW f \in File, NEW x, NEW e, e = Put(d, f, x)
    PROVE  /\ DOMAIN e = File /\ e[f] = x
           /\ \A g \in File : g # f /\ g \notin Temp => e[g] = d[g]
           /\ \A g \in Temp : g # f => e[g] \in {d[g], Absent}
           /\ f = "checksums" \/ f \in Temp => \A g \in File : g # f => e[g] = d[g]
<1>1. \A g \in DOMAIN TempOf : TempOf[g] \in Temp
  BY DEF TempOf, Temp
<1>2. "checksums" \notin DOMAIN TempOf /\ \A g \in Temp : g \notin DOMAIN TempOf
  BY DEF TempOf, Temp
<1>3. \A g \in Temp : g \in File
  BY Names
<1>4. QED
  BY <1>1, <1>2, <1>3 DEF Put

LEMMA GoFacts ==
    ASSUME TypeOK, NEW p \in Process, NEW state, Go(p, state)
    PROVE  /\ pc'[p] = state /\ step'[p] = 1
           /\ \A q \in Process : q # p => pc'[q] = pc[q] /\ step'[q] = step[q]
           /\ step' \in [Process -> 1..8]
           /\ state \in RunState \cup ToolState => pc' \in [Process -> RunState \cup ToolState]
BY DEF Go, TypeOK

LEMMA NextStepFacts ==
    ASSUME TypeOK, NEW p \in Process, NextStep(p)
    PROVE  /\ pc' = pc /\ step'[p] = step[p] + 1
           /\ \A q \in Process : q # p => step'[q] = step[q]
           /\ step[p] \in 1..8 /\ (step[p] < 8 => step' \in [Process -> 1..8])
BY DEF NextStep, TypeOK

\* Checksums match what they were made of.
LEMMA Matching ==
    ASSUME NEW d, NEW e, NEW c,
           e = Put(d, "checksums", c), DOMAIN c \subseteq Covered,
           \A f \in DOMAIN c : c[f] = d[f]
    PROVE  ChecksumsMatch(e)
<1>1. e["checksums"] = c /\ \A f \in DOMAIN c : e[f] = d[f]
  BY Names, PutFacts
<1>2. QED
  BY <1>1 DEF ChecksumsMatch

-------------------------------------------------------------------------------
(* What holds at the start.                                                  *)

LEMMA InitInv == Init => Inv
<1> SUFFICES ASSUME Init PROVE Inv
  OBVIOUS
<1>1. \A f \in File : disk[f] = Absent /\ out[f] = Absent
  BY DEF Init, NoFiles
<1>2. pc["run"] = "create" /\ pc["tool"] = "idle" /\ step["run"] = 1 /\ step["tool"] = 1
  BY DEF Init, Process
<1>3. /\ manifest \in Recorded /\ manifest.status = "created"
      /\ 0 \in 0..MaxRows
  <2>1. 0 \in 0..MaxRows
    BY Present
  <2>2. QED
    BY <2>1 DEF Init, Recorded
<1>4. TypeOK
  <2>1. pc \in [Process -> RunState \cup ToolState] /\ step \in [Process -> 1..8]
    BY DEF Init, RunState, ToolState
  <2>2. written \in [observations : 0..MaxRows, matched : 0..MaxRows]
    BY <1>3 DEF Init
  <2>3. DOMAIN disk = File /\ DOMAIN out = File
    BY DEF Init, NoFiles
  <2>4. \A f \in Evidence \cup Page \cup Temp : disk[f] = Absent
    BY <1>1, Names
  <2>5. \A p \in Process : DOMAIN sums[p] \subseteq Covered
    BY DEF Init, Nothing
  <2>6. commands \in 0..MaxCommands /\ scope \in Scopes
    BY Present DEF Init, Scopes
  <2>7. DOMAIN read = {"manifest", "matched"} /\ read["manifest"] = Absent /\ read["matched"] = Absent
    BY DEF Init, Unread
  <2>8. DOMAIN sums = Process
    BY DEF Init
  <2>9. pc["run"] \in RunState /\ pc["tool"] \in ToolState
    BY <1>2 DEF RunState, ToolState
  <2>10. QED
    BY <1>3, <2>1, <2>2, <2>3, <2>4, <2>5, <2>6, <2>7, <2>8, <2>9 DEF TypeOK, Evidence, Init
<1>5. \A f \in Evidence \cup Page \cup {"checksums"} : disk[f] = Absent /\ out[f] = Absent
  BY <1>1, Names
<1>6. Stages /\ Ending
  BY <1>2, <1>3, <1>5 DEF Stages, Ending, Evidence
<1>7. Reading /\ Rendering /\ ReportIsBacked
  <2>1. read["manifest"] = Absent
    BY DEF Init, Unread
  <2>2. QED
    BY <1>2, <1>5, <2>1 DEF Reading, Rendering, ReportIsBacked
<1>8. Sealing
  BY <1>2, <1>5 DEF Sealing, Live
<1>9. Bundling
  BY <1>2, <1>5 DEF Bundling, Evidence
<1>10. QED
  BY <1>4, <1>6, <1>7, <1>8, <1>9 DEF Inv

-------------------------------------------------------------------------------
(* What a step leaves alone.                                                 *)

\* The run's part of the invariant, when the run and the evidence stay.
LEMMA RunKept ==
    ASSUME Stages, Ending, manifest' = manifest, written' = written,
           pc'["run"] = pc["run"], step'["run"] = step["run"],
           \A f \in Evidence : disk'[f] = disk[f]
    PROVE  Stages' /\ Ending'
<1>1. /\ disk'["manifest"] = disk["manifest"] /\ disk'["config"] = disk["config"]
      /\ disk'["observations"] = disk["observations"] /\ disk'["matched"] = disk["matched"]
      /\ disk'["health"] = disk["health"]
  BY DEF Evidence
<1>2. Final <=> Final'
  BY <1>1 DEF Final, Outcome
<1>3. Stages'
  BY <1>1, <1>2 DEF Stages, Recording, Outcome
<1>4. Ending'
  BY <1>1, <1>2 DEF Ending
<1>5. QED
  BY <1>3, <1>4

\* A final manifest stays, with its events; so does the health table.
Kept == /\ disk["manifest"] # Absent /\ disk["manifest"].status # "created" =>
             disk'["manifest"] = disk["manifest"] /\ disk'["matched"] = disk["matched"]
        /\ disk["health"] # Absent => disk'["health"] # Absent

\* The command's part of the invariant, when the command and its pages stay.
LEMMA ToolKept ==
    ASSUME Inv, Kept, read' = read, scope' = scope,
           pc'["tool"] = pc["tool"], step'["tool"] = step["tool"],
           \A f \in Page : disk'[f] = disk[f]
    PROVE  Reading' /\ Rendering' /\ ReportIsBacked'
<1>1. read["manifest"] \in Recorded \cup {Absent} /\ disk["manifest"] \in Recorded \cup {Absent}
  BY DEF Inv, TypeOK
<1>2. disk["health"] # Absent =>
        /\ disk["manifest"] # Absent /\ disk["manifest"].status # "created"
        /\ disk'["manifest"] = disk["manifest"] /\ disk'["health"] # Absent
  BY DEF Inv, Ending, Final, Outcome, Kept, Evidence
<1>3. read["manifest"] # Absent /\ read["manifest"].status # "created" =>
        /\ disk["manifest"] = read["manifest"] /\ disk'["manifest"] = disk["manifest"]
        /\ disk'["matched"] = disk["matched"]
  BY DEF Inv, Reading, Kept
<1>4. Reading'
  BY <1>2, <1>3 DEF Inv, Reading
<1>5. Rendering'
  BY <1>2 DEF Inv, Rendering, Page
<1>6. ReportIsBacked'
  <2>1. SUFFICES ASSUME NEW f \in Page, disk[f] # Absent
                 PROVE  /\ disk'["manifest"].status # "created"
                        /\ disk[f].of.status # "created" =>
                             /\ disk[f].of = disk'["manifest"]
                             /\ disk[f].events = disk'["manifest"].matched
                        /\ disk[f].scope = "operator" =>
                             disk[f].of.status = "completed" /\ disk[f].events >= PublishMin
    BY DEF ReportIsBacked
  <2>2. disk["health"] # Absent
    BY <2>1 DEF Inv, Rendering
  <2>3. QED
    BY <1>2, <2>1, <2>2 DEF Inv, ReportIsBacked
<1>7. QED
  BY <1>4, <1>5, <1>6

\* The bundle, when it stays and the command is where it was, or not at a bundle.
LEMMA BundleKept ==
    ASSUME Inv, Kept, out' = out,
           \/ pc'["tool"] # "bundle" \/ step'["tool"] = 1
           \/ pc'["tool"] = pc["tool"] /\ step'["tool"] = step["tool"]
    PROVE  Bundling'
<1>1. disk["health"] # Absent =>
        /\ disk["manifest"] # Absent /\ disk["manifest"].status # "created"
        /\ disk'["manifest"] = disk["manifest"] /\ disk'["matched"] = disk["matched"]
        /\ disk'["health"] # Absent
  BY DEF Inv, Ending, Final, Outcome, Kept, Evidence
<1>2. /\ out["manifest"] # Absent =>
           /\ out["manifest"] = disk["manifest"] /\ disk["health"] # Absent
           /\ Publishable(disk["manifest"])
      /\ out["matched"] \notin {Absent, Broken} =>
           out["manifest"] # Absent /\ out["matched"] = disk["matched"]
  BY DEF Inv, Bundling
<1>3. QED
  BY <1>1, <1>2 DEF Inv, Bundling

-------------------------------------------------------------------------------
(* What the run writes.                                                      *)

\* What a file holds is of the file's type.
Fits(f, x) ==
    /\ f = "manifest" => x \in Recorded
    /\ f \in {"config", "health"} => x = Whole
    /\ f \in {"observations", "matched"} => x \in Row
    /\ f \in Page => x \in Rendered
    /\ f \in Temp => x = Broken

\* All but the directory.
OtherTypes ==
    /\ pc' \in [Process -> RunState \cup ToolState]
    /\ pc'["run"] \in RunState /\ pc'["tool"] \in ToolState
    /\ step' \in [Process -> 1..8]
    /\ manifest' = manifest /\ written' = written /\ out' = out
    /\ DOMAIN sums' = Process /\ \A p \in Process : DOMAIN sums'[p] \subseteq Covered
    /\ commands' = commands /\ scope' \in Scopes
    /\ read' \in {read, Unread} /\ fresh' \in BOOLEAN /\ doubt' \in BOOLEAN

LEMMA PutType ==
    ASSUME TypeOK, NEW f \in File, NEW x, Fits(f, x), disk' = Put(disk, f, x), OtherTypes
    PROVE  TypeOK'
<1>1. /\ DOMAIN disk' = File /\ disk'[f] = x
      /\ \A g \in File : g # f /\ g \notin Temp => disk'[g] = disk[g]
      /\ \A g \in Temp : g # f => disk'[g] \in {disk[g], Absent}
  <2>1. DOMAIN disk' = File /\ disk'[f] = x
    BY PutFacts
  <2>2. \A g \in File : g # f /\ g \notin Temp => disk'[g] = disk[g]
    BY PutFacts
  <2>3. \A g \in Temp : g # f => disk'[g] \in {disk[g], Absent}
    BY PutFacts
  <2>4. QED
    BY <2>1, <2>2, <2>3
<1>2. disk'["manifest"] \in Recorded \cup {Absent}
  BY <1>1, Names DEF TypeOK, Fits, Evidence
<1>3. {disk'["config"], disk'["health"]} \subseteq {Whole, Absent}
  BY <1>1, Names DEF TypeOK, Fits, Evidence
<1>4. {disk'["observations"], disk'["matched"]} \subseteq Row \cup {Absent}
  BY <1>1, Names DEF TypeOK, Fits, Evidence
<1>5. \A g \in Page : disk'[g] \in Rendered \cup {Absent}
  BY <1>1, Names DEF TypeOK, Fits
<1>6. \A g \in Temp : disk'[g] \in {Broken, Absent}
  BY <1>1, Names DEF TypeOK, Fits
<1>7. /\ DOMAIN read' = {"manifest", "matched"}
      /\ read'["manifest"] \in Recorded \cup {Absent} /\ read'["matched"] \in Row \cup {Absent}
  BY DEF TypeOK, Unread, OtherTypes
<1>8. QED
  BY <1>1, <1>2, <1>3, <1>4, <1>5, <1>6, <1>7 DEF TypeOK, OtherTypes

LEMMA WriteRunFacts ==
    ASSUME Inv, Write("run")
    PROVE  /\ pc' = pc /\ step'["run"] = step["run"] + 1 /\ step'["tool"] = step["tool"]
           /\ step' \in [Process -> 1..8]
           /\ UNCHANGED <<manifest, written, sums, commands, scope, read, fresh, out, doubt>>
           /\ \/ /\ pc["run"] = "create" /\ step["run"] \in 1..5
                 /\ disk' = Put(disk, CreateFiles[step["run"]], Content(CreateFiles[step["run"]]))
              \/ /\ pc["run"] = "finish" /\ step["run"] \in 1..6
                 /\ disk' = Put(disk, FinishFiles[step["run"]], Content(FinishFiles[step["run"]]))
<1>1. TypeOK /\ Stages
  BY DEF Inv
<1>2. pc["run"] \in {"create", "finish"} /\ step["run"] \in 1..8
      /\ step["run"] <= Len(Order[pc["run"]])
  BY <1>1, Names DEF Write, Writing, Order, TypeOK, RunState
<1>3. /\ pc["run"] = "create" => Order[pc["run"]] = CreateFiles
      /\ pc["run"] = "finish" => Order[pc["run"]] = FinishFiles
  BY DEF Order
<1>4. /\ pc["run"] = "create" => step["run"] \in 1..5
      /\ pc["run"] = "finish" => step["run"] \in 1..6
  <2>1. CASE pc["run"] = "create"
    <3>1. Len(Order[pc["run"]]) = 5
      BY <1>3, <2>1, Names
    <3>2. QED
      BY <1>2, <2>1, <3>1
  <2>2. CASE pc["run"] = "finish"
    <3>1. Len(Order[pc["run"]]) = 6
      BY <1>3, <2>2, Names
    <3>2. QED
      BY <1>2, <2>2, <3>1
  <2>3. QED
    BY <2>1, <2>2
<1>5. /\ UNCHANGED <<manifest, written, sums, commands, scope, read, fresh, out, doubt>>
      /\ NextStep("run")
      /\ disk' = Put(disk, Order[pc["run"]][step["run"]], Content(Order[pc["run"]][step["run"]]))
  <2>1. doubt \in BOOLEAN
    BY <1>1 DEF TypeOK
  <2>2. QED
    BY <2>1 DEF Write, runVars, toolVars
<1>6. /\ pc' = pc /\ step'["run"] = step["run"] + 1 /\ step'["tool"] = step["tool"]
      /\ step' \in [Process -> 1..8]
  BY <1>1, <1>2, <1>4, <1>5, Names, NextStepFacts
<1>7. QED
  BY <1>2, <1>3, <1>4, <1>5, <1>6

\* The contents, file by file.
LEMMA ContentFacts ==
    ASSUME Inv
    PROVE  /\ \A f \in Temp : Content(f) = Broken
           /\ Content("manifest") = manifest
           /\ Content("config") = Whole /\ Content("health") = Whole
           /\ Content("observations") = Rows(written.observations, FALSE)
           /\ Content("matched") = Rows(written.matched, FALSE)
           /\ \A f \in Evidence \cup Temp : Fits(f, Content(f))
<1>1. /\ \A f \in Temp : Content(f) = Broken
      /\ Content("manifest") = manifest
      /\ Content("config") = Whole /\ Content("health") = Whole
      /\ Content("observations") = Rows(written.observations, FALSE)
      /\ Content("matched") = Rows(written.matched, FALSE)
  BY DEF Content, Temp, Page
<1>2. written.observations \in 0..MaxRows /\ written.matched \in 0..MaxRows
  BY DEF Inv, TypeOK
<1>3. Content("observations") \in Row /\ Content("matched") \in Row
  BY <1>1, <1>2, RowFacts
<1>4. QED
  BY <1>1, <1>3, Names DEF Inv, TypeOK, Fits, Evidence, Temp, Page

\* What no step of the run touches before it seals.
LEMMA RunMoves ==
    ASSUME Inv, Kept, Live, Live', pc["run"] # "seal", pc'["run"] # "seal",
           pc'["tool"] = pc["tool"], step'["tool"] = step["tool"],
           UNCHANGED <<sums, scope, read, fresh, out, doubt>>,
           \A f \in Page \cup {"checksums"} : disk'[f] = disk[f]
    PROVE  Reading' /\ Rendering' /\ ReportIsBacked' /\ Sealing' /\ Bundling'
<1>1. Sealing'
  BY DEF Inv, Sealing
<1>2. QED
  BY <1>1, ToolKept, BundleKept

LEMMA RunWrites ==
    ASSUME Inv, Kept, NEW f \in Evidence \cup Temp, NEW x, disk' = Put(disk, f, x)
    PROVE  \A g \in Page \cup {"checksums"} : disk'[g] = disk[g]
<1>1. f \in File /\ \A g \in Page \cup {"checksums"} : g \in File /\ g # f /\ g \notin Temp
  BY Names DEF Evidence, Page, Temp
<1>2. QED
  BY <1>1, PutFacts

LEMMA WriteCreateInv ==
    ASSUME Inv, Write("run"), pc["run"] = "create"
    PROVE  Inv'
<1>1. TypeOK /\ Stages /\ Ending
  BY DEF Inv
<1> DEFINE k == step["run"]
           f == CreateFiles[k]
<1>2. /\ pc' = pc /\ step'["run"] = k + 1 /\ step'["tool"] = step["tool"]
      /\ step' \in [Process -> 1..8]
      /\ UNCHANGED <<manifest, written, sums, commands, scope, read, fresh, out, doubt>>
      /\ k \in 1..5 /\ disk' = Put(disk, f, Content(f))
  BY WriteRunFacts
<1>3. /\ f \in Evidence \cup Temp /\ f \in File /\ f # "health"
      /\ (k = 1 => f = "manifest.tmp") /\ (k = 2 => f = "manifest") /\ (k = 3 => f = "config")
      /\ (k = 4 => f = "observations") /\ (k = 5 => f = "matched")
  BY <1>2, Names DEF CreateFiles, Evidence, Temp
<1>4. disk'[f] = Content(f) /\ \A g \in Evidence : g # f => disk'[g] = disk[g]
  <2>1. disk' = Put(disk, f, Content(f)) /\ f \in File
    BY <1>2, <1>3
  <2>2. \A g \in Evidence : g \in File /\ g \notin Temp
    BY Names
  <2> HIDE DEF f
  <2>3. QED
    BY <2>1, <2>2, PutFacts
<1>5. TypeOK'
  <2>1. Fits(f, Content(f))
    BY <1>3, ContentFacts
  <2>2. QED
    <3>1. OtherTypes
      BY <1>1, <1>2 DEF TypeOK, OtherTypes
    <3>2. disk' = Put(disk, f, Content(f)) /\ f \in File
      BY <1>2, <1>3
    <3>3. QED
      BY <1>1, <2>1, <3>1, <3>2, PutType
<1>6. /\ manifest.status = "created" /\ disk["health"] = Absent
      /\ disk["manifest"] \in {Absent, manifest}
      /\ (k >= 3 => disk["manifest"] = manifest) /\ (k >= 4 => disk["config"] # Absent)
      /\ (k >= 5 => disk["observations"] # Absent)
  BY <1>1 DEF Stages
<1>7. disk'["health"] = Absent /\ disk'["manifest"] \in {Absent, manifest}
  BY <1>3, <1>4, <1>6, ContentFacts DEF Evidence
<1>8. Kept
  BY <1>6 DEF Kept
<1>9. /\ k + 1 >= 3 => disk'["manifest"] = manifest
      /\ k + 1 >= 4 => disk'["config"] # Absent
      /\ k + 1 >= 5 => disk'["observations"] # Absent
      /\ k + 1 >= 6 => disk'["matched"] # Absent
  <2>1. /\ Content("manifest") = manifest /\ Content("config") # Absent
        /\ Content("observations") # Absent /\ Content("matched") # Absent
    BY ContentFacts, Present, Names DEF Fits, Evidence
  <2>2. k + 1 >= 3 => k = 2 \/ k >= 3
    BY <1>2
  <2>3. k + 1 >= 4 => k = 3 \/ k >= 4
    BY <1>2
  <2>4. k + 1 >= 5 => k = 4 \/ k >= 5
    BY <1>2
  <2>5. k + 1 >= 6 => k = 5
    BY <1>2
  <2>6. k >= 3 => f # "manifest"
    BY <1>2, <1>3
  <2>7. k >= 4 => f # "config"
    BY <1>2, <1>3
  <2>8. k >= 5 => f # "observations"
    BY <1>2, <1>3
  <2>9. QED
    BY <1>3, <1>4, <1>6, <2>1, <2>2, <2>3, <2>4, <2>5, <2>6, <2>7, <2>8 DEF Evidence
<1>10. Stages'
  <2>1. k + 1 \in 1..6 /\ pc'["run"] = "create"
    BY <1>2
  <2>2. QED
    BY <1>2, <1>6, <1>7, <1>9, <2>1 DEF Stages
<1>11. Ending'
  BY <1>2, <1>6, <1>7 DEF Ending
<1>12. Live /\ Live' /\ pc["run"] # "seal" /\ pc'["run"] # "seal"
  BY <1>2 DEF Live
<1>13. Reading' /\ Rendering' /\ ReportIsBacked' /\ Sealing' /\ Bundling'
  <2>1. disk' = Put(disk, f, Content(f)) /\ f \in Evidence \cup Temp
    BY <1>2, <1>3
  <2> HIDE DEF f
  <2>2. \A g \in Page \cup {"checksums"} : disk'[g] = disk[g]
    BY <1>8, <2>1, RunWrites
  <2>3. QED
    BY <1>2, <1>8, <1>12, <2>2, RunMoves
<1>14. QED
  BY <1>5, <1>10, <1>11, <1>13 DEF Inv

LEMMA WriteFinishInv ==
    ASSUME Inv, Write("run"), pc["run"] = "finish"
    PROVE  Inv'
<1>1. TypeOK /\ Stages /\ Ending
  BY DEF Inv
<1> DEFINE k == step["run"]
           f == FinishFiles[k]
<1>2. /\ pc' = pc /\ step'["run"] = k + 1 /\ step'["tool"] = step["tool"]
      /\ step' \in [Process -> 1..8]
      /\ UNCHANGED <<manifest, written, sums, commands, scope, read, fresh, out, doubt>>
      /\ k \in 1..6 /\ disk' = Put(disk, f, Content(f))
  BY WriteRunFacts
<1>3. /\ f \in Evidence \cup Temp /\ f \in File
      /\ (k = 1 => f = "observations") /\ (k = 2 => f = "matched")
      /\ (k = 3 => f = "manifest.tmp") /\ (k = 4 => f = "manifest")
      /\ (k = 5 => f = "health.tmp") /\ (k = 6 => f = "health")
  BY <1>2, Names DEF FinishFiles, Evidence, Temp
<1>4. disk'[f] = Content(f) /\ \A g \in Evidence : g # f => disk'[g] = disk[g]
  <2>1. disk' = Put(disk, f, Content(f)) /\ f \in File
    BY <1>2, <1>3
  <2>2. \A g \in Evidence : g \in File /\ g \notin Temp
    BY Names
  <2> HIDE DEF f
  <2>3. QED
    BY <2>1, <2>2, PutFacts
<1>5. TypeOK'
  <2>1. Fits(f, Content(f))
    BY <1>3, ContentFacts
  <2>2. QED
    <3>1. OtherTypes
      BY <1>1, <1>2 DEF TypeOK, OtherTypes
    <3>2. disk' = Put(disk, f, Content(f)) /\ f \in File
      BY <1>2, <1>3
    <3>3. QED
      BY <1>1, <2>1, <3>1, <3>2, PutType
<1>6. /\ Outcome /\ Recording /\ disk["health"] = Absent
      /\ k >= 2 => disk["observations"] = Rows(written.observations, FALSE)
      /\ k >= 3 => disk["matched"] = Rows(written.matched, FALSE)
      /\ k <= 4 => disk["manifest"] # Absent /\ disk["manifest"].status = "created"
      /\ k >= 5 => disk["manifest"] = manifest
  <2>1. k <= 6
    BY <1>2
  <2>2. QED
    BY <1>1, <2>1 DEF Stages
<1>7. /\ Content("manifest") = manifest /\ Content("health") # Absent
      /\ Content("observations") = Rows(written.observations, FALSE)
      /\ Content("matched") = Rows(written.matched, FALSE)
      /\ Content("observations") # Absent /\ Content("matched") # Absent
  BY ContentFacts, Present, Names DEF Fits, Evidence
<1>8. /\ (f = "manifest" => k = 4) /\ (f = "observations" => k = 1)
      /\ (f = "matched" => k = 2) /\ (f = "health" => k = 6) /\ f # "config"
  BY <1>2, <1>3
<1>9. /\ Recording'
      /\ k + 1 >= 2 => disk'["observations"] = Rows(written.observations, FALSE)
      /\ k + 1 >= 3 => disk'["matched"] = Rows(written.matched, FALSE)
      /\ k + 1 <= 4 => disk'["manifest"] # Absent /\ disk'["manifest"].status = "created"
      /\ k + 1 >= 5 => disk'["manifest"] = manifest
      /\ k + 1 <= 6 => disk'["health"] = Absent
  <2>1. k = 1 \/ k >= 2
    BY <1>2
  <2>2. k + 1 >= 3 => k = 2 \/ k >= 3
    BY <1>2
  <2>3. k + 1 <= 4 => k <= 4 /\ k # 4
    BY <1>2
  <2>4. k + 1 >= 5 => k = 4 \/ k >= 5
    BY <1>2
  <2>5. k + 1 <= 6 => k # 6
    BY <1>2
  <2>6. Recording'
    BY <1>4, <1>6, <1>7, <1>8 DEF Recording, Evidence
  <2>7. disk'["observations"] = Rows(written.observations, FALSE)
    BY <1>3, <1>4, <1>6, <1>7, <1>8, <2>1 DEF Evidence
  <2>8. k + 1 >= 3 => disk'["matched"] = Rows(written.matched, FALSE)
    BY <1>3, <1>4, <1>6, <1>7, <1>8, <2>2 DEF Evidence
  <2>9. k + 1 <= 4 => disk'["manifest"] = disk["manifest"]
    BY <1>4, <1>8, <2>3 DEF Evidence
  <2>10. k + 1 >= 5 => disk'["manifest"] = manifest
    BY <1>3, <1>4, <1>6, <1>7, <1>8, <2>4 DEF Evidence
  <2>11. k + 1 <= 6 => disk'["health"] = Absent
    BY <1>4, <1>6, <1>8, <2>5 DEF Evidence
  <2>12. QED
    BY <1>6, <2>3, <2>6, <2>7, <2>8, <2>9, <2>10, <2>11
<1>10. Outcome'
  BY <1>2, <1>6 DEF Outcome
<1>11. Stages'
  <2>1. k + 1 \in 1..7 /\ pc'["run"] = "finish"
    BY <1>2
  <2>2. QED
    BY <1>2, <1>9, <1>10, <2>1 DEF Stages
<1>12. k >= 4 => Final'
  <2>1. k >= 4 => k + 1 >= 5 /\ k + 1 >= 3 /\ k + 1 >= 2
    BY <1>2
  <2>2. QED
    BY <1>2, <1>9, <1>10, <2>1 DEF Final
<1>13. Ending'
  <2>1. k < 4 => disk'["manifest"].status = "created" /\ disk'["health"] = Absent
    <3>1. k < 4 => k + 1 <= 4 /\ k + 1 <= 6
      BY <1>2
    <3>2. QED
      BY <1>9, <3>1
  <2>2. k >= 4 => \A g \in Evidence \ {"health"} : disk'[g] # Absent
    <3>1. k >= 4 => k + 1 >= 5
      BY <1>2
    <3>2. manifest # Absent
      BY <1>1, Present DEF TypeOK
    <3>3. QED
      BY <1>9, <3>1, <3>2 DEF Recording, Evidence
  <2>3. k < 4 \/ k >= 4
    BY <1>2
  <2>4. QED
    BY <1>12, <2>1, <2>2, <2>3 DEF Ending
<1>14. Kept
  <2>1. k <= 4 \/ k >= 5
    BY <1>2
  <2>2. k >= 5 => disk'["manifest"] = disk["manifest"] /\ disk'["matched"] = disk["matched"]
    BY <1>2, <1>4, <1>8 DEF Evidence
  <2>3. QED
    BY <1>6, <2>1, <2>2 DEF Kept
<1>15. Live /\ Live' /\ pc["run"] # "seal" /\ pc'["run"] # "seal"
  BY <1>2 DEF Live
<1>16. Reading' /\ Rendering' /\ ReportIsBacked' /\ Sealing' /\ Bundling'
  <2>1. disk' = Put(disk, f, Content(f)) /\ f \in Evidence \cup Temp
    BY <1>2, <1>3
  <2> HIDE DEF f
  <2>2. \A g \in Page \cup {"checksums"} : disk'[g] = disk[g]
    BY <1>14, <2>1, RunWrites
  <2>3. QED
    BY <1>2, <1>14, <1>15, <2>2, RunMoves
<1>17. QED
  BY <1>5, <1>11, <1>13, <1>16 DEF Inv

\* The directory is created, an observation goes to its buffer, the loop is over.
LEMMA RunOnlyInv ==
    ASSUME Inv, Created \/ Observation \/ Matched
    PROVE  Inv'
<1>1. TypeOK /\ Stages /\ Ending
  BY DEF Inv
<1>2. /\ UNCHANGED <<disk, sums, commands, scope, read, fresh, out, doubt>>
      /\ pc["run"] \in {"create", "running"} /\ pc'["run"] \in {"running", "finish"}
      /\ pc'["tool"] = pc["tool"] /\ step'["tool"] = step["tool"]
      /\ pc' \in [Process -> RunState \cup ToolState] /\ step' \in [Process -> 1..8]
  <2>1. UNCHANGED <<disk, sums, commands, scope, read, fresh, out, doubt>>
    BY DEF Created, Observation, Matched, toolVars
  <2>2. CASE Go("run", "running") /\ pc["run"] = "create"
    BY <1>1, <2>1, <2>2, GoFacts, Names DEF RunState
  <2>3. CASE Go("run", "finish") /\ pc["run"] = "running"
    BY <1>1, <2>1, <2>3, GoFacts, Names DEF RunState
  <2>4. CASE UNCHANGED <<pc, step>> /\ pc["run"] = "running"
    BY <1>1, <2>1, <2>4 DEF TypeOK
  <2>5. QED
    BY <2>2, <2>3, <2>4 DEF Created, Observation, Matched
<1>3. /\ manifest.status = "created" /\ disk["manifest"] \in {Absent, manifest}
      /\ disk["health"] = Absent
  BY <1>1, <1>2 DEF Stages
<1>4. Kept
  BY <1>2, <1>3 DEF Kept
<1>5. Ending'
  BY <1>2, <1>3 DEF Ending
<1>6. Reading' /\ Rendering' /\ ReportIsBacked' /\ Sealing' /\ Bundling'
  <2>1. Live /\ Live' /\ pc["run"] # "seal" /\ pc'["run"] # "seal"
    BY <1>2 DEF Live
  <2>2. QED
    BY <1>2, <1>4, <2>1, RunMoves
<1>7. TypeOK' /\ Stages'
  <2>1. CASE Created
    <3>1. /\ pc["run"] = "create" /\ UNCHANGED <<manifest, written>>
          /\ step["run"] > 5 /\ pc'["run"] = "running"
      <4>1. pc["run"] = "create" => Order[pc["run"]] = CreateFiles
        BY DEF Order
      <4>2. pc["run"] = "create" /\ Go("run", "running") /\ UNCHANGED <<manifest, written>>
        BY <2>1 DEF Created, runVars
      <4>3. step["run"] > Len(CreateFiles)
        BY <2>1, <4>1 DEF Created, Written
      <4>4. QED
        BY <1>1, <4>2, <4>3, GoFacts, Names
    <3>2. step["run"] >= 3 /\ step["run"] >= 4 /\ step["run"] >= 5 /\ step["run"] >= 6
      BY <1>1, <3>1 DEF Stages
    <3>3. Stages'
      BY <1>1, <1>2, <1>3, <3>1, <3>2 DEF Stages, Recording
    <3>4. TypeOK'
      BY <1>1, <1>2, <3>1 DEF TypeOK, RunState
    <3>5. QED
      BY <3>3, <3>4
  <2>2. CASE Observation
    <3>1. /\ pc["run"] = "running" /\ UNCHANGED <<pc, step, manifest>>
          /\ written.observations < MaxRows
          /\ written' = [written EXCEPT !.observations = written.observations + 1]
      BY <2>2 DEF Observation
    <3>2. written' \in [observations : 0..MaxRows, matched : 0..MaxRows]
      <4>1. written \in [observations : 0..MaxRows, matched : 0..MaxRows]
        BY <1>1 DEF TypeOK
      <4>2. written.observations + 1 \in 0..MaxRows
        BY <3>1, <4>1, Present
      <4>3. QED
        BY <3>1, <4>1, <4>2
    <3>3. Stages'
      BY <1>1, <1>2, <3>1 DEF Stages, Recording
    <3>4. TypeOK'
      BY <1>1, <1>2, <3>1, <3>2 DEF TypeOK
    <3>5. QED
      BY <3>3, <3>4
  <2>3. CASE Matched
    <3>1. PICK m \in 0..MaxRows, status \in {"completed", "aborted"} :
            /\ status = "completed" => m >= manifest.target
            /\ manifest' = [manifest EXCEPT !.status = status, !.matched = m]
            /\ written' = [written EXCEPT !.matched = m]
      BY <2>3 DEF Matched
    <3>2. pc["run"] = "running" /\ pc'["run"] = "finish" /\ step'["run"] = 1
      BY <1>1, <2>3, GoFacts, Names DEF Matched
    <3>3. /\ manifest' \in Recorded /\ manifest'.status = status /\ manifest'.matched = m
          /\ manifest'.target = manifest.target
      BY <1>1, <3>1 DEF TypeOK, Recorded
    <3>4. written' \in [observations : 0..MaxRows, matched : 0..MaxRows] /\ written'.matched = m
      BY <1>1, <3>1 DEF TypeOK
    <3>5. Outcome'
      BY <3>1, <3>3, <3>4 DEF Outcome
    <3>6. disk["manifest"] = manifest /\ manifest # Absent /\ Recording
      BY <1>1, <3>2, Present DEF Stages, TypeOK
    <3>7. Stages'
      BY <1>2, <1>3, <3>2, <3>5, <3>6 DEF Stages, Recording
    <3>8. TypeOK'
      BY <1>1, <1>2, <3>2, <3>3, <3>4 DEF TypeOK, RunState
    <3>9. QED
      BY <3>7, <3>8
  <2>4. QED
    BY <2>1, <2>2, <2>3
<1>8. QED
  BY <1>5, <1>6, <1>7 DEF Inv

\* A buffer that has been flushed has nothing left to spill.
LEMMA Flushed ==
    ASSUME NEW w \in 0..MaxRows, NEW c \in Row
    PROVE  ~(Size(c) > Size(Rows(w, FALSE)) /\ Records(c) <= w)
<1>1. c.rows \in Nat /\ c.torn \in BOOLEAN /\ w \in Nat
  BY Present DEF Row
<1>2. Size(Rows(w, FALSE)) = 2 * w
  BY <1>1 DEF Size, Rows
<1>3. Size(c) = IF c.torn THEN 2 * c.rows + 1 ELSE 2 * c.rows
  BY <1>1 DEF Size
<1>4. Records(c) = IF c.torn THEN c.rows + 1 ELSE c.rows
  BY DEF Records
<1>5. \A r \in Nat : /\ r + 1 <= w => ~(2 * r + 1 > 2 * w)
                     /\ r <= w => ~(2 * r > 2 * w)
  BY <1>1
<1>6. CASE c.torn
  <2>1. Size(c) = 2 * c.rows + 1 /\ Records(c) = c.rows + 1
    BY <1>3, <1>4, <1>6
  <2>2. QED
    BY <1>1, <1>2, <1>5, <2>1, Zenon
<1>7. CASE ~c.torn
  <2>1. Size(c) = 2 * c.rows /\ Records(c) = c.rows
    BY <1>3, <1>4, <1>7
  <2>2. QED
    BY <1>1, <1>2, <1>5, <2>1, Zenon
<1>8. QED
  BY <1>6, <1>7

LEMMA SpillInv ==
    ASSUME Inv, NEW f \in {"observations", "matched"}, Spill(f)
    PROVE  Inv'
<1>1. TypeOK /\ Stages /\ Ending
  BY DEF Inv
<1>2. /\ pc["run"] \in {"running", "finish"}
      /\ UNCHANGED <<pc, step, manifest, written, sums, commands, scope, read, fresh, out, doubt>>
  BY DEF Spill, runVars, toolVars
<1>3. PICK c \in Row : /\ Size(c) > Size(disk[f]) /\ Records(c) <= written[f]
                       /\ disk' = Put(disk, f, c)
  BY DEF Spill
<1>4. f \in File /\ f \in Evidence \cup Temp /\ c # Absent
  BY Names, Present DEF Evidence
<1>5. disk'[f] = c /\ \A g \in Evidence : g # f => disk'[g] = disk[g]
  <2>1. \A g \in Evidence : g \in File /\ g \notin Temp
    BY Names
  <2>2. disk' = Put(disk, f, c) /\ f \in File
    BY <1>3, <1>4
  <2>3. disk'[f] = c
    BY <2>2, PutFacts
  <2>4. \A g \in File : g # f /\ g \notin Temp => disk'[g] = disk[g]
    BY <2>2, PutFacts
  <2>5. QED
    BY <2>1, <2>3, <2>4
<1>6. TypeOK'
  <2>1. Fits(f, c)
    BY DEF Fits, Page, Temp
  <2>2. OtherTypes
    BY <1>1, <1>2 DEF TypeOK, OtherTypes
  <2>3. QED
    BY <1>1, <1>3, <1>4, <2>1, <2>2, PutType
<1>7. written.observations \in 0..MaxRows /\ written.matched \in 0..MaxRows
  BY <1>1 DEF TypeOK
<1>8. disk[f] # Rows(written[f], FALSE)
  BY <1>3, <1>7, Flushed
<1>9. pc["run"] = "finish" => step["run"] <= 2 /\ (f = "observations" => step["run"] = 1)
  <2>1. pc["run"] = "finish" => step["run"] \in 1..7
    BY <1>1 DEF Stages
  <2>2. pc["run"] = "finish" /\ step["run"] >= 3 => disk[f] = Rows(written[f], FALSE)
    <3>1. step["run"] >= 3 => step["run"] >= 2
      <4>1. step["run"] \in 1..8
        BY <1>1, Names DEF TypeOK
      <4>2. QED
        BY <4>1
    <3>2. QED
      BY <1>1, <3>1 DEF Stages
  <2>3. pc["run"] = "finish" /\ step["run"] >= 2 /\ f = "observations" =>
          disk[f] = Rows(written[f], FALSE)
    BY <1>1 DEF Stages
  <2>4. pc["run"] = "finish" => ~(step["run"] >= 3) /\ (f = "observations" => ~(step["run"] >= 2))
    BY <1>8, <2>2, <2>3
  <2>5. \A k \in 1..7 : (~(k >= 3) => k <= 2) /\ (~(k >= 2) => k = 1)
    OBVIOUS
  <2>6. QED
    BY <2>1, <2>4, <2>5
<1>10. /\ disk["manifest"] # Absent /\ disk["manifest"].status = "created"
       /\ disk["health"] = Absent /\ Recording
  <2>1. CASE pc["run"] = "running"
    BY <1>1, <2>1, Present DEF Stages, TypeOK
  <2>2. CASE pc["run"] = "finish"
    <3>1. step["run"] <= 4 /\ step["run"] <= 6
      <4>1. step["run"] \in 1..8 /\ step["run"] <= 2
        BY <1>1, <1>9, <2>2, Names DEF TypeOK
      <4>2. QED
        BY <4>1
    <3>2. QED
      BY <1>1, <2>2, <3>1 DEF Stages
  <2>3. QED
    BY <1>2, <2>1, <2>2
<1>11. /\ disk'["manifest"] = disk["manifest"] /\ disk'["health"] = Absent /\ Recording'
       /\ f = "matched" => disk'["observations"] = disk["observations"]
  BY <1>4, <1>5, <1>10 DEF Evidence, Recording
<1>12. Stages'
  <2>1. CASE pc["run"] = "running"
    BY <1>1, <1>2, <1>11, <2>1 DEF Stages
  <2>2. CASE pc["run"] = "finish"
    <3>1. /\ ~(step["run"] >= 3) /\ ~(step["run"] >= 5) /\ step["run"] \in 1..7
          /\ Outcome /\ (step["run"] >= 2 => f = "matched")
      BY <1>1, <1>9, <2>2 DEF Stages
    <3>2. Outcome'
      BY <1>2, <3>1 DEF Outcome
    <3>3. step["run"] >= 2 => disk'["observations"] = Rows(written.observations, FALSE)
      BY <1>1, <1>11, <2>2, <3>1 DEF Stages
    <3>4. QED
      BY <1>2, <1>10, <1>11, <2>2, <3>1, <3>2, <3>3 DEF Stages
  <2>3. QED
    BY <1>2, <2>1, <2>2
<1>13. Kept /\ Ending'
  BY <1>10, <1>11 DEF Kept, Ending
<1>14. Reading' /\ Rendering' /\ ReportIsBacked' /\ Sealing' /\ Bundling'
  <2>1. Live /\ Live' /\ pc["run"] # "seal" /\ pc'["run"] # "seal"
    BY <1>2 DEF Live
  <2>2. \A g \in Page \cup {"checksums"} : disk'[g] = disk[g]
    BY <1>3, <1>4, <1>13, RunWrites
  <2>3. QED
    BY <1>2, <1>13, <2>1, <2>2, RunMoves
<1>15. QED
  BY <1>6, <1>12, <1>13, <1>14 DEF Inv

-------------------------------------------------------------------------------
(* write_checksums, by either.                                               *)

\* The types when the directory keeps all that the checksums cover.
LEMMA TypeKept ==
    ASSUME TypeOK, OtherTypes, DOMAIN disk' = File, \A f \in Covered : disk'[f] = disk[f]
    PROVE  TypeOK'
<1>1. /\ disk'["manifest"] = disk["manifest"] /\ disk'["config"] = disk["config"]
      /\ disk'["observations"] = disk["observations"] /\ disk'["matched"] = disk["matched"]
      /\ disk'["health"] = disk["health"]
      /\ \A f \in Page \cup Temp : disk'[f] = disk[f]
  BY Names DEF Evidence
<1>2. /\ DOMAIN read' = {"manifest", "matched"}
      /\ read'["manifest"] \in Recorded \cup {Absent} /\ read'["matched"] \in Row \cup {Absent}
  BY DEF TypeOK, Unread, OtherTypes
<1>3. QED
  BY <1>1, <1>2 DEF TypeOK, OtherTypes

\* The run's part, when a command makes the step and leaves the evidence alone.
LEMMA ToolStep ==
    ASSUME Inv, manifest' = manifest, written' = written,
           pc'["run"] = pc["run"], step'["run"] = step["run"],
           \A f \in Evidence : disk'[f] = disk[f]
    PROVE  Stages' /\ Ending' /\ Kept /\ (Live <=> Live')
<1>1. disk'["manifest"] = disk["manifest"] /\ disk'["matched"] = disk["matched"]
      /\ disk'["health"] = disk["health"]
  BY DEF Evidence
<1>2. QED
  BY <1>1, RunKept DEF Inv, Kept, Live

\* A step of the run leaves the command where it is, and the other way round.
LEMMA GoTypes ==
    ASSUME TypeOK, NEW p \in Process, NEW state, Go(p, state),
           p = "run" => state \in RunState, p = "tool" => state \in ToolState
    PROVE  /\ pc' \in [Process -> RunState \cup ToolState] /\ step' \in [Process -> 1..8]
           /\ pc'["run"] \in RunState /\ pc'["tool"] \in ToolState
<1>1. pc["run"] \in RunState /\ pc["tool"] \in ToolState
  BY DEF TypeOK
<1>2. state \in RunState \cup ToolState
  BY Names
<1>3. /\ pc' \in [Process -> RunState \cup ToolState] /\ step' \in [Process -> 1..8]
      /\ pc'[p] = state /\ \A q \in Process : q # p => pc'[q] = pc[q]
  BY <1>2, GoFacts
<1>4. QED
  BY <1>1, <1>3, Names

LEMMA ListRunInv ==
    ASSUME Inv, List("run")
    PROVE  Inv'
<1>1. TypeOK /\ Stages /\ Ending
  BY DEF Inv
<1>2. /\ Go("run", "seal") /\ Written("run") /\ pc["run"] # "create"
      /\ sums' = [sums EXCEPT !["run"] = [f \in DOMAIN Contents(disk) |-> Absent]]
      /\ UNCHANGED <<manifest, written, disk, commands, scope, read, fresh, out, doubt>>
  BY DEF List, runVars
<1>3. pc["run"] = "finish" /\ step["run"] > 6
  <2>1. pc["run"] = "finish"
    BY <1>1, <1>2 DEF Written, Order, TypeOK, RunState
  <2>2. Order[pc["run"]] = FinishFiles
    BY <2>1 DEF Order
  <2>3. step["run"] > Len(FinishFiles)
    BY <1>2, <2>2 DEF Written
  <2>4. QED
    BY <2>1, <2>3, Names
<1>4. pc'["run"] = "seal" /\ pc'["tool"] = pc["tool"] /\ step'["tool"] = step["tool"]
  BY <1>1, <1>2, GoFacts, Names
<1>5. Final
  <2>1. step["run"] >= 2 /\ step["run"] >= 3 /\ step["run"] >= 5
    <3>1. step["run"] \in 1..8
      BY <1>1, Names DEF TypeOK
    <3>2. QED
      BY <1>3, <3>1
  <2>2. QED
    BY <1>1, <1>3, <2>1 DEF Stages, Final
<1>6. Final'
  BY <1>2, <1>5 DEF Final, Outcome
<1>7. Stages' /\ Ending'
  BY <1>1, <1>2, <1>4, <1>6 DEF Stages, Ending
<1>8. DOMAIN sums = Process
  BY <1>1 DEF TypeOK
<1>9. /\ sums'["run"] = [f \in DOMAIN Contents(disk) |-> Absent]
      /\ sums'["tool"] = sums["tool"] /\ DOMAIN sums' = Process
  BY <1>2, <1>8, Names
<1>10. TypeOK'
  <2>1. DOMAIN sums'["run"] \subseteq Covered
    BY <1>9 DEF Contents
  <2>2. OtherTypes
    <3>1. /\ pc' \in [Process -> RunState \cup ToolState] /\ step' \in [Process -> 1..8]
          /\ pc'["run"] \in RunState /\ pc'["tool"] \in ToolState
      BY <1>1, <1>2, GoTypes, Names DEF RunState
    <3>2. QED
      BY <1>1, <1>2, <1>9, <2>1, <3>1, Names DEF TypeOK, OtherTypes
  <2>3. DOMAIN disk' = File /\ \A f \in Covered : disk'[f] = disk[f]
    BY <1>1, <1>2 DEF TypeOK
  <2>4. QED
    BY <1>1, <2>2, <2>3, TypeKept
<1>11. Kept
  BY <1>2 DEF Kept
<1>12. Reading' /\ Rendering' /\ ReportIsBacked' /\ Bundling'
  BY <1>2, <1>4, <1>11, ToolKept, BundleKept
<1>13. Sealing'
  <2>1. Live /\ Live'
    BY <1>3, <1>4 DEF Live
  <2>2. \A f \in DOMAIN sums'["run"] : sums'["run"][f] = Absent
    BY <1>9
  <2>3. QED
    BY <1>2, <1>4, <1>9, <2>1, <2>2 DEF Inv, Sealing
<1>14. QED
  BY <1>7, <1>10, <1>12, <1>13 DEF Inv

LEMMA ListToolInv ==
    ASSUME Inv, List("tool")
    PROVE  Inv'
<1>1. TypeOK /\ Reading /\ Rendering /\ ReportIsBacked /\ Sealing
  BY DEF Inv
<1>2. /\ Go("tool", "seal") /\ Written("tool")
      /\ sums' = [sums EXCEPT !["tool"] = [f \in DOMAIN Contents(disk) |-> Absent]]
      /\ UNCHANGED <<manifest, written, disk, commands, scope, read, out, doubt>>
      /\ fresh' = ~Live
  BY DEF List, runVars
<1>3. pc'["tool"] = "seal" /\ pc'["run"] = pc["run"] /\ step'["run"] = step["run"]
  BY <1>1, <1>2, GoFacts, Names
<1>4. \/ pc["tool"] = "render" /\ step["tool"] > 4
      \/ pc["tool"] = "attach"
  <2>1. pc["tool"] \in {"render", "attach"}
    BY <1>1, <1>2 DEF Written, Order, TypeOK, ToolState
  <2>2. CASE pc["tool"] = "render"
    <3>1. Order[pc["tool"]] = RenderFiles
      BY <2>2 DEF Order
    <3>2. step["tool"] > Len(RenderFiles)
      BY <1>2, <3>1 DEF Written
    <3>3. QED
      BY <2>2, <3>2, Names
  <2>3. QED
    BY <2>1, <2>2
<1>5. DOMAIN sums = Process
  BY <1>1 DEF TypeOK
<1>6. /\ sums'["tool"] = [f \in DOMAIN Contents(disk) |-> Absent]
      /\ sums'["run"] = sums["run"] /\ DOMAIN sums' = Process
  BY <1>2, <1>5, Names
<1>7. TypeOK'
  <2>1. DOMAIN sums'["tool"] \subseteq Covered
    BY <1>6 DEF Contents
  <2>2. OtherTypes
    <3>1. /\ pc' \in [Process -> RunState \cup ToolState] /\ step' \in [Process -> 1..8]
          /\ pc'["run"] \in RunState /\ pc'["tool"] \in ToolState
      BY <1>1, <1>2, GoTypes, Names DEF ToolState
    <3>2. fresh' \in BOOLEAN
      BY <1>2
    <3>3. QED
      BY <1>1, <1>2, <1>6, <2>1, <3>1, <3>2, Names DEF TypeOK, OtherTypes
  <2>3. DOMAIN disk' = File /\ \A f \in Covered : disk'[f] = disk[f]
    BY <1>1, <1>2 DEF TypeOK
  <2>4. QED
    BY <1>1, <2>2, <2>3, TypeKept
<1>8. Stages' /\ Ending' /\ Kept /\ (Live <=> Live')
  BY <1>2, <1>3, ToolStep
<1>9. Reading' /\ ReportIsBacked' /\ Bundling'
  <2>1. Reading'
    BY <1>1, <1>2, <1>3 DEF Reading
  <2>2. ReportIsBacked'
    BY <1>1, <1>2 DEF ReportIsBacked
  <2>3. Bundling'
    BY <1>2, <1>3, <1>8, BundleKept
  <2>4. QED
    BY <2>1, <2>2, <2>3
<1>10. Rendering'
  <2>1. scope = "operator" =>
          /\ Publishable(disk["manifest"]) /\ disk["health"] # Absent
          /\ \A f \in Page : disk[f] # Absent
    <3>1. SUFFICES ASSUME scope = "operator"
                   PROVE  /\ Publishable(disk["manifest"]) /\ disk["health"] # Absent
                          /\ \A f \in Page : disk[f] # Absent
      OBVIOUS
    <3>2. pc["tool"] = "render" /\ step["tool"] > 4
      BY <1>1, <1>4, <3>1 DEF Reading
    <3>3. step["tool"] >= 3 /\ step["tool"] >= 5
      <4>1. step["tool"] \in 1..8
        BY <1>1, Names DEF TypeOK
      <4>2. QED
        BY <3>2, <4>1
    <3>4. Publishable(read["manifest"]) /\ read["manifest"] # Absent /\ disk["health"] # Absent
      BY <1>1, <3>1, <3>2 DEF Reading
    <3>5. disk["manifest"] = read["manifest"]
      BY <1>1, <3>4 DEF Reading, Publishable
    <3>6. QED
      BY <1>1, <3>2, <3>3, <3>4, <3>5 DEF Rendering, Page
  <2>2. QED
    BY <1>1, <1>2, <1>3, <2>1 DEF Rendering
<1>11. Sealing'
  <2>1. \A f \in DOMAIN sums'["tool"] : sums'["tool"][f] = Absent
    BY <1>6
  <2>2. QED
    BY <1>1, <1>2, <1>3, <1>6, <1>8, <2>1 DEF Sealing
<1>12. QED
  BY <1>7, <1>8, <1>9, <1>10, <1>11 DEF Inv

LEMMA HashInv ==
    ASSUME Inv, NEW p \in Process, NEW f \in Covered, Hash(p, f)
    PROVE  Inv'
<1>1. TypeOK /\ Sealing
  BY DEF Inv
<1>2. /\ UNCHANGED <<pc, step, manifest, written, disk, commands, scope, read, fresh, out, doubt>>
      /\ sums' = [sums EXCEPT ![p] = [g \in DOMAIN sums[p] |->
                                        IF g = f THEN disk[f] ELSE sums[p][g]]]
  BY DEF Hash, runVars, toolVars
<1>3. DOMAIN sums = Process /\ \A q \in Process : DOMAIN sums[q] \subseteq Covered
  BY <1>1 DEF TypeOK
<1>4. /\ DOMAIN sums' = Process
      /\ \A q \in Process : q # p => sums'[q] = sums[q]
      /\ sums'[p] = [g \in DOMAIN sums[p] |-> IF g = f THEN disk[f] ELSE sums[p][g]]
  BY <1>2, <1>3
<1>5. \A q \in Process :
        /\ DOMAIN sums'[q] = DOMAIN sums[q]
        /\ \A g \in DOMAIN sums[q] : sums'[q][g] \in {sums[q][g], disk[g]}
  BY <1>4
<1>6. TypeOK'
  <2>1. OtherTypes
    BY <1>1, <1>2, <1>3, <1>4, <1>5 DEF TypeOK, OtherTypes
  <2>2. DOMAIN disk' = File /\ \A g \in Covered : disk'[g] = disk[g]
    BY <1>1, <1>2 DEF TypeOK
  <2>3. QED
    BY <1>1, <2>1, <2>2, TypeKept
<1>7. Kept /\ (Live <=> Live')
  BY <1>2 DEF Kept, Live
<1>8. Stages' /\ Ending' /\ Reading' /\ Rendering' /\ ReportIsBacked' /\ Bundling'
  BY <1>2, <1>7, RunKept, ToolKept, BundleKept DEF Inv
<1>9. Sealing'
  <2>1. /\ \A g \in DOMAIN sums'["run"] : sums'["run"][g] \in {sums["run"][g], disk[g]}
        /\ \A g \in DOMAIN sums'["tool"] : sums'["tool"][g] \in {sums["tool"][g], disk[g]}
        /\ DOMAIN sums'["run"] = DOMAIN sums["run"] /\ DOMAIN sums'["tool"] = DOMAIN sums["tool"]
    BY <1>5, Names
  <2>2. QED
    BY <1>1, <1>2, <1>7, <2>1 DEF Sealing
<1>10. QED
  BY <1>6, <1>8, <1>9 DEF Inv

LEMMA PutChecksums ==
    ASSUME NEW c, disk' = Put(disk, "checksums", c)
    PROVE  DOMAIN disk' = File /\ disk'["checksums"] = c /\ \A f \in Covered : disk'[f] = disk[f]
<1>1. "checksums" \in File /\ \A f \in Covered : f \in File /\ f # "checksums"
  BY Names
<1>2. QED
  BY <1>1, PutFacts

LEMMA SealRunInv ==
    ASSUME Inv, Seal("run")
    PROVE  Inv'
<1>1. TypeOK /\ Stages /\ Ending /\ Sealing
  BY DEF Inv
<1>2. /\ Hashed("run") /\ Go("run", "done") /\ disk' = Put(disk, "checksums", sums["run"])
      /\ sums' = [sums EXCEPT !["run"] = Nothing]
      /\ UNCHANGED <<manifest, written, commands, scope, read, fresh, out, doubt>>
  BY DEF Seal, AfterSeal, Forget, runVars
<1>3. /\ pc'["run"] = "done" /\ pc'["tool"] = pc["tool"] /\ step'["tool"] = step["tool"]
      /\ pc["run"] = "seal" /\ \A f \in DOMAIN sums["run"] : sums["run"][f] # Absent
  BY <1>1, <1>2, GoFacts, Names DEF Hashed
<1>4. /\ DOMAIN disk' = File /\ disk'["checksums"] = sums["run"]
      /\ \A f \in Covered : disk'[f] = disk[f]
  BY <1>2, PutChecksums
<1>5. /\ \A f \in Evidence \cup Page : disk'[f] = disk[f]
      /\ disk'["manifest"] = disk["manifest"] /\ disk'["matched"] = disk["matched"]
      /\ disk'["observations"] = disk["observations"] /\ disk'["health"] = disk["health"]
  BY <1>4, Names DEF Evidence
<1>6. DOMAIN sums = Process /\ DOMAIN sums["run"] \subseteq Covered
  BY <1>1, Names DEF TypeOK
<1>7. DOMAIN sums' = Process /\ sums'["tool"] = sums["tool"] /\ sums'["run"] = Nothing
  BY <1>2, <1>6, Names
<1>8. TypeOK'
  <2>1. DOMAIN sums'["run"] \subseteq Covered
    BY <1>7 DEF Nothing
  <2>2. /\ pc' \in [Process -> RunState \cup ToolState] /\ step' \in [Process -> 1..8]
        /\ pc'["run"] \in RunState /\ pc'["tool"] \in ToolState
    BY <1>1, <1>2, GoTypes, Names DEF RunState
  <2>3. OtherTypes
    BY <1>1, <1>2, <1>7, <2>1, <2>2, Names DEF TypeOK, OtherTypes
  <2>4. QED
    BY <1>1, <1>4, <2>3, TypeKept
<1>9. Final /\ Final'
  <2>1. Final
    BY <1>1, <1>3 DEF Stages
  <2>2. QED
    BY <1>2, <1>5, <2>1 DEF Final, Outcome
<1>10. Stages' /\ Ending'
  BY <1>1, <1>3, <1>5, <1>9 DEF Stages, Ending
<1>11. Kept
  BY <1>5 DEF Kept
<1>12. Reading' /\ Rendering' /\ ReportIsBacked' /\ Bundling'
  BY <1>2, <1>3, <1>5, <1>11, ToolKept, BundleKept
<1>13. Sealing'
  <2>1. Live /\ ~Live'
    BY <1>3 DEF Live
  <2>2. ~doubt => ChecksumsMatch(disk')
    <3>1. SUFFICES ASSUME ~doubt PROVE ChecksumsMatch(disk')
      OBVIOUS
    <3>2. \A f \in DOMAIN sums["run"] : sums["run"][f] = disk[f]
      BY <1>1, <1>3, <3>1 DEF Sealing
    <3>3. QED
      BY <1>2, <1>6, <3>2, Matching
  <2>3. ~(pc["tool"] = "seal" /\ fresh)
    BY <1>1, <2>1 DEF Sealing
  <2>4. ~(pc'["tool"] = "seal" /\ fresh') /\ doubt' = doubt /\ pc'["run"] # "seal"
    BY <1>2, <1>3, <2>3
  <2>5. ChecksumsMatch(disk)' <=> ChecksumsMatch(disk')
    BY DEF ChecksumsMatch
  <2>6. QED
    BY <2>1, <2>2, <2>4, <2>5 DEF Sealing
<1>14. QED
  BY <1>8, <1>10, <1>12, <1>13 DEF Inv

LEMMA SealToolInv ==
    ASSUME Inv, Seal("tool")
    PROVE  Inv'
<1>1. TypeOK /\ Stages /\ Ending /\ Reading /\ Rendering /\ ReportIsBacked /\ Sealing
  BY DEF Inv
<1>2. PICK state \in AfterSeal("tool") : Go("tool", state)
  BY DEF Seal
<1>3. /\ Hashed("tool") /\ disk' = Put(disk, "checksums", sums["tool"])
      /\ sums' = [sums EXCEPT !["tool"] = Nothing]
      /\ scope' = "private" /\ read' = Unread /\ fresh' = FALSE /\ doubt' = ~fresh
      /\ UNCHANGED <<manifest, written, commands, out>>
  BY DEF Seal, Forget, runVars
<1>4. /\ state \in {"idle", "bundle"} /\ (state = "bundle" => scope = "operator")
      /\ pc'["tool"] = state /\ step'["tool"] = 1
      /\ pc'["run"] = pc["run"] /\ step'["run"] = step["run"]
      /\ pc["tool"] = "seal" /\ \A f \in DOMAIN sums["tool"] : sums["tool"][f] # Absent
  BY <1>1, <1>2, <1>3, GoFacts, Names DEF Hashed, AfterSeal
<1>5. /\ DOMAIN disk' = File /\ disk'["checksums"] = sums["tool"]
      /\ \A f \in Covered : disk'[f] = disk[f]
  BY <1>3, PutChecksums
<1>6. /\ \A f \in Evidence \cup Page : disk'[f] = disk[f]
      /\ disk'["manifest"] = disk["manifest"] /\ disk'["health"] = disk["health"]
  BY <1>5, Names DEF Evidence
<1>7. DOMAIN sums = Process /\ DOMAIN sums["tool"] \subseteq Covered
  BY <1>1, Names DEF TypeOK
<1>8. DOMAIN sums' = Process /\ sums'["run"] = sums["run"] /\ sums'["tool"] = Nothing
  BY <1>3, <1>7, Names
<1>9. TypeOK'
  <2>1. DOMAIN sums'["tool"] \subseteq Covered
    BY <1>8 DEF Nothing
  <2>2. /\ pc' \in [Process -> RunState \cup ToolState] /\ step' \in [Process -> 1..8]
        /\ pc'["run"] \in RunState /\ pc'["tool"] \in ToolState
    BY <1>1, <1>2, <1>4, GoTypes, Names DEF ToolState
  <2>3. scope' \in Scopes /\ fresh' \in BOOLEAN /\ doubt' \in BOOLEAN
    BY <1>3 DEF Scopes
  <2>4. OtherTypes
    BY <1>1, <1>3, <1>8, <2>1, <2>2, <2>3, Names DEF TypeOK, OtherTypes
  <2>5. QED
    BY <1>1, <1>5, <2>4, TypeKept
<1>10. Stages' /\ Ending' /\ Kept /\ (Live <=> Live')
  BY <1>3, <1>4, <1>6, ToolStep
<1>11. Reading'
  <2>1. read'["manifest"] = Absent
    BY <1>3 DEF Unread
  <2>2. QED
    BY <1>4, <2>1 DEF Reading
<1>12. Rendering'
  <2>1. pc'["tool"] = "bundle" =>
          /\ Publishable(disk'["manifest"]) /\ disk'["health"] # Absent
          /\ \A f \in Page : disk'[f] # Absent
    BY <1>1, <1>4, <1>6 DEF Rendering
  <2>2. \A f \in Page : disk'[f] # Absent => disk'["health"] # Absent
    BY <1>1, <1>6 DEF Rendering
  <2>3. QED
    BY <1>4, <2>1, <2>2 DEF Rendering
<1>13. ReportIsBacked'
  BY <1>1, <1>6 DEF ReportIsBacked
<1>14. Sealing'
  <2>1. ~doubt' => ~Live /\ ChecksumsMatch(disk')
    <3>1. SUFFICES ASSUME fresh PROVE ~Live /\ ChecksumsMatch(disk')
      BY <1>1, <1>3 DEF TypeOK
    <3>2. ~Live /\ \A f \in DOMAIN sums["tool"] : sums["tool"][f] = disk[f]
      BY <1>1, <1>4, <3>1 DEF Sealing
    <3>3. QED
      BY <1>3, <1>7, <3>2, Matching
  <2>2. ChecksumsMatch(disk)' <=> ChecksumsMatch(disk')
    BY DEF ChecksumsMatch
  <2>3. pc'["run"] = "seal" => Live
    BY <1>4 DEF Live
  <2>4. pc'["tool"] # "seal"
    BY <1>4
  <2>5. QED
    BY <1>10, <2>1, <2>2, <2>3, <2>4 DEF Sealing
<1>15. Bundling'
  BY <1>3, <1>4, <1>10, BundleKept
<1>16. QED
  BY <1>9, <1>10, <1>11, <1>12, <1>13, <1>14, <1>15 DEF Inv

\* A process that stops leaves the directory as it is, but perhaps for a list that
\* it had begun.
LEMMA StopFacts ==
    ASSUME TypeOK, NEW p \in Process, Stop(p)
    PROVE  /\ DOMAIN disk' = File /\ \A f \in Covered : disk'[f] = disk[f]
           /\ disk' = disk \/ (Hashed(p) /\ disk'["checksums"] = Nothing)
           /\ UNCHANGED <<manifest, written, commands, out>> /\ Forget(p)
           /\ pc[p] \notin {"idle", "done", "dead"}
           /\ Go(p, IF p = "run" THEN "dead" ELSE "idle")
           /\ doubt' = (doubt \/ (p = "tool" /\ pc[p] \in {"render", "seal"}))
           /\ DOMAIN sums' = Process /\ sums'[p] = Nothing
           /\ \A q \in Process : q # p => sums'[q] = sums[q]
           /\ \A q \in Process : DOMAIN sums'[q] \subseteq Covered
<1>1. /\ UNCHANGED <<manifest, written, commands, out>> /\ Forget(p)
      /\ pc[p] \notin {"idle", "done", "dead"}
      /\ Go(p, IF p = "run" THEN "dead" ELSE "idle")
      /\ doubt' = (doubt \/ (p = "tool" /\ pc[p] \in {"render", "seal"}))
      /\ sums' = [sums EXCEPT ![p] = Nothing]
      /\ disk' = disk \/ (Hashed(p) /\ disk' = Put(disk, "checksums", Nothing))
  BY Zenon DEF Stop, runVars
<1>2. DOMAIN disk' = File /\ \A f \in Covered : disk'[f] = disk[f]
  BY <1>1, PutChecksums DEF TypeOK
<1>3. disk' = disk \/ (Hashed(p) /\ disk'["checksums"] = Nothing)
  BY <1>1, PutChecksums
<1>4. DOMAIN sums = Process /\ \A q \in Process : DOMAIN sums[q] \subseteq Covered
  BY DEF TypeOK
<1>5. /\ DOMAIN sums' = Process /\ sums'[p] = Nothing
      /\ \A q \in Process : q # p => sums'[q] = sums[q]
  BY <1>1, <1>4
<1>6. DOMAIN Nothing \subseteq Covered
  BY DEF Nothing
<1>7. QED
  BY <1>1, <1>2, <1>3, <1>4, <1>5, <1>6

LEMMA StopRunInv ==
    ASSUME Inv, Stop("run")
    PROVE  Inv'
<1>1. TypeOK /\ Stages /\ Ending /\ Sealing
  BY DEF Inv
<1>2. /\ DOMAIN disk' = File /\ \A f \in Covered : disk'[f] = disk[f]
      /\ disk' = disk \/ disk'["checksums"] = Nothing
      /\ UNCHANGED <<manifest, written, commands, out>> /\ Forget("run")
      /\ pc["run"] \notin {"done", "dead"} /\ Go("run", "dead")
      /\ doubt' = (doubt \/ ("run" = "tool" /\ pc["run"] \in {"render", "seal"}))
      /\ DOMAIN sums' = Process /\ sums'["run"] = Nothing /\ sums'["tool"] = sums["tool"]
      /\ \A q \in Process : DOMAIN sums'[q] \subseteq Covered
  BY <1>1, StopFacts, Names
<1>3. UNCHANGED <<scope, read, fresh, doubt>>
  BY <1>1, <1>2 DEF Forget, TypeOK
<1>4. pc'["run"] = "dead" /\ pc'["tool"] = pc["tool"] /\ step'["tool"] = step["tool"]
  BY <1>1, <1>2, GoFacts, Names
<1>5. TypeOK'
  <2>1. /\ pc' \in [Process -> RunState \cup ToolState] /\ step' \in [Process -> 1..8]
        /\ pc'["run"] \in RunState /\ pc'["tool"] \in ToolState
    BY <1>1, <1>2, GoTypes, Names DEF RunState
  <2>2. OtherTypes
    BY <1>1, <1>2, <1>3, <2>1 DEF TypeOK, OtherTypes
  <2>3. QED
    BY <1>1, <1>2, <2>2, TypeKept
<1>6. /\ \A f \in Evidence \cup Page : disk'[f] = disk[f]
      /\ disk'["manifest"] = disk["manifest"] /\ disk'["matched"] = disk["matched"]
      /\ disk'["observations"] = disk["observations"] /\ disk'["health"] = disk["health"]
  BY <1>2, Names DEF Evidence
<1>7. Final => Final'
  BY <1>2, <1>6 DEF Final, Outcome
<1>8. Stages' /\ Ending'
  BY <1>1, <1>4, <1>6, <1>7 DEF Stages, Ending
<1>9. Kept
  BY <1>6 DEF Kept
<1>10. Reading' /\ Rendering' /\ ReportIsBacked' /\ Bundling'
  BY <1>2, <1>3, <1>4, <1>6, <1>9, ToolKept, BundleKept
<1>11. Sealing'
  <2>1. Live /\ ~Live'
    BY <1>1, <1>2, <1>4 DEF Live, TypeOK, RunState
  <2>2. ~doubt => ChecksumsMatch(disk')
    <3>1. SUFFICES ASSUME ~doubt PROVE disk'["checksums"] # Absent => disk'["checksums"] = Nothing
      BY DEF ChecksumsMatch, Nothing
    <3>2. QED
      BY <1>1, <1>2, <2>1, <3>1 DEF Sealing
  <2>3. ~(pc'["tool"] = "seal" /\ fresh') /\ doubt' = doubt /\ pc'["run"] # "seal"
    BY <1>1, <1>3, <1>4, <2>1 DEF Sealing
  <2>4. ChecksumsMatch(disk)' <=> ChecksumsMatch(disk')
    BY DEF ChecksumsMatch
  <2>5. QED
    BY <2>1, <2>2, <2>3, <2>4 DEF Sealing
<1>12. QED
  BY <1>5, <1>8, <1>10, <1>11 DEF Inv

LEMMA StopToolInv ==
    ASSUME Inv, Stop("tool")
    PROVE  Inv'
<1>1. TypeOK /\ Rendering /\ ReportIsBacked /\ Sealing
  BY DEF Inv
<1>2. /\ DOMAIN disk' = File /\ \A f \in Covered : disk'[f] = disk[f]
      /\ disk' = disk \/ Hashed("tool")
      /\ UNCHANGED <<manifest, written, commands, out>> /\ Forget("tool")
      /\ Go("tool", "idle")
      /\ doubt' = (doubt \/ ("tool" = "tool" /\ pc["tool"] \in {"render", "seal"}))
      /\ DOMAIN sums' = Process /\ sums'["tool"] = Nothing /\ sums'["run"] = sums["run"]
      /\ \A q \in Process : DOMAIN sums'[q] \subseteq Covered
  BY <1>1, StopFacts, Names
<1>3. /\ scope' = "private" /\ read' = Unread /\ fresh' = FALSE
      /\ doubt' = (doubt \/ pc["tool"] \in {"render", "seal"})
  BY <1>2 DEF Forget
<1>4. pc'["tool"] = "idle" /\ pc'["run"] = pc["run"] /\ step'["run"] = step["run"]
  BY <1>1, <1>2, GoFacts, Names
<1>5. TypeOK'
  <2>1. /\ pc' \in [Process -> RunState \cup ToolState] /\ step' \in [Process -> 1..8]
        /\ pc'["run"] \in RunState /\ pc'["tool"] \in ToolState
    BY <1>1, <1>2, GoTypes, Names DEF ToolState
  <2>2. scope' \in Scopes /\ fresh' \in BOOLEAN /\ doubt' \in BOOLEAN
    BY <1>1, <1>3 DEF Scopes, TypeOK
  <2>3. OtherTypes
    BY <1>1, <1>2, <1>3, <2>1, <2>2 DEF OtherTypes
  <2>4. QED
    BY <1>1, <1>2, <2>3, TypeKept
<1>6. /\ \A f \in Evidence \cup Page : disk'[f] = disk[f]
      /\ disk'["manifest"] = disk["manifest"] /\ disk'["health"] = disk["health"]
  BY <1>2, Names DEF Evidence
<1>7. Stages' /\ Ending' /\ Kept /\ (Live <=> Live')
  BY <1>2, <1>4, <1>6, ToolStep
<1>8. Reading'
  <2>1. read'["manifest"] = Absent
    BY <1>3 DEF Unread
  <2>2. QED
    BY <1>4, <2>1 DEF Reading
<1>9. Rendering'
  BY <1>1, <1>4, <1>6 DEF Rendering
<1>10. ReportIsBacked'
  BY <1>1, <1>6 DEF ReportIsBacked
<1>11. Sealing'
  <2>1. ~doubt' => ~doubt /\ pc["tool"] \notin {"render", "seal"} /\ disk' = disk
    BY <1>2, <1>3 DEF Hashed
  <2>2. QED
    BY <1>1, <1>2, <1>4, <1>7, <2>1 DEF Sealing, ChecksumsMatch
<1>12. Bundling'
  BY <1>2, <1>4, <1>7, BundleKept
<1>13. QED
  BY <1>5, <1>7, <1>8, <1>9, <1>10, <1>11, <1>12 DEF Inv

-------------------------------------------------------------------------------
(* The offline commands.                                                     *)

\* A command that only reads leaves the directory's part alone.
LEMMA ToolMoves ==
    ASSUME Inv, UNCHANGED <<disk, manifest, written, sums, fresh, out, doubt>>,
           pc'["run"] = pc["run"], step'["run"] = step["run"],
           pc["tool"] \notin {"render", "seal"}, pc'["tool"] \notin {"seal", "bundle"}
    PROVE  /\ Stages' /\ Ending' /\ ReportIsBacked' /\ Sealing' /\ Bundling'
           /\ \A f \in Page : disk[f] # Absent => disk["health"] # Absent
<1>1. Stages' /\ Ending' /\ Kept /\ (Live <=> Live')
  BY ToolStep
<1>2. ReportIsBacked'
  BY DEF Inv, ReportIsBacked
<1>3. Sealing'
  BY <1>1 DEF Inv, Sealing, ChecksumsMatch
<1>4. Bundling'
  BY <1>1, BundleKept
<1>5. QED
  BY <1>1, <1>2, <1>3, <1>4 DEF Inv, Rendering

\* The types when a command only reads.
LEMMA ReadType ==
    ASSUME TypeOK, UNCHANGED <<disk, manifest, written, sums, fresh, out, doubt>>,
           pc' \in [Process -> RunState \cup ToolState], step' \in [Process -> 1..8],
           pc'["run"] \in RunState, pc'["tool"] \in ToolState,
           commands' \in 0..MaxCommands, scope' \in Scopes,
           DOMAIN read' = {"manifest", "matched"},
           read'["manifest"] \in {read["manifest"], disk["manifest"]},
           read'["matched"] \in {read["matched"], disk["matched"]}
    PROVE  TypeOK'
BY DEF TypeOK

LEMMA StartInv ==
    ASSUME Inv, NEW state \in {"read", "attach"}, Give(state), scope' \in Scopes,
           state = "attach" => scope' = "private",
           UNCHANGED <<disk, manifest, written, sums, read, fresh, out, doubt>>
    PROVE  Inv'
<1>1. TypeOK /\ Reading /\ Rendering
  BY DEF Inv
<1>2. /\ pc["tool"] = "idle" /\ Go("tool", state)
      /\ commands < MaxCommands /\ commands' = commands + 1
  BY DEF Give
<1>3. /\ pc'["tool"] = state /\ step'["tool"] = 1
      /\ pc'["run"] = pc["run"] /\ step'["run"] = step["run"]
  BY <1>1, <1>2, GoFacts, Names
<1>4. TypeOK'
  <2>1. commands' \in 0..MaxCommands
    BY <1>1, <1>2, Present DEF TypeOK
  <2>2. /\ pc' \in [Process -> RunState \cup ToolState] /\ step' \in [Process -> 1..8]
        /\ pc'["run"] \in RunState /\ pc'["tool"] \in ToolState
    BY <1>1, <1>2, GoTypes, Names DEF ToolState
  <2>3. DOMAIN read = {"manifest", "matched"}
    BY <1>1 DEF TypeOK
  <2>4. QED
    BY <1>1, <2>1, <2>2, <2>3, ReadType
<1>5. /\ Stages' /\ Ending' /\ ReportIsBacked' /\ Sealing' /\ Bundling'
      /\ \A f \in Page : disk[f] # Absent => disk["health"] # Absent
  BY <1>2, <1>3, ToolMoves
<1>6. Reading'
  BY <1>1, <1>3 DEF Reading
<1>7. Rendering'
  BY <1>3, <1>5 DEF Rendering
<1>8. QED
  BY <1>4, <1>5, <1>6, <1>7 DEF Inv

LEMMA ReadInv ==
    ASSUME Inv, Read
    PROVE  Inv'
<1>1. TypeOK /\ Reading /\ Rendering
  BY DEF Inv
<1> DEFINE k == step["tool"]
           f == ReadOrder[k]
<1>2. /\ pc["tool"] = "read" /\ k <= Len(ReadOrder) /\ NextStep("tool")
      /\ disk[f] # Absent
      /\ read' = [g \in DOMAIN read |-> IF g = f THEN disk[g] ELSE read[g]]
      /\ UNCHANGED <<disk, manifest, written, sums, commands, scope, fresh, out, doubt>>
  BY DEF Read, runVars
<1>3. k \in 1..3
  BY <1>1, <1>2, Names DEF Reading
<1>4. /\ pc' = pc /\ step'["tool"] = k + 1 /\ step'["run"] = step["run"]
      /\ step' \in [Process -> 1..8]
  BY <1>1, <1>2, <1>3, NextStepFacts, Names
<1>5. /\ (k = 1 => f = "manifest") /\ (k = 2 => f = "matched") /\ (k = 3 => f = "health")
  BY DEF ReadOrder
<1>6. DOMAIN read = {"manifest", "matched"}
  BY <1>1 DEF TypeOK
<1>7. /\ DOMAIN read' = {"manifest", "matched"}
      /\ read'["manifest"] = IF k = 1 THEN disk["manifest"] ELSE read["manifest"]
      /\ read'["matched"] = IF k = 2 THEN disk["matched"] ELSE read["matched"]
  BY <1>2, <1>3, <1>5, <1>6
<1>8. TypeOK'
  BY <1>1, <1>2, <1>4, <1>7, ReadType DEF TypeOK
<1>9. /\ Stages' /\ Ending' /\ ReportIsBacked' /\ Sealing' /\ Bundling'
      /\ \A g \in Page : disk[g] # Absent => disk["health"] # Absent
  BY <1>2, <1>4, ToolMoves
<1>10. Reading'
  <2>1. read'["manifest"] # Absent /\ read'["manifest"].status # "created" =>
          disk["manifest"] = read'["manifest"]
    BY <1>1, <1>7 DEF Reading
  <2>2. k + 1 \in 1..4 /\ read'["manifest"] # Absent
    <3>1. k + 1 \in 1..4 /\ (k = 1 \/ k >= 2)
      BY <1>3
    <3>2. QED
      BY <1>1, <1>2, <1>5, <1>7, <3>1 DEF Reading
  <2>3. k + 1 >= 3 => /\ read'["matched"] # Absent
                      /\ read'["manifest"].status # "created" =>
                           read'["matched"] = disk["matched"]
    <3>1. k + 1 >= 3 => k # 1 /\ (k = 2 \/ k >= 3)
      BY <1>3
    <3>2. QED
      BY <1>1, <1>2, <1>5, <1>7, <3>1 DEF Reading
  <2>4. k + 1 >= 4 => disk["health"] # Absent
    <3>1. k + 1 >= 4 => k = 3
      BY <1>3
    <3>2. QED
      BY <1>2, <1>5, <3>1
  <2>5. QED
    BY <1>2, <1>4, <2>1, <2>2, <2>3, <2>4 DEF Reading
<1>11. Rendering'
  BY <1>2, <1>4, <1>9 DEF Rendering
<1>12. QED
  BY <1>8, <1>9, <1>10, <1>11 DEF Inv

LEMMA StartRenderInv ==
    ASSUME Inv, StartRender
    PROVE  Inv'
<1>1. TypeOK /\ Reading /\ Rendering
  BY DEF Inv
<1>2. /\ pc["tool"] = "read" /\ step["tool"] > Len(ReadOrder) /\ Go("tool", "render")
      /\ scope = "operator" => Publishable(read["manifest"])
      /\ UNCHANGED <<disk, manifest, written, sums, commands, scope, read, fresh, out, doubt>>
  BY DEF StartRender, runVars, toolVars
<1>3. step["tool"] >= 2 /\ step["tool"] >= 3 /\ step["tool"] >= 4
  BY <1>1, <1>2, Names DEF Reading
<1>4. /\ pc'["tool"] = "render" /\ step'["tool"] = 1
      /\ pc'["run"] = pc["run"] /\ step'["run"] = step["run"]
  BY <1>1, <1>2, GoFacts, Names
<1>5. TypeOK'
  <2>1. /\ pc' \in [Process -> RunState \cup ToolState] /\ step' \in [Process -> 1..8]
        /\ pc'["run"] \in RunState /\ pc'["tool"] \in ToolState
    BY <1>1, <1>2, GoTypes, Names DEF ToolState
  <2>2. QED
    BY <1>1, <1>2, <2>1, ReadType DEF TypeOK
<1>6. /\ Stages' /\ Ending' /\ ReportIsBacked' /\ Sealing' /\ Bundling'
      /\ \A f \in Page : disk[f] # Absent => disk["health"] # Absent
  BY <1>2, <1>4, ToolMoves
<1>7. Reading'
  BY <1>1, <1>2, <1>3, <1>4 DEF Reading
<1>8. Rendering'
  BY <1>2, <1>4, <1>6 DEF Rendering
<1>9. QED
  BY <1>5, <1>6, <1>7, <1>8 DEF Inv

LEMMA WriteToolFacts ==
    ASSUME Inv, Write("tool")
    PROVE  /\ pc["tool"] = "render" /\ step["tool"] \in 1..4
           /\ pc' = pc /\ step'["tool"] = step["tool"] + 1 /\ step'["run"] = step["run"]
           /\ step' \in [Process -> 1..8]
           /\ UNCHANGED <<manifest, written, sums, commands, scope, read, fresh, out>>
           /\ doubt' = (doubt \/ Live)
           /\ disk' = Put(disk, RenderFiles[step["tool"]], Content(RenderFiles[step["tool"]]))
<1>1. TypeOK
  BY DEF Inv
<1>2. pc["tool"] \in {"render", "attach"} /\ step["tool"] \in 1..8
      /\ step["tool"] <= Len(Order[pc["tool"]])
  BY <1>1, Names DEF Write, Writing, Order, TypeOK, ToolState
<1>3. pc["tool"] # "attach"
  <2>1. pc["tool"] = "attach" => Len(Order[pc["tool"]]) = 0
    BY DEF Order
  <2>2. QED
    BY <1>2, <2>1
<1>4. pc["tool"] = "render" /\ Order[pc["tool"]] = RenderFiles
  BY <1>2, <1>3 DEF Order
<1>5. Len(Order[pc["tool"]]) = 4
  BY <1>4, Names
<1>6. step["tool"] \in 1..4
  BY <1>2, <1>5
<1>7. /\ UNCHANGED <<manifest, written, sums, commands, scope, read, fresh, out>>
      /\ NextStep("tool") /\ doubt' = (doubt \/ Live)
      /\ disk' = Put(disk, Order[pc["tool"]][step["tool"]], Content(Order[pc["tool"]][step["tool"]]))
  BY DEF Write, runVars, toolVars
<1>8. /\ pc' = pc /\ step'["tool"] = step["tool"] + 1 /\ step'["run"] = step["run"]
      /\ step' \in [Process -> 1..8]
  BY <1>1, <1>6, <1>7, Names, NextStepFacts
<1>9. QED
  BY <1>4, <1>6, <1>7, <1>8

\* A page that is rendered now is backed.
LEMMA PageFacts ==
    ASSUME Inv, pc["tool"] = "render", NEW f \in Page
    PROVE  /\ Content(f) \in Rendered
           /\ disk["manifest"].status # "created"
           /\ Content(f).of.status # "created" =>
                /\ Content(f).of = disk["manifest"]
                /\ Content(f).events = disk["manifest"].matched
           /\ Content(f).scope = "operator" =>
                Content(f).of.status = "completed" /\ Content(f).events >= PublishMin
<1>1. TypeOK /\ Ending /\ Reading
  BY DEF Inv
<1>2. Content(f) = [scope |-> scope, of |-> read["manifest"], events |-> read["matched"].rows]
  BY Names DEF Content, Page, Temp
<1>3. /\ Content(f).scope = scope /\ Content(f).of = read["manifest"]
      /\ Content(f).events = read["matched"].rows
  BY <1>2
<1>4. read["manifest"] \in Recorded /\ read["matched"] \in Row
  BY <1>1 DEF Reading, TypeOK
<1>5. Content(f) \in Rendered
  BY <1>1, <1>2, <1>4 DEF Rendered, Row, TypeOK
<1>6. Final /\ disk["manifest"].status # "created"
  BY <1>1 DEF Reading, Ending, Final, Outcome
<1>7. read["manifest"].status # "created" =>
        /\ read["manifest"] = disk["manifest"]
        /\ read["matched"].rows = disk["manifest"].matched
  <2>1. read["manifest"].status # "created" =>
          read["manifest"] = disk["manifest"] /\ read["matched"] = disk["matched"]
    BY <1>1, <1>4, Present DEF Reading
  <2>2. disk["matched"].rows = disk["manifest"].matched
    BY <1>6 DEF Final, Outcome, Rows
  <2>3. QED
    BY <2>1, <2>2
<1>8. scope = "operator" => /\ read["manifest"].status = "completed"
                            /\ read["manifest"].matched >= PublishMin
  BY <1>1 DEF Reading, Publishable
<1>9. QED
  BY <1>3, <1>5, <1>6, <1>7, <1>8

LEMMA WriteToolInv ==
    ASSUME Inv, Write("tool")
    PROVE  Inv'
<1>1. TypeOK /\ Reading /\ Rendering /\ ReportIsBacked
  BY DEF Inv
<1> DEFINE k == step["tool"]
           f == RenderFiles[k]
<1>2. /\ pc["tool"] = "render" /\ k \in 1..4
      /\ pc' = pc /\ step'["tool"] = k + 1 /\ step'["run"] = step["run"]
      /\ step' \in [Process -> 1..8]
      /\ UNCHANGED <<manifest, written, sums, commands, scope, read, fresh, out>>
      /\ doubt' = (doubt \/ Live)
      /\ disk' = Put(disk, f, Content(f))
  BY WriteToolFacts
<1>3. /\ f \in Page \cup Temp /\ f \in File /\ f \notin Evidence
      /\ (k = 1 => f = "summary.tmp") /\ (k = 2 => f = "summary")
      /\ (k = 3 => f = "report.tmp") /\ (k = 4 => f = "report")
  BY <1>2, Names DEF RenderFiles, Page, Temp, Evidence
<1>4. /\ disk'[f] = Content(f) /\ \A g \in Evidence : disk'[g] = disk[g]
      /\ \A g \in Page : g # f => disk'[g] = disk[g]
  <2>1. disk' = Put(disk, f, Content(f)) /\ f \in File /\ f \notin Evidence
    BY <1>2, <1>3
  <2>2. \A g \in Evidence \cup Page : g \in File /\ g \notin Temp
    BY Names
  <2> HIDE DEF f
  <2>3. \A x : disk' = Put(disk, f, x) =>
          /\ disk'[f] = x
          /\ \A g \in File : g # f /\ g \notin Temp => disk'[g] = disk[g]
    BY <2>1, PutFacts
  <2>4. QED
    BY <2>1, <2>2, <2>3
<1>5. f \in Page => Content(f) \in Rendered /\ Content(f) # Absent
  BY <1>2, PageFacts, Present
<1>6. TypeOK'
  <2>1. Fits(f, Content(f))
    BY <1>3, <1>5, ContentFacts DEF Fits, Evidence, Page, Temp
  <2>2. OtherTypes
    BY <1>1, <1>2 DEF TypeOK, OtherTypes, Live
  <2>3. disk' = Put(disk, f, Content(f)) /\ f \in File
    BY <1>2, <1>3
  <2>4. QED
    BY <1>1, <2>1, <2>2, <2>3, PutType
<1>7. Stages' /\ Ending' /\ Kept /\ (Live <=> Live')
  BY <1>2, <1>4, ToolStep
<1>8. Reading'
  <2>1. disk'["manifest"] = disk["manifest"] /\ disk'["matched"] = disk["matched"]
        /\ disk'["health"] = disk["health"]
    BY <1>4 DEF Evidence
  <2>2. QED
    BY <1>1, <1>2, <2>1 DEF Reading
<1>9. Rendering'
  <2>1. disk'["health"] # Absent
    BY <1>1, <1>2, <1>4 DEF Reading, Evidence
  <2>2. k + 1 \in 1..5
    BY <1>2
  <2>3. k + 1 >= 3 => disk'["summary"] # Absent
    <3>1. k + 1 >= 3 => k = 2 \/ k >= 3
      BY <1>2
    <3>2. k >= 3 => f # "summary"
      BY <1>2, <1>3
    <3>3. k = 2 => disk'["summary"] # Absent
      BY <1>3, <1>4, <1>5 DEF Page
    <3>4. QED
      BY <1>1, <1>2, <1>4, <3>1, <3>2, <3>3 DEF Rendering, Page
  <2>4. k + 1 >= 5 => disk'["report"] # Absent
    <3>1. k + 1 >= 5 => k = 4
      BY <1>2
    <3>2. QED
      BY <1>3, <1>4, <1>5, <3>1 DEF Page
  <2>5. QED
    BY <1>2, <2>1, <2>2, <2>3, <2>4 DEF Rendering
<1>10. ReportIsBacked'
  <2>1. disk'["manifest"] = disk["manifest"]
    BY <1>4 DEF Evidence
  <2>2. SUFFICES ASSUME NEW g \in Page, disk'[g] # Absent
                 PROVE  /\ disk["manifest"].status # "created"
                        /\ disk'[g].of.status # "created" =>
                             /\ disk'[g].of = disk["manifest"]
                             /\ disk'[g].events = disk["manifest"].matched
                        /\ disk'[g].scope = "operator" =>
                             disk'[g].of.status = "completed" /\ disk'[g].events >= PublishMin
    BY <2>1 DEF ReportIsBacked
  <2>3. CASE g = f
    <3>1. disk'[g] = Content(g)
      BY <1>4, <2>3
    <3>2. QED
      BY <1>2, <3>1, PageFacts
  <2>4. CASE g # f
    BY <1>1, <1>4, <2>2, <2>4 DEF ReportIsBacked
  <2>5. QED
    BY <2>3, <2>4
<1>11. Sealing'
  <2>1. pc'["run"] = "seal" => Live
    BY <1>2 DEF Live
  <2>2. Live => doubt'
    BY <1>2
  <2>3. QED
    BY <1>2, <1>7, <2>1, <2>2 DEF Sealing
<1>12. Bundling'
  BY <1>2, <1>7, BundleKept
<1>13. QED
  BY <1>6, <1>7, <1>8, <1>9, <1>10, <1>11, <1>12 DEF Inv

-------------------------------------------------------------------------------
(* The public bundle.                                                        *)

LEMMA BundleFacts ==
    ASSUME TypeOK, Bundle
    PROVE  /\ UNCHANGED <<manifest, written, disk, sums, commands, scope, read, fresh, doubt>>
           /\ pc["tool"] = "bundle" /\ step["tool"] \in 1..8
           /\ step["tool"] = 1 => out = NoFiles
           /\ step["tool"] < 8 => step'["tool"] = step["tool"] + 1 /\ pc'["tool"] = "bundle"
           /\ step["tool"] = 8 => pc'["tool"] = "idle"
           /\ pc'["run"] = pc["run"] /\ step'["run"] = step["run"]
           /\ pc' \in [Process -> RunState \cup ToolState] /\ step' \in [Process -> 1..8]
           /\ pc'["run"] \in RunState /\ pc'["tool"] \in {"bundle", "idle"}
<1>1. /\ UNCHANGED <<manifest, written, disk, sums, commands, scope, read, fresh, doubt>>
      /\ pc["tool"] = "bundle" /\ (step["tool"] = 1 => out = NoFiles)
  BY DEF Bundle, runVars
<1>2. step["tool"] \in 1..8 /\ Len(BundleFiles) = 8
  BY Names DEF TypeOK
<1>3. /\ step["tool"] < 8 => NextStep("tool")
      /\ ~(step["tool"] < 8) => Go("tool", "idle")
  BY <1>2 DEF Bundle
<1>4. CASE step["tool"] < 8
  <2>1. /\ pc' = pc /\ step'["tool"] = step["tool"] + 1 /\ step'["run"] = step["run"]
        /\ step' \in [Process -> 1..8]
    BY <1>3, <1>4, NextStepFacts, Names
  <2>2. ~(step["tool"] = 8)
    BY <1>2, <1>4
  <2>3. QED
    BY <1>1, <1>2, <2>1, <2>2 DEF TypeOK
<1>5. CASE ~(step["tool"] < 8)
  <2>1. Go("tool", "idle")
    BY <1>3, <1>5
  <2>2. pc'["tool"] = "idle" /\ pc'["run"] = pc["run"] /\ step'["run"] = step["run"]
    BY <2>1, GoFacts, Names
  <2>3. /\ pc' \in [Process -> RunState \cup ToolState] /\ step' \in [Process -> 1..8]
        /\ pc'["run"] \in RunState
    BY <2>1, GoTypes, Names DEF ToolState
  <2>4. QED
    BY <1>1, <1>2, <1>5, <2>2, <2>3
<1>6. QED
  BY <1>4, <1>5

\* What is copied, in which step, and under which name.
LEMMA Copied ==
    ASSUME NEW k \in 1..5
    PROVE  /\ BundleFiles[k] \in {"manifest", "config", "health"} \cup Page
           /\ k # 1 => BundleFiles[k] # "manifest"
BY DEF BundleFiles, Page

LEMMA CopiedAll ==
    ASSUME \A k \in 1..5 : out[BundleFiles[k]] # Absent
    PROVE  \A f \in {"manifest", "config", "health"} \cup Page : out[f] # Absent
<1>1. /\ BundleFiles[1] = "manifest" /\ BundleFiles[2] = "config" /\ BundleFiles[3] = "health"
      /\ BundleFiles[4] = "summary" /\ BundleFiles[5] = "report"
  BY DEF BundleFiles
<1>2. /\ out[BundleFiles[1]] # Absent /\ out[BundleFiles[2]] # Absent
      /\ out[BundleFiles[3]] # Absent /\ out[BundleFiles[4]] # Absent
      /\ out[BundleFiles[5]] # Absent
  OBVIOUS
<1>3. QED
  BY <1>1, <1>2 DEF Page

LEMMA BundleInv ==
    ASSUME Inv, Bundle
    PROVE  Inv'
<1>1. TypeOK /\ Ending /\ Reading /\ Rendering /\ ReportIsBacked /\ Sealing /\ Bundling
  BY DEF Inv
<1> DEFINE k == step["tool"]
<1>2. /\ UNCHANGED <<manifest, written, disk, sums, commands, scope, read, fresh, doubt>>
      /\ pc["tool"] = "bundle" /\ k \in 1..8 /\ (k = 1 => out = NoFiles)
      /\ (k < 8 => step'["tool"] = k + 1 /\ pc'["tool"] = "bundle")
      /\ (k = 8 => pc'["tool"] = "idle")
      /\ pc'["run"] = pc["run"] /\ step'["run"] = step["run"]
      /\ pc' \in [Process -> RunState \cup ToolState] /\ step' \in [Process -> 1..8]
      /\ pc'["run"] \in RunState /\ pc'["tool"] \in {"bundle", "idle"}
  BY <1>1, BundleFacts
<1>3. Stages' /\ Ending' /\ (Live <=> Live')
  BY <1>2, ToolStep
<1>4. DOMAIN out' = File
  BY <1>1 DEF Bundle, TypeOK
<1>5. TypeOK'
  BY <1>1, <1>2, <1>4 DEF TypeOK, ToolState
<1>6. Reading' /\ Rendering' /\ ReportIsBacked'
  BY <1>1, <1>2 DEF Reading, Rendering, ReportIsBacked
<1>7. Sealing'
  BY <1>1, <1>2, <1>3 DEF Sealing, ChecksumsMatch
<1>8. Reading' /\ Rendering' /\ ReportIsBacked' /\ Sealing' /\ TypeOK' /\ Stages' /\ Ending'
  BY <1>3, <1>5, <1>6, <1>7
<1>9. /\ \A f \in {"manifest", "config", "health"} \cup Page : disk[f] # Absent
      /\ Publishable(disk["manifest"])
  BY <1>1, <1>2 DEF Rendering, Ending, Evidence
<1>10. CASE k \in 1..5
  <2>1. step'["tool"] = k + 1 /\ pc'["tool"] = "bundle"
    BY <1>2, <1>10
  <2>2. PICK f \in {"manifest", "config", "health"} \cup Page :
          f = BundleFiles[k] /\ (k # 1 => f # "manifest")
    BY <1>10, Copied
  <2>3. f \in File /\ f # "checksums" /\ f # "matched" /\ "matched" \in File
    BY DEF File, Covered, Evidence, Page
  <2>4. out' = [out EXCEPT ![f] = disk[f]]
    BY <2>2, <2>3 DEF Bundle
  <2>5. out'[f] = disk[f] /\ \A g \in File : g # f => out'[g] = out[g]
    BY <1>1, <2>3, <2>4 DEF TypeOK
  <2>6. \A g \in File : out[g] # Absent => out'[g] # Absent
    BY <1>9, <2>5
  <2>7. out'["matched"] = out["matched"]
    BY <2>3, <2>5
  <2>8. \A j \in 1..5 : k + 1 > j => out'[BundleFiles[j]] # Absent
    <3>1. SUFFICES ASSUME NEW j \in 1..5, k + 1 > j
                   PROVE  out'[BundleFiles[j]] # Absent
      OBVIOUS
    <3>2. k > j \/ k = j
      BY <1>10, <3>1
    <3>3. BundleFiles[j] \in File
      BY Copied, Names DEF Evidence
    <3>4. CASE k > j
      BY <1>1, <1>2, <2>6, <3>3, <3>4 DEF Bundling
    <3>5. CASE k = j
      BY <1>9, <2>2, <2>5, <3>5
    <3>6. QED
      BY <3>2, <3>4, <3>5
  <2>9. out'["matched"] = Absent
    <3>1. CASE k = 1
      BY <1>2, <2>3, <2>7, <3>1 DEF NoFiles
    <3>2. CASE k # 1
      <4>1. k \in 2..6
        BY <1>10, <3>2
      <4>2. QED
        BY <1>1, <1>2, <2>7, <4>1 DEF Bundling
    <3>3. QED
      BY <3>1, <3>2
  <2>10. out'["manifest"] # Absent =>
           /\ out'["manifest"] = disk["manifest"] /\ disk["health"] # Absent
           /\ Publishable(disk["manifest"])
    <3>1. CASE f = "manifest"
      BY <1>9, <2>5, <3>1
    <3>2. CASE f # "manifest"
      <4>1. out'["manifest"] = out["manifest"]
        BY <2>5, <3>2, Names DEF Evidence
      <4>2. QED
        BY <1>1, <4>1 DEF Bundling
    <3>3. QED
      BY <3>1, <3>2
  <2>11. Bundling'
    BY <1>2, <2>1, <2>8, <2>9, <2>10 DEF Bundling
  <2>12. QED
    BY <1>8, <2>11 DEF Inv
<1>11. CASE k \in {6, 7}
  <2>1. step'["tool"] = k + 1 /\ pc'["tool"] = "bundle" /\ k + 1 \in {7, 8}
    BY <1>2, <1>11
  <2>2. BundleFiles[k] = "matched"
    BY <1>11 DEF BundleFiles
  <2>3. PICK x \in {Broken, disk["matched"]} : out' = [out EXCEPT !["matched"] = x]
    BY <2>2 DEF Bundle
  <2>4. out'["matched"] = x /\ \A g \in File : g # "matched" => out'[g] = out[g]
    BY <1>1, <2>3, Names DEF TypeOK, Evidence
  <2>5. \A j \in 1..5 : k > j
    BY <1>11
  <2>6. \A j \in 1..5 : out[BundleFiles[j]] # Absent
    BY <1>1, <1>2, <2>5 DEF Bundling
  <2>7. \A f \in {"manifest", "config", "health"} \cup Page : out[f] # Absent
    BY <2>6, CopiedAll
  <2>8. \A f \in {"manifest", "config", "health"} \cup Page : out'[f] = out[f]
    BY <2>4, Names DEF Page, Evidence
  <2>9. \A j \in 1..5 : out'[BundleFiles[j]] # Absent
    BY <2>7, <2>8, Copied
  <2>10. ~(step'["tool"] \in 2..6)
    BY <2>1
  <2>11. out'["manifest"] # Absent =>
           /\ out'["manifest"] = disk["manifest"] /\ disk["health"] # Absent
           /\ Publishable(disk["manifest"])
    BY <1>1, <2>8 DEF Bundling
  <2>12. Bundling'
    BY <1>2, <2>4, <2>7, <2>8, <2>9, <2>10, <2>11 DEF Bundling
  <2>13. QED
    BY <1>8, <2>12 DEF Inv
<1>12. CASE k = 8
  <2>1. pc'["tool"] = "idle"
    BY <1>2, <1>12
  <2>2. BundleFiles[k] = "checksums"
    BY <1>12 DEF BundleFiles
  <2>3. out' = [out EXCEPT !["checksums"] = Contents(out)]
    BY <2>2 DEF Bundle
  <2>4. \A f \in Covered : out'[f] = out[f]
    BY <1>1, <2>3, Names DEF TypeOK
  <2>5. \A f \in {"matched", "manifest", "config", "health"} \cup Page : out'[f] = out[f]
    BY <2>4, Names DEF Evidence
  <2>6. Bundling'
    BY <1>1, <1>2, <2>1, <2>5 DEF Bundling
  <2>7. QED
    BY <1>8, <2>6 DEF Inv
<1>13. QED
  BY <1>2, <1>10, <1>11, <1>12

-------------------------------------------------------------------------------
\* Every step keeps the invariant.
LEMMA NextInv == Inv /\ [Next]_vars => Inv'
<1> SUFFICES ASSUME Inv, [Next]_vars PROVE Inv'
  OBVIOUS
<1>1. CASE Run
  BY <1>1, RunOnlyInv, SpillInv DEF Run
<1>2. CASE Tool
  <2>1. ASSUME NEW sc \in Scopes, StartReport(sc) PROVE Inv'
    <3>1. /\ Give("read") /\ scope' = sc
          /\ UNCHANGED <<disk, manifest, written, sums, read, fresh, out, doubt>>
      BY <2>1 DEF StartReport, runVars
    <3>2. QED
      BY <3>1, StartInv
  <2>2. CASE StartAttach
    <3>1. /\ Give("attach") /\ scope' = "private"
          /\ UNCHANGED <<disk, manifest, written, sums, read, fresh, out, doubt>>
      BY <2>2 DEF StartAttach, runVars
    <3>2. QED
      BY <3>1, StartInv DEF Scopes
  <2>3. QED
    BY <1>2, <2>1, <2>2, ReadInv, StartRenderInv, BundleInv DEF Tool
<1>3. ASSUME NEW p \in Process, Common(p) PROVE Inv'
  <2>1. CASE p = "run"
    <3>1. CASE Write(p)
      <4>1. pc["run"] \in {"create", "finish"}
        BY <2>1, <3>1, WriteRunFacts
      <4>2. QED
        BY <2>1, <3>1, <4>1, WriteCreateInv, WriteFinishInv
    <3>2. QED
      BY <1>3, <2>1, <3>1, ListRunInv, SealRunInv, StopRunInv, HashInv DEF Common
  <2>2. CASE p = "tool"
    BY <1>3, <2>2, WriteToolInv, ListToolInv, SealToolInv, StopToolInv, HashInv DEF Common
  <2>3. QED
    BY <2>1, <2>2, Names
<1>4. CASE UNCHANGED vars
  <2>1. UNCHANGED <<pc, step, manifest, written, disk, sums, commands, scope, read, fresh,
                    doubt, out>>
    BY <1>4 DEF vars, runVars, toolVars
  <2>2. TypeOK'
    BY <2>1 DEF Inv, TypeOK
  <2>3. Stages' /\ Ending'
    BY <2>1, RunKept DEF Inv
  <2>4. Reading' /\ Rendering' /\ ReportIsBacked' /\ Bundling'
    BY <2>1 DEF Inv, Reading, Rendering, ReportIsBacked, Bundling
  <2>5. Sealing'
    BY <2>1 DEF Inv, Sealing, Live, ChecksumsMatch
  <2>6. QED
    BY <2>2, <2>3, <2>4, <2>5 DEF Inv
<1>5. QED
  BY <1>1, <1>2, <1>3, <1>4 DEF Next, AtRest

LEMMA Backed == Inv => CompletedIsBacked
BY DEF Inv, Ending, Final, Outcome, CompletedIsBacked

\* The invariant, for every target, publication minimum, number of rows and of
\* commands, and order in which a directory is listed.
THEOREM StoreInv == Spec => []Inv
<1>1. QED
  BY InitInv, NextInv, PTL DEF Spec

\* Types of the two directories and of what works on them.
THEOREM StoreTypeOK == Spec => []TypeOK
<1>1. Inv => TypeOK
  BY DEF Inv
<1>2. QED
  BY <1>1, StoreInv, PTL

\* Wherever the run is stopped, and whatever commands are given meanwhile, a manifest
\* that says "completed" stands beside all of its rows (ArtifactWriter::finish).
THEOREM StoreCompletedIsBacked == Spec => []CompletedIsBacked
<1>1. QED
  BY Backed, StoreInv, PTL

\* A page shows the manifest that is there and all of its events, if the manifest was
\* final when render() read it, and a page for publication is always of such a one
\* (report.rs, render), file by file against finish().
THEOREM StoreReportIsBacked == Spec => []ReportIsBacked
<1>1. Inv => ReportIsBacked
  BY DEF Inv
<1>2. QED
  BY <1>1, StoreInv, PTL

\* A finished attempt has the checksums of its files, and a completed one verifies,
\* unless a command wrote during the run, or was cut off as it wrote, and none has
\* sealed the directory afresh (artifacts.rs, write_checksums, file by file; verify.rs).
THEOREM StoreFinishedVerifies == Spec => []FinishedVerifies
<1>1. Inv => FinishedVerifies
  <2>1. SUFFICES ASSUME Inv, ~Live, pc["tool"] \notin {"render", "seal"}, ~doubt
                 PROVE  /\ ChecksumsMatch(disk)
                        /\ pc["run"] = "done" /\ disk["manifest"].status = "completed" =>
                             Verifies(disk)
    BY DEF FinishedVerifies
  <2>2. ChecksumsMatch(disk)
    BY <2>1 DEF Inv, Sealing
  <2>3. SUFFICES ASSUME pc["run"] = "done", disk["manifest"].status = "completed"
                 PROVE  Verifies(disk)
    BY <2>2
  <2>4. Final /\ manifest \in Recorded
    BY <2>1, <2>3 DEF Inv, Stages, TypeOK
  <2>5. /\ disk["manifest"] # Absent /\ disk["manifest"] \in Recorded
        /\ disk["manifest"].matched >= disk["manifest"].target
    BY <2>3, <2>4, Present DEF Final, Outcome
  <2>6. disk["manifest"].matched \in 0..MaxRows
    BY <2>5 DEF Recorded
  <2>7. disk["matched"] = Rows(disk["manifest"].matched, FALSE)
    BY <2>4 DEF Final, Outcome
  <2>8. disk["matched"] \notin {Absent, Broken}
        /\ Records(disk["matched"]) = disk["manifest"].matched
    BY <2>6, <2>7, RowFacts
  <2>9. Eligible(disk)
    BY <2>3, <2>5, <2>8 DEF Eligible
  <2>10. QED
    BY <2>2, <2>5, <2>8, <2>9 DEF Verifies
<1>2. QED
  BY <1>1, StoreInv, PTL

\* A public bundle that verifies is whole and of an attempt that may be published
\* (report.rs, public_bundle and validate_operator_lifecycle).
THEOREM StoreBundleIsWhole == Spec => []BundleIsWhole
<1>1. Inv => BundleIsWhole
  <2>1. SUFFICES ASSUME Inv, Verifies(out)
                 PROVE  /\ \A f \in Evidence \cup Page : f # "observations" => out[f] # Absent
                        /\ out["manifest"] = disk["manifest"] /\ out["matched"] = disk["matched"]
                        /\ out["manifest"].status = "completed"
                        /\ Records(out["matched"]) >= PublishMin
    BY DEF BundleIsWhole
  <2>2. out["matched"] \notin {Absent, Broken} /\ out["manifest"] # Absent
    BY <2>1 DEF Verifies
  <2>3. \A f \in {"manifest", "config", "health"} \cup Page : out[f] # Absent
    BY <2>1, <2>2 DEF Inv, Bundling
  <2>4. /\ out["manifest"] = disk["manifest"] /\ out["matched"] = disk["matched"]
        /\ Publishable(disk["manifest"])
    BY <2>1, <2>2 DEF Inv, Bundling
  <2>5. /\ disk["manifest"] \in Recorded /\ disk["manifest"] # Absent
        /\ disk["manifest"].status = "completed"
        /\ disk["manifest"].matched >= PublishMin
    BY <2>1, <2>2, <2>4 DEF Inv, TypeOK, Publishable
  <2>6. disk["manifest"].matched \in 0..MaxRows
    BY <2>5 DEF Recorded
  <2>7. disk["matched"] = Rows(disk["manifest"].matched, FALSE)
    BY <2>1, <2>5, Backed DEF CompletedIsBacked
  <2>8. Records(disk["matched"]) = disk["manifest"].matched
    BY <2>6, <2>7, RowFacts
  <2>9. QED
    BY <2>2, <2>3, <2>4, <2>5, <2>8 DEF Evidence
<1>2. QED
  BY <1>1, StoreInv, PTL

================================================================================
