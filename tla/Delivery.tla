------------------------------ MODULE Delivery ------------------------------
(***************************************************************************)
(* Delivery: run_all.py runs the test gate and the experiments, and then   *)
(* build_delivery.py, which runs the tests once more, hashes every file of *)
(* the working tree into a manifest, archives the same files in a second   *)
(* pass and writes the checksum of the archive beside it.                  *)
(*                                                                         *)
(* A job is one invocation of either.  Jobs take no lock: the tree changes *)
(* while a job reads it, because another job rewrites a result file (which *)
(* empties it first) or somebody edits.  A job can be killed at any step   *)
(* and ends with a traceback when a file it has listed is gone.            *)
(*                                                                         *)
(* Packages are named by the second in which they were begun.  A hash is   *)
(* the content it was computed from.  All the code under test is one file, *)
(* all results of experiments are another.                                 *)
(***************************************************************************)
EXTENDS Naturals, FiniteSets

CONSTANTS
  Jobs,      \* invocations that run at the same time
  Seconds,   \* bound: the clock shows 1 .. Seconds
  MaxRuns,   \* bound: invocations
  MaxEdits,  \* bound: edits by hand
  None,      \* no file, no package, no result
  Blank      \* a checksum file that is opened and not yet written

Files == {"code", "results"}
Contents == {"good", "bad", "empty"}   \* good code passes the tests

Stamps == 1 .. Seconds
Statuses == {"PASS", "SKIPPED", "NOT_CLEARED"}

FileMaps == UNION {[files -> Contents] : files \in SUBSET Files}
Bundles == [manifest : FileMaps, status : Statuses \union {None}]
Archives == [bundle : Bundles, files : FileMaps, closed : BOOLEAN]

ASSUME BoundsAssumption ==
  Seconds \in Nat \ {0} /\ MaxRuns \in Nat /\ MaxEdits \in Nat
ASSUME NoneAssumption ==
  /\ None \notin Contents /\ None \notin Statuses
  /\ None \notin Stamps /\ None \notin 0 .. 2
  /\ None \notin Bundles /\ {None, Blank} \intersect Archives = {}
  /\ None # Blank

VARIABLES
  tree,      \* the working tree: content of each file
  now,       \* the clock, in seconds
  bundles,   \* delivery/out: bundle directories, by second
  archives,  \* archives, by second: the bundle, the files, whether closed
  sums,      \* .sha256 files, by second: the archive they were computed from
  pc,        \* what each job does next
  args,      \* its arguments
  gate,      \* the required tests have passed
  stamp,     \* the second its package is named by
  status,    \* "software_test_gate"
  todo,      \* files listed and not yet hashed, or not yet archived
  manifest,  \* hashes of the files
  exit,      \* exit status of its last invocation
  written,   \* history: files written since its package was begun
  disturbed, \* history: the same of the packages that were completed
  runs, edits

out == <<bundles, archives, sums, disturbed>>
job == <<args, gate, stamp, status, todo, manifest, exit>>
bounds == <<runs, edits>>
vars == <<tree, now, out, pc, job, written, bounds>>

Init ==
  /\ tree = [f \in Files |-> "good"]
  /\ now = 1
  /\ bundles = [s \in Stamps |-> None]
  /\ archives = [s \in Stamps |-> None]
  /\ sums = [s \in Stamps |-> None]
  /\ pc = [j \in Jobs |-> "idle"]
  /\ args = [j \in Jobs |-> None]
  /\ gate = [j \in Jobs |-> FALSE]
  /\ stamp = [j \in Jobs |-> None]
  /\ status = [j \in Jobs |-> None]
  /\ todo = [j \in Jobs |-> {}]
  /\ manifest = [j \in Jobs |-> <<>>]
  /\ exit = [j \in Jobs |-> None]
  /\ written = [j \in Jobs |-> {}]
  /\ disturbed = [s \in Stamps |-> {}]
  /\ runs = 0 /\ edits = 0

Goto(j, label) == pc' = [pc EXCEPT ![j] = label]

\* A file is written: whoever is packaging may or may not see it.
WriteFile(f, content) ==
  /\ tree' = [tree EXCEPT ![f] = content]
  /\ written' = [j \in Jobs |-> written[j] \union {f}]

TestsPass == tree["code"] = "good"

\* The invocation is over; what the process knew goes with it.
Return(j, code) ==
  /\ Goto(j, "idle")
  /\ exit' = [exit EXCEPT ![j] = code]
  /\ todo' = [todo EXCEPT ![j] = {}]
  /\ manifest' = [manifest EXCEPT ![j] = <<>>]

-----------------------------------------------------------------------------
(* run_all.py                                                              *)

\* "run_all.py [--handset] [--package]", or build_delivery.py by itself,
\* which may be told to skip the tests.
Invoke(j) ==
  /\ pc[j] = "idle"
  /\ runs < MaxRuns
  /\ runs' = runs + 1
  /\ \/ /\ \E handset, package \in BOOLEAN :
             args' = [args EXCEPT ![j] = [suite |-> TRUE, handset |-> handset,
                                          package |-> package, skip |-> FALSE]]
        /\ Goto(j, "gate")
     \/ /\ \E skip \in BOOLEAN :
             args' = [args EXCEPT ![j] = [suite |-> FALSE, handset |-> FALSE,
                                          package |-> TRUE, skip |-> skip]]
        /\ Goto(j, "bundle")
  /\ gate' = [gate EXCEPT ![j] = FALSE]
  /\ stamp' = [stamp EXCEPT ![j] = None]
  /\ status' = [status EXCEPT ![j] = None]
  /\ exit' = [exit EXCEPT ![j] = None]
  /\ UNCHANGED <<tree, now, out, todo, manifest, written, edits>>

\* The one required record.
RunGate(j) ==
  /\ pc[j] = "gate"
  /\ gate' = [gate EXCEPT ![j] = TestsPass]
  /\ Goto(j, "truncate")
  /\ UNCHANGED <<tree, now, out, args, stamp, status, todo, manifest, exit,
                 written, bounds>>

\* An experiment writes its results over those of an earlier run.
Truncate(j) ==
  /\ pc[j] = "truncate"
  /\ WriteFile("results", "empty")
  /\ Goto(j, "write")
  /\ UNCHANGED <<now, out, job, bounds>>

AfterExperiment(j) == IF args[j].handset THEN "handset" ELSE "report"

Write(j) ==
  /\ pc[j] = "write"
  /\ \E content \in {"good", "bad"} : WriteFile("results", content)
  /\ Goto(j, AfterExperiment(j))
  /\ UNCHANGED <<now, out, job, bounds>>

\* The simulation, a child process, fails before or while it writes; its
\* record is optional.
ExperimentFails(j) ==
  /\ pc[j] \in {"truncate", "write"}
  /\ Goto(j, AfterExperiment(j))
  /\ UNCHANGED <<tree, now, out, job, written, bounds>>

\* On a handset that is discharging and whose Core restarts, two experiments
\* write results; in all other cases a record says why they did not run.
Handset(j) ==
  /\ pc[j] = "handset"
  /\ \/ \E content \in {"good", "bad"} : WriteFile("results", content)
     \/ UNCHANGED <<tree, written>>
  /\ Goto(j, "report")
  /\ UNCHANGED <<now, out, job, bounds>>

\* The records are written to a report, and the package is built if wanted.
Report(j) ==
  /\ pc[j] = "report"
  /\ IF args[j].package
       THEN Goto(j, "bundle") /\ UNCHANGED <<exit, todo, manifest>>
       ELSE Return(j, IF gate[j] THEN 0 ELSE 2)
  /\ UNCHANGED <<tree, now, out, args, gate, stamp, status, written, bounds>>

-----------------------------------------------------------------------------
(* build_delivery.py                                                       *)

\* A bundle directory with nothing in it.
Begun == [manifest |-> <<>>, status |-> None]

\* Mutation: a directory of that name is reused.
MakeBundleAnyway(j) ==
  /\ pc[j] = "bundle"
  /\ bundles' = [bundles EXCEPT ![now] = Begun]
  /\ stamp' = [stamp EXCEPT ![j] = now]
  /\ written' = [written EXCEPT ![j] = {}]
  /\ Goto(j, "tests")
  /\ UNCHANGED <<tree, now, archives, sums, disturbed, args, gate, status, todo,
                 manifest, exit, bounds>>

\* mkdir raises if another job has begun a package in this second.
MakeBundle(j) ==
  /\ pc[j] = "bundle"
  /\ IF bundles[now] # None
       THEN Return(j, 1) /\ UNCHANGED <<bundles, stamp, written>>
       ELSE /\ bundles' = [bundles EXCEPT ![now] = Begun]
            /\ stamp' = [stamp EXCEPT ![j] = now]
            /\ written' = [written EXCEPT ![j] = {}]
            /\ Goto(j, "tests")
            /\ UNCHANGED <<exit, todo, manifest>>
  /\ UNCHANGED <<tree, now, archives, sums, disturbed, args, gate, status,
                 bounds>>

\* Mutation: what did not fail has passed.
TestGateNotFailed(j) ==
  IF args[j].skip \/ TestsPass THEN "PASS" ELSE "NOT_CLEARED"

TestGate(j) ==
  IF args[j].skip THEN "SKIPPED" ELSE IF TestsPass THEN "PASS" ELSE "NOT_CLEARED"

RunTests(j) ==
  /\ pc[j] = "tests"
  /\ status' = [status EXCEPT ![j] = TestGate(j)]
  /\ Goto(j, "list")
  /\ UNCHANGED <<tree, now, out, args, gate, stamp, todo, manifest, exit, written,
                 bounds>>

CollectFiles(j) ==
  /\ pc[j] = "list"
  /\ todo' = [todo EXCEPT ![j] = {f \in Files : tree[f] # None}]
  /\ Goto(j, "hash")
  /\ UNCHANGED <<tree, now, out, args, gate, stamp, status, manifest, exit,
                 written, bounds>>

\* The files with one more.
Plus(files, f) ==
  [g \in DOMAIN files \union {f} |-> IF g = f THEN tree[f] ELSE files[g]]

HashFile(j) ==
  /\ pc[j] = "hash"
  /\ \E f \in todo[j] :
       /\ tree[f] # None
       /\ manifest' = [manifest EXCEPT ![j] = Plus(manifest[j], f)]
       /\ todo' = [todo EXCEPT ![j] = todo[j] \ {f}]
  /\ UNCHANGED <<tree, now, out, pc, args, gate, stamp, status, exit, written,
                 bounds>>

\* A file that was listed is gone, or git, which is asked for the commit after
\* the last hash, does not answer: a traceback, and what there is stays.
Raise(j) ==
  /\ \/ pc[j] \in {"hash", "archive"} /\ \E f \in todo[j] : tree[f] = None
     \/ pc[j] = "hash" /\ todo[j] = {}
  /\ Return(j, 1)
  /\ UNCHANGED <<tree, now, out, args, gate, stamp, status, written, bounds>>

\* MANIFEST.json, SHA256SUMS, DELIVERY_STATUS.json and the HMAC: nobody else
\* touches the directory, and none of them is read before the archive is made.
WriteBundle(j) ==
  /\ pc[j] = "hash" /\ todo[j] = {}
  /\ bundles' = [bundles EXCEPT ![stamp[j]] =
                   [manifest |-> manifest[j], status |-> status[j]]]
  /\ Goto(j, "open")
  /\ UNCHANGED <<tree, now, archives, sums, disturbed, job, written, bounds>>

OpenArchive(j) ==
  /\ pc[j] = "open"
  /\ archives' = [archives EXCEPT ![stamp[j]] =
                    [bundle |-> bundles[stamp[j]], files |-> <<>>,
                     closed |-> FALSE]]
  /\ todo' = [todo EXCEPT ![j] = DOMAIN manifest[j]]
  /\ Goto(j, "archive")
  /\ UNCHANGED <<tree, now, bundles, sums, disturbed, args, gate, stamp, status,
                 manifest, exit, written, bounds>>

\* Each file is read again.
ArchiveFile(j) ==
  /\ pc[j] = "archive"
  /\ \E f \in todo[j] :
       /\ tree[f] # None
       /\ archives' = [archives EXCEPT ![stamp[j]].files = Plus(@, f)]
       /\ todo' = [todo EXCEPT ![j] = todo[j] \ {f}]
  /\ UNCHANGED <<tree, now, bundles, sums, disturbed, pc, args, gate, stamp,
                 status, manifest, exit, written, bounds>>

CloseArchive(j) ==
  /\ pc[j] = "archive" /\ todo[j] = {}
  /\ archives' = [archives EXCEPT ![stamp[j]].closed = TRUE]
  /\ Goto(j, "seal")
  /\ UNCHANGED <<tree, now, bundles, sums, disturbed, job, written, bounds>>

\* The archive is read back and its checksum written beside it: write_text
\* makes the file first.
OpenChecksum(j) ==
  /\ pc[j] = "seal"
  /\ sums' = [sums EXCEPT ![stamp[j]] = Blank]
  /\ Goto(j, "checksum")
  /\ UNCHANGED <<tree, now, bundles, archives, disturbed, job, written, bounds>>

WriteChecksum(j) ==
  /\ pc[j] = "checksum"
  /\ sums' = [sums EXCEPT ![stamp[j]] = archives[stamp[j]]]
  /\ disturbed' = [disturbed EXCEPT ![stamp[j]] = written[j]]
  /\ Goto(j, "sealed")
  /\ UNCHANGED <<tree, now, bundles, archives, job, written, bounds>>

\* Mutation: the suite does not look at the status of the package.
OutcomeOfGate(j) ==
  IF args[j].suite THEN (IF gate[j] THEN 0 ELSE 2)
  ELSE IF status[j] \in {"PASS", "SKIPPED"} THEN 0 ELSE 2

\* The status of the package, then that of the suite that built it.
Outcome(j) ==
  IF status[j] \in {"PASS", "SKIPPED"} /\ (args[j].suite => gate[j]) THEN 0 ELSE 2

Finish(j) ==
  /\ pc[j] = "sealed"
  /\ Return(j, Outcome(j))
  /\ UNCHANGED <<tree, now, out, args, gate, stamp, status, written, bounds>>

-----------------------------------------------------------------------------
(* Everybody else                                                          *)

Kill(j) ==
  /\ pc[j] # "idle"
  /\ Return(j, None)
  /\ UNCHANGED <<tree, now, out, args, gate, stamp, status, written, bounds>>

\* Somebody edits, replaces or removes a file.
Edit ==
  /\ edits < MaxEdits
  /\ edits' = edits + 1
  /\ \E f \in Files, content \in {"good", "bad", None} :
       tree[f] # content /\ WriteFile(f, content)
  /\ UNCHANGED <<now, out, pc, job, runs>>

Tick ==
  /\ now < Seconds
  /\ now' = now + 1
  /\ UNCHANGED <<tree, out, pc, job, written, bounds>>

-----------------------------------------------------------------------------

SuiteStep(j) ==
  RunGate(j) \/ Truncate(j) \/ Write(j) \/ ExperimentFails(j) \/ Handset(j)
  \/ Report(j)

BuildStep(j) ==
  MakeBundle(j) \/ RunTests(j) \/ CollectFiles(j) \/ HashFile(j) \/ Raise(j)
  \/ WriteBundle(j) \/ OpenArchive(j) \/ ArchiveFile(j) \/ CloseArchive(j)
  \/ OpenChecksum(j) \/ WriteChecksum(j) \/ Finish(j)

Next ==
  \/ \E j \in Jobs : Invoke(j) \/ SuiteStep(j) \/ BuildStep(j) \/ Kill(j)
  \/ Edit \/ Tick

Spec == Init /\ [][Next]_vars

-----------------------------------------------------------------------------
(* Safety                                                                  *)

\* The checksum of the archive is there, and not just its file.
Sealed(s) == sums[s] \notin {None, Blank}

\* An archive with a checksum file beside it is closed and holds every file of
\* its manifest, though the file may be empty; one with a checksum is the one
\* it was computed from, whoever was killed, died or packaged at the same time.
\* A package is never written over.
SealedIsWhole ==
  \A s \in Stamps : sums[s] # None =>
    /\ archives[s].closed
    /\ DOMAIN archives[s].files = DOMAIN archives[s].bundle.manifest
    /\ Sealed(s) => archives[s] = sums[s]

\* A sealed package differs from its manifest, and PASS from the code shipped
\* with it, only in files that were written while it was being built.
ShippedAsTested ==
  \A s \in Stamps : Sealed(s) =>
    LET bundle == archives[s].bundle
        files == archives[s].files
    IN  /\ \A f \in DOMAIN files \ disturbed[s] : files[f] = bundle.manifest[f]
        /\ bundle.status = "PASS" /\ "code" \notin disturbed[s]
             => "code" \in DOMAIN files /\ files["code"] = "good"

\* Exit status 0 of an invocation that packages means that its own package is
\* sealed and that no test it ran has failed; status 2 that one has.
ExitTellsDelivery ==
  \A j \in Jobs :
    /\ exit[j] = 0 /\ args[j].package =>
         /\ stamp[j] # None /\ Sealed(stamp[j])
         /\ archives[stamp[j]].bundle.status = IF args[j].skip THEN "SKIPPED"
                                               ELSE "PASS"
         /\ args[j].suite => gate[j]
    /\ exit[j] = 2 =>
         status[j] = "NOT_CLEARED" \/ (args[j].suite /\ ~gate[j])
=============================================================================
