--------------------------- MODULE DeliveryProofs ---------------------------
(***************************************************************************)
(* Proofs about Delivery, for any jobs, seconds, invocations and edits.    *)
(*                                                                         *)
(* The properties speak of packages that are sealed.  They are inductive   *)
(* only together with what is true of a package while it is being built:   *)
(* its second belongs to one job, what the job has hashed and archived is  *)
(* still so in the tree unless somebody has written it, and the archive    *)
(* and the list of files still to be archived make up the manifest.        *)
(***************************************************************************)
EXTENDS Delivery, TLAPS

Suite == {"gate", "truncate", "write", "handset", "report"}
Building == {"tests", "list", "hash", "open", "archive", "seal", "checksum",
             "sealed"}

Arguments == [suite : BOOLEAN, handset : BOOLEAN, package : BOOLEAN,
              skip : BOOLEAN]

TypeOK ==
  /\ tree \in [Files -> Contents \union {None}]
  /\ now \in Stamps
  /\ bundles \in [Stamps -> Bundles \union {None}]
  /\ archives \in [Stamps -> Archives \union {None}]
  /\ sums \in [Stamps -> Archives \union {None, Blank}]
  /\ pc \in [Jobs -> {"idle", "bundle"} \union Suite \union Building]
  /\ args \in [Jobs -> Arguments \union {None}]
  /\ gate \in [Jobs -> BOOLEAN]
  /\ stamp \in [Jobs -> Stamps \union {None}]
  /\ status \in [Jobs -> Statuses \union {None}]
  /\ todo \in [Jobs -> SUBSET Files]
  /\ manifest \in [Jobs -> FileMaps]
  /\ exit \in [Jobs -> 0 .. 2 \union {None}]
  /\ written \in [Jobs -> SUBSET Files]
  /\ disturbed \in [Stamps -> SUBSET Files]
  /\ runs \in Nat /\ edits \in Nat

\* A package belongs to one job; one that was never begun has no files.
PackagesApart ==
  /\ \A j, k \in Jobs :
       pc[j] \in Building /\ pc[k] \in Building /\ stamp[j] = stamp[k] => j = k
  /\ \A s \in Stamps : bundles[s] = None => archives[s] = None /\ sums[s] = None

\* A job that builds has begun a package, without a checksum file until it opens
\* one, and without a checksum until it is sealed.
OwnPackage(j) ==
  pc[j] \in Building =>
    /\ stamp[j] \in Stamps
    /\ bundles[stamp[j]] # None
    /\ pc[j] \notin {"checksum", "sealed"} => sums[stamp[j]] = None
    /\ pc[j] = "checksum" => sums[stamp[j]] = Blank

\* What a job has found in the tree is there still, or was written since.
FoundIsThere(j) ==
  /\ pc[j] \notin Building \/ pc[j] \in {"tests", "list"} => manifest[j] = <<>>
  /\ pc[j] \in {"hash", "open", "archive", "seal", "checksum"} =>
       \A f \in DOMAIN manifest[j] \ written[j] : manifest[j][f] = tree[f]
  /\ pc[j] \in {"list", "hash", "open", "archive", "seal", "checksum"}
       /\ status[j] = "PASS" /\ "code" \notin written[j] =>
       /\ tree["code"] = "good"
       /\ pc[j] = "hash" => "code" \in DOMAIN manifest[j] \union todo[j]
       /\ pc[j] \in {"open", "archive", "seal", "checksum"} =>
            "code" \in DOMAIN manifest[j]

\* The archive in hand is that of the manifest in hand.
ArchiveInHand(j) ==
  /\ pc[j] = "open" =>
       bundles[stamp[j]] = [manifest |-> manifest[j], status |-> status[j]]
  /\ pc[j] \in {"archive", "seal", "checksum"} =>
       /\ archives[stamp[j]] # None
       /\ archives[stamp[j]].bundle = [manifest |-> manifest[j],
                                       status |-> status[j]]
       /\ DOMAIN archives[stamp[j]].files \union todo[j] = DOMAIN manifest[j]
       /\ \A f \in DOMAIN archives[stamp[j]].files \ written[j] :
            archives[stamp[j]].files[f] = tree[f]
  /\ pc[j] \in {"seal", "checksum"} => todo[j] = {} /\ archives[stamp[j]].closed

\* What a job was told and has found out, until it exits.
Verdict(j) ==
  /\ exit[j] # None => pc[j] = "idle"
  /\ pc[j] \in Suite => args[j].suite
  /\ pc[j] \in Building \union {"bundle"} => args[j].package
  /\ pc[j] \in Building \ {"tests"} =>
       /\ status[j] \in Statuses
       /\ status[j] = "SKIPPED" <=> args[j].skip
  /\ pc[j] = "sealed" =>
       /\ Sealed(stamp[j])
       /\ archives[stamp[j]].bundle.status = status[j]

\* Part of ExitTellsDelivery, for one job.
ExitIsTrue(j) ==
  /\ exit[j] = 0 /\ args[j].package =>
       /\ stamp[j] # None /\ Sealed(stamp[j])
       /\ archives[stamp[j]].bundle.status = IF args[j].skip THEN "SKIPPED"
                                             ELSE "PASS"
       /\ args[j].suite => gate[j]
  /\ exit[j] = 2 =>
       status[j] = "NOT_CLEARED" \/ (args[j].suite /\ ~gate[j])

Sound(j) ==
  OwnPackage(j) /\ FoundIsThere(j) /\ ArchiveInHand(j) /\ Verdict(j)
  /\ ExitIsTrue(j)

IInv ==
  /\ TypeOK
  /\ PackagesApart
  /\ \A j \in Jobs : Sound(j)
  /\ SealedIsWhole
  /\ ShippedAsTested

-----------------------------------------------------------------------------
(* Types                                                                   *)

LEMMA EmptyMap == <<>> \in FileMaps /\ DOMAIN <<>> = {} /\ Begun \in Bundles
<1>1. <<>> \in [{} -> Contents] /\ DOMAIN <<>> = {}
  OBVIOUS
<1>2. <<>> \in FileMaps
  BY <1>1 DEF FileMaps
<1> QED
  BY <1>1, <1>2 DEF Bundles, Begun

\* One more file is hashed or archived.
LEMMA PlusFacts ==
  ASSUME tree \in [Files -> Contents \union {None}],
         NEW files \in FileMaps, NEW f \in Files, tree[f] # None
  PROVE  /\ Plus(files, f) \in FileMaps
         /\ DOMAIN Plus(files, f) = DOMAIN files \union {f}
         /\ \A g \in DOMAIN Plus(files, f) :
              Plus(files, f)[g] = IF g = f THEN tree[f] ELSE files[g]
<1>1. PICK D \in SUBSET Files : files \in [D -> Contents]
  BY DEF FileMaps
<1>2. Plus(files, f) \in [D \union {f} -> Contents]
  BY <1>1 DEF Plus
<1>3. D \union {f} \in SUBSET Files
  OBVIOUS
<1> QED
  BY <1>1, <1>2, <1>3 DEF FileMaps, Plus

LEMMA MapFacts ==
  ASSUME NEW files \in FileMaps
  PROVE  DOMAIN files \subseteq Files
  BY DEF FileMaps

\* An archive is made, grows, and is closed.
LEMMA ArchiveFacts ==
  ASSUME NEW archive \in Archives, NEW files \in FileMaps
  PROVE  /\ [archive EXCEPT !.files = files] \in Archives
         /\ [archive EXCEPT !.files = files].files = files
         /\ [archive EXCEPT !.files = files].bundle = archive.bundle
         /\ [archive EXCEPT !.closed = TRUE] \in Archives
         /\ [archive EXCEPT !.closed = TRUE].closed
         /\ [archive EXCEPT !.closed = TRUE].files = archive.files
         /\ [archive EXCEPT !.closed = TRUE].bundle = archive.bundle
         /\ archive.bundle \in Bundles /\ archive.files \in FileMaps
  BY DEF Archives

\* Whoever archives or seals has an archive.
LEMMA PackageInHand ==
  ASSUME TypeOK, NEW j \in Jobs, OwnPackage(j), ArchiveInHand(j),
         pc[j] \in {"archive", "seal", "checksum"}
  PROVE  stamp[j] \in Stamps /\ archives[stamp[j]] \in Archives
<1>1. stamp[j] \in Stamps
  BY DEF OwnPackage, Building
<1>2. archives[stamp[j]] # None
  BY Zenon DEF ArchiveInHand
<1> QED
  BY <1>1, <1>2 DEF TypeOK

LEMMA TypeInit == Init => TypeOK
  BY BoundsAssumption, EmptyMap
  DEF Init, TypeOK, Stamps, Files, Contents, Suite, Building

LEMMA TypeStep ==
  ASSUME TypeOK, \A j \in Jobs : OwnPackage(j) /\ ArchiveInHand(j), [Next]_vars
  PROVE  TypeOK'
<1> USE BoundsAssumption, EmptyMap
    DEF TypeOK, Goto, Return, WriteFile, out, job, bounds, Suite, Building
<1>1. ASSUME NEW j \in Jobs, Invoke(j) PROVE TypeOK'
  <2>1. \A suite, handset, package, skip \in BOOLEAN :
          [suite |-> suite, handset |-> handset, package |-> package,
           skip |-> skip] \in Arguments
    BY DEF Arguments
  <2>2. PICK a \in Arguments : args' = [args EXCEPT ![j] = a]
    BY <1>1, <2>1 DEF Invoke
  <2> QED
    BY <1>1, <2>2 DEF Invoke
<1>2. ASSUME NEW j \in Jobs, RunGate(j) PROVE TypeOK'
  BY <1>2 DEF RunGate, TestsPass
<1>3. ASSUME NEW j \in Jobs,
             Truncate(j) \/ Write(j) \/ ExperimentFails(j) \/ Handset(j)
      PROVE  TypeOK'
  BY <1>3 DEF Truncate, Write, ExperimentFails, Handset, AfterExperiment, Files,
              Contents
<1>4. ASSUME NEW j \in Jobs, Report(j) \/ Raise(j) \/ Finish(j) \/ Kill(j)
      PROVE  TypeOK'
  BY <1>4 DEF Report, Raise, Finish, Kill, Outcome
<1>5. ASSUME NEW j \in Jobs, MakeBundle(j) PROVE TypeOK'
  BY <1>5 DEF MakeBundle
<1>6. ASSUME NEW j \in Jobs, RunTests(j) PROVE TypeOK'
  BY <1>6 DEF RunTests, TestGate, Statuses
<1>7. ASSUME NEW j \in Jobs, CollectFiles(j) PROVE TypeOK'
  BY <1>7 DEF CollectFiles
<1>8. ASSUME NEW j \in Jobs, HashFile(j) PROVE TypeOK'
  <2>1. PICK f \in todo[j] :
          /\ tree[f] # None
          /\ manifest' = [manifest EXCEPT ![j] = Plus(manifest[j], f)]
          /\ todo' = [todo EXCEPT ![j] = todo[j] \ {f}]
    BY <1>8 DEF HashFile
  <2>2. Plus(manifest[j], f) \in FileMaps
    BY <2>1, PlusFacts
  <2> QED
    BY <1>8, <2>1, <2>2 DEF HashFile
<1>9. ASSUME NEW j \in Jobs, WriteBundle(j) PROVE TypeOK'
  <2>1. [manifest |-> manifest[j], status |-> status[j]] \in Bundles
    BY DEF Bundles
  <2>2. bundles' \in [Stamps -> Bundles \union {None}]
    BY <1>9, <2>1 DEF WriteBundle
  <2> QED
    BY <1>9, <2>2 DEF WriteBundle
<1>10. ASSUME NEW j \in Jobs, OpenArchive(j) PROVE TypeOK'
  <2>1. stamp[j] \in Stamps /\ bundles[stamp[j]] \in Bundles
    BY <1>10 DEF OpenArchive, OwnPackage
  <2>2. [bundle |-> bundles[stamp[j]], files |-> <<>>, closed |-> FALSE]
          \in Archives
    BY <2>1 DEF Archives
  <2>3. archives' \in [Stamps -> Archives \union {None}]
    BY <1>10, <2>2 DEF OpenArchive
  <2>4. todo' \in [Jobs -> SUBSET Files]
    BY <1>10, MapFacts DEF OpenArchive
  <2> QED
    BY <1>10, <2>3, <2>4 DEF OpenArchive
<1>11. ASSUME NEW j \in Jobs, ArchiveFile(j) PROVE TypeOK'
  <2>1. PICK f \in todo[j] :
          /\ tree[f] # None
          /\ archives' = [archives EXCEPT ![stamp[j]].files = Plus(@, f)]
          /\ todo' = [todo EXCEPT ![j] = todo[j] \ {f}]
    BY <1>11 DEF ArchiveFile
  <2>2. stamp[j] \in Stamps /\ archives[stamp[j]] \in Archives
    BY <1>11, PackageInHand DEF ArchiveFile
  <2>3. Plus(archives[stamp[j]].files, f) \in FileMaps
    BY <2>1, <2>2, PlusFacts, ArchiveFacts
  <2> DEFINE more == [archives[stamp[j]] EXCEPT !.files =
                        Plus(archives[stamp[j]].files, f)]
  <2>4. more \in Archives
    BY <2>2, <2>3, ArchiveFacts
  <2>5. archives' = [archives EXCEPT ![stamp[j]] = more]
    BY <2>1
  <2> HIDE DEF more
  <2>6. archives' \in [Stamps -> Archives \union {None}]
    BY <2>2, <2>4, <2>5
  <2> QED
    BY <1>11, <2>1, <2>6 DEF ArchiveFile
<1>12. ASSUME NEW j \in Jobs, CloseArchive(j) PROVE TypeOK'
  <2>1. stamp[j] \in Stamps /\ archives[stamp[j]] \in Archives
    BY <1>12, PackageInHand DEF CloseArchive
  <2> DEFINE whole == [archives[stamp[j]] EXCEPT !.closed = TRUE]
  <2>2. whole \in Archives
    BY <2>1, EmptyMap, ArchiveFacts
  <2>3. archives' = [archives EXCEPT ![stamp[j]] = whole]
    BY <1>12 DEF CloseArchive
  <2> HIDE DEF whole
  <2>4. archives' \in [Stamps -> Archives \union {None}]
    BY <2>1, <2>2, <2>3
  <2> QED
    BY <1>12, <2>4 DEF CloseArchive
<1>13. ASSUME NEW j \in Jobs, WriteChecksum(j) PROVE TypeOK'
  <2>1. /\ stamp[j] \in Stamps /\ written[j] \in SUBSET Files
        /\ archives[stamp[j]] \in Archives
    BY <1>13, PackageInHand DEF WriteChecksum
  <2>2. sums' \in [Stamps -> Archives \union {None, Blank}]
    BY <1>13, <2>1 DEF WriteChecksum
  <2>3. disturbed' \in [Stamps -> SUBSET Files]
    BY <1>13, <2>1 DEF WriteChecksum
  <2> QED
    BY <1>13, <2>2, <2>3 DEF WriteChecksum
<1>17. ASSUME NEW j \in Jobs, OpenChecksum(j) PROVE TypeOK'
  BY <1>17 DEF OpenChecksum, OwnPackage
<1>14. CASE Edit
  BY <1>14 DEF Edit, Contents
<1>16. CASE Tick
  BY <1>16 DEF Tick, Stamps
<1>15. CASE UNCHANGED vars
  BY <1>15 DEF vars
<1> HIDE DEF TypeOK, Goto, Return, WriteFile, out, job, bounds, Suite, Building
<1> QED
  BY <1>1, <1>2, <1>3, <1>4, <1>5, <1>6, <1>7, <1>8, <1>9, <1>10, <1>11, <1>12,
     <1>13, <1>14, <1>15, <1>16, <1>17 DEF Next, SuiteStep, BuildStep

-----------------------------------------------------------------------------
(* What a step of one job leaves alone                                     *)

JobStep(j) == Invoke(j) \/ SuiteStep(j) \/ BuildStep(j) \/ Kill(j)

\* A step is not that of job k: at most a file is written meanwhile.
Aside(k) ==
  /\ pc'[k] = pc[k] /\ args'[k] = args[k] /\ gate'[k] = gate[k]
  /\ stamp'[k] = stamp[k] /\ status'[k] = status[k] /\ todo'[k] = todo[k]
  /\ manifest'[k] = manifest[k] /\ exit'[k] = exit[k]
  /\ pc[k] \in Building =>
       /\ bundles'[stamp[k]] = bundles[stamp[k]]
       /\ archives'[stamp[k]] = archives[stamp[k]]
       /\ sums'[stamp[k]] = sums[stamp[k]]
  /\ \A f \in Files : tree'[f] = tree[f] \/ f \in written'[k]
  /\ written[k] \subseteq written'[k]

\* An archive beside a checksum file stays as it is, and so does the checksum.
SealedStays ==
  \A s \in Stamps : sums[s] # None =>
    /\ archives'[s] = archives[s] /\ sums'[s] # None
    /\ Sealed(s) => sums'[s] = sums[s] /\ disturbed'[s] = disturbed[s]

\* A file is written: every job is told.
LEMMA WriteFrame ==
  ASSUME TypeOK, NEW f \in Files, NEW content, WriteFile(f, content), NEW k \in Jobs
  PROVE  /\ \A g \in Files : tree'[g] = tree[g] \/ g \in written'[k]
         /\ written[k] \subseteq written'[k]
  BY DEF WriteFile, TypeOK

\* A step of one job is none of the others' (WriteFile, the bundle and the
\* archive under a second that no other job has).
LEMMA OthersAside ==
  ASSUME TypeOK, PackagesApart, \A i \in Jobs : OwnPackage(i),
         NEW j \in Jobs, JobStep(j), NEW k \in Jobs \ {j}
  PROVE  Aside(k)
<1> USE DEF Goto, Return, out, job, bounds
<1> DEFINE Goal == Aside(k)
<1>1. ASSUME Invoke(j) \/ RunGate(j) \/ ExperimentFails(j) \/ Report(j)
             \/ RunTests(j) \/ CollectFiles(j) \/ Raise(j) \/ Finish(j)
             \/ Kill(j) PROVE Goal
  BY <1>1 DEF Aside, TypeOK, Invoke, RunGate, ExperimentFails, Report, RunTests,
     CollectFiles, Raise, Finish, Kill
<1>2. ASSUME Truncate(j) \/ Write(j) \/ Handset(j) PROVE Goal
  <2>1. /\ \A g \in Files : tree'[g] = tree[g] \/ g \in written'[k]
        /\ written[k] \subseteq written'[k]
    BY <1>2, WriteFrame DEF Truncate, Write, Handset, Files
  <2> QED
    BY <1>2, <2>1 DEF Aside, TypeOK, Truncate, Write, Handset
<1>3. ASSUME MakeBundle(j) PROVE Goal
  BY <1>3 DEF Aside, TypeOK, MakeBundle, OwnPackage
<1>4. ASSUME HashFile(j) PROVE Goal
  BY <1>4 DEF Aside, TypeOK, HashFile
<1>5. ASSUME WriteBundle(j) \/ OpenArchive(j) \/ CloseArchive(j)
             \/ OpenChecksum(j) \/ WriteChecksum(j) \/ ArchiveFile(j)
      PROVE  Goal
  <2>1. pc[j] \in Building
    BY <1>5 DEF Building, WriteBundle, OpenArchive, CloseArchive, OpenChecksum,
       WriteChecksum, ArchiveFile
  <2>2. pc[k] \in Building => stamp[k] \in Stamps /\ stamp[k] # stamp[j]
    BY <2>1 DEF PackagesApart, OwnPackage
  <2> QED
    BY <1>5, <2>2 DEF Aside, TypeOK, WriteBundle, OpenArchive, CloseArchive,
       OpenChecksum, WriteChecksum, ArchiveFile
<1> QED
  BY <1>1, <1>2, <1>3, <1>4, <1>5 DEF JobStep, SuiteStep, BuildStep

\* Nobody's step: an edit, the clock, or nothing at all.
LEMMA AllAside ==
  ASSUME TypeOK, Edit \/ Tick \/ UNCHANGED vars, NEW k \in Jobs
  PROVE  Aside(k)
<1>1. CASE Edit
  <2>1. /\ \A g \in Files : tree'[g] = tree[g] \/ g \in written'[k]
        /\ written[k] \subseteq written'[k]
    BY <1>1, WriteFrame DEF Edit
  <2> QED
    BY <1>1, <2>1 DEF Aside, Edit, out, job
<1>2. CASE Tick \/ UNCHANGED vars
  BY <1>2 DEF Aside, Tick, vars, out, job
<1> QED
  BY <1>1, <1>2

\* A package with a checksum is not touched again; one with an empty checksum
\* file at most gets its checksum.
LEMMA SealedFrame ==
  ASSUME TypeOK, \A i \in Jobs : OwnPackage(i) /\ ArchiveInHand(i), [Next]_vars
  PROVE  SealedStays
<1> USE DEF out, job, bounds
<1>1. ASSUME NEW j \in Jobs,
             OpenArchive(j) \/ CloseArchive(j) \/ ArchiveFile(j)
             \/ OpenChecksum(j)
      PROVE  SealedStays
  <2>1. pc[j] \in Building \ {"checksum", "sealed"}
    BY <1>1 DEF Building, OpenArchive, CloseArchive, OpenChecksum, ArchiveFile
  <2>2. stamp[j] \in Stamps /\ sums[stamp[j]] = None
    BY <2>1 DEF OwnPackage
  <2> QED
    BY <1>1, <2>2 DEF SealedStays, TypeOK, OpenArchive, CloseArchive,
       OpenChecksum, ArchiveFile
<1>6. ASSUME NEW j \in Jobs, WriteChecksum(j) PROVE SealedStays
  <2>1. pc[j] = "checksum" /\ pc[j] \in Building
    BY <1>6 DEF WriteChecksum, Building
  <2>2. stamp[j] \in Stamps /\ sums[stamp[j]] = Blank
    BY <2>1 DEF OwnPackage
  <2>3. archives[stamp[j]] # None
    BY <2>1 DEF ArchiveInHand
  <2> QED
    BY <1>6, <2>2, <2>3 DEF SealedStays, Sealed, TypeOK, WriteChecksum
<1>2. ASSUME UNCHANGED <<archives, sums, disturbed>> PROVE SealedStays
  BY <1>2 DEF SealedStays
<1>3. ASSUME NEW j \in Jobs, Invoke(j) \/ SuiteStep(j) \/ Kill(j)
      PROVE  SealedStays
  BY <1>2, <1>3 DEF Invoke, SuiteStep, RunGate, Truncate, Write, ExperimentFails,
     Handset, Report, Kill
<1>4. ASSUME NEW j \in Jobs,
             MakeBundle(j) \/ RunTests(j) \/ CollectFiles(j) \/ HashFile(j)
             \/ Raise(j) \/ WriteBundle(j) \/ Finish(j)
      PROVE  SealedStays
  BY <1>2, <1>4 DEF MakeBundle, RunTests, CollectFiles, HashFile, Raise,
     WriteBundle, Finish
<1>5. CASE Edit \/ Tick \/ UNCHANGED vars
  BY <1>2, <1>5 DEF Edit, Tick, vars
<1> QED
  BY <1>1, <1>3, <1>4, <1>5, <1>6 DEF Next, BuildStep

-----------------------------------------------------------------------------
(* One job                                                                 *)

\* What is true of a job stays true while others work.
LEMMA AsideStep ==
  ASSUME TypeOK, SealedStays, NEW k \in Jobs, Sound(k), Aside(k)
  PROVE  Sound(k)'
<1>1. OwnPackage(k)'
  BY DEF Sound, OwnPackage, Aside
<1>2. FoundIsThere(k)'
  <2>1. \A f \in DOMAIN manifest[k] \ written'[k] :
          f \in Files /\ f \notin written[k] /\ tree'[f] = tree[f]
    BY MapFacts DEF TypeOK, Aside
  <2>2. "code" \notin written'[k] =>
          "code" \notin written[k] /\ tree'["code"] = tree["code"]
    BY DEF Aside, Files
  <2> QED
    BY <2>1, <2>2 DEF Sound, FoundIsThere, Aside
<1>3. ArchiveInHand(k)'
  <2>1. ASSUME pc[k] \in {"archive", "seal", "checksum"}
        PROVE  \A f \in DOMAIN archives[stamp[k]].files \ written'[k] :
                 f \notin written[k] /\ tree'[f] = tree[f]
    BY <2>1, PackageInHand, ArchiveFacts, MapFacts, EmptyMap
    DEF Sound, Aside
  <2> QED
    BY <2>1 DEF Sound, ArchiveInHand, Aside, Building
<1>4. Verdict(k)'
  BY DEF Sound, Verdict, Aside, Building, Sealed
<1>5. ExitIsTrue(k)'
  BY DEF Sound, ExitIsTrue, Aside, SealedStays, Sealed, TypeOK
<1> QED
  BY <1>1, <1>2, <1>3, <1>4, <1>5 DEF Sound

\* Steps that leave a job without a package in hand: those of the suite, and the
\* end of an invocation.
LEMMA EmptyHanded ==
  ASSUME TypeOK, TypeOK', SealedStays, NEW j \in Jobs, Sound(j),
         Invoke(j) \/ SuiteStep(j) \/ Raise(j) \/ Finish(j) \/ Kill(j)
  PROVE  Sound(j)'
<1> USE DEF Goto, Return, out, job, bounds
<1>1. pc'[j] \notin Building
  BY DEF Building, TypeOK, Invoke, SuiteStep, RunGate, Truncate, Write,
     ExperimentFails, Handset, Report, Raise, Finish, Kill, AfterExperiment
<1>2. manifest'[j] = <<>>
  <2>1. CASE Raise(j) \/ Finish(j) \/ Kill(j)
    BY <2>1 DEF Raise, Finish, Kill, TypeOK
  <2>2. CASE Invoke(j) \/ SuiteStep(j)
    <3>1. pc[j] \notin Building
      BY <2>2 DEF Building, Suite, Invoke, SuiteStep, RunGate, Truncate, Write,
         ExperimentFails, Handset, Report
    <3>2. manifest[j] = <<>>
      BY <3>1 DEF Sound, FoundIsThere
    <3> QED
      BY <2>2, <3>2 DEF TypeOK, Invoke, SuiteStep, RunGate, Truncate, Write,
         ExperimentFails, Handset, Report
  <2> QED
    BY <2>1, <2>2
<1>3. (OwnPackage(j) /\ FoundIsThere(j) /\ ArchiveInHand(j))'
  BY <1>1, <1>2 DEF OwnPackage, FoundIsThere, ArchiveInHand, Building
<1>4. Verdict(j)'
  <2>1. CASE Invoke(j)
    BY <2>1 DEF Verdict, TypeOK, Invoke, Building, Suite
  <2>2. CASE SuiteStep(j)
    <3>1. pc[j] \in Suite /\ exit[j] = None /\ args[j].suite
      BY <2>2 DEF Sound, Verdict, Suite, SuiteStep, RunGate, Truncate, Write,
         ExperimentFails, Handset, Report
    <3>2. /\ args' = args
          /\ \/ pc'[j] \in Suite /\ exit' = exit
             \/ pc'[j] = "bundle" /\ args[j].package /\ exit' = exit
             \/ pc'[j] = "idle"
      BY <2>2 DEF TypeOK, Suite, SuiteStep, RunGate, Truncate, Write,
         ExperimentFails, Handset, Report, AfterExperiment
    <3> QED
      BY <1>1, <3>1, <3>2 DEF Verdict, Building, Suite
  <2>3. CASE Raise(j) \/ Finish(j) \/ Kill(j)
    <3>1. pc[j] # "idle" /\ args' = args /\ pc'[j] = "idle"
      BY <2>3 DEF TypeOK, Raise, Finish, Kill
    <3> QED
      BY <1>1, <3>1 DEF Sound, Verdict, Building, Suite
  <2> QED
    BY <2>1, <2>2, <2>3
<1>5. ExitIsTrue(j)'
  <2>1. CASE Invoke(j)
    BY <2>1, NoneAssumption DEF ExitIsTrue, TypeOK, Invoke
  <2>2. CASE Raise(j) \/ Kill(j)
    BY <2>2, NoneAssumption DEF ExitIsTrue, TypeOK, Raise, Kill
  <2>3. CASE SuiteStep(j)
    BY <2>3, NoneAssumption
    DEF ExitIsTrue, Sound, Verdict, TypeOK, Suite, SuiteStep, RunGate, Truncate,
        Write, ExperimentFails, Handset, Report
  <2>4. CASE Finish(j)
    <3>1. /\ pc[j] = "sealed" /\ pc[j] \in Building
          /\ exit'[j] = Outcome(j) /\ args' = args /\ gate' = gate
          /\ stamp' = stamp /\ status' = status /\ sums' = sums
          /\ archives' = archives
      BY <2>4 DEF Finish, TypeOK, Building
    <3>2. /\ stamp[j] # None /\ Sealed(stamp[j])
          /\ archives[stamp[j]].bundle.status = status[j]
          /\ status[j] \in Statuses
          /\ status[j] = "SKIPPED" <=> args[j].skip
      BY <3>1, NoneAssumption DEF Sound, OwnPackage, Verdict
    <3> QED
      BY <3>1, <3>2 DEF ExitIsTrue, Outcome, Statuses, Sealed
  <2> QED
    BY <2>1, <2>2, <2>3, <2>4
<1> QED
  BY <1>3, <1>4, <1>5 DEF Sound

\* A job begins a package that no other job has, or finds the name taken.
LEMMA BeginStep ==
  ASSUME TypeOK, PackagesApart, NEW j \in Jobs, Sound(j), MakeBundle(j)
  PROVE  Sound(j)'
<1> USE EmptyMap, NoneAssumption
    DEF Goto, Return, bounds, MakeBundle, TypeOK
<1>1. manifest'[j] = <<>> /\ args' = args /\ args[j].package
  BY DEF Sound, FoundIsThere, Verdict, Building
<1>2. CASE bundles[now] = None
  <2>1. /\ pc'[j] = "tests" /\ stamp'[j] = now /\ bundles'[now] = Begun
        /\ sums' = sums /\ sums[now] = None /\ exit'[j] = None
    BY <1>2 DEF PackagesApart, Sound, Verdict
  <2> QED
    BY <1>1, <2>1 DEF Sound, OwnPackage, FoundIsThere, ArchiveInHand, Verdict,
       ExitIsTrue, Building, Suite
<1>3. CASE bundles[now] # None
  <2>1. pc'[j] = "idle" /\ exit'[j] = 1
    BY <1>3
  <2> QED
    BY <1>1, <2>1 DEF Sound, OwnPackage, FoundIsThere, ArchiveInHand, Verdict,
       ExitIsTrue, Building, Suite
<1> QED
  BY <1>2, <1>3

\* The tests are run, the files listed and hashed: what is in the manifest was
\* read from the tree, and PASS was true of it.
LEMMA HashStep ==
  ASSUME TypeOK, NEW j \in Jobs, Sound(j),
         RunTests(j) \/ CollectFiles(j) \/ HashFile(j)
  PROVE  Sound(j)'
<1> USE DEF Goto, out, bounds
<1>1. /\ stamp' = stamp /\ bundles' = bundles /\ archives' = archives
      /\ sums' = sums /\ tree' = tree /\ written' = written /\ args' = args
      /\ exit' = exit /\ gate' = gate
      /\ pc[j] \in {"tests", "list", "hash"} /\ pc'[j] \in {"list", "hash"}
  BY DEF TypeOK, RunTests, CollectFiles, HashFile
<1>2. OwnPackage(j)'
  BY <1>1 DEF Sound, OwnPackage, Building
<1>3. ArchiveInHand(j)'
  BY <1>1 DEF ArchiveInHand
<1>4. Verdict(j)'
  <2>1. CASE RunTests(j)
    BY <1>1, <2>1 DEF Sound, Verdict, RunTests, TestGate, Statuses, TypeOK,
       Building, Suite
  <2>2. CASE CollectFiles(j) \/ HashFile(j)
    BY <1>1, <2>2 DEF Sound, Verdict, CollectFiles, HashFile, TypeOK, Building,
       Suite
  <2> QED
    BY <2>1, <2>2
<1>5. ExitIsTrue(j)'
  <2>1. exit[j] = None
    BY <1>1 DEF Sound, Verdict
  <2> QED
    BY <1>1, <2>1, NoneAssumption DEF ExitIsTrue
<1>6. FoundIsThere(j)'
  <2>1. CASE RunTests(j)
    BY <1>1, <2>1, EmptyMap DEF Sound, FoundIsThere, RunTests, TestGate,
       TestsPass, TypeOK, Building
  <2>2. CASE CollectFiles(j)
    <3>1. "code" \in Files /\ "good" # None
      BY NoneAssumption DEF Files, Contents
    <3> QED
      BY <1>1, <2>2, <3>1, EmptyMap DEF Sound, FoundIsThere, CollectFiles,
         TypeOK, Building
  <2>3. CASE HashFile(j)
    <3>1. PICK f \in todo[j] :
            /\ tree[f] # None
            /\ manifest' = [manifest EXCEPT ![j] = Plus(manifest[j], f)]
            /\ todo' = [todo EXCEPT ![j] = todo[j] \ {f}]
      BY <2>3 DEF HashFile
    <3> DEFINE more == Plus(manifest[j], f)
    <3>2. f \in Files /\ manifest[j] \in FileMaps
      BY DEF TypeOK
    <3>3. /\ DOMAIN more = DOMAIN manifest[j] \union {f}
          /\ \A g \in DOMAIN more :
               more[g] = IF g = f THEN tree[f] ELSE manifest[j][g]
      BY <3>1, <3>2, PlusFacts DEF TypeOK
    <3>4. /\ manifest'[j] = more /\ todo'[j] = todo[j] \ {f}
          /\ pc' = pc /\ pc[j] = "hash" /\ status' = status
      BY <2>3, <3>1 DEF HashFile, TypeOK
    <3> HIDE DEF more
    <3>5. /\ DOMAIN manifest'[j] = DOMAIN manifest[j] \union {f}
          /\ \A g \in DOMAIN manifest'[j] :
               manifest'[j][g] = IF g = f THEN tree[f] ELSE manifest[j][g]
          /\ todo'[j] = todo[j] \ {f}
          /\ pc' = pc /\ pc[j] = "hash" /\ status' = status
      BY <3>3, <3>4
    <3>6. /\ \A g \in DOMAIN manifest[j] \ written[j] : manifest[j][g] = tree[g]
          /\ status[j] = "PASS" /\ "code" \notin written[j] =>
               tree["code"] = "good" /\ "code" \in DOMAIN manifest[j] \union todo[j]
      BY <3>5 DEF Sound, FoundIsThere
    <3>7. \A g \in DOMAIN manifest'[j] \ written[j] : manifest'[j][g] = tree[g]
      BY <3>5, <3>6
    <3> QED
      BY <1>1, <3>5, <3>6, <3>7 DEF FoundIsThere, Building
  <2> QED
    BY <2>1, <2>2, <2>3
<1> QED
  BY <1>2, <1>3, <1>4, <1>5, <1>6 DEF Sound

\* The bundle is written and archived: the archive fills up to the manifest.
LEMMA ArchiveStep ==
  ASSUME TypeOK, NEW j \in Jobs, Sound(j),
         WriteBundle(j) \/ OpenArchive(j) \/ ArchiveFile(j) \/ CloseArchive(j)
         \/ OpenChecksum(j) \/ WriteChecksum(j)
  PROVE  Sound(j)'
<1> USE DEF Goto, job, bounds
<1>1. /\ stamp' = stamp /\ tree' = tree /\ written' = written /\ args' = args
      /\ exit' = exit /\ gate' = gate /\ status' = status /\ manifest' = manifest
      /\ pc[j] \in {"hash", "open", "archive", "seal", "checksum"}
      /\ pc'[j] \in {"open", "archive", "seal", "checksum", "sealed"}
      /\ pc[j] = "hash" => todo[j] = {}
  BY DEF TypeOK, WriteBundle, OpenArchive, ArchiveFile, CloseArchive,
     OpenChecksum, WriteChecksum
<1>2. /\ stamp[j] \in Stamps /\ bundles[stamp[j]] # None
      /\ pc[j] # "checksum" => sums[stamp[j]] = None
  BY <1>1 DEF Sound, OwnPackage, Building
<1>3. exit[j] = None
  BY <1>1 DEF Sound, Verdict
<1>4. ExitIsTrue(j)'
  BY <1>1, <1>3, NoneAssumption DEF ExitIsTrue
<1>5. FoundIsThere(j)'
  BY <1>1 DEF Sound, FoundIsThere, Building
<1>6. pc'[j] \in Building \ {"tests"} /\ pc[j] \in Building \ {"tests"}
  BY <1>1 DEF Building
<1>7. /\ status[j] \in Statuses /\ args[j].package
      /\ status[j] = "SKIPPED" <=> args[j].skip
  BY <1>6 DEF Sound, Verdict
<1> DEFINE Goal == (OwnPackage(j) /\ ArchiveInHand(j))'
                   /\ (pc'[j] = "sealed" =>
                         /\ sums'[stamp[j]] \notin {None, Blank}
                         /\ archives'[stamp[j]].bundle.status = status[j])
<1>8. ASSUME WriteBundle(j) PROVE Goal
  <2> DEFINE bundle == [manifest |-> manifest[j], status |-> status[j]]
  <2>1. bundle \in Bundles
    BY DEF Bundles, TypeOK
  <2>2. /\ bundles'[stamp[j]] = bundle /\ sums' = sums
        /\ pc[j] = "hash" /\ pc'[j] = "open"
    BY <1>2, <1>8 DEF WriteBundle, TypeOK
  <2> QED
    BY <1>1, <1>2, <2>1, <2>2, NoneAssumption DEF OwnPackage, ArchiveInHand
<1>9. ASSUME OpenArchive(j) PROVE Goal
  <2> DEFINE archive == [bundle |-> bundles[stamp[j]], files |-> <<>>,
                         closed |-> FALSE]
  <2>1. /\ archives'[stamp[j]] = archive /\ sums' = sums /\ bundles' = bundles
        /\ todo'[j] = DOMAIN manifest[j] /\ pc[j] = "open" /\ pc'[j] = "archive"
    BY <1>2, <1>9 DEF OpenArchive, TypeOK
  <2>2. bundles[stamp[j]] = [manifest |-> manifest[j], status |-> status[j]]
    BY <1>9 DEF OpenArchive, Sound, ArchiveInHand
  <2>3. archive \in Archives /\ archive.bundle = bundles[stamp[j]]
        /\ DOMAIN archive.files = {}
    BY <1>2, EmptyMap DEF Archives, TypeOK
  <2> HIDE DEF archive
  <2> QED
    BY <1>1, <1>2, <2>1, <2>2, <2>3, NoneAssumption DEF OwnPackage, ArchiveInHand
<1>10. ASSUME ArchiveFile(j) PROVE Goal
  <2> DEFINE old == archives[stamp[j]]
  <2>1. PICK f \in todo[j] :
          /\ tree[f] # None
          /\ archives' = [archives EXCEPT ![stamp[j]].files = Plus(@, f)]
          /\ todo' = [todo EXCEPT ![j] = todo[j] \ {f}]
    BY <1>10 DEF ArchiveFile
  <2> DEFINE more == Plus(old.files, f)
             new == [old EXCEPT !.files = more]
  <2>2. pc[j] = "archive" /\ pc' = pc /\ sums' = sums /\ bundles' = bundles
    BY <1>10 DEF ArchiveFile
  <2>3. /\ old \in Archives
        /\ old.bundle = [manifest |-> manifest[j], status |-> status[j]]
        /\ DOMAIN old.files \union todo[j] = DOMAIN manifest[j]
        /\ \A g \in DOMAIN old.files \ written[j] : old.files[g] = tree[g]
    BY <2>2, PackageInHand DEF Sound, ArchiveInHand
  <2>4. f \in Files /\ old.files \in FileMaps
    BY <2>3, EmptyMap, ArchiveFacts DEF TypeOK
  <2>5. /\ more \in FileMaps /\ DOMAIN more = DOMAIN old.files \union {f}
        /\ \A g \in DOMAIN more :
             more[g] = IF g = f THEN tree[f] ELSE old.files[g]
    BY <2>1, <2>4, PlusFacts DEF TypeOK
  <2>6. new \in Archives /\ new.files = more /\ new.bundle = old.bundle
    <3>1. old \in Archives /\ more \in FileMaps
      BY <2>3, <2>5
    <3> HIDE DEF old, more
    <3> QED
      BY <3>1, ArchiveFacts
  <2>7. archives'[stamp[j]] = new /\ todo'[j] = todo[j] \ {f}
    BY <1>2, <2>1 DEF TypeOK
  <2> HIDE DEF more, new
  <2>8. \A g \in DOMAIN more \ written[j] : more[g] = tree[g]
    BY <2>3, <2>5
  <2>9. DOMAIN more \union todo'[j] = DOMAIN manifest[j]
    BY <2>3, <2>5, <2>7
  <2> HIDE DEF old
  <2> QED
    BY <1>1, <1>2, <2>2, <2>3, <2>6, <2>7, <2>8, <2>9, NoneAssumption
    DEF OwnPackage, ArchiveInHand
<1>11. ASSUME CloseArchive(j) PROVE Goal
  <2> DEFINE old == archives[stamp[j]]
             new == [old EXCEPT !.closed = TRUE]
  <2>1. pc[j] = "archive" /\ pc'[j] = "seal" /\ todo[j] = {} /\ todo' = todo
        /\ sums' = sums /\ bundles' = bundles
    BY <1>11 DEF CloseArchive, TypeOK
  <2>2. old \in Archives
    BY <2>1, PackageInHand DEF Sound
  <2>3. /\ new \in Archives /\ new.closed /\ new.files = old.files
        /\ new.bundle = old.bundle
    BY <2>2, EmptyMap, ArchiveFacts
  <2>4. archives'[stamp[j]] = new
    BY <1>2, <1>11 DEF CloseArchive, TypeOK
  <2> HIDE DEF new
  <2> QED
    BY <1>1, <1>2, <2>1, <2>3, <2>4, NoneAssumption
    DEF Sound, OwnPackage, ArchiveInHand
<1>12. ASSUME WriteChecksum(j) PROVE Goal
  <2>1. pc[j] = "checksum" /\ pc'[j] = "sealed" /\ archives' = archives
        /\ bundles' = bundles /\ sums'[stamp[j]] = archives[stamp[j]]
    BY <1>2, <1>12 DEF WriteChecksum, TypeOK
  <2>2. archives[stamp[j]].bundle.status = status[j]
    BY <2>1 DEF Sound, ArchiveInHand
  <2>3. archives[stamp[j]] \notin {None, Blank}
    BY <2>1, PackageInHand, NoneAssumption DEF Sound
  <2> QED
    BY <1>1, <1>2, <2>1, <2>2, <2>3 DEF OwnPackage, ArchiveInHand
<1>15. ASSUME OpenChecksum(j) PROVE Goal
  <2>1. pc[j] = "seal" /\ pc'[j] = "checksum" /\ archives' = archives
        /\ bundles' = bundles /\ sums'[stamp[j]] = Blank /\ todo' = todo
    BY <1>2, <1>15 DEF OpenChecksum, TypeOK
  <2> QED
    BY <1>1, <1>2, <2>1 DEF Sound, OwnPackage, ArchiveInHand
<1>13. Goal
  BY <1>8, <1>9, <1>10, <1>11, <1>12, <1>15
<1>14. Verdict(j)'
  BY <1>1, <1>3, <1>6, <1>7, <1>13 DEF Verdict, Building, Suite, Sealed
<1> QED
  BY <1>4, <1>5, <1>13, <1>14 DEF Sound

-----------------------------------------------------------------------------
(* Packages                                                                *)

\* A job begins a package only in a second in which nobody has.
LEMMA PackagesStep ==
  ASSUME TypeOK, PackagesApart, \A i \in Jobs : Sound(i), [Next]_vars
  PROVE  PackagesApart'
<1> USE DEF Goto, Return, out, job, bounds
<1>1. \A i \in Jobs : OwnPackage(i)
  BY DEF Sound
<1>2. ASSUME NEW j \in Jobs, MakeBundle(j) PROVE PackagesApart'
  <2>1. \A k \in Jobs \ {j} : Aside(k)
    BY <1>1, <1>2, OthersAside DEF JobStep, BuildStep
  <2>2. archives' = archives /\ sums' = sums
    BY <1>2 DEF MakeBundle
  <2>3. CASE bundles[now] # None
    <3>1. pc'[j] = "idle" /\ bundles' = bundles
      BY <1>2, <2>3 DEF MakeBundle, TypeOK
    <3> QED
      BY <2>1, <2>2, <3>1 DEF Aside, PackagesApart, Building
  <2>4. CASE bundles[now] = None
    <3>1. bundles' = [bundles EXCEPT ![now] = Begun] /\ stamp'[j] = now
          /\ now \in Stamps
      BY <1>2, <2>4 DEF MakeBundle, TypeOK
    <3>2. \A k \in Jobs \ {j} : pc'[k] \in Building =>
            pc[k] \in Building /\ stamp'[k] = stamp[k] /\ stamp[k] # now
      BY <1>1, <2>1, <2>4 DEF Aside, OwnPackage
    <3>3. \A s \in Stamps : bundles'[s] = None => bundles[s] = None
      BY <3>1, EmptyMap, NoneAssumption DEF TypeOK
    <3> QED
      BY <2>1, <2>2, <3>1, <3>2, <3>3 DEF Aside, PackagesApart
  <2> QED
    BY <2>3, <2>4
<1>3. ASSUME NEW j \in Jobs,
             pc'[j] \in Building => pc[j] \in Building /\ stamp'[j] = stamp[j],
             \A k \in Jobs \ {j} : Aside(k),
             \A s \in Stamps : bundles'[s] = None =>
               /\ bundles[s] = None
               /\ archives'[s] = archives[s] /\ sums'[s] = sums[s]
      PROVE  PackagesApart'
  BY <1>3 DEF Aside, PackagesApart
<1>4. ASSUME NEW j \in Jobs, Invoke(j) \/ SuiteStep(j) \/ Kill(j)
      PROVE  PackagesApart'
  <2>1. /\ pc'[j] \notin Building
        /\ bundles' = bundles /\ archives' = archives /\ sums' = sums
    BY <1>4 DEF Invoke, SuiteStep, RunGate, Truncate, Write, ExperimentFails,
       Handset, Report, AfterExperiment, Kill, TypeOK, Building
  <2> QED
    BY <1>1, <1>3, <1>4, <2>1, OthersAside DEF JobStep
<1>5. ASSUME NEW j \in Jobs,
             RunTests(j) \/ CollectFiles(j) \/ HashFile(j) \/ Raise(j)
             \/ Finish(j)
      PROVE  PackagesApart'
  <2>1. /\ pc[j] \in Building /\ stamp' = stamp
        /\ bundles' = bundles /\ archives' = archives /\ sums' = sums
    BY <1>5 DEF RunTests, CollectFiles, HashFile, Raise, Finish, Building
  <2> QED
    BY <1>1, <1>3, <1>5, <2>1, OthersAside DEF JobStep, BuildStep
<1>6. ASSUME NEW j \in Jobs,
             WriteBundle(j) \/ OpenArchive(j) \/ ArchiveFile(j)
             \/ CloseArchive(j) \/ OpenChecksum(j) \/ WriteChecksum(j)
      PROVE  PackagesApart'
  <2>1. pc[j] \in Building /\ stamp' = stamp
    BY <1>6 DEF WriteBundle, OpenArchive, ArchiveFile, CloseArchive,
       OpenChecksum, WriteChecksum, Building
  <2>2. stamp[j] \in Stamps /\ bundles[stamp[j]] # None
    BY <1>1, <2>1 DEF OwnPackage
  <2>3. [manifest |-> manifest[j], status |-> status[j]] \in Bundles
        \/ ~WriteBundle(j)
    <3>1. ASSUME WriteBundle(j) PROVE status[j] \in Statuses
      BY <2>1, <3>1 DEF Sound, Verdict, WriteBundle
    <3> QED
      BY <3>1 DEF Bundles, TypeOK
  <2>4. \A s \in Stamps \ {stamp[j]} :
          bundles'[s] = bundles[s] /\ archives'[s] = archives[s]
          /\ sums'[s] = sums[s]
    BY <1>6, <2>2 DEF TypeOK, WriteBundle, OpenArchive, ArchiveFile, CloseArchive,
       OpenChecksum, WriteChecksum
  <2>5. bundles'[stamp[j]] # None
    BY <1>6, <2>2, <2>3, NoneAssumption DEF TypeOK, WriteBundle, OpenArchive,
       ArchiveFile, CloseArchive, OpenChecksum, WriteChecksum
  <2> QED
    BY <1>1, <1>3, <1>6, <2>1, <2>4, <2>5, OthersAside DEF JobStep, BuildStep
<1>7. CASE Edit \/ Tick \/ UNCHANGED vars
  <2>1. \A k \in Jobs : Aside(k)
    BY <1>7, AllAside
  <2>2. bundles' = bundles /\ archives' = archives /\ sums' = sums
    BY <1>7 DEF Edit, Tick, vars
  <2> QED
    BY <2>1, <2>2 DEF Aside, PackagesApart
<1> QED
  BY <1>2, <1>4, <1>5, <1>6, <1>7 DEF Next, BuildStep

\* A checksum file changes when the job of the package opens or writes it.
LEMMA SumChanges ==
  ASSUME TypeOK, \A i \in Jobs : Sound(i), [Next]_vars,
         NEW s \in Stamps, sums'[s] # sums[s]
  PROVE  \E j \in Jobs : (OpenChecksum(j) \/ WriteChecksum(j)) /\ stamp[j] = s
<1> USE DEF out, job, bounds
<1>1. sums' # sums
  OBVIOUS
<1>2. PICK j \in Jobs : OpenChecksum(j) \/ WriteChecksum(j)
  <2>1. ASSUME NEW j \in Jobs, Invoke(j) \/ SuiteStep(j) PROVE FALSE
    BY <1>1, <2>1 DEF SuiteStep, Invoke, RunGate, Truncate, Write, ExperimentFails,
       Handset, Report
  <2>2. ASSUME NEW j \in Jobs, BuildStep(j)
        PROVE  OpenChecksum(j) \/ WriteChecksum(j)
    BY <1>1, <2>2 DEF BuildStep, MakeBundle, RunTests, CollectFiles, HashFile, Raise,
       WriteBundle, OpenArchive, ArchiveFile, CloseArchive, Finish
  <2>3. ASSUME (\E j \in Jobs : Kill(j)) \/ Edit \/ Tick \/ UNCHANGED vars PROVE FALSE
    BY <1>1, <2>3 DEF Kill, Edit, Tick, vars
  <2> QED
    BY <2>1, <2>2, <2>3 DEF Next
<1>3. stamp[j] \in Stamps
  BY <1>2 DEF Sound, OwnPackage, OpenChecksum, WriteChecksum, Building
<1>4. stamp[j] = s
  BY <1>2, <1>3 DEF OpenChecksum, WriteChecksum, TypeOK
<1> QED
  BY <1>2, <1>4

\* What is sealed at last is what was in hand.
LEMMA SealedStep ==
  ASSUME TypeOK, TypeOK', \A i \in Jobs : Sound(i), SealedIsWhole,
         ShippedAsTested, SealedStays, [Next]_vars
  PROVE  SealedIsWhole' /\ ShippedAsTested'
<1>1. ASSUME NEW s \in Stamps, sums'[s] # sums[s]
      PROVE  /\ archives'[s].closed
             /\ DOMAIN archives'[s].files = DOMAIN archives'[s].bundle.manifest
             /\ sums'[s] \notin {None, Blank} =>
                  /\ archives'[s] = sums'[s]
                  /\ \A f \in DOMAIN archives'[s].files \ disturbed'[s] :
                       archives'[s].files[f] = archives'[s].bundle.manifest[f]
                  /\ archives'[s].bundle.status = "PASS"
                       /\ "code" \notin disturbed'[s]
                       => /\ "code" \in DOMAIN archives'[s].files
                          /\ archives'[s].files["code"] = "good"
  <2>1. PICK j \in Jobs : (OpenChecksum(j) \/ WriteChecksum(j)) /\ stamp[j] = s
    BY <1>1, SumChanges
  <2>2. /\ archives' = archives /\ pc[j] \in {"seal", "checksum"}
        /\ \/ sums'[s] = Blank
           \/ sums'[s] = archives[s] /\ disturbed'[s] = written[j]
    BY <2>1 DEF OpenChecksum, WriteChecksum, TypeOK
  <2>3. /\ archives[s].closed /\ todo[j] = {}
        /\ archives[s].bundle = [manifest |-> manifest[j], status |-> status[j]]
        /\ DOMAIN archives[s].files \union todo[j] = DOMAIN manifest[j]
        /\ \A f \in DOMAIN archives[s].files \ written[j] :
             archives[s].files[f] = tree[f]
    BY <2>1, <2>2 DEF Sound, ArchiveInHand
  <2>4. /\ archives[s].bundle.manifest = manifest[j]
        /\ archives[s].bundle.status = status[j]
        /\ DOMAIN archives[s].files = DOMAIN manifest[j]
    BY <2>3
  <2>5. /\ \A f \in DOMAIN manifest[j] \ written[j] : manifest[j][f] = tree[f]
        /\ status[j] = "PASS" /\ "code" \notin written[j] =>
             tree["code"] = "good" /\ "code" \in DOMAIN manifest[j]
    BY <2>2 DEF Sound, FoundIsThere
  <2> QED
    BY <2>2, <2>3, <2>4, <2>5
<1>2. ASSUME NEW s \in Stamps, sums'[s] = sums[s], sums[s] # None
      PROVE  archives'[s] = archives[s] /\ (Sealed(s) => disturbed'[s] = disturbed[s])
  BY <1>2 DEF SealedStays
<1>3. SealedIsWhole'
  BY <1>1, <1>2 DEF SealedIsWhole, Sealed
<1>4. ShippedAsTested'
  BY <1>1, <1>2 DEF ShippedAsTested, Sealed
<1> QED
  BY <1>3, <1>4

-----------------------------------------------------------------------------
(* The invariant                                                           *)

LEMMA InvariantInit == Init => IInv
<1> SUFFICES ASSUME Init PROVE IInv
  OBVIOUS
<1>1. TypeOK
  BY TypeInit
<1>2. PackagesApart /\ SealedIsWhole /\ ShippedAsTested
  BY DEF Init, PackagesApart, SealedIsWhole, ShippedAsTested, Sealed, Building
<1>3. \A j \in Jobs : Sound(j)
  BY NoneAssumption DEF Init, Sound, OwnPackage, FoundIsThere, ArchiveInHand,
     Verdict, ExitIsTrue, Building, Suite
<1> QED
  BY <1>1, <1>2, <1>3 DEF IInv

LEMMA InvariantStep == IInv /\ [Next]_vars => IInv'
<1> SUFFICES ASSUME IInv, [Next]_vars PROVE IInv'
  OBVIOUS
<1> USE DEF IInv
<1>1. \A j \in Jobs : OwnPackage(j) /\ ArchiveInHand(j)
  BY DEF Sound
<1>2. TypeOK'
  BY <1>1, TypeStep
<1>3. SealedStays
  BY <1>1, SealedFrame
<1>4. PackagesApart'
  BY PackagesStep
<1>5. SealedIsWhole' /\ ShippedAsTested'
  BY <1>2, <1>3, SealedStep
<1>6. ASSUME NEW j \in Jobs, JobStep(j) PROVE \A k \in Jobs : Sound(k)'
  <2>1. Sound(j)'
    BY <1>2, <1>3, <1>6, EmptyHanded, BeginStep, HashStep, ArchiveStep
    DEF JobStep, BuildStep
  <2>2. ASSUME NEW k \in Jobs \ {j} PROVE Sound(k)'
    BY <1>1, <1>3, <1>6, <2>2, OthersAside, AsideStep
  <2> QED
    BY <2>1, <2>2
<1>7. ASSUME Edit \/ Tick \/ UNCHANGED vars PROVE \A k \in Jobs : Sound(k)'
  BY <1>3, <1>7, AllAside, AsideStep
<1>8. \A k \in Jobs : Sound(k)'
  BY <1>6, <1>7 DEF Next, JobStep
<1> QED
  BY <1>2, <1>4, <1>5, <1>8

LEMMA InvariantHolds == Spec => []IInv
  BY InvariantInit, InvariantStep, PTL DEF Spec

\* The variables of a delivery keep their types.
THEOREM TypeCorrect == Spec => []TypeOK
<1>1. IInv => TypeOK
  BY DEF IInv
<1> QED
  BY <1>1, InvariantHolds, PTL

\* Whatever jobs run at a time and however they end, an archive that has a
\* checksum is complete and stays as it was sealed.
THEOREM SealedPackagesAreWhole == Spec => []SealedIsWhole
<1>1. IInv => SealedIsWhole
  BY DEF IInv
<1> QED
  BY <1>1, InvariantHolds, PTL

\* What a sealed package ships is what was hashed and, if it says PASS, what was
\* tested, except for files that were written while it was being built.
THEOREM PackagesShipWhatWasTested == Spec => []ShippedAsTested
<1>1. IInv => ShippedAsTested
  BY DEF IInv
<1> QED
  BY <1>1, InvariantHolds, PTL

\* The exit status of run_all.py and build_delivery.py tells whether a package
\* was sealed and whether a test has failed.
THEOREM ExitStatusIsTrue == Spec => []ExitTellsDelivery
<1>1. IInv => ExitTellsDelivery
  BY DEF IInv, Sound, ExitIsTrue, ExitTellsDelivery
<1> QED
  BY <1>1, InvariantHolds, PTL
=============================================================================
