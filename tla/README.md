# EDEN OS in TLA+

This directory holds a formal model of the software in `src/`: TLA+ modules
translated from the Python source, configurations with which TLC checks them on
small instances, and theorems that TLAPS proves for instances of any size.

    tlc -workers 2 -config ManifoldGate.cfg ManifoldGate.tla   # a run
    tlapm ManifoldGateProofs.tla                               # the proofs of a module

`PROJECT.json` lists the components, the runs, the source lines behind every
definition (`map`), the hazards of the code and the properties aimed at them,
the disagreements found, and for every checked property a mutation of the model
that breaks it. Definitions introduced by a comment `Mutation:` are these; they
belong to no specification.

Contents: [inventory](#inventory) · [modules](#modules) · [runs](#runs) ·
[what the checks show](#what-the-checks-show) · [fairness](#fairness) ·
[proofs](#proofs) · [not modelled](#not-modelled) · [plan](#plan)

## Inventory

EDEN OS is a collection of Python programs around one idea: work is done by
small components, and every result is bound by hashes to what it came from.

    manifold_encrypt.py | manifold_gate.py | open_connector.py      one shell pipeline
                                 |
                     log, head and replay files

    eden (cli.py) --spawns, signals--> EDEN Core (core.py), HTTP, threads
         |                                |  Refinery, ChronoNav, Chrysalis, Marble
      pid file                         state.json via state.tmp

    eden-deliver: run_all.py --child process--> build_delivery.py --> package
                     `--> tests, experiments: the working tree

    azure_fair_ab.py: harness --HTTP--> service with two arms --> provider
                                                  `--> EDEN Core components

    run_termux.py: trials, sampler thread --HTTP--> EDEN Core
    eden_refinery_benchmark.py: pool of threads --HTTP--> provider
    flagship, capacity, avoidance, quickstart, structured reuse: no partner

| Component | State it keeps | Operations | What is hard about it | What makes it correct |
|---|---|---|---|---|
| **Manifold gate** `neural-interface/manifold_gate.py` | Marble log, head file, replay file; the same in memory | start-up check, verify a frame, mint a Marble, append, replace head, replace replay state, print | killed between any two writes and inside one; frames repeated, late, damaged | one unbroken chain; a payload handed over once, in order, never without evidence; broken evidence stops it |
| **Manifold sender, connector** `manifold_encrypt.py`, `open_connector.py` | session and next sequence, in memory only | seal a line; report a verified event | a restart of either side; input lost with the gate | what is observed is what was sealed |
| **EDEN Core server** `eden_core/core.py` | counters under a lock; `state.json`, `state.tmp` | 7 endpoints, persist, boot, interrupt | handler threads overlap; the files are written outside the lock; killed in between | counts are not lost; files are whole, current and never ahead |
| **Launcher** `eden_core/cli.py`, `bin/eden` | pid file | start, stop, restart, launch, status, serve | commands overlap with each other and with servers that boot, hang, die; pids are reused | no server without a record; success means what it says; nothing else is signalled |
| **Fair A/B experiment** `experiments/azure-fair-ab-001` | two caches, event log, record files, manifest | begin, post, evaluate step by step, log, write, abort | an answer after its timeout; failures after the provider was paid; a second run over the first one's files | the arms are alike and apart; every call is reported; the manifest is consistent |
| **Delivery** `delivery/`, `bin/eden-deliver` | bundle directories, archives and checksums in `delivery/out` | gate, experiments, report; tests, hash, archive, checksum | the tree changes while it is hashed and archived; two jobs in one second; killed half way | a sealed package is whole and shipped as tested; the exit status tells what was delivered |
| **Marble** `marble/marble.py` | none; a Marble carries its hash | mint, verify_integrity, verify_lineage | cycles, diamonds, duplicates, missing parents; recursion depth; what the hash covers | the graph verdict is exact; the integrity verdict is exact |
| **ChronoNav** `chrononav/scheduler.py`, **Chrysalis** `chrysalis/chrysalis.py` | none | choose_workers; evaluate | ties, order of input, NaN | the choice is the one the policy names |
| **Integrated run** `core.py:153-183` | none; its counts are the server's | refinery, schedule, evaluate, mint, verify | refused half way | its Marble verifies |
| **Handset experiments** `experiments/eden-core-ab-001`, `-002` | cache file, row files, summary; the list of samples, shared by two threads | begin, prewarm, a window per trial (open, work, stop, join, close), rows, summary | the sampler outlives its join; a run is killed and leaves its cache and rows; EDEN Core or the battery fails in a window | a row holds what was integrated; a summary stands over one run's results |
| **Refinery benchmark** `eden-refinery` | records and manifest files; the pool's queue | call with retries, write records, add up, write manifest | answers that are paid for and cannot be read; an odd Merkle level; killed between the two files | the bill is accounted for; the manifest fixes the records |
| **Structured reuse, flagship, capacity, avoidance, quickstart** `experiments/` | the stores of their arms, in memory | build requests, answer them arm by arm, report | a stored output that changes; duplicates within a request; the order of the arms | what is reused is what was built to be; a report of equivalence is right |
| Satellite simulation, RF establishment, academic and validation builds, CI | see [not modelled](#not-modelled) | | | |

How they interact: the launcher knows the server by its pid file and by the
health endpoint only; the server calls Marble, ChronoNav and Chrysalis as plain
functions inside a request; the fair A/B service calls the refinery and Marble
functions of EDEN Core in its own process; the three Manifold programs share
nothing but pipes; delivery jobs share the working tree with each other and
with whoever edits it.

## Modules

| Module | Models | State and actions |
|---|---|---|
| `ManifoldGate` | `manifold_gate.py` | The three files, the memory of the process (`accepted`, `prev`, `line`) and `pc`, which is the next write. One action per write, in the order of `main`: `MintMarble`, `AppendMarble`, `WriteHead`, `AcceptSequence`, `Handoff`; `Start` and `Refuse` are `load_prev` and `load_replay_state`; `Crash` can fall between any two, `CrashWhileAppending` leaves a torn line. |
| `EvidencedDelivery` | the promise of the gate | A ledger and the deliveries from it, two actions. `ManifoldGate` implements it. |
| `ManifoldPipeline` | sender, gate, connector | `INSTANCE ManifoldGate`, with the frames on the wire, damage, redelivery, and the sender dying of the broken pipe when the gate dies. |
| `EdenCore` | `core.py` | Per thread: the request, how far it is in its `Program` of counts, the value it has read (`loaded`) and its copy for the file (`snap`). `_inc` is `Load` and `Store` under `lock`; `persist_state` is `Copy`, `Open`, `Write`, `Publish`. A file is its content, and an open file follows a rename, as on POSIX. `ScanRaises` is an artifact that vanishes under a scan, `Interrupt` the Ctrl-C that makes the main thread persist beside the handlers. History: `unsaved`, the counts that `state.json` may lack. |
| `CounterTable` | the promise of the core | One table of counters and a file: `Start`, `Count`, `Persist`, `Stop`, no threads. `EdenCore` implements it. |
| `Launcher` | `cli.py`, `bin/eden` | The pid file, what runs under each pid (a server that boots, serves, ends, is a zombie; another program), the port, and per shell the command's program counter. Every look at the file or the process table is a step; `Abandon` ends a command at any of them. History: `unrecorded`, the servers that no pid file has named. |
| `FairAB` | `azure_fair_ab.py` | The harness (`phase`, `work`, `arms`, `records`), one handler (`pc` …), the caches, and the files. |
| `Handset` | `run_termux.py` of AB-001 and AB-002 | The main thread (`pc`), the list of samples and the sampler thread (`sampler`, `held`), whose taking of a sample and appending of it are two actions, as they are for the main thread's closing one (`closing`: `CloseWindow`, `AppendClosing`); the files. `Join` needs the sampler to have ended, `JoinExpires` that it has not. `Kill` and `Dies` leave the files as they are, or one half written. |
| `RefineryBenchmark` | `eden_refinery_benchmark.py` | The queue of the pool, per thread its request and attempt, the records; as history what the provider has sent. `LoseAnswer` is billed and tried again, `FailCall` tried again, `RefuseCall` final. `Root` climbs the Merkle tree level by level, each being the one `Above` the last. |
| `ReuseTrials` | the five scripts of exact reuse | One `Build…` per script, then one action per turn of an arm: `Control`, `WholeCache`, `ComponentCache`, `Eden` with its check, `EdenByForm` without; `Tamper` changes a stored output, `FlagshipOfNothing` asks for no requests. |
| `Experiments` | the experiment programs side by side | `program` says which one runs; the others' variables have no value. One run for modules that share nothing, and the fairness under which runs end. |
| `Delivery` | `run_all.py`, `build_delivery.py` | The tree (code under test, results of experiments), what is in `delivery/out`, and per job its program counter, verdicts and manifest. Each file is hashed in one action and archived in a later one, and the checksum file is opened before it is written; `Kill`, `Edit` and the clock's `Tick` can fall anywhere. |
| `MarbleLineage` | `verify_lineage` | The recursive `dfs` as an explicit call stack: `Descend`, `Skip`, `ReportCycle`, `Return`, and `Raise` at the recursion limit. |
| `PythonValues`, `ChronoNav`, `Chrysalis`, `Marble` | the evaluators and Marble's hash | Operators: Python's comparison of floats with NaN and its `min`; `ChooseWorkers`; `Selected`; `Mint`, `VerifyIntegrity`, `VerificationRaises`. |
| `IntegratedRun` | `integrated_run`, then the life of its Marble | One action per stage, each with its refusals; then `Edit`, `Attach`, `VerifyAgain` (or `VerifyRaises`), `MintAgain` by clients. |
| `MC…` | instances for TLC | Definitions that a configuration cannot write, and symmetry sets. |
| `…Proofs` | theorems | One per component that has theorems; `ExperimentsProofs` has those of `FairAB`, `Handset`, `RefineryBenchmark` and `ReuseTrials`, about `SpecExperiments`, where a run checks them. |

Abstractions that hold throughout: a SHA-256 is injective and cannot be
guessed, so a hash is what it was computed from, or a number never given twice;
a message either decodes, decrypts and authenticates (it is *intact*) or is
rejected before any state is looked at; text, wording and timestamps are left
out. Each module's header names its own abstractions. Code outside `src/` (the
operating system killing a process, the transport, POSIX files, Python's
recursion limit) is marked external in the map.

## Runs

Every bound is a constant of the module, named there as `bound:`.

| Run | Instance and why it is enough | Checks |
|---|---|---|
| `gate` | two source/session pairs, one payload, sequences 0..1, two crashes. Two pairs tell per-pair from global replay state; two sequences give new, repeated and older frames; two crashes give a crash during the repair of the first. The number of frames is not bounded: redelivery is. | `ChainIntact`, `HandoffInOrder`, `HandoffBacked`, `LogAccounted`, `DamageIsOneLine`, `EvidenceGrows`, liveness `FreshFrameHandedOver`, refinement `ImplementsDelivery` |
| `pipeline` | two frames sealed by up to two senders, which may reuse a session with another payload and start at either number, so also below an earlier one; one damaged, one fed again, one crash: each mishap can meet each other | `ObservedAsSealed`, liveness `SealedIsObserved` |
| `core_sequential` | one handler thread, every endpoint, three requests, scans that fail, an interrupt: a run, a refusal after the count, what follows them, and a restart at any point | `StateCurrent`, liveness `RequestsAnswered` |
| `core_concurrent` | two threads, two requests, the endpoints with one, two and six counts (verify counts void ones too), scans that fail, an interrupt; threads are symmetric | `CountersCoherent`, `NoLostCount`, refinement `ImplementsTable` |
| `core_persisted` | two threads, a mint and an envelope | *violation* of `MintIsPersisted` |
| `launcher` | one operator, five commands in any order (four of them run, each may be interrupted at any step), servers started by hand, three pids, two faults: a pid for the old server, the new one and an unrelated program | `NoOrphan`, `OnlineUnlessRival`, liveness `SpawnedServes` |
| `launcher_concurrent` | two shells and a foreground server, commands that are abandoned, three commands, three pids, two faults; shells and pids are symmetric | `UnrelatedUntouched` |
| `launcher_foreground` | one start beside a foreground server | *violation* of `OnlineIsRecorded` |
| `experiments` | *Fair A/B*: two tasks, three requests per arm (so one repeats), every order of tasks and arms, two runs into one directory. *Handset*: AB-001 with two trials per arm (a miss and a hit of the cache), AB-002 with one, two samples before the closing one (the opening one, if there is one, and one or two that may be late), two requests per window, two runs. *Refinery*: three requests (an odd level), two threads, two attempts, two runs. *Reuse trials*: up to four requests, all reuse fractions in quarters, sections repeated within and between requests; four requests are one block of the structured trial | `ArmsAlike`, `CallsReported`, `LogMatchesRecords`; `SamplesWhole`, `ResultsOfOneRun`; `BillAccounted`, `ManifestFixesRecords`; `ReuseAsBuilt`, `PositionsBalanced`; liveness `ExperimentsEnd` |
| `delivery` | two jobs, two invocations (each of the suite or of the build alone, with any arguments), two seconds, one edit or removal by hand: two packages in one second or in two, a file that changes under either; jobs are symmetric | `SealedIsWhole`, `ShippedAsTested`, `ExitTellsDelivery` |
| `lineage` | up to three Marbles with ids 1..3 or none, edited or intact, parents among them and a fourth never supplied: self-loops, 2- and 3-cycles, diamonds, duplicates, dangling parents; a recursion limit of three, so that it is met | `LineageDecided`, `IntactNeverCyclic`, `RaisedOnlyWhenDeep` |
| `integrated_run` | two profiles and two candidates in both orders, with equal, different and NaN numbers; two edits, so that one can be undone | `ScheduleIsBest`, `SelectionIsBest`, `VerdictTracksContent` |

`TypeOK` of `ManifoldGate`, `EdenCore`, `MarbleLineage`, `Launcher`, `Delivery`
and `FairAB` is proved and no run repeats it; the other modules give the values
of each variable at its declaration, and where they have proofs these carry the
types they need (`SenderType`, `Ledger`, `SamplerType`, `HandsetType`).
`CHECK_DEADLOCK FALSE` stands where the program may stop: an operator who issues
no more commands, an experiment that has ended, a pipeline or a server that has
used up its bounds.

## What the checks show

**Manifold.** In whatever order frames arrive and wherever the process is
killed, the log is one chain, the output of a pair is strictly increasing, and
everything printed is in the log, under the head and covered by the replay file.
`LogAccounted` bounds the price: each crash can cost one extra record and one
missing handoff, no more. `DamageIsOneLine` says that losses never add up in the
evidence itself: because a start refuses anything else, log and head agree, but
for an incomplete last line or one Marble that the head does not know. The gate
implements `EvidencedDelivery`, in which crashes do not exist. In the pipeline a
sender may start at any number (`--start-sequence`); what it seals below the
numbers of its session is dropped, and everything that advances its session is
observed, over gaps too (`SealedIsObserved`).

The extra record is why nothing sharper holds. A comment in the gate
(`manifold_gate.py:299-301`) says that a crash *can* fail closed there; in this
case it does not: log and head are written before the replay file, and killed
between the two, the next gate finds log and head in agreement, loads the old
replay state and records the frame again. Downstream does not see this, because
the first record was not handed over.

**EDEN Core.** With one request at a time a serving process has a whole
`state.json` at every instant, a kill included. Between requests it equals the
counters but for one thing: `persist_state` scans the artifacts, and if one
vanishes under the scan (`core.py:83`) it raises after the count. That request
is answered 400 although it was counted, and the file lacks its count until it
is next replaced. `StateCurrent` says that the file lacks at most one count for
each such request (`unsaved`) and nothing else. It claims nothing of a server
that has been interrupted: then the main thread persists while a handler may be
persisting, through the same `state.tmp`, and what they leave can be unreadable.

With overlapping requests the counters stay exact (the lock) and no file ever
shows a table that no order of requests could produce, but the file may be
empty, go back, or lack a request that was answered: all handlers truncate,
write and rename one `state.tmp` outside the lock. `CounterTable` says what
remains for a client or a reader of `state.json`: one table in which counts are
made one at a time, and a file that starts at zero with each life of the
process, is never ahead of the table, and does not go missing. Copying under the
lock and writing outside it, the code keeps its lock short; the price is
`MintIsPersisted`, which the repository's own integration test asserts for one
client.

**Launcher.** For one operator the pid file names the running server whenever no
command runs, also after a stop that gave up, a start that timed out and a
command that was interrupted; and when a stop has succeeded no recorded server
runs. The exceptions are the servers that no file has ever named: one started by
hand (`eden serve`), and the child of a start that was interrupted between
starting it and recording its pid (`cli.py:138-139`). `NoOrphan` lets these and
no others be missing (`unrecorded`). The health poll asks the port, not the
child, so what ONLINE means depends on them, too: unless one of them runs, the
pid reported is the server that answers (`OnlineUnlessRival`); with one on the
port, `start` reports ONLINE with the pid of a child that fails to bind
(`OnlineIsRecorded`, a finding).

With overlapping commands both properties are lost (two starts overwrite each
other's record, one clears what the other has just written), and the code
promises nothing there; what remains is that the launcher never signals a
process that is not an EDEN server. This rests on a stated assumption: a pid is
not reused within the lifetime of a command that has read it, since kernels hand
out pids in turn.

**Fair A/B.** The comparison is fair in the sense a model can state: for every
order of tasks and arms, each arm pays once per task.
A manifest, when one is written, commits to a log that holds exactly the
records, although handlers can outlive their request and the directory can hold
an earlier run. An aborted second run leaves the first manifest beside files it
does not describe; nothing in the code says otherwise.

**Handset.** `SamplesWhole` says what the join of three seconds is worth. If the
sampler has ended by then, a row holds the samples that were integrated, in the
order in which they were taken. If not, one sample at most can be out of place:
out of order before or behind the closing one (whose taking lasts a while, too),
or in the row and its count but not in the joules. It cannot reach the next row,
whose list is another. `ResultsOfOneRun` rests on small things: AB-001 removes
the cache file before its first trial, AB-002 overwrites it, and a window that
raises or has done no request ends the run before its summary. The rows of such
a run stay, and those of a later one replace them one by one; only a summary
says that they belong together.

**Refinery benchmark.** The provider bills what it sends. An answer that cannot
be read is asked for again, so the bill can exceed the report by the answers
that were unread and, of requests that failed altogether, by all of theirs;
`BillAccounted` says that it exceeds it by nothing else. Because an odd level
repeats its last node, a Merkle root alone does not fix a list; with the number
of records, which the manifest holds, it does. A manifest says nothing about
records whose hash it does not carry: killed in time, a run leaves the earlier
manifest beside its own records.

**Reuse trials.** The EDEN arms of four scripts commit to what they store and
raise if it has changed. That of the avoidance script looks at its length only;
what makes its report right is that it compares the outputs with those of the
control arm and refuses to report otherwise. The structured trial's rotation
gives each arm each position once per block of four requests, whatever order
was drawn; a last block that is not full is not balanced. The flagship script
does not look at `--requests`: asked for none, it divides by zero after its EDEN
arm and reports nothing (`FlagshipOfNothing`).

**Delivery.** The tree is read twice, once for the hashes and once for the
archive, after tests that ran before either. `ShippedAsTested` says what this
costs: a sealed package can differ from its manifest, or a PASS from the code
shipped with it, but only in files that were written while the package was being
built. Packages are named by the second, and `mkdir` without `exist_ok` is the
only lock: it suffices. Whoever is killed or dies of a file that has vanished
leaves a bundle and perhaps part of an archive, but no checksum file beside a
broken archive, and no exit status of 0. Killed while it writes the checksum, it
leaves a file without one beside an archive that is whole. The suite runs the
tests of the package a second time, so its verdict and the package's can differ;
the exit status is 0 only when both passed.

**Marble lineage.** The search reports an error exactly if a parent is missing
or the graph has a cycle, and never a cycle among intact Marbles (a cycle needs
a hash that contains itself). The verdict is about `by_id`: of two supplied
Marbles with one id the last counts. A chain longer than the recursion limit
ends in an uncaught `RecursionError`; a cycle never does.

**NaN and ties.** JSON numbers may be NaN, and every comparison with NaN is
false. In ChronoNav a NaN prediction passes `seconds <= 0` and fails to meet
any deadline. When no profile meets the deadline, `min` keeps the first element
unless a later one is *smaller*: a NaN that comes first is therefore selected
over a profile that is faster, one that comes later is not. Two profiles that
share the NaN of the JSON decoder count as equally fast, since tuples compare
their elements by identity first, and then the fewer workers decide.
`ScheduleIsBest` says exactly this: the deadline is met or not and the workers
are fewest, with NaN as well; and where no profile meets the deadline, the one
chosen is the fastest of those that are NaN if the first is, and of those that
are not if it is not. In Chrysalis the gates are written so that NaN fails them,
so `SelectionIsBest` needs no exception. Ties are broken by the smaller id,
hence the choice does not depend on the order of the candidates.

**Integrated run.** A run that is answered has a Marble that verifies in every
respect, and after any edits, attachments and mintings a Marble verifies
exactly if its core is the one that was minted. Before any edit its policy is
committed, its evidence suffices for its class, and it claims no attestation.
Verification takes the structure for granted that it has checked, which does not
include that provenance, policy and actor are objects: of a Marble with another
value there it raises instead of giving a verdict (`VerificationRaises`).

Two disagreements with documents and tests of the repository are
listed under `findings` in `PROJECT.json`, each with the run that exhibits it.

## Fairness

| Specification | Assumed | Why the code justifies it |
|---|---|---|
| `ManifoldGate!FairSpec` | `WF(HandleLine)` | the loop body is sequential and waits for nothing but its own writes; that a line arrives is not assumed |
| `ManifoldPipeline!FairSpec` | `WF` of the gate's reading and working and of the connector | sequential loops over pipes whose other end is running; the sender need not send, nothing need go wrong |
| `EdenCore!FairSpec` | `WF(HandlerStep(t))` per thread, `WF(MainStep)` | Python threads are scheduled preemptively. Weak fairness per thread does not by itself promise that a contended lock is acquired; the runs have finitely many requests, after which a waiting thread is alone |
| `Launcher!FairSpec` | `WF(CommandStep(s))`, `WF(ServerStep(p))` | separate processes; commands poll with bounded loops, a bind and a SIGTERM take effect. No command has to be issued, no fault has to occur |
| `Experiments!SpecExperiments` | `Progress`: `WF` of the main loop of each program and of the pool's threads; `Sampling`: of the sampler thread | a single process whose loops are bounded by a list, a number of attempts or a deadline, with timeouts on its calls; the battery thread is scheduled beside it and its call has a timeout. Nothing has to fail, and a process may be killed |

The harness of `FairAB`, `Delivery`, `MarbleLineage` and `IntegratedRun` state
safety only.

## Proofs

The proofs hold for every value of the constants that satisfies the named
assumptions of the modules. These say that bounds are natural numbers, that sets
of threads and tasks are finite and large enough for the program to run at all
(a benchmark makes at least one attempt, AB-001 has at least one trial, a
workload has room for each task), and that special values such as `None`,
`NoLine` or `Absent` are none of the ordinary ones. TLC evaluates each of them.
Two hypotheses are more than that, and are written in the theorems that need
them: `OneHandler` for EDEN Core, one request at a time, and `SingleOperator` for
the launcher, one shell. Failing scans, interrupts, interrupted commands and
servers started by hand are not excluded. Each hypothesis is a use of the
program that a run checks, and without it TLC finds the property violated.

Each proof has the same shape: strengthen the property to an inductive
invariant; `Init` implies it; one lemma or step per action preserves it, with one
step per part that the action can disturb; the theorem by PTL. TLC checked the
invariants on the instances of the runs first.

**`ManifoldGateProofs`**: `TypeCorrect`, `ChainStaysIntact`,
`HandedOverInOrder`, `HandedOverWithEvidence`, `EvidenceOnlyGrows`,
`DamageStaysOneLine`, `GateRefinesDelivery`, `LogIsAccountedFor`. None of
these is inductive, because they speak of files while the next step depends on
memory and on how far the current line has got. `IInv` adds three parts: ids are
given in increasing order and the head is one of them (`IdsGiven`); memory
equals the files, except for the writes the current line has not reached yet
(`MemoryMirrors`); the line in hand is newer than everything claimed for its
pair until it is claimed itself, and even then newer than everything handed
over (`LineFresh`). The refinement follows from the same invariant: only
`AppendMarble` moves the ledger, only `Handoff` the deliveries.
`LogIsAccountedFor` counts (`RepetitionsCounted`): a sequence that is in the log
but not covered by the replay file is one that a crash has left behind, and a
repetition in the log uses one of these up. So the length of the log and the
number of uncovered sequences together are bounded by the different sequences
and the crashes.

**`ManifoldPipelineProofs`**: `PipelineRunsTheGate`, that what the gate does in
the pipeline is a behaviour of the gate alone, whatever is done to its input;
thus every theorem above holds of it. `WhatIsObservedWasSealed` comes from that
and from `Genuine`, which says at each place between the sender and the
connector where a frame can be (wire, line read, line verified, log, output)
that it is one that was sealed, and that the connector has seen a prefix of the
handoffs.

**`EdenCoreProofs`**: `TypeCorrect`, `NoCountIsLost`, `AlwaysCoherent`,
`FilesNeverAhead`, `CoreRefinesTable`, for any number of threads. That
integrated runs never outnumber the counts of a stage is not inductive: a run
adds its six counts one by one. `RunsAccounted` counts the runs that are past
stage *i* and not yet done: completed runs plus those are at most the counts of
the stage. A cardinality lemma per step does the rest. `LockOwner` says who may
be between reading and writing the table; `CopiesLag` that copies and files come
from the present life of the process and lag behind. The refinement adds
`Booting`: until there are handlers the main thread has `state.tmp` to itself,
and persists zeros. A store under the lock is then a count of `CounterTable`; a
write that lands in `state.json`, a rename or the last persist of an interrupted
server replaces its file by a table that lags; nothing else shows. For one
request at a time (`OneHandler`) there is `StateStaysCurrent`, whether or not
scans fail and the process is interrupted. `OneWriter` says that until an
interrupt there is one writer of `state.tmp`, how far it has got and that its
copy still equals the counters; `CountedBefore` that a handler that persists has
counted; `LagAccounted` that what `state.json` lacks is the count being
persisted and those of the requests refused since it was last replaced. With two
threads this fails: they share `state.tmp`.

**`LauncherProofs`**: `TypeCorrect`, `OnlyServersAreSignalled`, for any number
of shells, pids, commands and faults, with or without interrupted commands and
servers started by hand. `Safe` adds what a command knows of the pid it looks
at, that the port belongs to a live server, that a stop about to report
"stopped" has outlived the process it has signalled, and that a pid about to be
signalled was a server when it was looked at and cannot have become another
program since: a pid that a command remembers is not given to another program
(`Reuse`), which is an assumption of the model. For a single operator,
`NoServerIsOrphaned` and `OnlineStaysRecorded` (that is `OnlineUnlessRival`):
`ServersKnown` says at each place of a command which servers may run besides the
unrecorded ones (none, the one just started, or the one in the pid file),
`FileAsRead` that the file still says what the command has read, `OnlineKept`
that nobody signals the server reported ONLINE before the next command. The run
`launcher_foreground` shows what a foreground server does to the second.

**`DeliveryProofs`**: `TypeCorrect`, `SealedPackagesAreWhole`,
`PackagesShipWhatWasTested`, `ExitStatusIsTrue`, for any number of jobs and
seconds. `PackagesApart` is the ownership that the directory's creation gives:
of two jobs that build, each has its own second. Given that, `Sound` says of a
job, file by file, that what it has hashed or archived is what the tree holds,
unless that file was written since (`FoundIsThere`, `ArchiveInHand`), and that
its verdicts are those it was told or found (`Verdict`, `ExitIsTrue`). A step of
one job leaves the packages of all others alone, which is one lemma for all
steps. The checksum file adds a place, between its opening and its content, where
the archive is already closed and complete.

**`ExperimentsProofs`**, about `FairAB!Spec`, which `Experiments` composes with
the other programs: `TypeCorrect`, `ArmsAreAlike`, `AllCallsAreReported`,
`LogIsTheRecords`, for any workload and any number of runs. In a run in which
nothing has failed, both arms have got the same tasks up to the request in
flight (`InStep`); an arm has called the provider once for each task that it has
been asked, and the result is in its cache (`CalledOnce`); every call is in a
record or in the handler's hands (`CallsKept`); the events of an arm are its
records, in their order, up to the answer that is on its way (`LogInStep`).

The same module about the other experiments:

- `BillIsAccountedFor` of the Refinery benchmark, for any number of requests,
  threads and attempts: a request that the pool has not taken has no call and no
  record, a thread is at a request of its own, and its attempts are the calls
  made for it (`Pool`).
- `SamplesAreWhole` of the handset trials, for windows of any length: while the
  window is open the samples are in their order and the one that the sampler
  holds is the next (`Recording`); while the closing sample is in hand, all but a
  late one were taken before it (`Closing`); after it one sample can be late,
  exactly if the sampler has outlived its join, and what was integrated and
  counted lags behind the list by no more than that one (`Recorded`).
- `SummariesAreOfOneRun`, for any number of trials: the cache is the run's or
  empty (`OwnCache`), every trial that is done has left its row (`RowsLeft`), a
  rejected verdict is in the rows or in hand (`VerdictsKept`), and AB-001
  computes in the first EDEN trial and nowhere else (`ComputedOnce`).
- `PositionsStayBalanced` of the structured trial, for any number of requests
  and whatever orders are drawn: in each block the turns taken are those of one
  order of the arms, rotated by a place from request to request, and the queue
  holds the rest of the request (`InTurn`). That every arm then has every
  position once in four requests is arithmetic modulo four, and that four
  different arms fill four places.
- `ReuseIsAsBuilt` of the five scripts, for any number of requests. The turns
  that are left are, for each arm, those of the requests it has not answered, in
  their order (`InLine`). The store of an arm that caches components holds
  exactly the tasks it has met, bound to what they are, and their own values
  unless an output was changed (`Answering`). So the EDEN arm has executed as
  many tasks as it has met different ones, apart from failed checks, and what it
  executed and what it reused add up to all it has met (`EdenRight`); at the end
  of the requests these are the numbers of the report (`Concluded`).
- `ManifestsFixRecords` of the Refinery benchmark, for any number of requests.
  `Filing` keeps apart the run in progress, whose records are its own and all
  filed before they are added up, and the manifest, which fixes the list it was
  made from whatever the records file has become since. That the root fixes the
  list is `RootFixesList`: all nodes of a level stand over trees of one depth,
  so a node can be taken apart in one way only, and of two levels of one length
  each is fixed by the one above it, though an odd level repeats its last node
  (`NothingIsLost`); the length of every level follows from the number of
  records. `Root` is a recursive function of the number of levels; that it
  climbs by `Above` is shown without the library's induction theorems, from the
  least level at which it would not (`StepsFollow`, `Reached`).

**`MarbleLineageProofs`**: `SearchDecides`, `IntactAreAcyclic`,
`CyclesDoNotRaise`, `VisitingIsTheStack`, `TypeCorrect`, for any list of
Marbles. The invariant is what a depth-first search knows: the stack is a path
of the graph without repetitions; every supplied Marble is visited, being
visited or still to come; unless a cycle was reported, the visited set is
closed under parents and acyclic, and each call's parents are visited, in
progress or to come; a reported cycle is one. Acyclicity is stated as *no
nonempty set in which each has a parent*, which a proof can use without paths.
For intact Marbles the hash orders the ids, and a least element of such a set
(by well-foundedness of `<`) contradicts it.

**`IntegratedRunProofs`**: `SchedulesAreBest` and `SelectionsAreBest`, for any
workers, amounts of work, deadlines, evaluators and replies, and
`VerdictsTrackContent`, for any number of edits of the core. The scheduler's two
sweeps and the selection end in one operator, the first position whose value no
other undercuts. That its recursive function returns such a position is shown
without the library's induction theorems: of the positions at which the sweep
would be wrong there is a least one (by well-foundedness of `<`), and at its
predecessor the sweep is right (`Reached`, `SweepFinds`). With NaN the order of
`min` is not one; but a profile that is NaN never replaces one that is not, nor
the other way round, so the sweep stays among those that are like the first
(`Ranked`, `SweepStays`), where it is an order. `MarbleInv` adds to the run's
state that each result is the one of the input it was computed from, until the
core is edited. `PayloadsAssumption` says that the example inputs are of the
shape that the schema in the code asks for.

Every invariant, every action property and both refinements that the passing
runs check are stated by a theorem. Only model-checked is liveness
(`FreshFrameHandedOver`, `SealedIsObserved`, `RequestsAnswered`,
`SpawnedServes`, `ExperimentsEnd`): TLAPS has no rules for fairness and
`ENABLED`. The two runs that expect a violation exhibit one on a small instance,
which needs no proof.

## Not modelled

- *Parsing, formatting, transport*: JSON, base64, HTTP framing, command lines,
  `doctor` and `logs` of the launcher (they only read), `verify_crv` of Marble.
- *Cryptography*: AES-GCM and SHA-256 are taken to do what they promise.
- *Floating point*: rounding in Chrysalis' reduction and in the statistics of
  the experiments. NaN as a JSON literal is modelled; a string that Python
  converts to NaN (each time to another object) and Infinity are not.
- *Two gates on one set of files*: the code takes no lock and no document
  provides for it.
- *Power failures*: a process is killed, the machine is not. After a power cut a
  rename that no directory `fsync` has followed can be lost.
- *A second `serve`*: it persists zeros over the first one's `state.json` before
  it fails to bind (`core.py:213`). One server process is modelled in
  `EdenCore`. The launcher starts no second one while its pid file names a live
  server, but it does beside a server started by hand: then the child that
  cannot bind has zeroed the file of the one that serves.
- *Two operators at once*: that their commands lose each other's records is
  listed as a hazard, and no property promises otherwise.
- *One id for two Marbles*: `verify_lineage` keeps the last of them, so that a
  cycle through an overwritten one is not reported; the lineage properties speak
  of what it keeps.
- *Exceptions of the test runner* of the delivery: it passes or does not.
- *A reader of the refinery's files* who does not compare
  `records_file_sha256`: `ManifestFixesRecords` speaks of those who do.
- *Measurements*: what a battery sample, a timing or a usage amounts to, and the
  statistics over them.
- *The sweep of the avoidance script and the repeated trials of the structured
  one*: each trial starts with empty stores and shares no state with the others.
- *The reports of the suite*: named by the second and written without a check,
  so that of two suites that end in one second the later one's report stays;
  nothing reads them.
- *Satellite simulation, RF establishment, academic and validation scaffolds*:
  single-threaded scripts that compute in floating point and print; no state
  outlives a call and no order of steps is open. (That the simulation's results
  are rewritten in the tree that is being packaged is part of `Delivery`.)
- *CI workflows and the web page*: configuration of other services.

## Plan

Written, in this order: `ManifoldGate` with its abstract specification and
proofs; `ManifoldPipeline`, which composes it; `EdenCore` and its proofs;
`Launcher`; `FairAB`; `MarbleLineage` and its proofs; the evaluators and
`IntegratedRun`; `Delivery`; `Handset`, `RefineryBenchmark` and `ReuseTrials`,
checked together in `Experiments`.

Proved, in the order in which they are named under *Proofs*: the gate, the
pipeline on top of it, EDEN Core, the launcher, the delivery, the fair A/B
harness and the other experiments, the lineage search, the integrated run.

What could come next, most useful first:

1. *Which earlier table* `state.json` shows. `CounterTable` says that it is not
   ahead of the counters, `CountersCoherent` that requests could have produced
   it; that it is one of the tables this life of the process has had needs a
   history of them in the model.
2. *An abstract launcher*: a record and at most one server, for a single
   operator, implemented by `Launcher` between commands; proved from
   `ServersKnown`.
3. *An abstract package store* for `Delivery`: packages that appear sealed, all
   at once; proved from `PackagesApart` and `Sound`.
