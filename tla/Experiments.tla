---------------------------- MODULE Experiments ----------------------------
(***************************************************************************)
(* The experiment programs that keep state: the fair A/B harness with its  *)
(* service (module FairAB), the handset trials (Handset), the Refinery     *)
(* benchmark (RefineryBenchmark) and the trials of exact reuse             *)
(* (ReuseTrials).  Each is a command of its own with a directory of its    *)
(* own, and they share nothing; so a behaviour is that of one of them, and *)
(* the variables of the others have no value.  Where two modules name a    *)
(* variable alike, it is one variable here.                                *)
(***************************************************************************)
EXTENDS FairAB

CONSTANTS
  Trials, MaxSamples, WindowRequests,             \* Handset
  N, Workers, Attempts,                           \* RefineryBenchmark
  TrialRequests, Shares, Sections, Wrong, Broken  \* ReuseTrials

VARIABLES
  program,   \* the one that is run
  cache, files, summary, todo, trial, found, source, verified, raised, expired,
  integrated, counted, rows, fresh, row, samples, ticks, sampler, held, stopped,
  closing, rejected,
  next, worker, done, sent, unread, exit, totals,
  unique, base, begun, queue, stores, outputs, executed, hits, failures, evidence,
  report, turns, tampered,
  script, requests   \* Handset's and ReuseTrials'

H == INSTANCE Handset WITH MaxRequests <- WindowRequests
R == INSTANCE RefineryBenchmark WITH manifest <- totals
T == INSTANCE ReuseTrials WITH MaxRequests <- TrialRequests

ASSUME HandsetAssumption ==
  /\ Trials["AB-001"] \in Nat \ {0}
  /\ None \notin Nat \union [run : Nat, source : Nat]

ASSUME RefineryAssumption ==
  /\ N \in Nat /\ Attempts \in Nat \ {0}
  /\ None \notin R!Answers

ASSUME ReuseAssumption ==
  /\ TrialRequests \in Nat /\ Shares \subseteq 0 .. 4
  /\ Sections \subseteq Seq(Nat)
  /\ Broken \notin Nat
  /\ None \notin {"CACHE", "COMPONENT_CACHE", "EDEN"}

\* Variables that one module has and the others have not.
ofFairAB ==
  <<work, arms, request, result, called, caches, events, saved, manifest>>
ofHandset ==
  <<cache, files, summary, todo, trial, found, source, verified, raised,
    expired, integrated, counted, rows, fresh, row, samples, ticks, sampler,
    held, stopped, closing, rejected>>
ofRefinery == <<next, worker, done, sent, unread, exit, totals>>
ofReuse ==
  <<unique, base, begun, queue, stores, outputs, executed, hits, failures,
    evidence, report, turns, tampered>>

allVars == <<program, vars, ofHandset, ofRefinery, ofReuse, script, requests>>

NoFairAB ==
  /\ work = None /\ arms = None /\ request = None /\ result = None
  /\ called = None /\ caches = None /\ events = None /\ saved = None
  /\ manifest = None

NoHandset ==
  /\ cache = None /\ files = None /\ summary = None /\ todo = None
  /\ trial = None /\ found = None /\ source = None /\ verified = None
  /\ raised = None /\ expired = None /\ integrated = None /\ counted = None
  /\ rows = None /\ fresh = None /\ row = None /\ samples = None /\ ticks = None
  /\ sampler = None /\ held = None /\ stopped = None /\ closing = None
  /\ rejected = None

NoRefinery ==
  /\ next = None /\ worker = None /\ done = None /\ sent = None
  /\ unread = None /\ exit = None /\ totals = None

NoReuse ==
  /\ unique = None /\ base = None /\ begun = None /\ queue = None
  /\ stores = None /\ outputs = None /\ executed = None /\ hits = None
  /\ failures = None /\ evidence = None /\ report = None /\ turns = None
  /\ tampered = None

NoTrials == script = None /\ requests = None
NoRecorder == phase = None /\ calls = None /\ records = None

InitFairAB ==
  /\ program = "fair A/B" /\ Init
  /\ NoHandset /\ NoRefinery /\ NoReuse /\ NoTrials

InitHandset ==
  /\ program = "handset" /\ H!Init
  /\ NoFairAB /\ NoRefinery /\ NoReuse /\ NoRecorder

InitRefinery ==
  /\ program = "refinery" /\ R!Init
  /\ NoFairAB /\ NoHandset /\ NoReuse /\ NoTrials
  /\ pc = None

InitReuse ==
  /\ program = "reuse" /\ T!Init
  /\ NoFairAB /\ NoHandset /\ NoRefinery /\ NoRecorder
  /\ runs = None

InitExperiments == InitFairAB \/ InitHandset \/ InitRefinery \/ InitReuse

Is(p) == program = p /\ UNCHANGED program

FairABAlone ==
  /\ Is("fair A/B")
  /\ UNCHANGED <<ofHandset, ofRefinery, ofReuse, script, requests>>

HandsetAlone ==
  /\ Is("handset")
  /\ UNCHANGED <<ofFairAB, ofRefinery, ofReuse, phase, calls, records>>

RefineryAlone ==
  /\ Is("refinery")
  /\ UNCHANGED <<ofFairAB, ofHandset, ofReuse, pc, script, requests>>

ReuseAlone ==
  /\ Is("reuse")
  /\ UNCHANGED <<ofFairAB, ofHandset, ofRefinery, phase, calls, records, runs>>

NextExperiments ==
  \/ FairABAlone /\ Next
  \/ HandsetAlone /\ H!Next
  \/ RefineryAlone /\ R!Next
  \/ ReuseAlone /\ T!Next

-----------------------------------------------------------------------------
(* Fairness: unless it is killed, a process goes on, and so does the sampler *)
(* thread beside it.  Nothing is assumed of the fair A/B harness.            *)

Progress ==
  /\ WF_(H!vars)(program = "handset" /\ H!Main)
  /\ WF_(R!vars)(program = "refinery" /\ (R!Main \/ \E w \in Workers : R!Call(w)))
  /\ WF_(T!vars)(program = "reuse" /\ T!Main)

Sampling == WF_(H!vars)(program = "handset" /\ H!Sampler)

Fairness == Progress /\ Sampling

SpecExperiments ==
  InitExperiments /\ [][NextExperiments]_allVars /\ Fairness

-----------------------------------------------------------------------------
(* The properties of the modules, for the program that is run.             *)

SamplesWhole == program = "handset" => H!SamplesWhole
ResultsOfOneRun == program = "handset" => H!ResultsOfOneRun
BillAccounted == program = "refinery" => R!BillAccounted
ManifestFixesRecords == program = "refinery" => R!ManifestFixesRecords
ReuseAsBuilt == program = "reuse" => T!ReuseAsBuilt
PositionsBalanced == program = "reuse" => T!PositionsBalanced

Running ==
  CASE program = "handset" -> pc # "off"
    [] program = "reuse" -> pc = "run"
    [] program = "refinery" -> phase # "off"
    [] OTHER -> FALSE

(* A run of the handset trials, the benchmark or a reuse trial that is       *)
(* started ends, whatever fails in it: a sampler that outlives its window,   *)
(* calls that are tried again, an output that was changed: again and again   *)
(* there is a moment at which none is under way.                             *)
ExperimentsEnd == []<>~Running
=============================================================================
