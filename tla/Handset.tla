------------------------------ MODULE Handset ------------------------------
(***************************************************************************)
(* EDEN-CORE-AB-001 and EDEN-CORE-AB-002                                   *)
(* (src/experiments/eden-core-ab-00{1,2}/run_termux.py): trials of several *)
(* arms in random order, each measured in a window during which a thread   *)
(* samples the battery.  The EDEN arms go through EDEN Core; results are   *)
(* reused from a cache file, which AB-001 removes and fills on the way and *)
(* AB-002 fills beforehand.  Every trial writes a row file, a run that     *)
(* gets to its end a summary.                                              *)
(*                                                                         *)
(* At the end of a window the sampler is told to stop and joined for three *)
(* seconds.  If its call of termux-battery-status, which has a timeout of  *)
(* three seconds of its own, is still under way then, it goes on beside    *)
(* the main thread; the cooldown between two trials outlasts it.           *)
(*                                                                         *)
(* Abstractions.  A result is named by the run that computed it.  A sample *)
(* is its place among those taken in its window; what it measured is left  *)
(* out.  The samples of a row are kept until the next trial.  A file that  *)
(* is half written when the process is killed counts as no file, which is  *)
(* what load_cache makes of it.                                            *)
(***************************************************************************)
EXTENDS Naturals, Sequences, FiniteSets

CONSTANTS
  Trials,       \* per script, the trials of each arm
  MaxSamples,   \* bound: samples taken in a window before its closing one
  MaxRequests,  \* bound: requests that an arm of AB-002 gets done
  MaxRuns,      \* bound: runs into one results directory
  None          \* no file, no result, nothing

VARIABLES
  script,    \* "AB-001" or "AB-002", each with a directory of its own
  runs,
  cache,     \* file reuse-cache.json: the run that filled it
  files,     \* row files, by arm and trial
  summary,   \* file ..._SUMMARY.json
  pc,        \* what the main thread does next
  todo,      \* trials that this run still has to do
  trial,     \* the current one
  found,     \* AB-001: the result that the trial has found in the cache
  source,    \* the result in hand
  requests,  \* AB-002: requests done in this window
  verified,  \* every Marble of this window so far verified
  raised,    \* an exception is on its way out of the window
  expired,   \* the join has timed out
  integrated, \* samples in the integral
  counted,   \* AB-002: samples that were counted, a moment later
  rows,      \* verdicts in the rows of this run, in memory
  fresh,     \* AB-001: EDEN rows among them whose result was not reused
  row,       \* the samples of the row that was last written
  samples,   \* list of the current window
  ticks,     \* how many samples have been taken in it
  sampler,   \* what its sampler does next
  held,      \* the sample that the sampler has taken and not appended
  stopped,   \* the stop event
  closing,   \* the closing sample, taken and not appended
  rejected   \* history: this run has received a Marble that did not verify

disk == <<cache, files, summary>>
work == <<trial, found, source, requests, verified, raised>>
lists == <<samples, ticks, sampler, held, stopped, closing>>
result == <<expired, integrated, counted, rows, fresh, row>>
vars == <<script, runs, disk, pc, todo, work, result, lists, rejected>>

Arms ==
  IF script = "AB-001" THEN {"BASELINE", "EDEN"}
                       ELSE {"RECOMPUTE", "REUSE", "EDEN"}

Schedule == Arms \X (1 .. Trials[script])

NoWork ==
  /\ todo = {} /\ trial = None /\ found = None /\ source = None
  /\ requests = 0 /\ verified = TRUE /\ raised = FALSE
  /\ expired = FALSE /\ integrated = 0 /\ counted = 0
  /\ rows = {} /\ fresh = 0 /\ row = None
  /\ samples = <<>> /\ ticks = 0
  /\ sampler = "none" /\ held = None /\ stopped = FALSE /\ closing = None

Init ==
  /\ script \in {"AB-001", "AB-002"}
  /\ runs = 0
  /\ cache = None
  /\ files = [k \in Schedule |-> None]
  /\ summary = None
  /\ pc = "off"
  /\ NoWork
  /\ rejected = FALSE

-----------------------------------------------------------------------------
(* A run begins, and ends at any time                                      *)

Starts(s) ==
  /\ pc = "off" /\ script = s
  /\ runs < MaxRuns
  /\ runs' = runs + 1
  /\ todo' = Schedule
  /\ rejected' = FALSE
  /\ UNCHANGED <<script, files, summary, work, result, lists>>

\* Mutation: the cache of an earlier run is kept.
Begin001OverCache == Starts("AB-001") /\ pc' = "next" /\ UNCHANGED cache

\* Core and battery are there; the cache of an earlier run is removed.
Begin001 == Starts("AB-001") /\ pc' = "next" /\ cache' = None

\* prewarm_cache fills the cache before anything is measured.
Begin002 == Starts("AB-002") /\ pc' = "prewarm" /\ UNCHANGED cache

Prewarm ==
  /\ pc = "prewarm"
  /\ cache' = runs
  /\ pc' = "next"
  /\ UNCHANGED <<script, runs, files, summary, todo, work, result, lists,
                 rejected>>

\* The process ends, and with it the sampler, which is a daemon thread.
Ends ==
  /\ pc' = "off"
  /\ todo' = {} /\ trial' = None /\ found' = None /\ source' = None
  /\ requests' = 0 /\ verified' = TRUE /\ raised' = FALSE
  /\ expired' = FALSE /\ integrated' = 0 /\ counted' = 0
  /\ rows' = {} /\ fresh' = 0 /\ row' = None
  /\ samples' = <<>> /\ ticks' = 0
  /\ sampler' = "none" /\ held' = None /\ stopped' = FALSE /\ closing' = None
  /\ UNCHANGED <<script, runs, rejected>>

\* The process is killed, perhaps while it writes a file.
Kill ==
  /\ pc # "off"
  /\ Ends
  /\ \/ UNCHANGED disk
     \/ /\ pc \in {"prewarm", "save"}
        /\ cache' = None /\ UNCHANGED <<files, summary>>
     \/ /\ pc = "write"
        /\ files' = [files EXCEPT ![trial] = None] /\ UNCHANGED <<cache, summary>>
     \/ /\ pc = "next" /\ todo = {}
        /\ summary' = None /\ UNCHANGED <<cache, files>>

-----------------------------------------------------------------------------
(* A trial: before its window                                              *)

\* Mutation: a trial that is begun stays in the list.
NextTrialAgain ==
  /\ pc = "next" /\ sampler = "none"
  /\ \E k \in todo : trial' = k /\ todo' = todo
  /\ found' = IF script = "AB-001" /\ trial'[1] = "EDEN" THEN cache ELSE None
  /\ source' = None /\ requests' = 0 /\ verified' = TRUE /\ raised' = FALSE
  /\ expired' = FALSE /\ integrated' = 0 /\ counted' = 0 /\ row' = None
  /\ samples' = <<>> /\ ticks' = 0 /\ stopped' = FALSE
  /\ pc' = "open"
  /\ UNCHANGED <<script, runs, disk, rows, fresh, sampler, held, closing,
                 rejected>>

\* The order of the trials is shuffled.  The EDEN arm of AB-001 loads the cache
\* before its window opens.
NextTrial ==
  /\ pc = "next" /\ sampler = "none"
  /\ \E k \in todo : trial' = k /\ todo' = todo \ {k}
  /\ found' = IF script = "AB-001" /\ trial'[1] = "EDEN" THEN cache ELSE None
  /\ source' = None /\ requests' = 0 /\ verified' = TRUE /\ raised' = FALSE
  /\ expired' = FALSE /\ integrated' = 0 /\ counted' = 0 /\ row' = None
  /\ samples' = <<>> /\ ticks' = 0 /\ stopped' = FALSE
  /\ pc' = "open"
  /\ UNCHANGED <<script, runs, disk, rows, fresh, sampler, held, closing,
                 rejected>>

Sample(kind) == [at |-> ticks + 1, kind |-> kind]

\* The opening sample, if the battery answers, and the sampler thread.
OpenWindow(available) ==
  /\ pc = "open"
  /\ IF available
       THEN samples' = <<Sample("pre")>> /\ ticks' = 1
       ELSE UNCHANGED <<samples, ticks>>
  /\ sampler' = "check"
  /\ pc' = "work"
  /\ UNCHANGED <<script, runs, disk, todo, work, result, held, stopped, closing,
                 rejected>>

Open001 == script = "AB-001" /\ \E available \in BOOLEAN : OpenWindow(available)

Open002 == script = "AB-002" /\ OpenWindow(TRUE)

\* AB-002 stops when the battery does not answer or is being charged.
Refuse002 ==
  /\ script = "AB-002" /\ pc = "open"
  /\ Ends
  /\ UNCHANGED disk

-----------------------------------------------------------------------------
(* A trial: in its window                                                  *)

Working(s, arms, at) == script = s /\ trial[1] \in arms /\ pc = at

WorkStep == UNCHANGED <<script, runs, files, summary, todo, trial, found, result,
                        lists>>

Baseline001 ==
  /\ trial # None /\ Working("AB-001", {"BASELINE"}, "work")
  /\ source' = runs
  /\ pc' = "stop"
  /\ WorkStep /\ UNCHANGED <<cache, requests, verified, raised, rejected>>

\* A result that was found is reused; otherwise it is computed ...
Compute001 ==
  /\ trial # None /\ Working("AB-001", {"EDEN"}, "work")
  /\ source' = IF found = None THEN runs ELSE found
  /\ pc' = IF found = None THEN "save" ELSE "post"
  /\ WorkStep /\ UNCHANGED <<cache, requests, verified, raised, rejected>>

\* ... and saved.
Save001 ==
  /\ pc = "save"
  /\ cache' = source
  /\ pc' = "post"
  /\ WorkStep /\ UNCHANGED <<source, requests, verified, raised, rejected>>

\* EDEN Core answers with its verdict on the Marble of the request.
Received(ok) ==
  /\ verified' = (verified /\ ok)
  /\ rejected' = (rejected \/ ~ok)

\* post_json raises, and the window is closed all the same.
Raise ==
  /\ trial # None /\ trial[1] = "EDEN" /\ pc \in {"post", "loop"}
  /\ raised' = TRUE
  /\ pc' = "stop"
  /\ WorkStep /\ UNCHANGED <<cache, source, requests, verified, rejected>>

Post001 ==
  /\ pc = "post"
  /\ \E ok \in BOOLEAN : Received(ok)
  /\ pc' = "stop"
  /\ WorkStep /\ UNCHANGED <<cache, source, requests, raised>>

\* The arms of AB-002 do as many requests as fit into their window; two of
\* them read the result from the cache first.
Enter002 ==
  /\ script = "AB-002" /\ pc = "work"
  /\ source' = IF trial[1] = "RECOMPUTE" THEN None ELSE cache
  /\ pc' = "loop"
  /\ WorkStep /\ UNCHANGED <<cache, requests, verified, raised, rejected>>

Recompute002 ==
  /\ trial # None /\ Working("AB-002", {"RECOMPUTE"}, "loop")
  /\ requests < MaxRequests
  /\ source' = runs
  /\ requests' = requests + 1
  /\ WorkStep /\ UNCHANGED <<pc, cache, verified, raised, rejected>>

Reuse002 ==
  /\ trial # None /\ Working("AB-002", {"REUSE"}, "loop")
  /\ requests < MaxRequests
  /\ requests' = requests + 1
  /\ WorkStep /\ UNCHANGED <<pc, cache, source, verified, raised, rejected>>

Eden002 ==
  /\ trial # None /\ Working("AB-002", {"EDEN"}, "loop")
  /\ requests < MaxRequests
  /\ requests' = requests + 1
  /\ \E ok \in BOOLEAN : Received(ok)
  /\ WorkStep /\ UNCHANGED <<pc, cache, source, raised>>

\* The window is over, perhaps before the first request.
Deadline002 ==
  /\ pc = "loop"
  /\ pc' = "stop"
  /\ WorkStep /\ UNCHANGED <<cache, source, requests, verified, raised, rejected>>

-----------------------------------------------------------------------------
(* The sampler thread of the window                                        *)

SamplerStep(next) ==
  /\ sampler' = next
  /\ UNCHANGED <<script, runs, disk, pc, todo, work, result, stopped, closing,
                 rejected>>

\* The event is looked at before each sample, and wakes the thread up.
Check ==
  /\ sampler = "check"
  /\ \/ stopped /\ SamplerStep("none")
     \/ ~stopped /\ ticks < MaxSamples /\ SamplerStep("read")
  /\ UNCHANGED <<samples, ticks, held>>

\* termux-battery-status answers, or fails: then there is nothing to append.
Read ==
  /\ sampler = "read"
  /\ \/ /\ ticks' = ticks + 1
        /\ held' = Sample("mid")
        /\ SamplerStep("append")
     \/ SamplerStep("check") /\ UNCHANGED <<ticks, held>>
  /\ UNCHANGED samples

AppendSample ==
  /\ sampler = "append"
  /\ samples' = Append(samples, held)
  /\ held' = None
  /\ SamplerStep("check")
  /\ UNCHANGED ticks

-----------------------------------------------------------------------------
(* A trial: the end of its window                                          *)

Waiting == UNCHANGED <<script, runs, cache, summary, todo, work, sampler, held,
                       rejected>>

MainStep == Waiting /\ UNCHANGED <<ticks, closing>>

Stop ==
  /\ pc = "stop"
  /\ stopped' = TRUE
  /\ pc' = "join"
  /\ MainStep /\ UNCHANGED <<files, result, samples>>

\* Mutation: the sampler is not waited for.
JoinAtOnce ==
  /\ pc = "join"
  /\ expired' = FALSE
  /\ pc' = "close"
  /\ MainStep
  /\ UNCHANGED <<files, integrated, counted, rows, fresh, row, samples, stopped>>

Join ==
  /\ pc = "join" /\ sampler = "none"
  /\ expired' = FALSE
  /\ pc' = "close"
  /\ MainStep
  /\ UNCHANGED <<files, integrated, counted, rows, fresh, row, samples, stopped>>

JoinExpires ==
  /\ pc = "join" /\ sampler \in {"read", "append"}
  /\ expired' = TRUE
  /\ pc' = "close"
  /\ MainStep
  /\ UNCHANGED <<files, integrated, counted, rows, fresh, row, samples, stopped>>

\* The closing sample is taken, which may last for seconds.  An exception of the
\* window goes on its way.
CloseWindow(available) ==
  /\ pc = "close" /\ ~raised
  /\ IF available
       THEN /\ closing' = Sample("post") /\ ticks' = ticks + 1
            /\ pc' = "closed"
       ELSE UNCHANGED <<closing, ticks>> /\ pc' = "integrate"
  /\ Waiting /\ UNCHANGED <<files, result, samples, stopped>>

Close001 == script = "AB-001" /\ \E available \in BOOLEAN : CloseWindow(available)

Close002 == script = "AB-002" /\ CloseWindow(TRUE)

\* It is appended, to a list that the sampler may have appended to meanwhile.
AppendClosing ==
  /\ pc = "closed"
  /\ samples' = Append(samples, closing)
  /\ closing' = None
  /\ pc' = "integrate"
  /\ Waiting /\ UNCHANGED <<files, result, ticks, stopped>>

\* An exception ends the run; in AB-002 that of the closing sample, too.
Dies ==
  /\ pc = "close"
  /\ raised \/ script = "AB-002"
  /\ Ends
  /\ UNCHANGED disk

Integrate ==
  /\ pc = "integrate"
  /\ integrated' = Len(samples)
  /\ pc' = IF script = "AB-002" THEN "count" ELSE "write"
  /\ MainStep
  /\ UNCHANGED <<files, expired, counted, rows, fresh, row, samples, stopped>>

Count002 ==
  /\ pc = "count"
  /\ counted' = Len(samples)
  /\ pc' = "write"
  /\ MainStep
  /\ UNCHANGED <<files, expired, integrated, rows, fresh, row, samples, stopped>>

-----------------------------------------------------------------------------
(* Rows and the summary                                                    *)

Row == [run |-> runs,
        source |-> IF script = "AB-002" /\ trial[1] # "EDEN" /\ requests = 0
                     THEN None ELSE source]

\* The row is written with the samples that its list has by now.
WriteFile ==
  /\ pc = "write"
  /\ rows' = rows \union {verified}
  /\ fresh' = IF script = "AB-001" /\ trial[1] = "EDEN" /\ found = None
                THEN fresh + 1 ELSE fresh
  /\ files' = [files EXCEPT ![trial] = Row]
  /\ row' = [samples |-> samples, integrated |-> integrated, counted |-> counted,
             expired |-> expired]

WriteRow ==
  /\ WriteFile
  /\ script = "AB-001" \/ requests > 0
  /\ pc' = "next"
  /\ MainStep /\ UNCHANGED <<expired, integrated, counted, samples, stopped>>

\* A window without a request has no joules per request, and formatting them
\* for the screen, after the row is written, ends the run.
WriteLastRow002 ==
  /\ pc = "write" /\ script = "AB-002" /\ requests = 0
  /\ files' = [files EXCEPT ![trial] = Row]
  /\ Ends
  /\ UNCHANGED <<cache, summary>>

\* All trials are done, and the summary is made of the rows in memory.
Summarise ==
  /\ pc = "next" /\ todo = {}
  /\ summary' = [run |-> runs,
                 verified |-> FALSE \notin rows]
  /\ Ends
  /\ UNCHANGED <<cache, files>>

-----------------------------------------------------------------------------
Main ==
  \/ Prewarm \/ NextTrial \/ Open001 \/ Open002 \/ Refuse002
  \/ Baseline001 \/ Compute001 \/ Save001 \/ Raise \/ Post001
  \/ Enter002 \/ Recompute002 \/ Reuse002 \/ Eden002 \/ Deadline002
  \/ Stop \/ Join \/ JoinExpires \/ Close001 \/ Close002
  \/ AppendClosing \/ Dies
  \/ Integrate \/ Count002 \/ WriteRow \/ WriteLastRow002 \/ Summarise

Sampler == Check \/ Read \/ AppendSample

Next ==
  \/ Begin001 \/ Begin002 \/ Kill
  \/ Main
  \/ Sampler

Spec == Init /\ [][Next]_vars

-----------------------------------------------------------------------------
(* If the sampler ended in time, what was integrated and counted is what is  *)
(* in the file of the row, in the order in which it was taken, from the      *)
(* opening sample to the closing one.  If it outlived the join, one sample   *)
(* may be late, and no more than one: out of its turn, behind the closing    *)
(* one, or missing from what was integrated or counted.                      *)
SamplesWhole ==
  row # None =>
    LET s == row.samples
        late == IF row.expired THEN 1 ELSE 0
    IN  /\ row.integrated \in Len(s) - late .. Len(s)
        /\ script = "AB-002" => row.counted \in row.integrated .. Len(s)
        /\ \A i \in DOMAIN s : s[i].kind = "pre" => i = 1
        /\ \A i \in DOMAIN s : s[i].kind = "post" => i + late >= Len(s)
        /\ \A i, j \in 1 .. Len(s) - late : i < j => s[i].at < s[j].at
        /\ script = "AB-002" =>
             /\ s[1].kind = "pre"
             /\ \E i \in DOMAIN s : s[i].kind = "post"

(* A summary stands over the rows of one run: at the end of the run that     *)
(* wrote it, every row file is of this run, and so is every result in them,  *)
(* whatever runs were killed before; and all Marbles are reported as         *)
(* verified if and only if this run has received none that was not.  When    *)
(* the trials of AB-001 are done, its EDEN arm has computed the result once  *)
(* and reused it in all other rows.                                          *)
ResultsOfOneRun ==
  /\ (pc = "off" /\ summary # None /\ summary.run = runs) =>
       /\ \A k \in Schedule :
            files[k] # None /\ files[k].run = runs /\ files[k].source = runs
       /\ summary.verified <=> ~rejected
  /\ (script = "AB-001" /\ pc = "next" /\ todo = {}) => fresh = 1
=============================================================================
