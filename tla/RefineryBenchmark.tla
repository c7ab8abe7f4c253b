------------------------- MODULE RefineryBenchmark -------------------------
(***************************************************************************)
(* The Refinery benchmark (src/eden-refinery/eden_refinery_benchmark.py):  *)
(* a pool of threads puts one request after another to the provider, each  *)
(* with a few attempts; then the records go to records.jsonl and what they *)
(* add up to, with their Merkle root, to manifest.json.                    *)
(*                                                                         *)
(* Abstractions.  The provider bills the answers it sends, whether or not  *)
(* they can be read; an answer is named by its number among those sent for *)
(* its request in this run.  Whether the usages that they report can be    *)
(* added up comes out when they are.  Hashing is injective: the hash of a  *)
(* record is the record, that of a file its content, and a node of the     *)
(* Merkle tree the leaves below it, repeated ones included.  A file that   *)
(* is half written when the process is killed counts as no file.           *)
(***************************************************************************)
EXTENDS Naturals, Sequences, FiniteSets, SequencesExt

CONSTANTS
  N,         \* EDEN_REQUESTS
  Workers,   \* the threads of the pool (EDEN_CONCURRENCY)
  Attempts,  \* range(5)
  MaxRuns,   \* bound: runs into one output directory
  None       \* no file, no record, an idle worker

VARIABLES
  runs,
  phase,     \* "off", "calling" or "adding"
  next,      \* head of the pool's queue of requests
  worker,    \* per worker, its request and the attempts it has begun
  done,      \* per request, its record
  sent,      \* history: answers sent, and billed, in this run
  unread,    \* history: how many of them could not be read
  calls,     \* history: attempts made in this run
  records,   \* file records.jsonl
  manifest,  \* file manifest.json
  exit       \* how the run ended: "0", "2", "error" or "killed"; None before

log == <<sent, unread, calls>>
vars == <<runs, phase, next, worker, done, log, records, manifest, exit>>

Requests == 1 .. N

Init ==
  /\ runs = 0
  /\ phase = "off"
  /\ next = 1
  /\ worker = [w \in Workers |-> None]
  /\ done = [i \in Requests |-> None]
  /\ sent = [i \in Requests |-> 0]
  /\ unread = [i \in Requests |-> 0]
  /\ calls = [i \in Requests |-> 0]
  /\ records = None /\ manifest = None
  /\ exit = None

Begin ==
  /\ phase = "off" /\ runs < MaxRuns
  /\ runs' = runs + 1
  /\ phase' = "calling"
  /\ exit' = None
  /\ UNCHANGED <<next, worker, done, log, records, manifest>>

\* The process ends; nothing of it is left but the files.
Ends(status) ==
  /\ phase' = "off"
  /\ exit' = status
  /\ next' = 1
  /\ worker' = [w \in Workers |-> None]
  /\ done' = [i \in Requests |-> None]
  /\ sent' = [i \in Requests |-> 0]
  /\ unread' = [i \in Requests |-> 0]
  /\ calls' = [i \in Requests |-> 0]
  /\ UNCHANGED runs

-----------------------------------------------------------------------------
(* The calls (call_one), each by a thread of the pool                      *)

\* The requests are queued in order, and an idle thread takes the next.
Take(w) ==
  /\ phase = "calling" /\ worker[w] = None
  /\ next <= N
  /\ worker' = [worker EXCEPT ![w] = [index |-> next, attempt |-> 1]]
  /\ calls' = [calls EXCEPT ![next] = @ + 1]
  /\ next' = next + 1
  /\ UNCHANGED <<runs, phase, done, sent, unread, records, manifest, exit>>

Calling(w) == phase = "calling" /\ worker[w] # None

Answers == [index : Requests, ok : {TRUE}, run : Nat, answer : Nat]

Answered(i) == [index |-> i, ok |-> TRUE, run |-> runs, answer |-> sent[i] + 1]
Failed(i) == [index |-> i, ok |-> FALSE, run |-> None, answer |-> None]

Returns(w, record) ==
  /\ done' = [done EXCEPT ![worker[w].index] = record]
  /\ worker' = [worker EXCEPT ![w] = None]
  /\ UNCHANGED calls

\* After the last attempt, there is a record of the failure.
TriesAgain(w) ==
  LET i == worker[w].index IN
  IF worker[w].attempt < Attempts
    THEN /\ worker' = [worker EXCEPT ![w].attempt = @ + 1]
         /\ calls' = [calls EXCEPT ![i] = @ + 1]
         /\ UNCHANGED done
    ELSE Returns(w, Failed(i))

CallStep == UNCHANGED <<runs, phase, next, records, manifest, exit>>

\* Mutation: the usage is added up as soon as the answer is there.
AnswerAddedUp(w) ==
  /\ Calling(w)
  /\ LET i == worker[w].index IN
       /\ \/ Returns(w, Answered(i))
          \/ TriesAgain(w)
       /\ sent' = [sent EXCEPT ![i] = @ + 1]
  /\ CallStep /\ UNCHANGED unread

Answer(w) ==
  /\ Calling(w)
  /\ LET i == worker[w].index IN
       /\ Returns(w, Answered(i))
       /\ sent' = [sent EXCEPT ![i] = @ + 1]
  /\ CallStep /\ UNCHANGED unread

\* An answer is lost on its way, comes too late, or cannot be parsed.
LoseAnswer(w) ==
  /\ Calling(w)
  /\ LET i == worker[w].index IN
       /\ sent' = [sent EXCEPT ![i] = @ + 1]
       /\ unread' = [unread EXCEPT ![i] = @ + 1]
  /\ TriesAgain(w)
  /\ CallStep

\* The request is not answered: no connection, or one of the codes 429 and 5xx.
FailCall(w) ==
  /\ Calling(w)
  /\ TriesAgain(w)
  /\ CallStep /\ UNCHANGED <<sent, unread>>

\* Any other code ends the attempts.
RefuseCall(w) ==
  /\ Calling(w)
  /\ Returns(w, Failed(worker[w].index))
  /\ CallStep /\ UNCHANGED <<sent, unread>>

-----------------------------------------------------------------------------
(* The Merkle tree (merkle_root)                                           *)

\* Mutation: an odd level loses its last node.
Cut(level) == IF Len(level) % 2 = 1 THEN Front(level) ELSE level

\* An odd level repeats its last node.
Even(level) == IF Len(level) % 2 = 1 THEN Append(level, Last(level)) ELSE level

NextLevel(level) ==
  LET e == Even(level)
  IN  [j \in 1 .. Len(e) \div 2 |-> e[2 * j - 1] \o e[2 * j]]

Above(level) == IF Len(level) > 1 THEN NextLevel(level) ELSE level

\* A level is at most as long as there are leaves, so that as many steps do.
Root(leaves) ==
  LET level[k \in 0 .. Len(leaves)] ==
        IF k = 0 THEN [i \in DOMAIN leaves |-> <<leaves[i]>>] ELSE Above(level[k - 1])
  IN  IF leaves = <<>> THEN <<>> ELSE level[Len(leaves)][1]

-----------------------------------------------------------------------------
(* Records and manifest (main)                                             *)

Complete == phase = "calling" /\ \A i \in Requests : done[i] # None

\* map hands the records over in the order of the requests.
WriteRecords ==
  /\ Complete
  /\ records' = done
  /\ phase' = "adding"
  /\ UNCHANGED <<runs, next, worker, done, log, manifest, exit>>

Succeeded(list) == {i \in DOMAIN list : list[i].ok}

\* The usages cannot be added up, and the run ends without a manifest.
AddUpFails ==
  /\ phase = "adding"
  /\ Succeeded(done) # {}
  /\ Ends("error")
  /\ UNCHANGED <<records, manifest>>

WriteManifest ==
  /\ phase = "adding"
  /\ manifest' = [run |-> runs,
                  requested |-> N,
                  succeeded |-> Cardinality(Succeeded(done)),
                  root |-> Root(done),
                  file |-> records]
  /\ Ends(IF Succeeded(done) = {} THEN "2" ELSE "0")
  /\ UNCHANGED records

\* The process is killed, perhaps while it writes a file.
Kill ==
  /\ phase # "off"
  /\ Ends("killed")
  /\ \/ UNCHANGED <<records, manifest>>
     \/ Complete /\ records' = None /\ UNCHANGED manifest
     \/ phase = "adding" /\ manifest' = None /\ UNCHANGED records

-----------------------------------------------------------------------------
Call(w) ==
  Take(w) \/ Answer(w) \/ LoseAnswer(w) \/ FailCall(w) \/ RefuseCall(w)

Main == WriteRecords \/ AddUpFails \/ WriteManifest

Next ==
  \/ Begin \/ Kill
  \/ Main
  \/ \E w \in Workers : Call(w)

Spec == Init /\ [][Next]_vars

-----------------------------------------------------------------------------
(* Every answer that was billed is accounted for: for a request, as many     *)
(* were sent as could not be read, and one more if it has a record of its    *)
(* success, which names the last one; so an answer that could be read was    *)
(* not asked for again.  No request has had more than the given attempts,    *)
(* nor two threads at it.                                                    *)
BillAccounted ==
  /\ \A i \in Requests :
       LET r == done[i] IN
       /\ calls[i] <= Attempts
       /\ IF r # None /\ r.ok
            THEN r.answer = sent[i] /\ sent[i] = unread[i] + 1
            ELSE sent[i] = unread[i]
  /\ \A v, w \in Workers :
       (v # w /\ worker[v] # None /\ worker[w] # None)
         => worker[v].index # worker[w].index

(* A manifest that carries the hash of the records file, whatever runs were  *)
(* killed between the two files, fixes the records: one per request and in   *)
(* their order, the answers of one run, as many successes as it says; and of *)
(* all lists that many of these records can form, repeated and in any order, *)
(* the root belongs to this one.                                             *)
ManifestFixesRecords ==
  LET m == manifest IN
  (phase = "off" /\ m # None /\ m.file = records) =>
    /\ m.requested = Len(records)
    /\ \A i \in DOMAIN records : records[i].index = i
    /\ \A i \in Succeeded(records) : records[i].run = m.run
    /\ m.succeeded = Cardinality(Succeeded(records))
    /\ \A list \in [1 .. m.requested -> {records[i] : i \in DOMAIN records}] :
         Root(list) = m.root => list = records
=============================================================================
