---------------------------- MODULE IntegratedRun ----------------------------
(***************************************************************************)
(* The data of an integrated run (integrated_run in src/eden_core/core.py):*)
(* Refinery, ChronoNav, Chrysalis, mint and verify, each of which may      *)
(* refuse what it is given, and then the life of the Marble that comes out *)
(* of it: clients attach to it, edit it, have it verified (POST            *)
(* /marbles/verify) and mint it again (POST /marbles/mint).                *)
(*                                                                         *)
(* Each stage takes its part of the payload when it comes to it; the       *)
(* counters and state.json of the same run are in module EdenCore.         *)
(***************************************************************************)
EXTENDS ChronoNav, Chrysalis, Marble, FiniteSets

CONSTANTS
  Payloads,   \* per stage, the parts of payloads: "chrononav", "chrysalis"
  None,       \* no input, result, Marble or verdict
  MaxEdits    \* bound: edits of a Marble

ASSUME EditsAssumption == MaxEdits \in Nat

\* Numbers are comparable but for NaN; int(k) leaves one profile per count.
ASSUME PayloadsAssumption ==
  LET Number == Int \union {NaN} IN
  /\ NaN \notin Int
  /\ \A p \in Payloads.chrononav :
       /\ p.profiles \in Seq([workers : Int, seconds : Number])
       /\ p.deadline \in Number
       /\ \A i, j \in DOMAIN p.profiles :
            p.profiles[i].workers = p.profiles[j].workers => i = j
  /\ \A p \in Payloads.chrysalis :
       /\ p.candidates \in Seq([id : Int, quality : Number, cost : Number,
                                evidence : {"supplied", "measured", "bare"}])
       /\ p.baseline.cost \in Number
       /\ p.policy.quality \in Number /\ p.policy.reduction \in Number

VARIABLES
  phase,     \* the stage that is next, "held" by a client, or "refused"
  input,     \* what the last stage was given
  schedule,  \* result of ChronoNav: the profile, the deadline met or not
  selected,  \* result of Chrysalis: the candidate, in a sequence
  marble,
  verdict,   \* of the last verification, until the Marble changes
  minted,    \* history: the core as it was when its id was computed
  edits

vars == <<phase, input, schedule, selected, marble, verdict, minted, edits>>

Init ==
  /\ phase = "refinery"
  /\ input = None /\ schedule = None /\ selected = None
  /\ marble = None /\ verdict = None /\ minted = None
  /\ edits = 0

-----------------------------------------------------------------------------
(* The run                                                                 *)

\* A stage raises: the client gets status 400 and no Marble.
Refuse ==
  /\ phase' = "refused"
  /\ UNCHANGED <<input, schedule, selected, marble, verdict, minted, edits>>

\* Input and output are given, or one of them is missing.
Refinery ==
  /\ phase = "refinery"
  /\ \/ /\ phase' = "chrononav"
        /\ UNCHANGED <<input, schedule, selected, marble, verdict, minted, edits>>
     \/ Refuse

Schedule ==
  /\ phase = "chrononav"
  /\ \E p \in Payloads.chrononav :
       IF ProfilesAccepted(p.profiles, p.deadline)
       THEN LET chosen == ChooseWorkers(p.profiles, p.deadline) IN
            /\ phase' = "chrysalis"
            /\ input' = p
            /\ schedule' = [workers |-> chosen.workers,
                            met |-> Le(chosen.seconds, p.deadline)]
            /\ UNCHANGED <<selected, marble, verdict, minted, edits>>
       ELSE Refuse

Evaluate ==
  /\ phase = "chrysalis"
  /\ \E p \in Payloads.chrysalis :
       IF EvaluationAccepted(p.baseline, p.candidates, p.policy)
       THEN /\ phase' = "mint"
            /\ input' = p
            /\ selected' = Selected(p.baseline, p.candidates, p.policy)
            /\ UNCHANGED <<schedule, marble, verdict, minted, edits>>
       ELSE Refuse

\* Resources and instrumentation are the payload's; the rest is not.
CoreRecord(backed, resources) ==
  [commits |-> "run", class |-> "IMPLEMENTED", backed |-> backed,
   provenance |-> "numbered", policy |-> "committed", actor |-> "UNATTESTED",
   resources |-> resources]

MintRun ==
  /\ phase = "mint"
  /\ \E backed \in BOOLEAN, resources \in {"object", "nan", "other"} :
       LET core == CoreRecord(backed, resources) IN
       IF Mintable(core)
       THEN /\ phase' = "verify"
            /\ marble' = Mint(core, FALSE)
            /\ minted' = core
            /\ input' = None
            /\ UNCHANGED <<schedule, selected, verdict, edits>>
       ELSE Refuse

VerifyRun ==
  /\ phase = "verify"
  /\ phase' = "held"
  /\ verdict' = VerifyIntegrity(marble)
  /\ UNCHANGED <<input, schedule, selected, marble, minted, edits>>

-----------------------------------------------------------------------------
(* The Marble in a client's hands                                          *)

\* One committed field of the core is given another value.
Edit ==
  /\ phase = "held"
  /\ edits < MaxEdits
  /\ edits' = edits + 1
  /\ \E core \in Cores :
       /\ Cardinality({f \in DOMAIN core : core[f] # marble.core[f]}) = 1
       /\ marble' = [marble EXCEPT !.core = core]
  /\ verdict' = None
  /\ UNCHANGED <<phase, input, schedule, selected, minted>>

\* A signature, or the verification itself, is attached.
Attach ==
  /\ phase = "held"
  /\ ~marble.attached
  /\ marble' = [marble EXCEPT !.attached = TRUE]
  /\ verdict' = None
  /\ UNCHANGED <<phase, input, schedule, selected, minted, edits>>

\* verify_marble; where it raises the client gets status 400.
VerifyAgain ==
  /\ phase = "held"
  /\ ~VerificationRaises(marble)
  /\ verdict' = VerifyIntegrity(marble)
  /\ UNCHANGED <<phase, input, schedule, selected, marble, minted, edits>>

VerifyRaises ==
  /\ phase = "held"
  /\ VerificationRaises(marble)
  /\ UNCHANGED vars

MintAgain ==
  /\ phase = "held"
  /\ Mintable(marble.core)
  /\ marble' = Mint(marble.core, marble.attached)
  /\ minted' = marble.core
  /\ verdict' = None
  /\ UNCHANGED <<phase, input, schedule, selected, edits>>

Ended == phase = "refused" /\ UNCHANGED vars

Next ==
  \/ Refinery \/ Schedule \/ Evaluate \/ MintRun \/ VerifyRun
  \/ Edit \/ Attach \/ VerifyAgain \/ VerifyRaises \/ MintAgain \/ Ended

Spec == Init /\ [][Next]_vars

-----------------------------------------------------------------------------
(* Properties                                                              *)

\* ChronoNav's policy, "minimum_workers_meeting_deadline_else_fastest", as a
\* choice among the profiles whatever their order: no profile with fewer
\* workers meets the deadline; if none meets it, none is faster, nor as fast
\* with fewer workers.  NaN does not break this but for one case: min keeps a
\* NaN that comes first, so the fastest is the fastest of the profiles that are
\* NaN if the first one is, and of the others if it is not.
ScheduleIsBest ==
  phase = "chrysalis" =>
    LET meets(p) == Le(p.seconds, input.deadline)
        all == {input.profiles[i] : i \in DOMAIN input.profiles}
        chosen == CHOOSE p \in all : p.workers = schedule.workers
        ranked == {p \in all :
                     p.seconds = NaN <=> input.profiles[1].seconds = NaN}
    IN  /\ schedule.met <=> \E p \in all : meets(p)
        /\ \A p \in all : meets(p) => p.workers >= chosen.workers
        /\ ~schedule.met =>
             /\ chosen \in ranked
             /\ \A p \in ranked :
                  \/ Lt(chosen.seconds, p.seconds)
                  \/ chosen.seconds = p.seconds /\ chosen.workers <= p.workers

\* Chrysalis selects a candidate that keeps the policy, against which no other
\* that keeps it is cheaper, nor as cheap and better, nor equal with a smaller
\* id, so which one it is does not depend on their order; it selects none only
\* if none keeps it.  NaN in any number included.
SelectionIsBest ==
  phase = "mint" =>
    LET keeps(c) ==
          /\ Le(input.policy.quality, c.quality)
          /\ NaN \notin {c.cost, input.baseline.cost, input.policy.reduction}
          /\ 100 * c.cost <= (100 - input.policy.reduction) * input.baseline.cost
        kept == {c \in {input.candidates[i] : i \in DOMAIN input.candidates} :
                   keeps(c)}
    IN  IF kept = {} THEN selected = <<>>
        ELSE /\ selected # <<>> /\ selected[1] \in kept
             /\ \A c \in kept :
                  \/ selected[1].cost < c.cost
                  \/ selected[1].cost = c.cost /\ selected[1].quality > c.quality
                  \/ /\ selected[1].cost = c.cost
                     /\ selected[1].quality = c.quality
                     /\ selected[1].id <= c.id

\* "Any mutation to a committed field changes the identifier"
\* (marble/README.md:17), and nothing else does: after any sequence of edits,
\* attachments and mintings a Marble verifies exactly if its core is the one
\* that was minted, an edit that was undone included.  Before any edit the
\* Marble of a run verifies in every respect, whatever resources and
\* instrumentation the payload supplied, and claims no measurement and no
\* attestation.
VerdictTracksContent ==
  /\ verdict # None => (verdict.integrity <=> marble.core = minted)
  /\ (phase = "held" /\ edits = 0) =>
       /\ marble.core.class = "IMPLEMENTED"
       /\ verdict # None =>
            /\ verdict.integrity /\ verdict.provenance
            /\ verdict.policy /\ verdict.evidence
            /\ verdict.attestation = "UNATTESTED"
=============================================================================
