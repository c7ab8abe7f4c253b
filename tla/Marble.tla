------------------------------- MODULE Marble -------------------------------
(***************************************************************************)
(* Minting and verification of a Marble (src/marble/marble.py).  A Marble  *)
(* is its committed core, its id and what is attached to it afterwards     *)
(* (signature, verification).  Of the core the model keeps what is checked *)
(* or can be edited with an effect; the hash is free of collisions, so an  *)
(* id is the content it commits to.                                        *)
(***************************************************************************)
EXTENDS Integers

Classes == {"IMPLEMENTED", "MEASURED", "INDEPENDENTLY_VALIDATED"}

\* "resources" is an object, an object that holds NaN, or something else;
\* "commits" stands for input, output and the results that are hashed;
\* "backed" says that the evidence its class needs is there: instrumentation
\* for MEASURED, a reproduction reference for INDEPENDENTLY_VALIDATED.  The
\* provenance has a sequence number or not, the policy its id and hash or not,
\* and the actor an attestation (a string, or RECORDED_VERIFIED for an object
\* that is verified and has its credential hash); or they are no objects.
Cores ==
  [commits : {"run", "other"}, class : Classes \union {"unknown"},
   backed : BOOLEAN, provenance : {"numbered", "unnumbered", "other"},
   policy : {"committed", "incomplete", "other"},
   actor : {"UNATTESTED", "RECORDED_VERIFIED", "other"},
   resources : {"object", "nan", "other"}]

\* Mutation: what is attached afterwards is hashed too.
ContentWithAttached(m) ==
  [m.core EXCEPT !.commits = IF m.attached THEN "attached" ELSE @]

\* committed_core: attached fields and the id are left out.
Content(m) == m.core

StructureOk(m) == m.core.class \in Classes /\ m.core.resources # "other"

\* canonical_bytes refuses NaN, and compute_id raises.
Hashable(m) == m.core.resources # "nan"

Mintable(core) ==
  LET m == [core |-> core, id |-> core, attached |-> FALSE]
  IN  StructureOk(m) /\ Hashable(m)

\* What is attached to a core that is minted again stays attached.
Mint(core, attached) ==
  LET m == [core |-> core, id |-> core, attached |-> attached]
  IN  [m EXCEPT !.id = Content(m)]

EvidenceOk(core) ==
  core.class \in {"MEASURED", "INDEPENDENTLY_VALIDATED"} => core.backed

Integrity(m) == StructureOk(m) /\ m.id = Content(m)

\* The hash raises, or a part that is looked into and is no object: neither is
\* in the structure that was checked.
VerificationRaises(m) ==
  /\ StructureOk(m)
  /\ \/ ~Hashable(m)
     \/ Integrity(m) /\ "other" \in {m.core.provenance, m.core.policy, m.core.actor}

\* Verification stops at the first of structure and integrity that fails.
VerifyIntegrity(m) ==
  [structure |-> StructureOk(m),
   integrity |-> Integrity(m),
   provenance |-> Integrity(m) /\ m.core.provenance = "numbered",
   policy |-> Integrity(m) /\ m.core.policy = "committed",
   evidence |-> Integrity(m) /\ EvidenceOk(m.core),
   attestation |-> IF Integrity(m) THEN m.core.actor ELSE "UNATTESTED"]
=============================================================================
