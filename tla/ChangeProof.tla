----------------------------- MODULE ChangeProof -----------------------------
(***************************************************************************)
(* The Change Proof of one workflow, statement by statement: the manifest, *)
(* the seven conditions, the in-memory store, the write-once document and  *)
(* the step to PROOF_COMPLETE, while images are adjudicated, deliveries    *)
(* repeated, and the process dies and is resumed.                          *)
(*                                                                         *)
(* POST .../proof is a synchronous route: its requests run on threads of a *)
(* pool.  Submissions run one at a time on the event loop.  Nothing locks  *)
(* the session, so a step here ends where the code next reads or writes    *)
(* what the other side may have changed.  DurableSession has the crash     *)
(* points inside a flush; here a flush is one step.  C1 and the identity   *)
(* of the proof hold by construction: the change and the workflow id are   *)
(* fixed when the session starts.                                          *)
(***************************************************************************)
EXTENDS Naturals, Sequences, SequencesExt, WorkflowStates

CONSTANTS
  Generators,     \* threads that serve a request for the proof
  MaxRequests,    \* bound on the requests for the proof
  MaxEvents,      \* bound on the verification events
  MaxDispatches,  \* bound on the dispatches of one process
  MaxCrashes,     \* bound on the deaths of the process
  MaxFaults,      \* bound on the store calls that raise
  None

Results == {"PASS", "FAIL", "INCONCLUSIVE"}

\* The workflows, sessions, manifests and proofs there can be.
Workflows ==
  [state : WorkflowState, target : BOOLEAN, delivered : BOOLEAN, proven : BOOLEAN]

Sessions ==
  [workflow : Workflows, impact : {"SINGLE_QUALIFIED_TARGET", "NO_QUALIFIED_TARGET"},
   evidence : {"NONE", "MUTATION", "NO_OP"}, receipt : Nat, events : Seq(Results),
   history : Seq(WorkflowState)]

Manifests ==
  [remediation : {<<"BEFORE", "AFTER">>, <<"EVALUATED">>}, delivery : Nat,
   verifications : Seq(Results), transitions : Seq(WorkflowState)]

Proofs ==
  [manifest : Manifests, evidence : {"MUTATION", "NO_OP"}, receipt : Nat, event : Nat]

ASSUME ProofAssumption ==
  /\ MaxRequests \in Nat /\ MaxEvents \in Nat /\ MaxDispatches \in Nat
  /\ MaxCrashes \in Nat /\ MaxFaults \in Nat
  /\ None \notin Sessions \union Proofs

VARIABLES
  session,     \* what the process holds of the workflow, or None
  memory,      \* session.proof_store: the proof of the workflow, or None
  dispatched,  \* whether this process has delivered: its ledger action id is its own
  generator,   \* per thread: the step of its request and what it has read
  upload,      \* the submission under way, likewise
  doc,         \* the session as it was last flushed
  proofDoc,    \* workflows/<id>/proofs/<proof id>, or None
  requests, crashes, faults

bounds == <<requests, crashes, faults>>
vars == <<session, memory, dispatched, generator, upload, doc, proofDoc, bounds>>

-----------------------------------------------------------------------------
(***************************************************************************)
(* The proof of a context                                                  *)
(***************************************************************************)

\* The workflow aggregate, which every update copies and replaces as a whole.
Workflow(state, target, delivered) ==
  [state |-> state, target |-> target, delivered |-> delivered, proven |-> FALSE]

\* remediation_evidence_refs: a mutation has two references, a no-op one.
RemediationRefs(evidence) ==
  CASE evidence = "MUTATION" -> <<"BEFORE", "AFTER">>
    [] evidence = "NO_OP"    -> <<"EVALUATED">>

\* assemble_evidence_manifest: every attempt in order, whatever its result.  The
\* references to rejected results are left out: no use case ever adds one.
Manifest(s) ==
  [remediation   |-> RemediationRefs(s.evidence),
   delivery      |-> s.receipt,
   verifications |-> s.events,
   transitions   |-> s.history]

\* has_fabricated_before_after_pair
Fabricated(manifest, evidence) ==
  CASE evidence = "NO_OP"    -> Len(manifest.remediation) # 1
    [] evidence = "MUTATION" -> \/ Len(manifest.remediation) # 2
                                \/ manifest.remediation[1] = manifest.remediation[2]

\* MUTANT: whatever the manifest references is enough.
AnyEventsCovered(manifest, events) == manifest.verifications # <<>>

\* manifest_covers_all_events: event ids count up, so the manifest covers as
\* many events as it references.
CoversAllEvents(manifest, events) == Len(manifest.verifications) >= Len(events)

\* latest_authoritative_event: the greatest event_sequence.
LatestIs(events, result) == events # <<>> /\ Last(events) = result

\* Condition 7.
StateCompatible(workflow, history) ==
  /\ workflow.state \notin {"VERIFICATION_FAILED", "VERIFICATION_INCONCLUSIVE"}
  /\ (Range(history) \union {workflow.state})
       \intersect {"SUPERSEDED", "FAILED", "REVIEW_REQUIRED"} = {}

\* evaluate_proof_invariants: conditions 2 to 7 of a context.
Eligible(c) ==
  /\ c.impact = "SINGLE_QUALIFIED_TARGET" /\ c.workflow.target
  /\ c.evidence # "NONE" /\ ~Fabricated(c.manifest, c.evidence)
  /\ c.workflow.delivered /\ c.receipt # 0 /\ c.manifest.delivery = c.receipt
  /\ LatestIs(c.events, "PASS")
  /\ c.manifest.verifications # <<>> /\ CoversAllEvents(c.manifest, c.events)
  /\ StateCompatible(c.workflow, c.history)

\* generate_change_proof: a function of the context alone, hash and completion
\* timestamp included (they are derived from the rest).
ProofOf(c) ==
  [manifest |-> c.manifest, evidence |-> c.evidence, receipt |-> c.receipt, event |-> Len(c.events)]

\* _proof_context has all it needs.
HasStructure(s) == s.impact # "NONE" /\ s.evidence # "NONE" /\ s.receipt # 0

Context(workflow, manifest, s) ==
  [workflow |-> workflow, manifest |-> manifest, impact |-> s.impact, evidence |-> s.evidence,
   events |-> s.events, history |-> s.history, receipt |-> s.receipt]

\* ProofValidator.validate: the stored bytes carry the hash and the identity they
\* were stored under, so what can fail is a condition.
Valid(context) == Eligible(context)

\* validate_proof: the stored proof in the context of now, if there are both.
ValidNow ==
  memory # None /\ HasStructure(session)
    => Valid(Context(session.workflow, Manifest(session), session))

-----------------------------------------------------------------------------
(***************************************************************************)
(* The session before anything is asked for                                *)
(***************************************************************************)
Session(state, impact, history) ==
  [workflow |-> Workflow(state, impact = "SINGLE_QUALIFIED_TARGET", FALSE),
   impact |-> impact, evidence |-> "NONE", receipt |-> 0, events |-> <<>>,
   history |-> history]

Idle == [step |-> "IDLE"]

\* The change is analysed: it has its target, or it is at the review gate.
Init ==
  /\ \/ session = Session("IMPACT_DETERMINED", "SINGLE_QUALIFIED_TARGET", <<"CHANGE_RECEIVED">>)
     \/ session = Session("REVIEW_REQUIRED", "NO_QUALIFIED_TARGET",
                          <<"CHANGE_RECEIVED", "IMPACT_DETERMINED">>)
  /\ memory = None
  /\ dispatched = FALSE
  /\ generator = [g \in Generators |-> Idle]
  /\ upload = Idle
  /\ doc = session
  /\ proofDoc = None
  /\ requests = 0 /\ crashes = 0 /\ faults = 0

Live == session # None

-----------------------------------------------------------------------------
(***************************************************************************)
(* generate_proof, one thread                                              *)
(***************************************************************************)
At(g, step) == generator[g].step = step
Go(g, to) == generator' = [generator EXCEPT ![g] = to]

\* An exception leaves the use case, without the flush.
Abort(g) == Go(g, Idle)

\* The request is in; _proof_context reads the workflow and assembles the
\* manifest, or has nothing to assemble.
RequestProof(g) ==
  /\ Live /\ At(g, "IDLE")
  /\ requests < MaxRequests
  /\ requests' = requests + 1
  /\ Go(g, IF HasStructure(session)
             THEN [step |-> "ATTEMPT", workflow |-> session.workflow,
                   manifest |-> Manifest(session)]
             ELSE [step |-> "RETURN"])
  /\ UNCHANGED <<session, memory, dispatched, upload, doc, proofDoc, crashes, faults>>

\* The rest of the context is read, then attempt_proof looks for a proof and
\* evaluates the conditions.
Attempt(g) ==
  /\ At(g, "ATTEMPT")
  /\ LET context == Context(generator[g].workflow, generator[g].manifest, session)
     IN Go(g, IF memory # None
                THEN [step |-> "RECORD", proof |-> memory, replayed |-> TRUE]
                ELSE IF Eligible(context)
                       THEN [step |-> "LOOK", proof |-> ProofOf(context)]
                       ELSE [step |-> "RETURN"])
  /\ UNCHANGED <<session, memory, dispatched, upload, doc, proofDoc, bounds>>

\* ProofStore.record: another thread may have stored one by now, the same or
\* another (ProofStorageError).
Look(g) ==
  /\ At(g, "LOOK")
  /\ IF memory \in {None, generator[g].proof}
       THEN Go(g, [step |-> IF memory = None THEN "PUT" ELSE "RECORD",
                   proof |-> generator[g].proof, replayed |-> FALSE])
       ELSE Abort(g)
  /\ UNCHANGED <<session, memory, dispatched, upload, doc, proofDoc, bounds>>

\* MUTANT: the document is left for later.
PutAndGoOn(g) ==
  /\ At(g, "PUT")
  /\ memory' = generator[g].proof
  /\ Go(g, [step |-> "COPY"])
  /\ UNCHANGED <<session, dispatched, upload, doc, proofDoc, bounds>>

Put(g) ==
  /\ At(g, "PUT")
  /\ memory' = generator[g].proof
  /\ Go(g, [generator[g] EXCEPT !.step = "RECORD"])
  /\ UNCHANGED <<session, dispatched, upload, doc, proofDoc, bounds>>

Recorded(g) ==
  Go(g, [step |-> IF generator[g].replayed THEN "RETURN" ELSE "COPY"])

\* FirestoreProofStore.record: create, or the same bytes are there already.
RecordProof(g) ==
  /\ At(g, "RECORD")
  /\ proofDoc \in {None, generator[g].proof}
  /\ proofDoc' = generator[g].proof
  /\ Recorded(g)
  /\ UNCHANGED <<session, memory, dispatched, upload, doc, bounds>>

\* ConflictingRecord: the document holds other bytes.
RecordConflict(g) ==
  /\ At(g, "RECORD")
  /\ proofDoc \notin {None, generator[g].proof}
  /\ Abort(g)
  /\ UNCHANGED <<session, memory, dispatched, upload, doc, proofDoc, bounds>>

\* session.workflow = session.workflow.model_copy(update={"proof_id": ...}):
\* the copy is made, then assigned.
CopyWorkflow(g) ==
  /\ At(g, "COPY")
  /\ Go(g, [step |-> "ASSIGN", workflow |-> [session.workflow EXCEPT !.proven = TRUE]])
  /\ UNCHANGED <<session, memory, dispatched, upload, doc, proofDoc, bounds>>

AssignCopy(g) ==
  /\ At(g, "ASSIGN")
  /\ session' = [session EXCEPT !.workflow = generator[g].workflow]
  /\ Go(g, [step |-> "ADVANCE"])
  /\ UNCHANGED <<memory, dispatched, upload, doc, proofDoc, bounds>>

\* MUTANT: a workflow that has its proof_id counts as complete.
CompleteUnnamed(g) ==
  /\ At(g, "ADVANCE")
  /\ IF CanTransition(session.workflow.state, "PROOF_COMPLETE") /\ ~session.workflow.proven
       THEN session' = [session EXCEPT !.history = Append(@, session.workflow.state),
                                       !.workflow.state = "PROOF_COMPLETE"]
       ELSE UNCHANGED session
  /\ Go(g, [step |-> "RETURN"])
  /\ UNCHANGED <<memory, dispatched, upload, doc, proofDoc, bounds>>

\* _advance to PROOF_COMPLETE, or leave the workflow alone.
Complete(g) ==
  /\ At(g, "ADVANCE")
  /\ IF CanTransition(session.workflow.state, "PROOF_COMPLETE")
       THEN session' = [session EXCEPT !.history = Append(@, session.workflow.state),
                                       !.workflow.state = "PROOF_COMPLETE"]
       ELSE UNCHANGED session
  /\ Go(g, [step |-> "RETURN"])
  /\ UNCHANGED <<memory, dispatched, upload, doc, proofDoc, bounds>>

\* The decorator flushes the session as it is by then.
ReturnProof(g) ==
  /\ At(g, "RETURN")
  /\ doc' = session
  /\ Go(g, Idle)
  /\ UNCHANGED <<session, memory, dispatched, upload, proofDoc, bounds>>

\* A store call raises, with or without effect.
StoreRaises(g) ==
  /\ faults < MaxFaults
  /\ faults' = faults + 1
  /\ \/ /\ At(g, "RECORD")
        /\ proofDoc' \in {proofDoc, IF proofDoc = None THEN generator[g].proof ELSE proofDoc}
        /\ UNCHANGED doc
     \/ /\ At(g, "RETURN")
        /\ doc' \in {doc, session}
        /\ UNCHANGED proofDoc
  /\ Abort(g)
  /\ UNCHANGED <<session, memory, dispatched, upload, requests, crashes>>

-----------------------------------------------------------------------------
(***************************************************************************)
(* What else happens to the session                                        *)
(***************************************************************************)

\* deploy_change, which leaves either kind of evidence, as one step.
Remediate ==
  /\ Live
  /\ session.impact = "SINGLE_QUALIFIED_TARGET" /\ session.evidence = "NONE"
  /\ \E evidence \in {"MUTATION", "NO_OP"} :
       session' = [session EXCEPT !.evidence = evidence,
                                  !.workflow.state = "REMEDIATION_COMPLETED",
                                  !.history = @ \o <<"IMPACT_DETERMINED", "REMEDIATION_PENDING">>]
  /\ doc' = session'
  /\ UNCHANGED <<memory, dispatched, generator, upload, proofDoc, bounds>>

\* deliver_to_frontline: a resumed process derives another action id, so its
\* ledger knows of no delivery.  A process numbers its receipts from 1 on, and
\* racing requests may dispatch more than once (FrontlineDelivery): the session
\* keeps one of the numbers.  The states of the delivery are entered if legal.
Deliver ==
  /\ Live
  /\ session.evidence # "NONE"
  /\ ~dispatched
  /\ dispatched' = TRUE
  /\ \E number \in 1..MaxDispatches :
       session' =
         [session EXCEPT
            !.receipt = number,
            !.workflow.delivered = TRUE,
            !.workflow.state = IF @ = "REMEDIATION_COMPLETED" THEN "AWAITING_FIELD_VERIFICATION" ELSE @,
            !.history = IF session.workflow.state = "REMEDIATION_COMPLETED"
                          THEN @ \o <<"REMEDIATION_COMPLETED", "FRONTLINE_DELIVERY_COMPLETED">>
                          ELSE @]
  /\ doc' = session'
  /\ UNCHANGED <<memory, generator, upload, proofDoc, bounds>>

\* A submission that is refused, replayed or rejected at Crossing 4 leaves the
\* session's workflow and events alone, whatever their state, and flushes them.
RefuseSubmission ==
  /\ Live /\ upload.step = "IDLE"
  /\ upload' = [step |-> "RETURN"]
  /\ UNCHANGED <<session, memory, dispatched, generator, doc, proofDoc, bounds>>

VerdictState(result) ==
  CASE result = "PASS" -> "VERIFICATION_PASSED"
    [] result = "FAIL" -> "VERIFICATION_FAILED"
    [] OTHER           -> "VERIFICATION_INCONCLUSIVE"

\* The event and the workflow that an adjudication hands back to be recorded.
VerdictOutcome(workflow, result) ==
  [step |-> "APPEND", result |-> result,
   workflow |-> [workflow EXCEPT !.state = VerdictState(result)]]

\* _adjudicate: the workflow is reopened; the verdict is computed from it.
Adjudicate(result) ==
  /\ Live /\ upload.step = "IDLE"
  /\ Len(session.events) < MaxEvents
  /\ \/ session.workflow.state = "AWAITING_FIELD_VERIFICATION"
     \/ CanTransition(session.workflow.state, "AWAITING_FIELD_VERIFICATION")
  /\ session.receipt # 0
  /\ session' = [session EXCEPT !.workflow.state = "AWAITING_FIELD_VERIFICATION"]
  /\ upload' = VerdictOutcome(session'.workflow, result)
  /\ UNCHANGED <<memory, dispatched, generator, doc, proofDoc, bounds>>

AppendEvent ==
  /\ upload.step = "APPEND"
  /\ session' = [session EXCEPT !.events = Append(@, upload.result)]
  /\ upload' = [upload EXCEPT !.step = "ASSIGN"]
  /\ UNCHANGED <<memory, dispatched, generator, doc, proofDoc, bounds>>

AssignVerdict ==
  /\ upload.step = "ASSIGN"
  /\ session' = [session EXCEPT !.workflow = upload.workflow]
  /\ upload' = [step |-> "RETURN"]
  /\ UNCHANGED <<memory, dispatched, generator, doc, proofDoc, bounds>>

ReturnUpload ==
  /\ upload.step = "RETURN"
  /\ doc' = session
  /\ upload' = Idle
  /\ UNCHANGED <<session, memory, dispatched, generator, proofDoc, bounds>>

\* The process dies: the proof store is memory.
Crash ==
  /\ Live
  /\ crashes < MaxCrashes
  /\ crashes' = crashes + 1
  /\ session' = None /\ memory' = None /\ dispatched' = FALSE
  /\ generator' = [g \in Generators |-> Idle]
  /\ upload' = Idle
  /\ UNCHANGED <<doc, proofDoc, requests, faults>>

Resume ==
  /\ ~Live
  /\ doc.workflow.state \notin TerminalStates \union {"REVIEW_REQUIRED"}
  /\ session' = doc
  /\ UNCHANGED <<memory, dispatched, generator, upload, doc, proofDoc, bounds>>

-----------------------------------------------------------------------------
Serve(g) ==
  \/ Attempt(g) \/ Look(g) \/ Put(g) \/ RecordProof(g) \/ RecordConflict(g)
  \/ CopyWorkflow(g) \/ AssignCopy(g) \/ Complete(g) \/ ReturnProof(g)

Judge == AppendEvent \/ AssignVerdict \/ ReturnUpload

Next ==
  \/ \E g \in Generators : RequestProof(g) \/ Serve(g) \/ StoreRaises(g)
  \/ Remediate
  \/ Deliver
  \/ RefuseSubmission
  \/ \E result \in Results : Adjudicate(result)
  \/ Judge
  \/ Crash
  \/ Resume

\* A thread that serves a request is scheduled, and so is the event loop.
Fairness ==
  /\ \A g \in Generators : WF_vars(Serve(g))
  /\ WF_vars(Judge)

Spec == Init /\ [][Next]_vars /\ Fairness

-----------------------------------------------------------------------------
(***************************************************************************)
(* Properties                                                              *)
(***************************************************************************)
IsComplete == Live /\ session.workflow.state = "PROOF_COMPLETE"

\* Every field of a proof is filled: evidence of one kind, the receipt its manifest
\* references, an event.
Filled(p) ==
  /\ p \in Proofs
  /\ p.receipt \in 1..MaxDispatches /\ p.manifest.delivery = p.receipt
  /\ p.event \in 1..MaxEvents

\* A proof, stored or only in memory, tells the truth whatever the threads read
\* in between: it references every attempt up to the PASS it names, in order and
\* the failed ones included, its receipt is one the channel gave, and the
\* workflow never stood at the review gate (attempt_proof on a context that was
\* assembled while images were adjudicated).
ProofTellsTruth ==
  /\ \A p \in {memory, proofDoc} \ {None} :
       /\ Len(p.manifest.verifications) = p.event
       /\ Last(p.manifest.verifications) = "PASS"
       /\ Filled(p)
       /\ "REVIEW_REQUIRED" \notin Range(p.manifest.transitions)
  /\ memory # None => IsPrefix(memory.manifest.verifications, session.events)

\* A workflow is complete only once its proof is stored, and the validator bears
\* out a complete one whatever was delivered or appended to the history since:
\* only a later verdict, which a racing submission can slip in, is able to
\* invalidate it (generate_proof, validate_proof).
CompleteIsProven ==
  /\ IsComplete => proofDoc # None
  /\ IsComplete /\ LatestIs(session.events, "PASS") => ValidNow
  /\ doc.workflow.state = "PROOF_COMPLETE" => proofDoc # None

\* Requests that race to store the first proof of a passed workflow do not both
\* give up: unless the process dies or the store fails, it ends up complete.
RacersComplete ==
  ( /\ Live /\ upload = Idle
    /\ session.workflow.state = "VERIFICATION_PASSED"
    /\ memory = None /\ proofDoc = None
    /\ \E g \in Generators : At(g, "LOOK") )
  ~> \/ IsComplete /\ \A g \in Generators : At(g, "IDLE")
     \/ crashes > 0 \/ faults > 0

-----------------------------------------------------------------------------
(***************************************************************************)
(* What the repository's documents say and the code does not keep.         *)
(***************************************************************************)

\* runtime.proof_document: the proof of the live session, else the stored one.
ProofDocument == IF Live /\ memory # None THEN memory ELSE proofDoc

\* The document served does not depend on which process holds the workflow.
ServedIsStored == proofDoc # None => ProofDocument = proofDoc

=============================================================================
