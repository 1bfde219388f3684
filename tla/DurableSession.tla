--------------------------- MODULE DurableSession ---------------------------
(***************************************************************************)
(* One workflow between the instances that drive it and the documents it   *)
(* leaves in Firestore: every use case changes the session in memory and   *)
(* flushes it with one write per document; an instance may die before any  *)
(* of those writes, and another resumes from the documents it finds.       *)
(*                                                                         *)
(* HeroService has the decisions of the use cases; here one is reduced to  *)
(* its in-memory effect and the job it leaves: state transitions, each     *)
(* followed by a flush, the composition of the delta, the proof document,  *)
(* and the final flush.  An instance serves one request at a time, as in   *)
(* HeroService.  The catalog has one qualified artifact, and the delivery  *)
(* channel is the in-process one, which always returns a receipt.          *)
(***************************************************************************)
EXTENDS Naturals, Sequences, SequencesExt, WorkflowStates

CONSTANTS
  Instances,    \* instance ids
  Modes,        \* the disturbances to choose from, see mode
  MaxResumes,   \* bound on the resumes
  MaxEvents,    \* bound on the verification events of the workflow
  MaxFaults,    \* bound on the store calls that raise
  None

ASSUME DurableAssumption ==
  /\ Modes \subseteq {"CRASHES", "FAULTS", "OVERLAP"}
  /\ MaxResumes \in Nat /\ MaxEvents \in Nat /\ MaxFaults \in Nat
  /\ None \notin Nat

\* The ledger's stable action ids.  The delivery action's id is derived from the
\* namespace of the service: a resumed service derives another one.
ActionIds == {"REMEDIATE", "DELIVER", "DELIVER_RESUMED"}

Results == {"PASS", "FAIL", "INCONCLUSIVE"}

\* history is the states left so far (state_history, stored with the workflow).
Workflows == [state : WorkflowState, history : Seq(WorkflowState),
              affected : BOOLEAN, delivered : BOOLEAN]
Ledgers == [ActionIds -> {"ABSENT", "COMPLETED"}]

VARIABLES
  mode,        \* how the instances are disturbed, fixed from the start:
               \* "CRASHES", "FAULTS" (crashes, and store calls that raise), or
               \* "OVERLAP" (crashes, and resumes while another instance is live)
  session,     \* the session each instance holds in memory, or None
  todo,        \* what is left of each instance's current use case
  writing,     \* the next document of the flush each instance is in, or "NONE"
  basis,       \* what each instance's sink knows of the workflow document's
               \* revision: "UNREAD", "CURRENT", or "STALE" (another write came after)
  workflowDoc, \* workflows/<id>: the workflow aggregate
  actionDocs,  \* workflows/<id>/actions: one record per ledger action
  snapshotDoc, \* resume_snapshots/<id>: the session state beside the aggregate
  proofDoc,    \* workflows/<id>/proofs: what the stored proof was made from, or None
  dispatches,  \* deliveries that reached the frontline
  resumes,     \* resumes so far
  faults       \* store calls that raised so far

vars == <<mode, session, todo, writing, basis, workflowDoc, actionDocs, snapshotDoc,
          proofDoc, dispatches, resumes, faults>>
docs == <<workflowDoc, actionDocs, snapshotDoc, proofDoc>>
counters == <<mode, dispatches, resumes, faults>>

\* What encode_snapshot projects of the session: impact_resolution, the
\* remediation evidence (with the artifact it leaves), the delta, the number of
\* the delivery receipt (0: none) and the verification events.
FreshSnapshot ==
  [impact |-> "NONE", evidence |-> FALSE, delta |-> FALSE, receipt |-> 0, events |-> <<>>]

\* sent is the dispatch count of the in-process channel: it numbers the receipts,
\* and starts again in a process that resumes.
FreshSession ==
  [workflow   |-> [state |-> "CHANGE_RECEIVED", history |-> <<>>,
                   affected |-> FALSE, delivered |-> FALSE],
   ledger     |-> [a \in ActionIds |-> "ABSENT"],
   snapshot   |-> FreshSnapshot,
   deliveryId |-> "DELIVER",
   sent       |-> 0,
   proof      |-> None]

\* accept_change has stored the workflow from the instance that accepted it.
\* There is no snapshot document yet, which reads like a fresh one.
Init ==
  /\ mode \in Modes
  /\ \E acceptor \in Instances :
       /\ session = [i \in Instances |-> IF i = acceptor THEN FreshSession ELSE None]
       /\ basis = [i \in Instances |-> IF i = acceptor THEN "CURRENT" ELSE "UNREAD"]
  /\ todo = [i \in Instances |-> <<>>]
  /\ writing = [i \in Instances |-> "NONE"]
  /\ workflowDoc = FreshSession.workflow
  /\ actionDocs = FreshSession.ledger
  /\ snapshotDoc = FreshSnapshot
  /\ proofDoc = None
  /\ dispatches = 0
  /\ resumes = 0
  /\ faults = 0

Live(i) == session[i] # None
Idle(i) == Live(i) /\ todo[i] = <<>> /\ writing[i] = "NONE"

-----------------------------------------------------------------------------
(***************************************************************************)
(* Use cases: what a request changes in memory, and the job it leaves      *)
(***************************************************************************)

\* A use case of instance i leaves session s in memory and then performs tasks;
\* the _persists decorator flushes when it returns.
UseCase(i, s, tasks) ==
  /\ Idle(i)
  /\ session' = [session EXCEPT ![i] = s]
  /\ todo' = [todo EXCEPT ![i] = tasks \o <<"RETURN">>]
  /\ UNCHANGED <<writing, basis, docs, mode, resumes, faults>>

\* analyze_change: the agent or Crossing 1 failed, no unique target qualified,
\* or the one artifact did.
AnalysisFails(i) ==
  /\ UseCase(i, session[i], <<"IMPACT_DETERMINED", "REVIEW_REQUIRED">>)
  /\ UNCHANGED dispatches

AnalysisFindsNoTarget(i) ==
  /\ Live(i)
  /\ UseCase(i, [session[i] EXCEPT !.snapshot.impact = "NO_TARGET"],
             <<"IMPACT_DETERMINED", "REVIEW_REQUIRED">>)
  /\ UNCHANGED dispatches

AnalysisQualifies(i) ==
  /\ Live(i)
  /\ UseCase(i, [session[i] EXCEPT !.snapshot.impact = "TARGET", !.workflow.affected = TRUE],
             <<"IMPACT_DETERMINED">>)
  /\ UNCHANGED dispatches

\* deploy_change with a qualified target whose action never completed.  The
\* delta is composed only after the transitions have been flushed.
DeployChange(i) ==
  /\ Live(i)
  /\ session[i].snapshot.impact = "TARGET"
  /\ session[i].ledger["REMEDIATE"] = "ABSENT"
  /\ UseCase(i, [session[i] EXCEPT !.ledger["REMEDIATE"] = "COMPLETED",
                                   !.snapshot.evidence = TRUE],
             <<"IMPACT_DETERMINED", "REMEDIATION_PENDING", "REMEDIATION_COMPLETED", "COMPOSE">>)
  /\ UNCHANGED dispatches

\* MUTANT: a delivery is dispatched again whatever the ledger says.
DeliverRegardless(i) ==
  /\ Live(i)
  /\ session[i].snapshot.delta
  /\ dispatches <= 2 * MaxResumes
  /\ UseCase(i, [session[i] EXCEPT !.ledger[session[i].deliveryId] = "COMPLETED",
                                   !.sent = @ + 1,
                                   !.snapshot.receipt = session[i].sent + 1,
                                   !.workflow.delivered = TRUE],
             <<"FRONTLINE_DELIVERY_COMPLETED", "AWAITING_FIELD_VERIFICATION">>)
  /\ dispatches' = dispatches + 1

\* MUTANT: receipts are numbered through all processes.
DeliverNumbered(i) ==
  /\ Live(i)
  /\ session[i].snapshot.delta
  /\ session[i].ledger[session[i].deliveryId] = "ABSENT"
  /\ UseCase(i, [session[i] EXCEPT !.ledger[session[i].deliveryId] = "COMPLETED",
                                   !.snapshot.receipt = dispatches + 1,
                                   !.workflow.delivered = TRUE],
             <<"FRONTLINE_DELIVERY_COMPLETED", "AWAITING_FIELD_VERIFICATION">>)
  /\ dispatches' = dispatches + 1

\* deliver_to_frontline with a composed delta and no completed delivery under
\* this session's action id.
DeliverToFrontline(i) ==
  /\ Live(i)
  /\ session[i].snapshot.delta
  /\ session[i].ledger[session[i].deliveryId] = "ABSENT"
  /\ UseCase(i, [session[i] EXCEPT !.ledger[session[i].deliveryId] = "COMPLETED",
                                   !.sent = @ + 1,
                                   !.snapshot.receipt = session[i].sent + 1,
                                   !.workflow.delivered = TRUE],
             <<"FRONTLINE_DELIVERY_COMPLETED", "AWAITING_FIELD_VERIFICATION">>)
  /\ dispatches' = dispatches + 1

\* submit_field_evidence with an image not judged before, for a workflow that
\* awaits verification or reopens for it.  The verdict sets the state directly:
\* nothing is flushed until the use case returns.
Awaiting(state) ==
  state = "AWAITING_FIELD_VERIFICATION" \/ CanTransition(state, "AWAITING_FIELD_VERIFICATION")

VerdictState(r) ==
  CASE r = "PASS" -> "VERIFICATION_PASSED"
    [] r = "FAIL" -> "VERIFICATION_FAILED"
    [] OTHER      -> "VERIFICATION_INCONCLUSIVE"

SubmitFieldEvidence(i, result) ==
  /\ Live(i)
  /\ Len(session[i].snapshot.events) < MaxEvents
  /\ Awaiting(session[i].workflow.state)
  /\ UseCase(i, [session[i] EXCEPT !.workflow.state = VerdictState(result),
                                   !.snapshot.events = Append(@, result)], <<>>)
  /\ UNCHANGED dispatches

\* MUTANT: a passing verification is enough.
EligibleOnPass(s) == s.snapshot.events # <<>> /\ Last(s.snapshot.events) = "PASS"

\* The seven conditions, as far as the session can differ in them.
ProofEligible(s) ==
  /\ s.snapshot.impact = "TARGET" /\ s.workflow.affected
  /\ s.snapshot.evidence
  /\ s.snapshot.receipt # 0 /\ s.workflow.delivered
  /\ s.snapshot.events # <<>> /\ Last(s.snapshot.events) = "PASS"
  /\ s.workflow.state \notin {"REVIEW_REQUIRED", "VERIFICATION_FAILED",
                              "VERIFICATION_INCONCLUSIVE"}

\* What differs between two proofs of the workflow: the events it verifies, its
\* delivery_ref, and the transitions in its manifest.
ProofOf(s) ==
  [events  |-> s.snapshot.events,
   receipt |-> s.snapshot.receipt,
   history |-> s.workflow.history]

\* generate_proof: the proof is stored in memory, then written, and only a new
\* one advances the workflow.  Repeated, it writes the same proof again.
GenerateProof(i) ==
  /\ Live(i)
  /\ session[i].proof = None
  /\ ProofEligible(session[i])
  /\ UseCase(i, [session[i] EXCEPT !.proof = ProofOf(session[i])],
             <<"PROOF", "PROOF_COMPLETE">>)
  /\ UNCHANGED dispatches

RepeatProof(i) ==
  /\ Live(i)
  /\ session[i].proof # None
  /\ UseCase(i, session[i], <<"PROOF">>)
  /\ UNCHANGED dispatches

\* A use case that refuses, replays or finds nothing to do still flushes.
NothingToDo(i) ==
  /\ UseCase(i, session[i], <<>>)
  /\ UNCHANGED dispatches

-----------------------------------------------------------------------------
(***************************************************************************)
(* The tasks of a use case, one store call or transition at a time         *)
(***************************************************************************)

Due(i, task) ==
  /\ writing[i] = "NONE"
  /\ todo[i] # <<>> /\ Head(todo[i]) = task

Pop(i) == todo' = [todo EXCEPT ![i] = Tail(@)]

\* _persist writes the documents one by one: the workflow, the action records
\* (those the use case did not change are as stored), the snapshot.
Write(i, document) == writing' = [writing EXCEPT ![i] = document]

\* An exception leaves the use case; what is in memory stays there.
Abort(i) ==
  /\ todo' = [todo EXCEPT ![i] = <<>>]
  /\ Write(i, "NONE")

\* A store call raises.  (FAULTS mode only, and boundedly often.)
Raises == mode = "FAULTS" /\ faults < MaxFaults /\ faults' = faults + 1

\* How a write of the flush that took effect ends: it answers and the next
\* document is written, or it raises all the same.
Answers(i, answered, document) ==
  IF answered THEN Write(i, document) /\ UNCHANGED <<todo, faults>>
              ELSE Abort(i) /\ Raises

\* A workflow moved to target: the state it leaves is retained.
Moved(workflow, target) ==
  [workflow EXCEPT !.state = target, !.history = Append(@, workflow.state)]

\* _advance: a legal transition is flushed at once, another one is skipped.
Advance(i, target) ==
  /\ Due(i, target)
  /\ Pop(i)
  /\ IF CanTransition(session[i].workflow.state, target)
       THEN session' = [session EXCEPT ![i].workflow = Moved(@, target)] /\ Write(i, "WORKFLOW")
       ELSE UNCHANGED <<session, writing>>
  /\ UNCHANGED <<basis, docs, counters>>

ComposeDelta(i) ==
  /\ Due(i, "COMPOSE")
  /\ session' = [session EXCEPT ![i].snapshot.delta = TRUE]
  /\ Pop(i)
  /\ UNCHANGED <<writing, basis, docs, counters>>

\* The use case returns to the decorator.
ReturnFlushes(i) ==
  /\ Due(i, "RETURN")
  /\ Pop(i)
  /\ Write(i, "WORKFLOW")
  /\ UNCHANGED <<session, basis, docs, counters>>

\* What the sinks know after instance i wrote the workflow document.
BasisAfter(i, answered) ==
  [j \in Instances |->
     IF j = i /\ answered THEN "CURRENT"
     ELSE IF basis[j] = "CURRENT" THEN "STALE" ELSE basis[j]]

\* record_workflow: the first write of a process is unconditional, every later
\* one compares the revision.
RecordWorkflow(i, answered) ==
  /\ writing[i] = "WORKFLOW"
  /\ basis[i] # "STALE"
  /\ workflowDoc' = session[i].workflow
  /\ basis' = BasisAfter(i, answered)
  /\ Answers(i, answered, "ACTIONS")
  /\ UNCHANGED <<session, actionDocs, snapshotDoc, proofDoc, mode, dispatches, resumes>>

\* ConflictingRecord: somebody else wrote the workflow document.
WorkflowConflict(i) ==
  /\ writing[i] = "WORKFLOW"
  /\ basis[i] = "STALE"
  /\ Abort(i)
  /\ UNCHANGED <<session, basis, docs, counters>>

RecordActions(i, answered) ==
  /\ writing[i] = "ACTIONS"
  /\ actionDocs' = session[i].ledger
  /\ Answers(i, answered, "SNAPSHOT")
  /\ UNCHANGED <<session, basis, workflowDoc, snapshotDoc, proofDoc, mode, dispatches, resumes>>

RecordSession(i, answered) ==
  /\ writing[i] = "SNAPSHOT"
  /\ snapshotDoc' = session[i].snapshot
  /\ Answers(i, answered, "NONE")
  /\ UNCHANGED <<session, basis, workflowDoc, actionDocs, proofDoc, mode, dispatches, resumes>>

\* record_proof creates the document once; a proof of the same bytes is no conflict.
RecordProof(i, answered) ==
  /\ Due(i, "PROOF")
  /\ proofDoc \in {None, session[i].proof}
  /\ proofDoc' = session[i].proof
  /\ IF answered THEN Pop(i) /\ UNCHANGED <<writing, faults>>
                 ELSE Abort(i) /\ Raises
  /\ UNCHANGED <<session, basis, workflowDoc, actionDocs, snapshotDoc, mode, dispatches, resumes>>

ProofConflict(i) ==
  /\ Due(i, "PROOF")
  /\ proofDoc \notin {None, session[i].proof}
  /\ Abort(i)
  /\ UNCHANGED <<session, basis, docs, counters>>

\* A store call raises without effect.
StoreFails(i) ==
  /\ writing[i] # "NONE" \/ Due(i, "PROOF")
  /\ Raises
  /\ Abort(i)
  /\ UNCHANGED <<session, basis, docs, mode, dispatches, resumes>>

-----------------------------------------------------------------------------
(***************************************************************************)
(* Crash and resume                                                        *)
(***************************************************************************)

\* An instance dies, at any point of a use case.
Crash(i) ==
  /\ Live(i)
  /\ resumes < MaxResumes
  /\ session' = [session EXCEPT ![i] = None]
  /\ Abort(i)
  /\ basis' = [basis EXCEPT ![i] = "UNREAD"]
  /\ UNCHANGED <<docs, counters>>

\* The categories resume_eligibility refuses.
Resumable(state) == state \notin TerminalStates \union {"REVIEW_REQUIRED"}

\* MUTANT: the snapshot is not applied.
RehydratedNoSnapshot ==
  [workflow   |-> workflowDoc,
   ledger     |-> actionDocs,
   snapshot   |-> FreshSnapshot,
   deliveryId |-> "DELIVER_RESUMED",
   sent       |-> 0,
   proof      |-> None]

\* The session _rehydrate builds from the documents.  (They are read one by one,
\* which matters only when another instance is writing.)
Rehydrated ==
  [workflow   |-> workflowDoc,
   ledger     |-> actionDocs,
   snapshot   |-> snapshotDoc,
   deliveryId |-> "DELIVER_RESUMED",
   sent       |-> 0,
   proof      |-> None]

\* Outside OVERLAP the resume comes after every other instance is gone.  In
\* OVERLAP another one is live: the instance that accepted the change holds no
\* lease, and a lease expires under a holder that goes on.
Resume(i) ==
  /\ ~Live(i)
  /\ (\E j \in Instances : Live(j)) => mode = "OVERLAP"
  /\ resumes < MaxResumes
  /\ Resumable(workflowDoc.state)
  /\ session' = [session EXCEPT ![i] = Rehydrated]
  /\ resumes' = resumes + 1
  /\ UNCHANGED <<todo, writing, basis, docs, mode, dispatches, faults>>

Request(i) ==
  \/ AnalysisFails(i)
  \/ AnalysisFindsNoTarget(i)
  \/ AnalysisQualifies(i)
  \/ DeployChange(i)
  \/ DeliverToFrontline(i)
  \/ \E result \in Results : SubmitFieldEvidence(i, result)
  \/ GenerateProof(i)
  \/ RepeatProof(i)
  \/ NothingToDo(i)

Perform(i) ==
  \/ \E target \in WorkflowState : Advance(i, target)
  \/ ComposeDelta(i)
  \/ ReturnFlushes(i)
  \/ \E answered \in BOOLEAN :
       \/ RecordWorkflow(i, answered)
       \/ RecordActions(i, answered)
       \/ RecordSession(i, answered)
       \/ RecordProof(i, answered)
  \/ WorkflowConflict(i)
  \/ ProofConflict(i)
  \/ StoreFails(i)

Next == \E i \in Instances : Request(i) \/ Perform(i) \/ Crash(i) \/ Resume(i)

Spec == Init /\ [][Next]_vars

-----------------------------------------------------------------------------
(***************************************************************************)
(* Properties                                                              *)
(***************************************************************************)
Snapshots == [impact : {"NONE", "NO_TARGET", "TARGET"}, evidence : BOOLEAN, delta : BOOLEAN,
              receipt : Nat, events : Seq(Results)]
Proofs == [events : Seq(Results), receipt : Nat, history : Seq(WorkflowState)]
Sessions == [workflow : Workflows, ledger : Ledgers, snapshot : Snapshots,
             deliveryId : {"DELIVER", "DELIVER_RESUMED"}, sent : Nat,
             proof : Proofs \union {None}]
Tasks == {"IMPACT_DETERMINED", "REVIEW_REQUIRED", "REMEDIATION_PENDING", "REMEDIATION_COMPLETED",
          "FRONTLINE_DELIVERY_COMPLETED", "AWAITING_FIELD_VERIFICATION", "PROOF_COMPLETE",
          "COMPOSE", "PROOF", "RETURN"}

ASSUME NoneIsNoSession == None \notin Sessions /\ None \notin Proofs

\* Every variable holds a value of its kind, and only a live instance has work left.
TypeOK ==
  /\ mode \in Modes
  /\ session \in [Instances -> Sessions \union {None}]
  /\ todo \in [Instances -> Seq(Tasks)]
  /\ writing \in [Instances -> {"NONE", "WORKFLOW", "ACTIONS", "SNAPSHOT"}]
  /\ \A i \in Instances : ~Live(i) => todo[i] = <<>> /\ writing[i] = "NONE"
  /\ basis \in [Instances -> {"UNREAD", "CURRENT", "STALE"}]
  /\ workflowDoc \in Workflows
  /\ actionDocs \in Ledgers
  /\ snapshotDoc \in Snapshots
  /\ proofDoc \in Proofs \union {None}
  /\ dispatches \in Nat
  /\ resumes \in 0..MaxResumes
  /\ faults \in 0..MaxFaults

\* A use case that has returned is durable: when no instance is at work on the
\* workflow, a live one holds in memory exactly what the documents say (_persists).
\* A proof made again after a death, be it after another delivery, is the stored
\* one: record_proof finds the same bytes and raises no conflict.
AnsweredIsStored ==
  mode = "CRASHES" =>
    \A i \in Instances : Idle(i) =>
      /\ session[i].workflow = workflowDoc
      /\ session[i].ledger = actionDocs
      /\ session[i].snapshot = snapshotDoc
      /\ session[i].proof \in {None, proofDoc}

\* The stored Change Proof is borne out by the other documents, wherever an
\* instance died: the remediation is COMPLETED, its evidence and a delivery
\* receipt are there, the delta was dispatched, and the proof was made from the
\* very receipt and verification events that are stored, the last of them a PASS.
ProofBacked ==
  mode = "CRASHES" /\ proofDoc # None =>
    /\ actionDocs["REMEDIATE"] = "COMPLETED"
    /\ snapshotDoc.evidence /\ dispatches > 0
    /\ snapshotDoc.receipt = proofDoc.receipt /\ proofDoc.receipt # 0
    /\ snapshotDoc.events = proofDoc.events /\ Last(proofDoc.events) = "PASS"

Stage(state) ==
  CASE state = "CHANGE_RECEIVED"              -> 0
    [] state = "IMPACT_DETERMINED"            -> 1
    [] state = "REMEDIATION_PENDING"          -> 2
    [] state = "REMEDIATION_COMPLETED"        -> 3
    [] state = "FRONTLINE_DELIVERY_COMPLETED" -> 4
    [] state \in {"AWAITING_FIELD_VERIFICATION", "VERIFICATION_FAILED",
                  "VERIFICATION_INCONCLUSIVE"} -> 5
    [] state = "VERIFICATION_PASSED"          -> 6
    [] OTHER                                  -> 7

\* What is stored never goes back, through any crashes, failing calls and resumes:
\* the workflow's stage, the events, the completed actions and the proof only grow.
NeverRegresses ==
  [][mode # "OVERLAP" =>
       /\ Stage(workflowDoc'.state) >= Stage(workflowDoc.state)
       /\ Stage(workflowDoc.state) = 7 => workflowDoc'.state = workflowDoc.state
       /\ IsPrefix(snapshotDoc.events, snapshotDoc'.events)
       /\ \A a \in ActionIds : actionDocs[a] = "COMPLETED" => actionDocs'[a] = "COMPLETED"
       /\ proofDoc # None => proofDoc' = proofDoc]_vars

\* A resume costs at most one more delivery: no instance dispatches twice, even
\* when store calls fail and its ledger is not stored (decide_retry).
RedeliveryBounded == mode # "OVERLAP" => dispatches <= 1 + resumes

-----------------------------------------------------------------------------
(***************************************************************************)
(* What the repository's documents say and the code does not keep.         *)
(***************************************************************************)

\* A delivery the stored ledger records as completed is never executed again.
RecordedDeliveryIsDone ==
  [][actionDocs["DELIVER"] = "COMPLETED" => dispatches' = dispatches]_vars

\* A resumed workflow does not stop one step short: one that is stored as
\* VERIFICATION_PASSED has its PASS among the stored events.
ResumableToProof ==
  (\A i \in Instances : ~Live(i)) /\ workflowDoc.state = "VERIFICATION_PASSED" =>
    snapshotDoc.events # <<>> /\ Last(snapshotDoc.events) = "PASS"

\* A write that conflicts with another writer's never wins silently.
NoSilentOverwrite ==
  [][Stage(workflowDoc'.state) >= Stage(workflowDoc.state)]_vars

=============================================================================
