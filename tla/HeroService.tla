----------------------------- MODULE HeroService -----------------------------
(***************************************************************************)
(* One workflow's application service (HeroConsoleService): the use cases  *)
(* analyse, deploy, deliver, submit field evidence and generate proof,     *)
(* over one session's workflow aggregate, action ledger, artifact          *)
(* repository, delivery channel and field-evidence store.                  *)
(*                                                                         *)
(* One action is one call of a use case that changes authoritative state.  *)
(* Callers (console, API, ADK workflow, CLI) may call any use case at any  *)
(* time and in any order; a use case decides for itself what is allowed.   *)
(* Calls that only record a refusal or a replay leave every variable here  *)
(* unchanged.  Interleavings inside a call, crashes and the durable copies *)
(* are other modules' subject.                                             *)
(***************************************************************************)
EXTENDS Naturals, Sequences, WorkflowStates

CONSTANTS
  Artifacts,        \* artifact ids of the session's catalog
  InScope,          \* those on the change's operation and requirement, and authorized
  CatalogValue,     \* what each holds in the catalog, against the approved change
  Images,           \* field images, told apart by content hash
  ChannelOutcomes,  \* how this channel's dispatches may end
  MaxDispatches,    \* bound on the receipts the channel issues
  MaxCalls,         \* bound on the billable calls spent on one image
  None

Values == {"BEFORE", "AFTER", "OTHER"}
Results == {"PASS", "FAIL", "INCONCLUSIVE"}
ActionStatus == {"ABSENT", "PLANNED", "ATTEMPTED", "COMPLETED", "FAILED_OR_UNCERTAIN"}
Outcomes == {"RECEIPT", "LANDED_UNCERTAIN", "LOST_UNCERTAIN", "REFUSED"}

ASSUME CatalogAssumption ==
  /\ InScope \subseteq Artifacts
  /\ CatalogValue \in [Artifacts -> Values]
  /\ None \notin Artifacts \union [artifact : Artifacts, receipt : Nat, event : Nat]
  /\ "NO_TARGET" \notin Artifacts
ASSUME BoundAssumption ==
  /\ ChannelOutcomes \subseteq Outcomes
  /\ MaxDispatches \in Nat
  /\ MaxCalls \in Nat

VARIABLES
  wf,             \* workflow.state and the session's state_history
  affected,       \* workflow.affected_artifact_id
  impact,         \* impact_resolution: None, "NO_TARGET", or the single target
  remediation,    \* ledger status of each artifact's REMEDIATE_ARTIFACT action
  content,        \* the approved requirement's value in the repository
  revision,       \* committed writes per artifact
  outcome,        \* status of the latest executed remediation request, or None
  evidence,       \* artifact of remediation_evidence, or None
  delta,          \* artifact the delta was composed for, or None; set with validated_execution
  deliveryAction, \* ledger status of the DELIVER_DELTA action
  dispatches,     \* receipts 1..dispatches exist in the channel
  receiptRef,     \* delivery_receipt_ref and DELIVERED: a receipt number, 0 before
  fieldStore,     \* the attempt stored for each image
  calls,          \* billable provider calls per image
  events,         \* verification_events; the position is the event_sequence
  proof           \* the stored Change Proof, or None

vars == <<wf, affected, impact, remediation, content, revision, outcome, evidence,
          delta, deliveryAction, dispatches, receiptRef, fieldStore, calls, events, proof>>

impactVars == <<affected, impact>>
artifactVars == <<remediation, content, revision, outcome, evidence, delta>>
deliveryVars == <<deliveryAction, dispatches, receiptRef>>
fieldVars == <<fieldStore, calls, events>>

-----------------------------------------------------------------------------
(***************************************************************************)
(* The workflow aggregate                                                  *)
(***************************************************************************)

\* Advance w to state t, remembering the state it leaves, or leave it alone.
Advance(w, t) ==
  IF CanTransition(w.state, t)
    THEN [state |-> t, history |-> w.history \union {w.state}]
    ELSE w

\* MUTANT: the gate is forced whatever the workflow has reached.
ReviewForced(w) == [state |-> "REVIEW_REQUIRED", history |-> w.history \union {w.state}]

\* Analysis found no autonomous path: through IMPACT_DETERMINED to the gate.
ReviewRequired(w) == Advance(Advance(w, "IMPACT_DETERMINED"), "REVIEW_REQUIRED")

\* A validated execution walks the workflow to REMEDIATION_COMPLETED.
Remediated(w) ==
  Advance(Advance(Advance(w, "IMPACT_DETERMINED"), "REMEDIATION_PENDING"),
          "REMEDIATION_COMPLETED")

\* An accepted receipt walks it to AWAITING_FIELD_VERIFICATION.
Delivered(w) ==
  Advance(Advance(w, "FRONTLINE_DELIVERY_COMPLETED"), "AWAITING_FIELD_VERIFICATION")

\* New evidence after FAIL or INCONCLUSIVE reopens the workflow; this and the
\* verdict bypass the state history.
Reopened(w) ==
  IF CanTransition(w.state, "AWAITING_FIELD_VERIFICATION")
    THEN [w EXCEPT !.state = "AWAITING_FIELD_VERIFICATION"]
    ELSE w

VerdictState(r) ==
  CASE r = "PASS" -> "VERIFICATION_PASSED"
    [] r = "FAIL" -> "VERIFICATION_FAILED"
    [] OTHER      -> "VERIFICATION_INCONCLUSIVE"

-----------------------------------------------------------------------------
(***************************************************************************)
(* Deterministic decisions                                                 *)
(***************************************************************************)

\* The four conditions of impact qualification, on the catalog as loaded.
Qualifies(a) == a \in InScope /\ CatalogValue[a] # "AFTER"

\* Exactly one qualified candidate, or no target at all.
ResolveCardinality(candidates) ==
  LET qualified == {a \in candidates : Qualifies(a)}
  IN  IF \E a \in qualified : qualified = {a}
        THEN CHOOSE a \in qualified : TRUE
        ELSE "NO_TARGET"

DecideRetry(status) ==
  CASE status \in {"ABSENT", "PLANNED"} -> "SAFE_TO_EXECUTE"
    [] status = "COMPLETED"             -> "ALREADY_COMPLETED"
    [] OTHER                            -> "RECONCILIATION_REQUIRED"

\* qualified_artifact_id; the action id exists exactly when it does.
Qualified == IF impact \in Artifacts THEN impact ELSE None

\* The comparator: an inconclusive observation is never folded into FAIL.
CompareObservation(observed) ==
  CASE observed = "INCONCLUSIVE" -> "INCONCLUSIVE"
    [] observed = "EXPECTED"     -> "PASS"
    [] OTHER                     -> "FAIL"

\* The same image under the same change is the same operation: an observed one is
\* replayed before anything billable, and the store refuses a second record.
Replayable(i) == fieldStore[i] = "OBSERVED"
StoreAccepts(i) == fieldStore[i] = "NONE"

\* The result of the latest authoritative event.
LatestResult == IF events = <<>> THEN "NONE" ELSE events[Len(events)].result

-----------------------------------------------------------------------------
(***************************************************************************)
(* Completion conditions of the Change Proof.  C1 holds throughout: the    *)
(* session's change never changes and the service passes its source        *)
(* version as applicable.                                                  *)
(***************************************************************************)
C2ImpactDetermined == impact \in Artifacts /\ impact = affected
\* MUTANT: evidence of any remediation counts.
C3AnyEvidence == affected # None /\ evidence # None
C3Remediated == affected # None /\ evidence = affected
C4DeltaDelivered == receiptRef # 0
C5LatestVerificationPass == LatestResult = "PASS"
C6EvidenceTraceable == Qualified # None /\ evidence # None /\ events # <<>>
C7StateCompatible ==
  LET seen == wf.history \union {wf.state}
  IN  /\ seen \intersect {"SUPERSEDED", "FAILED", "REVIEW_REQUIRED"} = {}
      /\ wf.state \notin {"VERIFICATION_FAILED", "VERIFICATION_INCONCLUSIVE"}

ProofEligible ==
  /\ C2ImpactDetermined
  /\ C3Remediated
  /\ C4DeltaDelivered
  /\ C5LatestVerificationPass
  /\ C6EvidenceTraceable
  /\ C7StateCompatible

-----------------------------------------------------------------------------
(***************************************************************************)
(* The use cases                                                           *)
(***************************************************************************)

Init ==
  /\ wf = [state |-> "CHANGE_RECEIVED", history |-> {}]
  /\ affected = None
  /\ impact = None
  /\ remediation = [a \in Artifacts |-> "ABSENT"]
  /\ content = CatalogValue
  /\ revision = [a \in Artifacts |-> 0]
  /\ outcome = None
  /\ evidence = None
  /\ delta = None
  /\ deliveryAction = "ABSENT"
  /\ dispatches = 0
  /\ receiptRef = 0
  /\ fieldStore = [i \in Images |-> "NONE"]
  /\ calls = [i \in Images |-> 0]
  /\ events = <<>>
  /\ proof = None

\* analyze_change when the agent gave up or Crossing 1 rejected its proposal.
\* An earlier qualification stays in place.
AnalysisFails ==
  /\ wf' = ReviewRequired(wf)
  /\ UNCHANGED <<impactVars, artifactVars, deliveryVars, fieldVars, proof>>

\* analyze_change when Crossing 1 accepted the proposed candidates.  It runs in
\* any state; a proposal without a unique target drops the qualified target but
\* leaves workflow.affected_artifact_id.
AnalysisQualifies(candidates) ==
  LET target == ResolveCardinality(candidates)
  IN  /\ impact' = target
      /\ IF target = "NO_TARGET"
           THEN wf' = ReviewRequired(wf) /\ UNCHANGED affected
           ELSE wf' = Advance(wf, "IMPACT_DETERMINED") /\ affected' = target
      /\ UNCHANGED <<artifactVars, deliveryVars, fieldVars, proof>>

\* deploy_change with a qualified target whose action was never dispatched and
\* which holds the value the change replaces: plan, write, complete, Crossing 2.
\* Only the first execution advances the workflow and composes the delta; there
\* is no guard on the workflow's state.
DeployChange ==
  /\ Qualified # None
  /\ LET a == Qualified
     IN  /\ DecideRetry(remediation[a]) = "SAFE_TO_EXECUTE"
         /\ content[a] = "BEFORE"
         /\ remediation' = [remediation EXCEPT ![a] = "COMPLETED"]
         /\ content' = [content EXCEPT ![a] = "AFTER"]
         /\ revision' = [revision EXCEPT ![a] = @ + 1]
         /\ outcome' = "MUTATED"
         /\ evidence' = a
         /\ IF delta = None
              THEN delta' = a /\ wf' = Remediated(wf)
              ELSE UNCHANGED <<delta, wf>>
  /\ UNCHANGED <<impactVars, deliveryVars, fieldVars, proof>>

\* deploy_change on a completed action reports it again; the tool returns no
\* evidence, so nothing but the reported status changes.
DeployReplayed ==
  /\ Qualified # None
  /\ DecideRetry(remediation[Qualified]) = "ALREADY_COMPLETED"
  /\ outcome' = "ALREADY_COMPLETED"
  /\ UNCHANGED <<wf, impactVars, remediation, content, revision, evidence, delta,
                 deliveryVars, fieldVars, proof>>

\* MUTANT: a refusal still leaves remediation evidence.
DeployRejectedWithEvidence ==
  /\ Qualified # None
  /\ DecideRetry(remediation[Qualified]) = "SAFE_TO_EXECUTE"
  /\ content[Qualified] = "OTHER"
  /\ outcome' = "TOOL_REJECTED"
  /\ evidence' = Qualified
  /\ UNCHANGED <<wf, impactVars, remediation, content, revision, delta,
                 deliveryVars, fieldVars, proof>>

\* deploy_change on an artifact that no longer holds the value the change
\* replaces: the tool refuses before it plans anything, and the service records
\* the refusal.
DeployRejected ==
  /\ Qualified # None
  /\ DecideRetry(remediation[Qualified]) = "SAFE_TO_EXECUTE"
  /\ content[Qualified] = "OTHER"
  /\ outcome' = "TOOL_REJECTED"
  /\ UNCHANGED <<wf, impactVars, remediation, content, revision, evidence, delta,
                 deliveryVars, fieldVars, proof>>

\* deliver_to_frontline dispatches when the action was never dispatched, or when
\* reconciliation recovered a receipt: the call does not stop there.
MayDispatch ==
  /\ delta # None
  /\ \/ DecideRetry(deliveryAction) = "SAFE_TO_EXECUTE"
     \/ DecideRetry(deliveryAction) = "RECONCILIATION_REQUIRED" /\ dispatches > 0

\* The channel returned a receipt and Crossing 3 accepted it.
DeliverConfirmed ==
  /\ MayDispatch
  /\ "RECEIPT" \in ChannelOutcomes
  /\ dispatches < MaxDispatches
  /\ dispatches' = dispatches + 1
  /\ deliveryAction' = "COMPLETED"
  /\ receiptRef' = dispatches'
  /\ wf' = Delivered(wf)
  /\ UNCHANGED <<impactVars, artifactVars, fieldVars, proof>>

\* MUTANT: a lost dispatch counts as delivered.
DeliverAssumed ==
  /\ MayDispatch
  /\ "LOST_UNCERTAIN" \in ChannelOutcomes
  /\ deliveryAction' = "FAILED_OR_UNCERTAIN"
  /\ wf' = Delivered(wf)
  /\ UNCHANGED <<impactVars, artifactVars, dispatches, receiptRef, fieldVars, proof>>

\* UncertainDeliveryError, or a result Crossing 3 rejects.  The delta landed and
\* left a recoverable receipt, or it was lost.
DeliverUncertain ==
  /\ MayDispatch
  /\ \/ /\ "LANDED_UNCERTAIN" \in ChannelOutcomes
        /\ dispatches < MaxDispatches
        /\ dispatches' = dispatches + 1
     \/ /\ "LOST_UNCERTAIN" \in ChannelOutcomes
        /\ UNCHANGED dispatches
  /\ deliveryAction' = "FAILED_OR_UNCERTAIN"
  /\ UNCHANGED <<wf, impactVars, artifactVars, receiptRef, fieldVars, proof>>

\* Any other exception of the channel propagates to the caller and leaves the
\* action ATTEMPTED.
DeliverRefused ==
  /\ MayDispatch
  /\ "REFUSED" \in ChannelOutcomes
  /\ deliveryAction' = "ATTEMPTED"
  /\ UNCHANGED <<wf, impactVars, artifactVars, dispatches, receiptRef, fieldVars, proof>>

\* A repeat request after an unconfirmed dispatch that left no receipt.
DeliveryUnreconciled ==
  /\ delta # None
  /\ DecideRetry(deliveryAction) = "RECONCILIATION_REQUIRED"
  /\ dispatches = 0
  /\ deliveryAction' = "FAILED_OR_UNCERTAIN"
  /\ UNCHANGED <<wf, impactVars, artifactVars, dispatches, receiptRef, fieldVars, proof>>

\* One billable provider call on image i, and the attempt it stores.
Attempt(i, status) ==
  /\ calls[i] < MaxCalls
  /\ calls' = [calls EXCEPT ![i] = @ + 1]
  /\ fieldStore' = [fieldStore EXCEPT ![i] = status]

\* The provider observed image i.  Crossing 4 accepts it, and adjudication
\* records a verdict only if the (reopened) workflow awaits verification.
SubmitObserved(i, observed) ==
  /\ ~Replayable(i)
  /\ StoreAccepts(i)
  /\ Attempt(i, "OBSERVED")
  /\ LET reopened == Reopened(wf)
         result == CompareObservation(observed)
     IN  IF reopened.state = "AWAITING_FIELD_VERIFICATION"
           THEN /\ wf' = [reopened EXCEPT !.state = VerdictState(result)]
                /\ events' = Append(events, [image |-> i, result |-> result])
           ELSE UNCHANGED <<wf, events>>
  /\ UNCHANGED <<impactVars, artifactVars, deliveryVars, proof>>

\* The call was out of domain or the provider failed: the attempt is stored as
\* history.
SubmitUnusable(i) ==
  /\ ~Replayable(i)
  /\ StoreAccepts(i)
  /\ Attempt(i, "UNUSABLE")
  /\ UNCHANGED <<wf, impactVars, artifactVars, deliveryVars, events, proof>>

\* An unusable image submitted again is not replayable: it is billed, whatever
\* the provider now answers, and then the store refuses the record (ValueError).
SubmitRefusedByStore(i) ==
  /\ ~Replayable(i)
  /\ ~StoreAccepts(i)
  /\ Attempt(i, fieldStore[i])
  /\ UNCHANGED <<wf, impactVars, artifactVars, deliveryVars, events, proof>>

\* MUTANT: the proof is stored and the workflow left where it was.
GenerateProofOnly ==
  /\ proof = None
  /\ ProofEligible
  /\ proof' = [artifact |-> affected, receipt |-> receiptRef, event |-> Len(events)]
  /\ UNCHANGED <<wf, impactVars, artifactVars, deliveryVars, fieldVars>>

\* generate_proof for a workflow without a proof that meets every condition.
GenerateProof ==
  /\ proof = None
  /\ ProofEligible
  /\ proof' = [artifact |-> affected, receipt |-> receiptRef, event |-> Len(events)]
  /\ wf' = Advance(wf, "PROOF_COMPLETE")
  /\ UNCHANGED <<impactVars, artifactVars, deliveryVars, fieldVars>>

Next ==
  \/ AnalysisFails
  \/ \E candidates \in SUBSET Artifacts : AnalysisQualifies(candidates)
  \/ DeployChange
  \/ DeployReplayed
  \/ DeployRejected
  \/ DeliverConfirmed
  \/ DeliverUncertain
  \/ DeliverRefused
  \/ DeliveryUnreconciled
  \/ \E i \in Images :
       \/ \E observed \in {"EXPECTED", "DIFFERENT", "INCONCLUSIVE"} :
            SubmitObserved(i, observed)
       \/ SubmitUnusable(i)
       \/ SubmitRefusedByStore(i)
  \/ GenerateProof

Spec == Init /\ [][Next]_vars

-----------------------------------------------------------------------------
(***************************************************************************)
(* Properties                                                              *)
(***************************************************************************)

\* Every variable holds a value of its kind.
TypeOK ==
  /\ wf \in [state : WorkflowState, history : SUBSET WorkflowState]
  /\ affected \in Artifacts \union {None}
  /\ impact \in Artifacts \union {None, "NO_TARGET"}
  /\ remediation \in [Artifacts -> {"ABSENT", "COMPLETED"}]
  /\ content \in [Artifacts -> Values]
  /\ revision \in [Artifacts -> Nat]
  /\ outcome \in {None, "MUTATED", "ALREADY_COMPLETED", "TOOL_REJECTED"}
  /\ evidence \in Artifacts \union {None}
  /\ delta \in Artifacts \union {None}
  /\ deliveryAction \in ActionStatus
  /\ dispatches \in Nat
  /\ receiptRef \in Nat
  /\ fieldStore \in [Images -> {"NONE", "OBSERVED", "UNUSABLE"}]
  /\ calls \in [Images -> Nat]
  /\ events \in Seq([image : Images, result : Results])
  /\ proof \in [artifact : Artifacts, receipt : Nat, event : Nat] \union {None}

\* The Change Proof tells the truth about the world it was made from, for good:
\* its artifact was written exactly once and holds the approved value, its
\* receipt exists in the channel, and its verification event is a PASS that no
\* later event overrides (generate_proof and the seven conditions).
ProofSound ==
  proof # None =>
    /\ remediation[proof.artifact] = "COMPLETED"
    /\ content[proof.artifact] = "AFTER"
    /\ revision[proof.artifact] = 1
    /\ proof.receipt \in 1..dispatches
    /\ proof.event = Len(events)
    /\ LatestResult = "PASS"

\* A proof and PROOF_COMPLETE go together, and no workflow that stands or ever
\* stood at the review gate has one (condition 7 of the proof).
ProofIffComplete ==
  /\ proof # None <=> wf.state = "PROOF_COMPLETE"
  /\ "REVIEW_REQUIRED" \in wf.history \union {wf.state} => proof = None

\* The ledger and the repository agree although the repository is written first:
\* an artifact was written iff its action is recorded COMPLETED, never twice, and
\* remediation evidence exists only for such an artifact (deploy_change).
LedgerMatchesRepository ==
  /\ \A a \in Artifacts :
       /\ remediation[a] = "COMPLETED" <=> revision[a] # 0
       /\ revision[a] = IF content[a] = CatalogValue[a] THEN 0 ELSE 1
  /\ \A a \in {evidence, delta} \ {None} : remediation[a] = "COMPLETED"

\* The state a workflow shows is the verdict of its latest event, through any
\* number of reopenings, and a PASS is the last event there is (step 10).
VerdictStateIsLatest ==
  /\ wf.state \in {"VERIFICATION_PASSED", "VERIFICATION_FAILED", "VERIFICATION_INCONCLUSIVE"}
       => events # <<>> /\ wf.state = VerdictState(LatestResult)
  /\ \A n \in 1..Len(events) : events[n].result = "PASS" => n = Len(events)
  /\ events # <<>> =>
       wf.state \in {"VERIFICATION_PASSED", "VERIFICATION_FAILED",
                     "VERIFICATION_INCONCLUSIVE", "PROOF_COMPLETE"}

\* Field evidence counts only after the delta of a remediated artifact reached
\* the frontline with a receipt: an image that arrives early is never a verdict.
NoVerdictBeforeDelivery ==
  events # <<>> =>
    /\ delta # None /\ content[delta] = "AFTER"
    /\ deliveryAction = "COMPLETED"
    /\ receiptRef \in 1..dispatches

\* An image is judged at most once, whatever is resubmitted.
ImageJudgedOnce ==
  \A m, n \in 1..Len(events) : events[m].image = events[n].image => m = n

\* The review gate and the completed state are never left, and what the proof
\* says never changes, although every use case stays callable (state_machine).
GateAndCompletionAreFinal ==
  [][/\ wf.state \in {"REVIEW_REQUIRED", "PROOF_COMPLETE"} => wf'.state = wf.state
     /\ proof # None => proof' = proof]_vars

\* Repeating an image that was observed costs no further model call, and the
\* attempt history is never rewritten (replay guard of submit_field_evidence).
ObservedImageIsFree ==
  [][/\ \A i \in Images : fieldStore[i] = "OBSERVED" =>
          calls'[i] = calls[i] /\ fieldStore'[i] = "OBSERVED"
     /\ Len(events') >= Len(events)
     /\ \A n \in 1..Len(events) : events'[n] = events[n]]_vars

-----------------------------------------------------------------------------
(***************************************************************************)
(* What the repository's documents say and the code does not keep.         *)
(***************************************************************************)

\* A workflow stopped at the review gate changes no artifact.
NoMutationUnderReview ==
  [][wf.state = "REVIEW_REQUIRED" => content' = content]_vars

-----------------------------------------------------------------------------
(***************************************************************************)
(* Refinement: the service implements the promise of ChangeLifecycle.      *)
(***************************************************************************)
Lifecycle == INSTANCE ChangeLifecycle WITH
  phase <- CASE wf.state = "REVIEW_REQUIRED" -> "review"
             [] wf.state = "PROOF_COMPLETE"  -> "proved"
             [] OTHER                        -> "open",
  remediated <- {a \in Artifacts : remediation[a] = "COMPLETED"},
  delivered <- receiptRef # 0,
  verdict <- LatestResult,
  proven <- IF proof = None THEN None ELSE proof.artifact

ImplementsLifecycle == Lifecycle!LifecycleSpec

=============================================================================
