-------------------------- MODULE HeroServiceProofs --------------------------
(***************************************************************************)
(* Proofs about HeroService, for every catalog, set of images, channel     *)
(* behaviour and bound; that it implements ChangeLifecycle; and about      *)
(* MissionControl, whose pages show its sessions.                          *)
(***************************************************************************)
EXTENDS MissionControl, TLAPS

-----------------------------------------------------------------------------
(***************************************************************************)
(* The inductive invariant.  ProofSound is not inductive: it needs where a *)
(* workflow can be given what the ledger, the channel and the event list   *)
(* hold.                                                                   *)
(***************************************************************************)

\* Before a validated execution; at or past it; past an accepted receipt.
Early == {"CHANGE_RECEIVED", "IMPACT_DETERMINED", "REMEDIATION_PENDING"}
VerdictStates == {"VERIFICATION_PASSED", "VERIFICATION_FAILED", "VERIFICATION_INCONCLUSIVE"}
PastDelivery == VerdictStates \union {"AWAITING_FIELD_VERIFICATION", "PROOF_COMPLETE"}
Visited == Early \union PastDelivery \union {"REVIEW_REQUIRED", "REMEDIATION_COMPLETED"}

\* What was written is what the ledger says, and evidence names only that.
LedgerInv ==
  /\ LedgerMatchesRepository
  /\ \A a \in Artifacts : remediation[a] = "COMPLETED" => content[a] = "AFTER"

\* A receipt is accepted once, for a composed delta, and nothing is judged or
\* proved without one.
DeliveryInv ==
  /\ receiptRef \in 0..dispatches
  /\ receiptRef # 0 => deliveryAction = "COMPLETED" /\ delta # None
  /\ wf.state \in PastDelivery => receiptRef # 0

\* The workflow visits no state it has no business in, and never left the gate.
StateInv ==
  /\ wf.state \in Visited
  /\ "REVIEW_REQUIRED" \notin wf.history

\* The proof names what PROOF_COMPLETE was reached with.
CompletionInv ==
  /\ proof # None <=> wf.state = "PROOF_COMPLETE"
  /\ proof # None =>
       /\ remediation[proof.artifact] = "COMPLETED"
       /\ proof.receipt \in 1..dispatches
       /\ proof.event = Len(events)
       /\ LatestResult = "PASS"

IInv ==
  /\ TypeOK
  /\ StateInv
  /\ LedgerInv
  /\ DeliveryInv
  /\ VerdictStateIsLatest
  /\ CompletionInv

-----------------------------------------------------------------------------
(***************************************************************************)
(* How far one call moves a workflow.                                      *)
(***************************************************************************)
Workflows == [state : WorkflowState, history : SUBSET WorkflowState]

\* The edges of the state machine the service asks for.
LEMMA Edges ==
  ASSUME NEW s \in WorkflowState
  PROVE  /\ CanTransition(s, "IMPACT_DETERMINED") <=> s = "CHANGE_RECEIVED"
         /\ CanTransition(s, "REVIEW_REQUIRED")
              <=> s \in {"IMPACT_DETERMINED", "REMEDIATION_PENDING"}
         /\ CanTransition(s, "REMEDIATION_PENDING") <=> s = "IMPACT_DETERMINED"
         /\ CanTransition(s, "REMEDIATION_COMPLETED") <=> s = "REMEDIATION_PENDING"
         /\ CanTransition(s, "FRONTLINE_DELIVERY_COMPLETED") <=> s = "REMEDIATION_COMPLETED"
         /\ CanTransition(s, "AWAITING_FIELD_VERIFICATION")
              <=> s \in {"FRONTLINE_DELIVERY_COMPLETED", "VERIFICATION_FAILED",
                         "VERIFICATION_INCONCLUSIVE"}
         /\ CanTransition(s, "PROOF_COMPLETE") <=> s = "VERIFICATION_PASSED"
  BY DEF CanTransition, LegalTargets, TerminalStates, Progress, Abandoned, WorkflowState

\* Advance takes the edge and remembers the state left, or does nothing.
LEMMA AdvanceMove ==
  ASSUME NEW w \in Workflows, NEW t \in WorkflowState
  PROVE  /\ Advance(w, t) \in Workflows
         /\ CanTransition(w.state, t) => /\ Advance(w, t).state = t
                                         /\ Advance(w, t).history = w.history \union {w.state}
         /\ ~CanTransition(w.state, t) => Advance(w, t) = w
  BY DEF Advance, Workflows

\* Analysis reaches the gate from an early state, and otherwise changes nothing.
LEMMA ReviewRequiredMove ==
  ASSUME NEW w \in Workflows
  PROVE  /\ ReviewRequired(w) \in Workflows
         /\ w.state \in Early => /\ ReviewRequired(w).state = "REVIEW_REQUIRED"
                                 /\ ReviewRequired(w).history \subseteq w.history \union Early
         /\ w.state \notin Early => ReviewRequired(w) = w
<1> DEFINE u == Advance(w, "IMPACT_DETERMINED")
<1>1. w.state \in WorkflowState /\ {"IMPACT_DETERMINED", "REVIEW_REQUIRED"} \subseteq WorkflowState
  BY DEF Workflows, WorkflowState
<1>2. u \in Workflows /\ u.state \in WorkflowState
  BY <1>1, AdvanceMove DEF Workflows
<1>3. /\ w.state = "CHANGE_RECEIVED" => /\ u.state = "IMPACT_DETERMINED"
                                        /\ u.history = w.history \union {w.state}
      /\ w.state # "CHANGE_RECEIVED" => u = w
  BY <1>1, AdvanceMove, Edges
<1>4. ReviewRequired(w) = Advance(u, "REVIEW_REQUIRED")
  BY DEF ReviewRequired
<1> HIDE DEF u
<1>5. /\ ReviewRequired(w) \in Workflows
      /\ u.state \in {"IMPACT_DETERMINED", "REMEDIATION_PENDING"} =>
           /\ ReviewRequired(w).state = "REVIEW_REQUIRED"
           /\ ReviewRequired(w).history = u.history \union {u.state}
      /\ u.state \notin {"IMPACT_DETERMINED", "REMEDIATION_PENDING"} => ReviewRequired(w) = u
  BY <1>1, <1>2, <1>4, AdvanceMove, Edges
<1> QED
  BY <1>3, <1>5 DEF Early

\* A unique target moves a fresh workflow one step, and no other.
LEMMA QualifiedMove ==
  ASSUME NEW w \in Workflows
  PROVE  /\ Advance(w, "IMPACT_DETERMINED") \in Workflows
         /\ w.state = "CHANGE_RECEIVED" =>
              /\ Advance(w, "IMPACT_DETERMINED").state = "IMPACT_DETERMINED"
              /\ Advance(w, "IMPACT_DETERMINED").history = w.history \union {w.state}
         /\ w.state # "CHANGE_RECEIVED" => Advance(w, "IMPACT_DETERMINED") = w
<1>1. w.state \in WorkflowState /\ "IMPACT_DETERMINED" \in WorkflowState
  BY DEF Workflows, WorkflowState
<1> QED
  BY <1>1, AdvanceMove, Edges

\* A validated execution completes remediation from an early state only.
LEMMA RemediatedMove ==
  ASSUME NEW w \in Workflows
  PROVE  /\ Remediated(w) \in Workflows
         /\ w.state \in Early => /\ Remediated(w).state = "REMEDIATION_COMPLETED"
                                 /\ Remediated(w).history \subseteq w.history \union Early
         /\ w.state \notin Early => Remediated(w) = w
<1> DEFINE u == Advance(w, "IMPACT_DETERMINED")
           v == Advance(u, "REMEDIATION_PENDING")
<1>1. w.state \in WorkflowState /\ {"REMEDIATION_PENDING", "REMEDIATION_COMPLETED"} \subseteq WorkflowState
  BY DEF Workflows, WorkflowState
<1>2. /\ u \in Workflows
      /\ w.state = "CHANGE_RECEIVED" => /\ u.state = "IMPACT_DETERMINED"
                                        /\ u.history = w.history \union {w.state}
      /\ w.state # "CHANGE_RECEIVED" => u = w
  BY QualifiedMove
<1>3. u.state \in WorkflowState
  BY <1>2 DEF Workflows
<1> HIDE DEF u
<1>4. /\ v \in Workflows
      /\ u.state = "IMPACT_DETERMINED" => /\ v.state = "REMEDIATION_PENDING"
                                          /\ v.history = u.history \union {u.state}
      /\ u.state # "IMPACT_DETERMINED" => v = u
  BY <1>1, <1>2, <1>3, AdvanceMove, Edges
<1>5. v.state \in WorkflowState
  BY <1>4 DEF Workflows
<1>6. Remediated(w) = Advance(v, "REMEDIATION_COMPLETED")
  BY DEF Remediated, u
<1> HIDE DEF v
<1>7. /\ Remediated(w) \in Workflows
      /\ v.state = "REMEDIATION_PENDING" =>
           /\ Remediated(w).state = "REMEDIATION_COMPLETED"
           /\ Remediated(w).history = v.history \union {v.state}
      /\ v.state # "REMEDIATION_PENDING" => Remediated(w) = v
  BY <1>1, <1>4, <1>5, <1>6, AdvanceMove, Edges
<1> QED
  BY <1>2, <1>4, <1>7 DEF Early

\* An accepted receipt opens verification for a remediated workflow.
LEMMA DeliveredMove ==
  ASSUME NEW w \in Workflows
  PROVE  /\ Delivered(w) \in Workflows
         /\ w.state = "REMEDIATION_COMPLETED" =>
              /\ Delivered(w).state = "AWAITING_FIELD_VERIFICATION"
              /\ "REVIEW_REQUIRED" \notin w.history
                   => "REVIEW_REQUIRED" \notin Delivered(w).history
         /\ w.state \in Early \union {"REVIEW_REQUIRED"} => Delivered(w) = w
<1> DEFINE u == Advance(w, "FRONTLINE_DELIVERY_COMPLETED")
<1>1. /\ w.state \in WorkflowState
      /\ {"FRONTLINE_DELIVERY_COMPLETED", "AWAITING_FIELD_VERIFICATION"} \subseteq WorkflowState
  BY DEF Workflows, WorkflowState
<1>2. /\ u \in Workflows
      /\ w.state = "REMEDIATION_COMPLETED" => /\ u.state = "FRONTLINE_DELIVERY_COMPLETED"
                                              /\ u.history = w.history \union {w.state}
      /\ w.state # "REMEDIATION_COMPLETED" => u = w
  BY <1>1, AdvanceMove, Edges
<1>3. u.state \in WorkflowState
  BY <1>2 DEF Workflows
<1>4. Delivered(w) = Advance(u, "AWAITING_FIELD_VERIFICATION")
  BY DEF Delivered
<1> HIDE DEF u
<1>5. /\ Delivered(w) \in Workflows
      /\ u.state = "FRONTLINE_DELIVERY_COMPLETED" =>
           /\ Delivered(w).state = "AWAITING_FIELD_VERIFICATION"
           /\ Delivered(w).history = u.history \union {u.state}
      /\ u.state \in Early \union {"REVIEW_REQUIRED"} => Delivered(w) = u
  BY <1>1, <1>2, <1>3, <1>4, AdvanceMove, Edges DEF Early
<1> QED
  BY <1>2, <1>5 DEF Early

\* New evidence reopens a negative verdict and nothing else.
LEMMA ReopenedMove ==
  ASSUME NEW w \in Workflows, w.state \in Visited
  PROVE  /\ Reopened(w) \in Workflows
         /\ Reopened(w).history = w.history
         /\ w.state \in {"VERIFICATION_FAILED", "VERIFICATION_INCONCLUSIVE"} =>
              Reopened(w).state = "AWAITING_FIELD_VERIFICATION"
         /\ w.state \notin {"VERIFICATION_FAILED", "VERIFICATION_INCONCLUSIVE"} =>
              Reopened(w) = w
<1>1. /\ w.state \in WorkflowState
      /\ "AWAITING_FIELD_VERIFICATION" \in WorkflowState
      /\ w.state # "FRONTLINE_DELIVERY_COMPLETED"
  BY DEF Workflows, WorkflowState, Visited, Early, PastDelivery, VerdictStates
<1>2. CanTransition(w.state, "AWAITING_FIELD_VERIFICATION")
        <=> w.state \in {"VERIFICATION_FAILED", "VERIFICATION_INCONCLUSIVE"}
  BY <1>1, Edges
<1> QED
  BY <1>1, <1>2 DEF Reopened, Workflows

\* Only a passed workflow completes.
LEMMA ProvedMove ==
  ASSUME NEW w \in Workflows, w.state = "VERIFICATION_PASSED"
  PROVE  /\ Advance(w, "PROOF_COMPLETE") \in Workflows
         /\ Advance(w, "PROOF_COMPLETE").state = "PROOF_COMPLETE"
         /\ Advance(w, "PROOF_COMPLETE").history = w.history \union {w.state}
<1>1. w.state \in WorkflowState /\ "PROOF_COMPLETE" \in WorkflowState
  BY DEF Workflows, WorkflowState
<1> QED
  BY <1>1, AdvanceMove, Edges

-----------------------------------------------------------------------------
(***************************************************************************)
(* Type correctness.                                                       *)
(***************************************************************************)

\* Cardinality resolution answers with a candidate or with no target.
LEMMA ResolvedTarget ==
  ASSUME NEW candidates \in SUBSET Artifacts
  PROVE  ResolveCardinality(candidates) \in Artifacts \union {"NO_TARGET"}
<1> DEFINE qualified == {a \in candidates : Qualifies(a)}
<1>1. CASE \E a \in qualified : qualified = {a}
  BY <1>1 DEF ResolveCardinality
<1>2. CASE ~ \E a \in qualified : qualified = {a}
  BY <1>2 DEF ResolveCardinality
<1> QED
  BY <1>1, <1>2

\* The comparator answers with a result, and a verdict state shows it.
LEMMA VerdictOf ==
  /\ \A observed : CompareObservation(observed) \in Results
  /\ \A r \in Results : VerdictState(r) \in VerdictStates
  /\ VerdictState("PASS") = "VERIFICATION_PASSED"
  /\ VerdictState("FAIL") = "VERIFICATION_FAILED"
  /\ VerdictState("INCONCLUSIVE") = "VERIFICATION_INCONCLUSIVE"
  BY DEF CompareObservation, VerdictState, VerdictStates, Results

\* A new session is well typed.
LEMMA InitTypeOK == Init => TypeOK
  BY CatalogAssumption DEF Init, TypeOK, WorkflowState, ActionStatus

\* Every action keeps every variable within its kind.
LEMMA NextTypeOK ==
  ASSUME TypeOK, [Next]_vars
  PROVE  TypeOK'
<1> USE DEF TypeOK
<1>w. wf \in Workflows
  BY DEF Workflows
<1>t. WorkflowState' = WorkflowState /\ "AWAITING_FIELD_VERIFICATION" \in WorkflowState
  BY DEF WorkflowState
<1>1. CASE AnalysisFails
  <2>1. wf' \in Workflows
    BY <1>1, <1>w, ReviewRequiredMove DEF AnalysisFails
  <2> QED
    BY <2>1, <1>1 DEF AnalysisFails, Workflows, impactVars, artifactVars, deliveryVars, fieldVars
<1>2. ASSUME NEW candidates \in SUBSET Artifacts, AnalysisQualifies(candidates)
      PROVE  TypeOK'
  <2>1. ResolveCardinality(candidates) \in Artifacts \union {"NO_TARGET"}
    BY ResolvedTarget
  <2>2. wf' \in Workflows
    BY <1>2, <1>w, ReviewRequiredMove, QualifiedMove DEF AnalysisQualifies
  <2>3. impact' \in Artifacts \union {None, "NO_TARGET"} /\ affected' \in Artifacts \union {None}
    BY <1>2, <2>1 DEF AnalysisQualifies
  <2> QED
    BY <2>2, <2>3, <1>2 DEF AnalysisQualifies, Workflows, artifactVars, deliveryVars, fieldVars
<1>3. CASE DeployChange
  <2>1. Qualified \in Artifacts
    BY <1>3 DEF DeployChange, Qualified
  <2>2. wf' \in Workflows
    BY <1>3, <1>w, RemediatedMove DEF DeployChange
  <2> QED
    BY <2>1, <2>2, <1>3
    DEF DeployChange, Workflows, Values, impactVars, deliveryVars, fieldVars
<1>4. CASE DeployReplayed
  BY <1>4 DEF DeployReplayed, impactVars, deliveryVars, fieldVars
<1>5. CASE DeployRejected
  BY <1>5 DEF DeployRejected, impactVars, deliveryVars, fieldVars
<1>6. CASE DeliverConfirmed
  <2>1. wf' \in Workflows
    BY <1>6, <1>w, DeliveredMove DEF DeliverConfirmed
  <2> QED
    BY <2>1, <1>6 DEF DeliverConfirmed, Workflows, ActionStatus, impactVars, artifactVars, fieldVars
<1>7. CASE DeliverUncertain
  BY <1>7 DEF DeliverUncertain, ActionStatus, impactVars, artifactVars, fieldVars
<1>8. CASE DeliverRefused
  BY <1>8 DEF DeliverRefused, ActionStatus, impactVars, artifactVars, fieldVars
<1>9. CASE DeliveryUnreconciled
  BY <1>9 DEF DeliveryUnreconciled, ActionStatus, impactVars, artifactVars, fieldVars
<1>10. ASSUME NEW i \in Images, NEW observed, SubmitObserved(i, observed)
       PROVE  TypeOK'
  <2>1. CompareObservation(observed) \in Results
    BY VerdictOf
  <2>2. VerdictState(CompareObservation(observed)) \in WorkflowState
    BY <2>1, VerdictOf DEF VerdictStates, WorkflowState
  <2>3. Reopened(wf) \in Workflows
    BY <1>w, <1>t DEF Reopened, Workflows
  <2>4. ASSUME Reopened(wf).state = "AWAITING_FIELD_VERIFICATION"
        PROVE  wf' \in Workflows /\ events' \in Seq([image : Images, result : Results])
    <3>1. /\ wf' = [Reopened(wf) EXCEPT !.state = VerdictState(CompareObservation(observed))]
          /\ events' = Append(events, [image |-> i, result |-> CompareObservation(observed)])
      BY <1>10, <2>4 DEF SubmitObserved
    <3>2. wf' \in Workflows
      BY <3>1, <2>2, <2>3 DEF Workflows
    <3>3. [image |-> i, result |-> CompareObservation(observed)] \in [image : Images, result : Results]
      BY <2>1
    <3>4. events' \in Seq([image : Images, result : Results])
      <4> DEFINE Event == [image : Images, result : Results]
                 e == [image |-> i, result |-> CompareObservation(observed)]
      <4>1. e \in Event /\ events \in Seq(Event) /\ events' = Append(events, e)
        BY <3>1, <3>3
      <4> HIDE DEF Event, e
      <4>2. Append(events, e) \in Seq(Event)
        BY <4>1
      <4> QED
        BY <4>1, <4>2 DEF Event
    <3> QED
      BY <3>2, <3>4
  <2>5. ASSUME Reopened(wf).state # "AWAITING_FIELD_VERIFICATION"
        PROVE  wf' \in Workflows /\ events' \in Seq([image : Images, result : Results])
    <3>1. wf' = wf /\ events' = events
      BY <1>10, <2>5 DEF SubmitObserved
    <3> QED
      BY <3>1, <1>w
  <2>6. wf' \in Workflows /\ events' \in Seq([image : Images, result : Results])
    BY <2>4, <2>5
  <2>7. calls' \in [Images -> Nat] /\ fieldStore' \in [Images -> {"NONE", "OBSERVED", "UNUSABLE"}]
    BY <1>10 DEF SubmitObserved, Attempt
  <2> QED
    BY <1>t, <2>6, <2>7, <1>10 DEF SubmitObserved, Workflows, impactVars, artifactVars, deliveryVars
<1>11. ASSUME NEW i \in Images, SubmitUnusable(i) \/ SubmitRefusedByStore(i)
       PROVE  TypeOK'
  <2> DEFINE status == IF SubmitUnusable(i) THEN "UNUSABLE" ELSE fieldStore[i]
  <2>0. status \in {"NONE", "OBSERVED", "UNUSABLE"} /\ Attempt(i, status)
    BY <1>11 DEF SubmitUnusable, SubmitRefusedByStore
  <2> HIDE DEF status
  <2>1. calls' \in [Images -> Nat] /\ fieldStore' \in [Images -> {"NONE", "OBSERVED", "UNUSABLE"}]
    BY <2>0 DEF Attempt
  <2> QED
    BY <2>1, <1>11 DEF SubmitUnusable, SubmitRefusedByStore, impactVars, artifactVars, deliveryVars
<1>12. CASE GenerateProof
  <2>1. wf' \in Workflows
    BY <1>12, <1>w, AdvanceMove DEF GenerateProof, WorkflowState
  <2>2. affected \in Artifacts
    BY <1>12 DEF GenerateProof, ProofEligible, C3Remediated
  <2>3. proof' \in [artifact : Artifacts, receipt : Nat, event : Nat]
    BY <1>12, <2>2 DEF GenerateProof
  <2> QED
    BY <2>1, <2>3, <1>12 DEF GenerateProof, Workflows, impactVars, artifactVars, deliveryVars, fieldVars
<1>13. CASE UNCHANGED vars
  BY <1>13 DEF vars
<1> QED
  BY <1>1, <1>2, <1>3, <1>4, <1>5, <1>6, <1>7, <1>8, <1>9, <1>10, <1>11, <1>12, <1>13 DEF Next

\* Every reachable state is well typed.
THEOREM TypeCorrect == Spec => []TypeOK
  BY InitTypeOK, NextTypeOK, PTL DEF Spec

-----------------------------------------------------------------------------
(***************************************************************************)
(* The inductive invariant holds.                                          *)
(***************************************************************************)
\* A new session satisfies the inductive invariant.
LEMMA InitIInv == Init => IInv
<1> SUFFICES ASSUME Init PROVE IInv
  OBVIOUS
<1>1. TypeOK
  BY InitTypeOK
<1>2. StateInv /\ DeliveryInv
  BY DEF Init, StateInv, DeliveryInv, Visited, PastDelivery, VerdictStates, Early
<1>3. LedgerInv
  BY CatalogAssumption DEF Init, LedgerInv, LedgerMatchesRepository
<1>4. VerdictStateIsLatest /\ CompletionInv
  BY DEF Init, VerdictStateIsLatest, CompletionInv
<1> QED
  BY <1>1, <1>2, <1>3, <1>4 DEF IInv

\* Without a receipt nothing was judged and the workflow is not past delivery.
LEMMA NothingJudgedYet ==
  ASSUME IInv, receiptRef = 0
  PROVE  /\ wf.state \in Early \union {"REVIEW_REQUIRED", "REMEDIATION_COMPLETED"}
         /\ events = <<>>
         /\ proof = None
  BY DEF IInv, StateInv, DeliveryInv, VerdictStateIsLatest, CompletionInv, Visited,
         PastDelivery, VerdictStates

\* A dispatch goes out only while no receipt was accepted.
LEMMA DispatchBeforeReceipt ==
  ASSUME IInv, MayDispatch \/ DecideRetry(deliveryAction) = "RECONCILIATION_REQUIRED"
  PROVE  receiptRef = 0
<1>1. deliveryAction # "COMPLETED"
  BY DEF MayDispatch, DecideRetry
<1> QED
  BY <1>1 DEF IInv, DeliveryInv

\* A workflow that awaits or reopens verification never passed and has no proof.
LEMMA AwaitingNotPassed ==
  ASSUME IInv, Reopened(wf).state = "AWAITING_FIELD_VERIFICATION"
  PROVE  /\ wf.state \in {"AWAITING_FIELD_VERIFICATION", "VERIFICATION_FAILED",
                          "VERIFICATION_INCONCLUSIVE"}
         /\ \A n \in 1..Len(events) : events[n].result # "PASS"
         /\ proof = None
<1>1. wf \in Workflows /\ wf.state \in Visited
  BY DEF IInv, TypeOK, StateInv, Workflows
<1>2. wf.state \in {"AWAITING_FIELD_VERIFICATION", "VERIFICATION_FAILED",
                    "VERIFICATION_INCONCLUSIVE"}
  BY <1>1, ReopenedMove
<1>3. wf.state # "VERIFICATION_PASSED" /\ wf.state # "PROOF_COMPLETE"
  BY <1>2
<1>4. proof = None
  BY <1>3 DEF IInv, CompletionInv
<1>5. events # <<>> => LatestResult # "PASS"
  BY <1>2, <1>3, VerdictOf DEF IInv, VerdictStateIsLatest
<1>6. \A n \in 1..Len(events) : events[n].result # "PASS"
  BY <1>5 DEF IInv, TypeOK, VerdictStateIsLatest, LatestResult
<1> QED
  BY <1>2, <1>4, <1>6

\* A write happens to an artifact the ledger has no completion for, and leaves
\* ledger, repository and evidence in agreement.
LEMMA DeployLedger ==
  ASSUME IInv, TypeOK', DeployChange
  PROVE  LedgerInv' /\ delta' # None
<1> DEFINE a == Qualified
<1>1. a \in Artifacts /\ remediation[a] # "COMPLETED" /\ content[a] = "BEFORE"
  BY DEF DeployChange, Qualified, DecideRetry
<1>2. /\ remediation' = [remediation EXCEPT ![a] = "COMPLETED"]
      /\ content' = [content EXCEPT ![a] = "AFTER"]
      /\ revision' = [revision EXCEPT ![a] = @ + 1]
      /\ evidence' = a
      /\ delta' = IF delta = None THEN a ELSE delta
  BY DEF DeployChange
<1> HIDE DEF a
<1>3. /\ remediation \in [Artifacts -> {"ABSENT", "COMPLETED"}]
      /\ content \in [Artifacts -> Values] /\ revision \in [Artifacts -> Nat]
      /\ delta \in Artifacts \union {None} /\ None \notin Artifacts
  BY CatalogAssumption DEF IInv, TypeOK
<1>4. LedgerInv
  BY DEF IInv
<1>5. revision[a] = 0 /\ CatalogValue[a] = "BEFORE"
  BY <1>1, <1>3, <1>4 DEF LedgerInv, LedgerMatchesRepository
<1>6. \A b \in Artifacts : /\ remediation'[b] = "COMPLETED" <=> revision'[b] # 0
                           /\ revision'[b] = IF content'[b] = CatalogValue[b] THEN 0 ELSE 1
                           /\ remediation'[b] = "COMPLETED" => content'[b] = "AFTER"
  <2> TAKE b \in Artifacts
  <2>1. CASE b = a
    BY <2>1, <1>1, <1>2, <1>3, <1>5
  <2>2. CASE b # a
    BY <2>2, <1>1, <1>2, <1>3, <1>4 DEF LedgerInv, LedgerMatchesRepository
  <2> QED
    BY <2>1, <2>2
<1>7. \A b \in {evidence', delta'} \ {None} : remediation'[b] = "COMPLETED"
  <2>1. remediation'[a] = "COMPLETED"
    BY <1>1, <1>2, <1>3
  <2>2. delta # None => remediation'[delta] = "COMPLETED"
    BY <1>1, <1>2, <1>3, <1>4 DEF LedgerInv, LedgerMatchesRepository
  <2> QED
    BY <2>1, <2>2, <1>2
<1> QED
  BY <1>1, <1>2, <1>3, <1>6, <1>7 DEF LedgerInv, LedgerMatchesRepository

\* What appending does to a sequence.
LEMMA AppendGrows ==
  ASSUME NEW S, NEW s \in Seq(S), NEW e \in S
  PROVE  /\ Len(Append(s, e)) = Len(s) + 1 /\ Len(s) \in Nat
         /\ Append(s, e)[Len(Append(s, e))] = e
         /\ \A n \in 1..Len(s) : Append(s, e)[n] = s[n]
  OBVIOUS

\* Every action preserves the invariant.
LEMMA NextIInv ==
  ASSUME IInv, [Next]_vars
  PROVE  IInv'
<1>t. TypeOK /\ TypeOK'
  BY NextTypeOK DEF IInv
<1>w. wf \in Workflows /\ wf.state \in Visited
  BY <1>t DEF IInv, TypeOK, StateInv, Workflows
<1>s. \* A step that keeps the workflow, the events and the proof.
      ASSUME UNCHANGED <<wf, events, proof>>
      PROVE  StateInv' /\ VerdictStateIsLatest'
  BY <1>s DEF IInv, StateInv, VerdictStateIsLatest, LatestResult
<1>l. ASSUME UNCHANGED <<remediation, content, revision, evidence, delta>>
      PROVE  LedgerInv'
  BY <1>l DEF IInv, LedgerInv, LedgerMatchesRepository
<1>r. \* A workflow that was not yet judged moves without a verdict or a proof.
      ASSUME UNCHANGED <<events, proof, remediation, receiptRef, dispatches, deliveryAction, delta>>,
             wf.state \in Early, wf'.state \in Early \union {"REVIEW_REQUIRED"},
             wf'.history \subseteq wf.history \union Early
      PROVE  StateInv' /\ DeliveryInv' /\ VerdictStateIsLatest' /\ CompletionInv'
  <2>1. events = <<>> /\ proof = None
    BY <1>r DEF IInv, VerdictStateIsLatest, CompletionInv, Early
  <2> QED
    BY <2>1, <1>r DEF IInv, StateInv, DeliveryInv, VerdictStateIsLatest, CompletionInv,
         Early, Visited, PastDelivery, VerdictStates
<1>u. ASSUME UNCHANGED <<wf, events, proof, remediation, receiptRef, dispatches, deliveryAction, delta>>
      PROVE  StateInv' /\ DeliveryInv' /\ VerdictStateIsLatest' /\ CompletionInv'
  BY <1>u, <1>s DEF IInv, DeliveryInv, CompletionInv, LatestResult
<1>1. CASE AnalysisFails
  <2>1. wf' = ReviewRequired(wf) /\ UNCHANGED <<impactVars, artifactVars, deliveryVars, fieldVars, proof>>
    BY <1>1 DEF AnalysisFails
  <2>2. CASE wf.state \in Early
    BY <2>1, <2>2, <1>t, <1>w, <1>r, <1>l, ReviewRequiredMove
    DEF IInv, artifactVars, deliveryVars, fieldVars
  <2>3. CASE wf.state \notin Early
    BY <2>1, <2>3, <1>t, <1>w, <1>u, <1>l, ReviewRequiredMove
    DEF IInv, artifactVars, deliveryVars, fieldVars
  <2> QED
    BY <2>2, <2>3
<1>2. ASSUME NEW candidates \in SUBSET Artifacts, AnalysisQualifies(candidates)
      PROVE  IInv'
  <2>1. /\ wf' \in {ReviewRequired(wf), Advance(wf, "IMPACT_DETERMINED")}
        /\ UNCHANGED <<artifactVars, deliveryVars, fieldVars, proof>>
    BY <1>2 DEF AnalysisQualifies
  <2>2. CASE wf' = wf
    BY <2>1, <2>2, <1>t, <1>u, <1>l DEF IInv, artifactVars, deliveryVars, fieldVars
  <2>3. CASE wf' # wf
    <3>1. /\ wf.state \in Early /\ wf'.state \in Early \union {"REVIEW_REQUIRED"}
          /\ wf'.history \subseteq wf.history \union Early
      BY <2>1, <2>3, <1>w, ReviewRequiredMove, QualifiedMove DEF Early
    <3> QED
      BY <2>1, <3>1, <1>t, <1>r, <1>l DEF IInv, artifactVars, deliveryVars, fieldVars
  <2> QED
    BY <2>2, <2>3
<1>3. CASE DeployChange
  <2>1. LedgerInv' /\ delta' # None
    BY <1>3, <1>t, DeployLedger
  <2>2. /\ UNCHANGED <<impactVars, deliveryVars, fieldVars, proof>>
        /\ wf' = IF delta = None THEN Remediated(wf) ELSE wf
    BY <1>3 DEF DeployChange
  <2>3. wf' = wf \/ /\ wf.state \in Early /\ wf'.state = "REMEDIATION_COMPLETED"
                    /\ wf'.history \subseteq wf.history \union Early
    BY <2>2, <1>w, RemediatedMove
  <2>4. StateInv' /\ DeliveryInv' /\ VerdictStateIsLatest'
    <3>1. wf.state \in Early => events = <<>>
      BY DEF IInv, VerdictStateIsLatest, Early
    <3> QED
      BY <2>1, <2>2, <2>3, <3>1
      DEF IInv, StateInv, DeliveryInv, VerdictStateIsLatest, LatestResult, Early, Visited,
          PastDelivery, VerdictStates, deliveryVars, fieldVars
  <2>5. CompletionInv'
    <3>1. wf'.state = "PROOF_COMPLETE" <=> wf.state = "PROOF_COMPLETE"
      BY <2>3 DEF Early
    <3>2. proof # None => remediation'[proof.artifact] = "COMPLETED"
      <4>1. Qualified \in Artifacts /\ remediation' = [remediation EXCEPT ![Qualified] = "COMPLETED"]
        BY <1>3 DEF DeployChange, Qualified
      <4>2. proof # None => proof.artifact \in Artifacts /\ remediation[proof.artifact] = "COMPLETED"
        BY DEF IInv, TypeOK, CompletionInv
      <4> QED
        BY <4>1, <4>2, <1>t DEF TypeOK
    <3> QED
      BY <2>2, <3>1, <3>2 DEF IInv, CompletionInv, LatestResult, deliveryVars, fieldVars
  <2> QED
    BY <2>1, <2>4, <2>5, <1>t DEF IInv
<1>4. CASE DeployReplayed \/ DeployRejected
  BY <1>4, <1>t, <1>u, <1>l DEF IInv, DeployReplayed, DeployRejected, deliveryVars, fieldVars
<1>5. CASE DeliverConfirmed
  <2>1. /\ receiptRef = 0 /\ delta # None
        /\ receiptRef' = dispatches + 1 /\ dispatches' = dispatches + 1
        /\ deliveryAction' = "COMPLETED" /\ wf' = Delivered(wf)
        /\ UNCHANGED <<impactVars, artifactVars, fieldVars, proof>>
    BY <1>5, DispatchBeforeReceipt DEF DeliverConfirmed, MayDispatch
  <2>2. /\ wf.state \in Early \union {"REVIEW_REQUIRED", "REMEDIATION_COMPLETED"}
        /\ events = <<>> /\ proof = None
    BY <2>1, NothingJudgedYet
  <2>3. \/ wf' = wf
        \/ /\ wf'.state = "AWAITING_FIELD_VERIFICATION"
           /\ "REVIEW_REQUIRED" \notin wf'.history
    BY <2>1, <2>2, <1>w, DeliveredMove DEF IInv, StateInv
  <2>4. StateInv' /\ VerdictStateIsLatest' /\ CompletionInv'
    BY <2>1, <2>2, <2>3 DEF IInv, StateInv, VerdictStateIsLatest, CompletionInv, Early,
         Visited, PastDelivery, VerdictStates, fieldVars
  <2>5. DeliveryInv'
    BY <2>1, <1>t DEF TypeOK, DeliveryInv, artifactVars
  <2> QED
    BY <2>1, <2>4, <2>5, <1>t, <1>l DEF IInv, artifactVars
<1>6. CASE DeliverUncertain \/ DeliverRefused \/ DeliveryUnreconciled
  <2>1. receiptRef = 0
    BY <1>6, DispatchBeforeReceipt DEF DeliverUncertain, DeliverRefused, DeliveryUnreconciled
  <2>2. /\ UNCHANGED <<wf, impactVars, artifactVars, receiptRef, fieldVars, proof>>
        /\ dispatches' \in {dispatches, dispatches + 1}
    BY <1>6 DEF DeliverUncertain, DeliverRefused, DeliveryUnreconciled
  <2>3. proof = None
    BY <2>1, NothingJudgedYet
  <2>4. DeliveryInv'
    BY <2>1, <2>2, <1>t DEF IInv, TypeOK, DeliveryInv, artifactVars
  <2>5. CompletionInv'
    BY <2>2, <2>3 DEF IInv, CompletionInv
  <2> QED
    BY <2>2, <2>4, <2>5, <1>t, <1>s, <1>l DEF IInv, artifactVars, fieldVars
<1>7. ASSUME NEW i \in Images, NEW observed, SubmitObserved(i, observed)
      PROVE  IInv'
  <2> DEFINE r == CompareObservation(observed)
             e == [image |-> i, result |-> r]
  <2>1. UNCHANGED <<impactVars, artifactVars, deliveryVars, proof>>
    BY <1>7 DEF SubmitObserved
  <2>2. CASE Reopened(wf).state # "AWAITING_FIELD_VERIFICATION"
    <3>1. UNCHANGED <<wf, events>>
      BY <1>7, <2>2 DEF SubmitObserved
    <3> QED
      BY <2>1, <3>1, <1>t, <1>u, <1>l DEF IInv, artifactVars, deliveryVars
  <2>3. CASE Reopened(wf).state = "AWAITING_FIELD_VERIFICATION"
    <3>1. /\ wf' = [Reopened(wf) EXCEPT !.state = VerdictState(r)]
          /\ events' = Append(events, e)
      BY <1>7, <2>3 DEF SubmitObserved
    <3>2. r \in Results /\ VerdictState(r) \in VerdictStates
      BY VerdictOf
    <3>3. Reopened(wf) \in Workflows /\ Reopened(wf).history = wf.history
      BY <1>w, ReopenedMove
    <3> HIDE DEF r
    <3>4. wf'.state = VerdictState(r) /\ wf'.history = wf.history
      BY <3>1, <3>3 DEF Workflows
    <3>5. /\ wf.state \in PastDelivery
          /\ \A n \in 1..Len(events) : events[n].result # "PASS"
          /\ proof = None
      BY <2>3, AwaitingNotPassed DEF PastDelivery, VerdictStates
    <3>6. /\ Len(events') = Len(events) + 1 /\ Len(events) \in Nat
          /\ events'[Len(events')] = e
          /\ \A n \in 1..Len(events) : events'[n] = events[n]
      <4> DEFINE Event == [image : Images, result : Results]
      <4>1. events \in Seq(Event) /\ e \in Event
        BY <1>t, <3>2 DEF TypeOK
      <4> HIDE DEF Event, e
      <4> QED
        BY <3>1, <4>1, AppendGrows
    <3>7. StateInv' /\ DeliveryInv' /\ CompletionInv'
      <4>1. wf'.state \in VerdictStates /\ wf.state # "PROOF_COMPLETE" /\ proof' = None
        BY <2>1, <3>2, <3>4, <3>5 DEF IInv, CompletionInv
      <4>2. StateInv' /\ CompletionInv'
        BY <3>4, <4>1 DEF IInv, StateInv, CompletionInv, Visited, PastDelivery, VerdictStates
      <4>3. DeliveryInv'
        BY <2>1, <3>5 DEF IInv, DeliveryInv, deliveryVars, artifactVars
      <4> QED
        BY <4>2, <4>3
    <3>8. events' # <<>> /\ LatestResult' = r
      BY <3>6, <1>t DEF LatestResult
    <3>9. \A n \in 1..Len(events') : events'[n].result = "PASS" => n = Len(events')
      BY <3>5, <3>6
    <3>10. VerdictStateIsLatest'
      BY <3>2, <3>4, <3>8, <3>9 DEF VerdictStateIsLatest, VerdictStates, VerdictState
    <3> QED
      BY <2>1, <3>7, <3>10, <1>t, <1>l DEF IInv, artifactVars
  <2> QED
    BY <2>2, <2>3
<1>8. ASSUME NEW i \in Images, SubmitUnusable(i) \/ SubmitRefusedByStore(i)
      PROVE  IInv'
  BY <1>8, <1>t, <1>u, <1>l DEF IInv, SubmitUnusable, SubmitRefusedByStore, artifactVars, deliveryVars
<1>9. CASE GenerateProof
  <2>1. /\ LatestResult = "PASS" /\ events # <<>> /\ receiptRef # 0
        /\ affected # None /\ evidence = affected
        /\ wf.state \notin {"VERIFICATION_FAILED", "VERIFICATION_INCONCLUSIVE"}
        /\ proof = None
        /\ proof' = [artifact |-> affected, receipt |-> receiptRef, event |-> Len(events)]
        /\ wf' = Advance(wf, "PROOF_COMPLETE")
        /\ UNCHANGED <<impactVars, artifactVars, deliveryVars, fieldVars>>
    BY <1>9 DEF GenerateProof, ProofEligible, C3Remediated, C4DeltaDelivered,
         C5LatestVerificationPass, C6EvidenceTraceable, C7StateCompatible
  <2>2. wf.state = "VERIFICATION_PASSED"
    BY <2>1 DEF IInv, VerdictStateIsLatest, CompletionInv
  <2>3. wf'.state = "PROOF_COMPLETE" /\ wf'.history = wf.history \union {"VERIFICATION_PASSED"}
    BY <2>1, <2>2, <1>w, ProvedMove
  <2>4. StateInv' /\ DeliveryInv' /\ VerdictStateIsLatest'
    BY <2>1, <2>2, <2>3 DEF IInv, StateInv, DeliveryInv, VerdictStateIsLatest, LatestResult,
         Visited, PastDelivery, VerdictStates, artifactVars, deliveryVars, fieldVars
  <2>5. CompletionInv'
    <3>1. affected \in Artifacts /\ remediation[affected] = "COMPLETED"
      BY <2>1 DEF IInv, TypeOK, LedgerInv, LedgerMatchesRepository
    <3>2. proof' # None
      <4>1. proof' \in [artifact : Artifacts, receipt : Nat, event : Nat]
        BY <2>1, <3>1, <1>t DEF TypeOK
      <4> QED
        BY <4>1, CatalogAssumption
    <3> QED
      BY <2>1, <2>3, <3>1, <3>2, <1>t DEF IInv, TypeOK, DeliveryInv, CompletionInv, LatestResult,
           artifactVars, deliveryVars, fieldVars
  <2> QED
    BY <2>1, <2>4, <2>5, <1>t, <1>l DEF IInv, artifactVars
<1>10. CASE UNCHANGED vars
  BY <1>10, <1>t, <1>u, <1>l DEF IInv, vars
<1> QED
  BY <1>1, <1>2, <1>3, <1>4, <1>5, <1>6, <1>7, <1>8, <1>9, <1>10 DEF Next

\* The inductive invariant, from which every safety theorem below follows, holds
\* in every reachable state.
THEOREM InductiveInvariant == Spec => []IInv
  BY InitIInv, NextIInv, PTL DEF Spec

-----------------------------------------------------------------------------
(***************************************************************************)
(* What the invariant gives.                                               *)
(***************************************************************************)

\* The Change Proof tells the truth, for good: its artifact was written exactly
\* once and holds the approved value, its receipt is in the channel, and its
\* event is the last one and a PASS.
THEOREM ProofIsSound == Spec => []ProofSound
<1>1. IInv => ProofSound
  BY DEF IInv, TypeOK, LedgerInv, LedgerMatchesRepository, CompletionInv, ProofSound
<1> QED
  BY <1>1, InductiveInvariant, PTL

\* A workflow has a proof exactly when it is PROOF_COMPLETE, and none that was
\* ever at the review gate has one.
THEOREM ProofMeansComplete == Spec => []ProofIffComplete
<1>1. IInv => ProofIffComplete
  BY DEF IInv, StateInv, CompletionInv, ProofIffComplete
<1> QED
  BY <1>1, InductiveInvariant, PTL

\* The action ledger and the artifact repository never disagree.
THEOREM LedgerIsTruthful == Spec => []LedgerMatchesRepository
<1>1. IInv => LedgerMatchesRepository
  BY DEF IInv, LedgerInv
<1> QED
  BY <1>1, InductiveInvariant, PTL

\* The state shows the verdict of the latest event, and a PASS is the last one.
THEOREM VerdictStateShowsLatest == Spec => []VerdictStateIsLatest
<1>1. IInv => VerdictStateIsLatest
  BY DEF IInv
<1> QED
  BY <1>1, InductiveInvariant, PTL

\* No image is judged before the delta of a remediated artifact has a receipt.
THEOREM DeliveryBeforeVerdict == Spec => []NoVerdictBeforeDelivery
<1>1. IInv => NoVerdictBeforeDelivery
  BY DEF IInv, TypeOK, LedgerInv, LedgerMatchesRepository, DeliveryInv, VerdictStateIsLatest,
       PastDelivery, VerdictStates, NoVerdictBeforeDelivery
<1> QED
  BY <1>1, InductiveInvariant, PTL

\* The gate and the completed state have no exit any operation takes.
LEMMA FinalStays ==
  ASSUME NEW w, w.state \in {"REVIEW_REQUIRED", "PROOF_COMPLETE"}
  PROVE  /\ \A t : t \notin Abandoned => Advance(w, t) = w
         /\ Reopened(w) = w
<1>1. \A t : t \notin Abandoned => ~CanTransition(w.state, t)
  BY DEF CanTransition, LegalTargets, TerminalStates, Progress
<1>2. "AWAITING_FIELD_VERIFICATION" \notin Abandoned
  BY DEF Abandoned
<1> QED
  BY <1>1, <1>2 DEF Advance, Reopened

\* Whatever is called afterwards, the review gate and the completed state are
\* never left and what the proof says never changes.
THEOREM FinalStatesAreFinal == Spec => GateAndCompletionAreFinal
<1> DEFINE Final == /\ wf.state \in {"REVIEW_REQUIRED", "PROOF_COMPLETE"} => wf'.state = wf.state
                    /\ proof # None => proof' = proof
<1>1. ASSUME Next PROVE proof # None => proof' = proof
  BY <1>1 DEF Next, AnalysisFails, AnalysisQualifies, DeployChange, DeployReplayed, DeployRejected,
     DeliverConfirmed, DeliverUncertain, DeliverRefused, DeliveryUnreconciled, SubmitObserved,
     SubmitUnusable, SubmitRefusedByStore, GenerateProof
<1>2. ASSUME Next, wf.state \in {"REVIEW_REQUIRED", "PROOF_COMPLETE"} PROVE wf' = wf
  <2>1. /\ \A t : t \notin Abandoned => Advance(wf, t) = wf
        /\ Reopened(wf) = wf
    BY <1>2, FinalStays
  <2>2. ReviewRequired(wf) = wf /\ Remediated(wf) = wf /\ Delivered(wf) = wf
        /\ Advance(wf, "IMPACT_DETERMINED") = wf /\ Advance(wf, "PROOF_COMPLETE") = wf
    BY <2>1 DEF ReviewRequired, Remediated, Delivered, Abandoned
  <2>3. ASSUME NEW candidates \in SUBSET Artifacts, AnalysisQualifies(candidates) PROVE wf' = wf
    BY <2>2, <2>3 DEF AnalysisQualifies
  <2>4. ASSUME NEW i \in Images, NEW observed, SubmitObserved(i, observed) PROVE wf' = wf
    BY <1>2, <2>1, <2>4 DEF SubmitObserved
  <2> QED
    BY <1>2, <2>2, <2>3, <2>4 DEF Next, AnalysisFails, DeployChange, DeployReplayed,
       DeployRejected, DeliverConfirmed, DeliverUncertain, DeliverRefused, DeliveryUnreconciled,
       SubmitUnusable, SubmitRefusedByStore, GenerateProof
<1>3. [Next]_vars => [Final]_vars
  BY <1>1, <1>2
<1> QED
  BY <1>3, PTL DEF Spec, GateAndCompletionAreFinal

\* What a call does to the attempts and the event history: it judges one image,
\* and then one it had no observation of, or none.
LEMMA HistoryStep ==
  ASSUME TypeOK, [Next]_vars
  PROVE  /\ \A i \in Images : fieldStore[i] = "OBSERVED" =>
                calls'[i] = calls[i] /\ fieldStore'[i] = "OBSERVED"
         /\ \/ events' = events
            \/ \E i \in Images, r \in Results :
                 /\ fieldStore[i] # "OBSERVED" /\ fieldStore'[i] = "OBSERVED"
                 /\ events' = Append(events, [image |-> i, result |-> r])
<1> USE DEF TypeOK
<1>1. ASSUME NEW i \in Images, NEW status \in {"NONE", "OBSERVED", "UNUSABLE"}, Attempt(i, status),
             fieldStore[i] # "OBSERVED"
      PROVE  /\ \A j \in Images : fieldStore[j] = "OBSERVED" =>
                  calls'[j] = calls[j] /\ fieldStore'[j] = "OBSERVED"
             /\ fieldStore'[i] = status
  BY <1>1 DEF Attempt
<1>2. ASSUME NEW i \in Images, NEW observed, SubmitObserved(i, observed)
      PROVE  \/ events' = events
             \/ events' = Append(events, [image |-> i, result |-> CompareObservation(observed)])
  BY <1>2 DEF SubmitObserved
<1>3. ASSUME NEW i \in Images, NEW observed, SubmitObserved(i, observed)
      PROVE  Attempt(i, "OBSERVED") /\ fieldStore[i] # "OBSERVED"
  BY <1>3 DEF SubmitObserved, Replayable
<1>4. ASSUME NEW i \in Images, SubmitUnusable(i) \/ SubmitRefusedByStore(i)
      PROVE  /\ events' = events /\ fieldStore[i] # "OBSERVED"
             /\ \E status \in {"NONE", "OBSERVED", "UNUSABLE"} : Attempt(i, status)
  BY <1>4 DEF SubmitUnusable, SubmitRefusedByStore, Replayable
<1>5. CASE \E i \in Images : \E observed \in {"EXPECTED", "DIFFERENT", "INCONCLUSIVE"} :
             SubmitObserved(i, observed)
  BY <1>1, <1>2, <1>3, <1>5, VerdictOf
<1>6. CASE \E i \in Images : SubmitUnusable(i) \/ SubmitRefusedByStore(i)
  BY <1>1, <1>4, <1>6
<1>7. CASE ~(\E i \in Images : \/ \E observed \in {"EXPECTED", "DIFFERENT", "INCONCLUSIVE"} :
                                     SubmitObserved(i, observed)
                               \/ SubmitUnusable(i) \/ SubmitRefusedByStore(i))
  <2>1. UNCHANGED fieldVars
    BY <1>7 DEF Next, AnalysisFails, AnalysisQualifies, DeployChange, DeployReplayed,
       DeployRejected, DeliverConfirmed, DeliverUncertain, DeliverRefused, DeliveryUnreconciled,
       GenerateProof, vars, fieldVars
  <2> QED
    BY <2>1 DEF fieldVars
<1> QED
  BY <1>5, <1>6, <1>7

\* An event more at the end, and the others as they were.
LEMMA HistoryGrows ==
  ASSUME TypeOK, NEW i \in Images, NEW r \in Results,
         events' = Append(events, [image |-> i, result |-> r])
  PROVE  /\ Len(events) \in Nat /\ Len(events') = Len(events) + 1
         /\ events'[Len(events')].image = i
         /\ \A n \in 1..Len(events) : events'[n] = events[n]
<1> DEFINE Event == [image : Images, result : Results]
           e == [image |-> i, result |-> r]
<1>1. events \in Seq(Event) /\ e \in Event /\ e.image = i
  BY DEF TypeOK
<1> HIDE DEF Event, e
<1>2. events' = Append(events, e)
  BY DEF e
<1> QED
  BY <1>1, <1>2, AppendGrows

LEMMA EventCount ==
  ASSUME TypeOK
  PROVE  Len(events) \in Nat /\ \A n \in 1..Len(events) : events[n].image \in Images
<1> DEFINE Event == [image : Images, result : Results]
<1>1. events \in Seq(Event) /\ \A e \in Event : e.image \in Images
  BY DEF TypeOK
<1> HIDE DEF Event
<1>2. Len(events) \in Nat /\ \A n \in 1..Len(events) : events[n] \in Event
  BY <1>1
<1> QED
  BY <1>1, <1>2

\* Observing an image again costs no model call, and no attempt on record is
\* ever rewritten.
THEOREM ObservationIsFreeAndKept == Spec => ObservedImageIsFree
<1>1. ASSUME TypeOK, [Next]_vars
      PROVE  /\ \A i \in Images : fieldStore[i] = "OBSERVED" =>
                  calls'[i] = calls[i] /\ fieldStore'[i] = "OBSERVED"
             /\ Len(events') >= Len(events)
             /\ \A n \in 1..Len(events) : events'[n] = events[n]
  <2>1. Len(events') >= Len(events) /\ \A n \in 1..Len(events) : events'[n] = events[n]
    <3>1. CASE events' = events
      <4>1. Len(events) \in Nat
        BY <1>1, EventCount
      <4> QED
        BY <3>1, <4>1
    <3>2. ASSUME NEW i \in Images, NEW r \in Results,
                 events' = Append(events, [image |-> i, result |-> r])
          PROVE  Len(events') >= Len(events) /\ \A n \in 1..Len(events) : events'[n] = events[n]
      BY <1>1, <3>2, HistoryGrows
    <3> QED
      BY <1>1, <3>1, <3>2, HistoryStep
  <2> QED
    BY <1>1, <2>1, HistoryStep
<1> QED
  BY <1>1, TypeCorrect, PTL DEF Spec, ObservedImageIsFree

\* ImageJudgedOnce holds because a judged image is an observed one.
JudgedInv ==
  /\ ImageJudgedOnce
  /\ \A n \in 1..Len(events) : fieldStore[events[n].image] = "OBSERVED"

\* No image is judged twice, whatever is submitted again.
THEOREM ImagesAreJudgedOnce == Spec => []ImageJudgedOnce
<1>1. Init => JudgedInv
  BY DEF Init, JudgedInv, ImageJudgedOnce
<1>2. TypeOK /\ JudgedInv /\ [Next]_vars => JudgedInv'
  <2> SUFFICES ASSUME TypeOK, JudgedInv, [Next]_vars PROVE JudgedInv'
    OBVIOUS
  <2>1. Len(events) \in Nat /\ \A n \in 1..Len(events) : events[n].image \in Images
    BY EventCount
  <2>2. \A i \in Images : fieldStore[i] = "OBSERVED" => fieldStore'[i] = "OBSERVED"
    BY HistoryStep
  <2>3. CASE events' = events
    BY <2>1, <2>2, <2>3 DEF JudgedInv, ImageJudgedOnce
  <2>4. ASSUME NEW i \in Images, NEW r \in Results,
               fieldStore[i] # "OBSERVED", fieldStore'[i] = "OBSERVED",
               events' = Append(events, [image |-> i, result |-> r])
        PROVE  JudgedInv'
    <3>1. /\ Len(events) \in Nat /\ Len(events') = Len(events) + 1
          /\ events'[Len(events')].image = i
          /\ \A n \in 1..Len(events) : events'[n] = events[n]
      BY <2>4, HistoryGrows
    <3>2. \A n \in 1..Len(events) : events[n].image # i
      BY <2>4 DEF JudgedInv
    <3> QED
      BY <2>1, <2>2, <2>4, <3>1, <3>2 DEF JudgedInv, ImageJudgedOnce
  <2> QED
    BY <2>3, <2>4, HistoryStep
<1> QED
  BY <1>1, <1>2, TypeCorrect, PTL DEF Spec, JudgedInv

-----------------------------------------------------------------------------
(***************************************************************************)
(* The service implements ChangeLifecycle.  Two facts beyond IInv make a   *)
(* step of the service a step of the promise: a remediation leaves a       *)
(* composed delta behind, and a workflow that has one is past analysis.    *)
(***************************************************************************)
RemediationInv ==
  /\ \A a \in Artifacts : remediation[a] = "COMPLETED" => delta # None
  /\ delta # None => wf.state \notin Early

\* The second half of the inductive invariant holds in every reachable state.
LEMMA RemediationComposesDelta == Spec => []RemediationInv
<1>1. Init => RemediationInv
  BY DEF Init, RemediationInv
<1>2. TypeOK /\ RemediationInv /\ [Next]_vars => RemediationInv'
  <2> SUFFICES ASSUME TypeOK, RemediationInv, [Next]_vars PROVE RemediationInv'
    OBVIOUS
  <2>w. wf \in Workflows
    BY DEF TypeOK, Workflows
  <2>1. \* Apart from an execution, a call that moves the workflow leaves the early states
        \* or starts in one.
        ASSUME UNCHANGED <<remediation, delta>>, wf.state \notin Early => wf'.state \notin Early
        PROVE  RemediationInv'
    BY <2>1 DEF RemediationInv
  <2>2. CASE AnalysisFails
    BY <2>1, <2>2, <2>w, ReviewRequiredMove DEF AnalysisFails, artifactVars
  <2>3. ASSUME NEW candidates \in SUBSET Artifacts, AnalysisQualifies(candidates)
        PROVE  RemediationInv'
    BY <2>1, <2>3, <2>w, ReviewRequiredMove, QualifiedMove DEF AnalysisQualifies, artifactVars, Early
  <2>4. CASE DeployChange
    <3>1. delta' # None
      BY <2>4, CatalogAssumption DEF DeployChange, Qualified
    <3>2. wf'.state \notin Early
      BY <2>4, <2>w, RemediatedMove DEF DeployChange, RemediationInv, Early
    <3> QED
      BY <3>1, <3>2 DEF RemediationInv
  <2>5. CASE DeliverConfirmed
    <3>1. delta # None /\ wf' = Delivered(wf) /\ UNCHANGED <<remediation, delta>>
      BY <2>5 DEF DeliverConfirmed, MayDispatch, artifactVars
    <3>2. ASSUME NEW w, w.state \notin Early PROVE Delivered(w).state \notin Early
      BY <3>2 DEF Delivered, Advance, Early
    <3> QED
      BY <2>1, <3>1, <3>2
  <2>6. ASSUME NEW i \in Images, NEW observed, SubmitObserved(i, observed)
        PROVE  RemediationInv'
    <3>1. VerdictState(CompareObservation(observed)) \notin Early
      BY VerdictOf DEF VerdictStates, Early
    <3>2. wf' = wf \/ wf'.state = VerdictState(CompareObservation(observed))
      BY <2>6, <2>w DEF SubmitObserved, Reopened, Workflows
    <3> QED
      BY <2>1, <2>6, <3>1, <3>2 DEF SubmitObserved, artifactVars
  <2>7. CASE GenerateProof
    <3>1. Advance(wf, "PROOF_COMPLETE").state \in {wf.state, "PROOF_COMPLETE"}
      BY DEF Advance
    <3> QED
      BY <2>1, <2>7, <3>1 DEF GenerateProof, artifactVars, Early
  <2>8. ASSUME NEW i \in Images, SubmitUnusable(i) \/ SubmitRefusedByStore(i)
        PROVE  RemediationInv'
    BY <2>1, <2>8 DEF SubmitUnusable, SubmitRefusedByStore, artifactVars
  <2>9. CASE DeployReplayed \/ DeployRejected \/ DeliverUncertain \/ DeliverRefused
             \/ DeliveryUnreconciled \/ UNCHANGED vars
    BY <2>1, <2>9 DEF DeployReplayed, DeployRejected, DeliverUncertain, DeliverRefused,
       DeliveryUnreconciled, artifactVars, vars
  <2> QED
    BY <2>2, <2>3, <2>4, <2>5, <2>6, <2>7, <2>8, <2>9 DEF Next
<1> QED
  BY <1>1, <1>2, TypeCorrect, PTL DEF Spec

\* Every call is a step of the promise, or changes nothing the promise speaks of.
LEMMA CallRefines ==
  ASSUME IInv, RemediationInv, [Next]_vars
  PROVE  [Lifecycle!LifecycleNext]_Lifecycle!lifecycleVars
<1> DEFINE Phase(w) == CASE w.state = "REVIEW_REQUIRED" -> "review"
                         [] w.state = "PROOF_COMPLETE"  -> "proved"
                         [] OTHER                       -> "open"
           Remedied(r) == {a \in Artifacts : r[a] = "COMPLETED"}
<1> USE DEF Lifecycle!LifecycleNext
<1>w. wf \in Workflows /\ wf.state \in Visited /\ TypeOK
  BY DEF IInv, TypeOK, StateInv, Workflows
<1>s. \* A step that shows nothing.
      ASSUME Phase(wf') = Phase(wf), UNCHANGED <<remediation, receiptRef, events, proof>>
      PROVE  UNCHANGED Lifecycle!lifecycleVars
  BY <1>s DEF Lifecycle!lifecycleVars, LatestResult
<1>1. ASSUME UNCHANGED <<artifactVars, deliveryVars, fieldVars, proof>>,
             wf' \in {ReviewRequired(wf), Advance(wf, "IMPACT_DETERMINED")}
      PROVE  Lifecycle!Gate \/ UNCHANGED Lifecycle!lifecycleVars
  <2>1. CASE Phase(wf') = Phase(wf)
    BY <1>1, <1>s, <2>1 DEF artifactVars, deliveryVars, fieldVars
  <2>2. CASE Phase(wf') # Phase(wf)
    <3>1. wf.state \in Early /\ wf'.state = "REVIEW_REQUIRED"
      BY <1>1, <1>w, <2>2, ReviewRequiredMove, QualifiedMove DEF Early
    <3>2. Remedied(remediation) = {}
      BY <3>1 DEF RemediationInv
    <3>3. Phase(wf) = "open" /\ Phase(wf') = "review"
      BY <3>1 DEF Early
    <3> QED
      BY <1>1, <3>2, <3>3 DEF Lifecycle!Gate, artifactVars, deliveryVars, fieldVars, LatestResult
  <2> QED
    BY <2>1, <2>2
<1>2. CASE AnalysisFails
  BY <1>1, <1>2 DEF AnalysisFails
<1>3. ASSUME NEW candidates \in SUBSET Artifacts, AnalysisQualifies(candidates)
      PROVE  [Lifecycle!LifecycleNext]_Lifecycle!lifecycleVars
  BY <1>1, <1>3 DEF AnalysisQualifies
<1>4. CASE DeployChange
  <2> DEFINE a == Qualified
  <2>1. /\ a \in Artifacts /\ remediation[a] # "COMPLETED"
        /\ remediation' = [remediation EXCEPT ![a] = "COMPLETED"]
    BY <1>4 DEF DeployChange, Qualified, DecideRetry
  <2>2. UNCHANGED <<receiptRef, events, proof>> /\ wf' \in {wf, Remediated(wf)}
    BY <1>4 DEF DeployChange, deliveryVars, fieldVars
  <2>3. Phase(wf') = Phase(wf)
    BY <1>w, <2>2, RemediatedMove DEF Early
  <2> HIDE DEF a
  <2>4. a \notin Remedied(remediation) /\ Remedied(remediation') = Remedied(remediation) \union {a}
    BY <1>w, <2>1 DEF TypeOK
  <2> QED
    BY <2>1, <2>2, <2>3, <2>4 DEF Lifecycle!Remediate, LatestResult
<1>5. CASE DeliverConfirmed
  <2>1. /\ receiptRef = 0 /\ delta # None /\ receiptRef' = dispatches + 1
        /\ wf' = Delivered(wf) /\ UNCHANGED <<remediation, events, proof>>
    BY <1>5, DispatchBeforeReceipt DEF DeliverConfirmed, MayDispatch, artifactVars, fieldVars
  <2>2. Phase(wf') = Phase(wf)
    BY <2>1, <1>w, NothingJudgedYet, DeliveredMove DEF Early
  <2>3. receiptRef' # 0
    BY <2>1, <1>w DEF TypeOK
  <2>4. Remedied(remediation) # {}
    BY <2>1, <1>w DEF IInv, LedgerInv, LedgerMatchesRepository, TypeOK
  <2> QED
    BY <2>1, <2>2, <2>3, <2>4 DEF Lifecycle!Deliver, LatestResult
<1>6. ASSUME NEW i \in Images, NEW observed, SubmitObserved(i, observed)
      PROVE  [Lifecycle!LifecycleNext]_Lifecycle!lifecycleVars
  <2> DEFINE r == CompareObservation(observed)
             e == [image |-> i, result |-> r]
  <2>1. UNCHANGED <<remediation, receiptRef, proof>>
    BY <1>6 DEF SubmitObserved, artifactVars, deliveryVars
  <2>2. CASE Reopened(wf).state # "AWAITING_FIELD_VERIFICATION"
    <3>1. UNCHANGED <<wf, events>>
      BY <1>6, <2>2 DEF SubmitObserved
    <3> QED
      BY <2>1, <3>1, <1>s
  <2>3. CASE Reopened(wf).state = "AWAITING_FIELD_VERIFICATION"
    <3>1. /\ wf' = [Reopened(wf) EXCEPT !.state = VerdictState(r)]
          /\ events' = Append(events, e)
      BY <1>6, <2>3 DEF SubmitObserved
    <3>2. r \in Results /\ VerdictState(r) \in VerdictStates
      BY VerdictOf
    <3>3. /\ wf.state \in {"AWAITING_FIELD_VERIFICATION", "VERIFICATION_FAILED",
                           "VERIFICATION_INCONCLUSIVE"}
          /\ \A n \in 1..Len(events) : events[n].result # "PASS"
      BY <2>3, AwaitingNotPassed
    <3> HIDE DEF r
    <3>4. Phase(wf) = "open" /\ Phase(wf') = "open"
      <4>1. wf'.state = VerdictState(r)
        BY <3>1, <1>w, ReopenedMove DEF Workflows
      <4> QED
        BY <3>2, <3>3, <4>1 DEF VerdictStates
    <3>5. LatestResult # "PASS"
      BY <3>3, <1>w, EventCount DEF LatestResult, TypeOK
    <3>6. LatestResult' = r
      <4> DEFINE Event == [image : Images, result : Results]
      <4>1. events \in Seq(Event) /\ e \in Event /\ e.result = r
        BY <1>w, <3>2 DEF TypeOK
      <4> HIDE DEF Event, e
      <4>2. events' # <<>> /\ events'[Len(events')] = e
        BY <3>1, <4>1, AppendGrows
      <4> QED
        BY <4>1, <4>2 DEF LatestResult
    <3>7. receiptRef # 0
      BY <3>3 DEF IInv, DeliveryInv, PastDelivery, VerdictStates
    <3> QED
      BY <2>1, <3>2, <3>4, <3>5, <3>6, <3>7 DEF Lifecycle!Judge, Results
  <2> QED
    BY <2>2, <2>3
<1>7. CASE GenerateProof
  <2>1. /\ LatestResult = "PASS" /\ affected # None /\ evidence = affected
        /\ events # <<>> /\ proof = None
        /\ wf.state \notin {"VERIFICATION_FAILED", "VERIFICATION_INCONCLUSIVE"}
        /\ proof' = [artifact |-> affected, receipt |-> receiptRef, event |-> Len(events)]
        /\ wf' = Advance(wf, "PROOF_COMPLETE")
        /\ UNCHANGED <<remediation, receiptRef, events>>
    BY <1>7 DEF GenerateProof, ProofEligible, C3Remediated, C5LatestVerificationPass,
         C6EvidenceTraceable, C7StateCompatible, artifactVars, deliveryVars, fieldVars
  <2>2. wf.state = "VERIFICATION_PASSED"
    BY <2>1 DEF IInv, VerdictStateIsLatest, CompletionInv
  <2>3. Phase(wf) = "open" /\ Phase(wf') = "proved"
    BY <1>w, <2>1, <2>2, ProvedMove
  <2>4. affected \in Remedied(remediation)
    BY <2>1, <1>w DEF IInv, TypeOK, LedgerInv, LedgerMatchesRepository
  <2>5. proof' # None
    <3>1. proof' \in [artifact : Artifacts, receipt : Nat, event : Nat]
      BY <1>w, <2>1, <2>4, EventCount DEF TypeOK
    <3> QED
      BY <3>1, CatalogAssumption
  <2> QED
    BY <2>1, <2>3, <2>4, <2>5 DEF Lifecycle!Prove, LatestResult
<1>8. CASE DeployReplayed \/ DeployRejected \/ DeliverUncertain \/ DeliverRefused
           \/ DeliveryUnreconciled \/ UNCHANGED vars
  BY <1>s, <1>8 DEF DeployReplayed, DeployRejected, DeliverUncertain, DeliverRefused,
     DeliveryUnreconciled, fieldVars, deliveryVars, artifactVars, vars
<1>9. ASSUME NEW i \in Images, SubmitUnusable(i) \/ SubmitRefusedByStore(i)
      PROVE  UNCHANGED Lifecycle!lifecycleVars
  BY <1>s, <1>9 DEF SubmitUnusable, SubmitRefusedByStore, artifactVars, deliveryVars
<1> QED
  BY <1>2, <1>3, <1>4, <1>5, <1>6, <1>7, <1>8, <1>9 DEF Next

\* The service, with its ledger, channel, stores and thirteen states, keeps the
\* promise that ChangeLifecycle states without them.
THEOREM ServiceImplementsLifecycle == Spec => ImplementsLifecycle
<1>1. Init => Lifecycle!LifecycleInit
  BY DEF Init, LatestResult, Lifecycle!LifecycleInit
<1>2. IInv /\ RemediationInv /\ [Next]_vars => [Lifecycle!LifecycleNext]_Lifecycle!lifecycleVars
  BY CallRefines
<1> QED
  BY <1>1, <1>2, InductiveInvariant, RemediationComposesDelta, PTL
  DEF Spec, ImplementsLifecycle, Lifecycle!LifecycleSpec

-----------------------------------------------------------------------------
(***************************************************************************)
(* The pages of MissionControl.  Every request is one call of the service, *)
(* or none, or a new session, so that IInv holds of the session on show.   *)
(* The panels are older than it; the invariant says how far each of them   *)
(* can be trusted.                                                         *)
(***************************************************************************)

\* What the session has recorded about itself, beyond IInv.
SessionInv ==
  /\ deliveryAction = "COMPLETED" => receiptRef # 0
  /\ \A a \in Artifacts : remediation[a] = "COMPLETED" => evidence # None
  /\ outcome \in {"MUTATED", "ALREADY_COMPLETED"} => evidence # None
  /\ impact \in Artifacts => affected = impact
  /\ proof # None => impact # None

\* The delivery panel is established exactly when the ledger has the delivery.
DeliveryPanelInv ==
  /\ delivery \in DeliveryPanels \union {None}
  /\ DeliveryEstablished <=> deliveryAction = "COMPLETED"
  /\ acknowledged => deliveryAction = "COMPLETED"

\* A verdict on the panel is the latest event's; a panel may also show that the
\* last observation was not adjudicated.
VerdictPanelInv ==
  /\ verdict \in VerdictPanels \union {None}
  /\ verdict # None /\ verdict.result # None => events # <<>> /\ verdict.result = LatestResult

\* The field panel repeats the verdict panel, and one that shows an observation
\* has an adjudication beside it, replays included.
FieldPanelInv ==
  field # None =>
    /\ field.facts.result = IF verdict = None THEN None ELSE verdict.result
    /\ field.facts.verified = (verdict # None /\ verdict.verified)
    /\ field.observation => field.crossing = "ACCEPTED"
    /\ field.crossing = "ACCEPTED" => verdict # None

\* The proof panel shows the proof there is, and a refusal offers none.
ProofPanelInv ==
  /\ proof # None <=> proofPanel # None /\ proofPanel.status = "PROOF_COMPLETE"
  /\ proofPanel # None /\ proof = None => ~proofPanel.eligible

PageInv ==
  /\ IInv /\ SessionInv
  /\ DeliveryPanelInv /\ VerdictPanelInv /\ FieldPanelInv /\ ProofPanelInv

\* What each request leaves alone.
LEMMA RequestFrame ==
  ASSUME [PageNext]_pageVars, ~StartNewSession
  PROVE  /\ [Next]_vars
         /\ UNCHANGED <<delivery, acknowledged, deliveryVars>> \/ Deliver \/ Acknowledge
         /\ UNCHANGED <<verdict, field, fieldVars>> \/ \E i \in Images : Submit(i)
         /\ UNCHANGED <<proofPanel, proof>> \/ RequestProof
<1>1. CASE Analyze
  <2>1. UNCHANGED <<deliveryVars, fieldVars, proof>>
    BY <1>1 DEF Analyze, AnalysisFails, AnalysisQualifies, vars, deliveryVars, fieldVars
  <2>2. [Next]_vars
    BY <1>1 DEF Analyze, Next
  <2> QED
    BY <1>1, <2>1, <2>2 DEF Analyze
<1>2. CASE Deploy
  <2>1. UNCHANGED <<deliveryVars, fieldVars, proof>>
    BY <1>2 DEF Deploy, DeployChange, DeployReplayed, DeployRejected, vars, deliveryVars, fieldVars
  <2>2. [Next]_vars
    BY <1>2 DEF Deploy, Next
  <2> QED
    BY <1>2, <2>1, <2>2 DEF Deploy, panelVars
<1>3. CASE Deliver
  <2>1. UNCHANGED <<fieldVars, proof>>
    BY <1>3 DEF Deliver, DeliverConfirmed, DeliverUncertain, DeliverRefused, DeliveryUnreconciled,
       DeliverReplayed, vars, fieldVars
  <2>2. [Next]_vars
    BY <1>3 DEF Deliver, DeliverReplayed, Next
  <2> QED
    BY <1>3, <2>1, <2>2 DEF Deliver
<1>4. CASE Acknowledge
  BY <1>4 DEF Acknowledge, vars, fieldVars
<1>5. ASSUME NEW i \in Images, WorkerUploadBegins(i)
      PROVE  UNCHANGED <<vars, panelVars>>
  BY <1>5 DEF WorkerUploadBegins
<1>6. ASSUME NEW i \in Images, SubmitFieldEvidence(i)
      PROVE  /\ [Next]_vars /\ Submit(i)
             /\ UNCHANGED <<delivery, acknowledged, deliveryVars, proofPanel, proof>>
  <2>1. Submit(i) /\ UNCHANGED <<delivery, acknowledged, proofPanel>>
    BY <1>6 DEF SubmitFieldEvidence
  <2>2. \/ UNCHANGED vars
        \/ SubmitUnusable(i) \/ SubmitRefusedByStore(i)
        \/ \E observed \in {"EXPECTED", "DIFFERENT", "INCONCLUSIVE"} : SubmitObserved(i, observed)
    BY <2>1 DEF Submit
  <2>3. [Next]_vars
    BY <2>2 DEF Next
  <2>4. UNCHANGED <<deliveryVars, proof>>
    BY <2>2 DEF SubmitUnusable, SubmitRefusedByStore, SubmitObserved, vars, deliveryVars
  <2> QED
    BY <2>1, <2>3, <2>4
<1>7. CASE RequestProof
  <2>1. GenerateProof \/ UNCHANGED vars
    BY <1>7 DEF RequestProof, ProofReplayed
  <2>2. UNCHANGED <<deliveryVars, fieldVars>> /\ [Next]_vars
    BY <2>1 DEF GenerateProof, vars, deliveryVars, fieldVars, Next
  <2> QED
    BY <1>7, <2>2 DEF RequestProof
<1>8. CASE UNCHANGED <<vars, panelVars>>
  BY <1>8 DEF vars, panelVars, deliveryVars, fieldVars
<1>9. UNCHANGED pageVars => UNCHANGED <<vars, panelVars>>
  BY DEF pageVars
<1> QED
  BY <1>1, <1>2, <1>3, <1>4, <1>5, <1>6, <1>7, <1>8, <1>9 DEF PageNext

\* A panel that was stored is not taken for one that was not.
LEMMA PanelIsSomething ==
  ASSUME NEW panel \in DeliveryPanels \union VerdictPanels \union ProofPanels
  PROVE  panel # None
  BY PageAssumption

\* A new session starts like the first: every panel is empty again.
LEMMA NewSession ==
  ASSUME StartNewSession
  PROVE  IInv' /\ SessionInv' /\ DeliveryPanelInv' /\ VerdictPanelInv' /\ FieldPanelInv'
         /\ ProofPanelInv'
<1>1. Init'
  BY DEF StartNewSession, Init
<1>2. IInv'
  BY <1>1, InitIInv, PTL
<1>3. SessionInv'
  BY CatalogAssumption, PageAssumption DEF StartNewSession, SessionInv
<1>4. DeliveryPanelInv' /\ VerdictPanelInv' /\ FieldPanelInv' /\ ProofPanelInv'
  BY DEF StartNewSession, DeliveryPanelInv, DeliveryEstablished, VerdictPanelInv, FieldPanelInv,
     ProofPanelInv
<1> QED
  BY <1>2, <1>3, <1>4

\* The records of a session agree with each other after every call.
LEMMA SessionKept ==
  ASSUME IInv, SessionInv, [Next]_vars
  PROVE  SessionInv'
<1>t. TypeOK
  BY DEF IInv
<1>1. ASSUME UNCHANGED <<artifactVars, deliveryVars, proof>>, UNCHANGED impactVars
      PROVE  SessionInv'
  BY <1>1 DEF SessionInv, artifactVars, deliveryVars, impactVars
<1>2. ASSUME NEW candidates \in SUBSET Artifacts, AnalysisQualifies(candidates)
      PROVE  SessionInv'
  <2> DEFINE target == ResolveCardinality(candidates)
  <2>1. /\ impact' = target /\ affected' = IF target = "NO_TARGET" THEN affected ELSE target
        /\ UNCHANGED <<artifactVars, deliveryVars, proof>>
    BY <1>2 DEF AnalysisQualifies
  <2>2. target \in Artifacts \union {"NO_TARGET"}
    BY ResolvedTarget
  <2> HIDE DEF target
  <2>3. impact' # None /\ (impact' \in Artifacts => affected' = impact')
    BY <2>1, <2>2, CatalogAssumption, PageAssumption
  <2> QED
    BY <2>1, <2>3 DEF SessionInv, artifactVars, deliveryVars
<1>3. CASE DeployChange
  <2>1. Qualified \in Artifacts /\ evidence' = Qualified
    BY <1>3 DEF DeployChange, Qualified
  <2>2. evidence' # None /\ UNCHANGED <<impactVars, deliveryVars, proof>>
    BY <1>3, <2>1, CatalogAssumption DEF DeployChange
  <2> QED
    BY <2>2 DEF SessionInv, impactVars, deliveryVars
<1>4. CASE DeployReplayed
  <2>1. Qualified \in Artifacts /\ remediation[Qualified] = "COMPLETED"
    BY <1>4, <1>t DEF DeployReplayed, Qualified, DecideRetry, TypeOK
  <2>2. evidence' # None
    BY <1>4, <2>1 DEF DeployReplayed, SessionInv
  <2> QED
    BY <1>4, <2>2 DEF SessionInv, DeployReplayed, impactVars, deliveryVars
<1>5. CASE DeployRejected
  BY <1>5 DEF SessionInv, DeployRejected, impactVars, deliveryVars
<1>6. CASE DeliverConfirmed
  <2>1. receiptRef' # 0
    BY <1>6, <1>t DEF DeliverConfirmed, TypeOK
  <2> QED
    BY <1>6, <2>1 DEF SessionInv, DeliverConfirmed, impactVars, artifactVars
<1>7. CASE DeliverUncertain \/ DeliverRefused \/ DeliveryUnreconciled
  BY <1>7 DEF SessionInv, DeliverUncertain, DeliverRefused, DeliveryUnreconciled, impactVars, artifactVars
<1>8. CASE GenerateProof
  <2>1. impact \in Artifacts /\ UNCHANGED <<impactVars, artifactVars, deliveryVars>>
    BY <1>8 DEF GenerateProof, ProofEligible, C2ImpactDetermined
  <2> QED
    BY <2>1, CatalogAssumption DEF SessionInv, impactVars, artifactVars, deliveryVars
<1>9. CASE AnalysisFails \/ UNCHANGED vars
  BY <1>1, <1>9 DEF AnalysisFails, vars, artifactVars, deliveryVars, impactVars
<1>10. ASSUME NEW i \in Images, NEW observed,
              SubmitObserved(i, observed) \/ SubmitUnusable(i) \/ SubmitRefusedByStore(i)
       PROVE  SessionInv'
  BY <1>1, <1>10 DEF SubmitObserved, SubmitUnusable, SubmitRefusedByStore
<1> QED
  BY <1>2, <1>3, <1>4, <1>5, <1>6, <1>7, <1>8, <1>9, <1>10 DEF Next

\* The delivery panel keeps up with the ledger, repeats and lost answers included.
LEMMA DeliveryPanelKept ==
  ASSUME IInv, SessionInv, DeliveryPanelInv, [PageNext]_pageVars, ~StartNewSession
  PROVE  DeliveryPanelInv'
<1>1. CASE UNCHANGED <<delivery, acknowledged, deliveryVars>>
  BY <1>1 DEF DeliveryPanelInv, DeliveryEstablished, deliveryVars
<1>2. CASE Acknowledge
  BY <1>2 DEF Acknowledge, FrontlineAvailable, DeliveryPanelInv, DeliveryEstablished, vars
<1>3. CASE Deliver
  <2>1. UNCHANGED acknowledged
    BY <1>3 DEF Deliver
  <2>2. CASE DeliverConfirmed /\ delivery' = [established |-> TRUE, request |-> "DELIVERED"]
    <3>1. delivery' \in DeliveryPanels /\ deliveryAction' = "COMPLETED"
      BY <2>2 DEF DeliverConfirmed, DeliveryPanels
    <3>2. delivery' # None
      BY <3>1, PanelIsSomething
    <3> QED
      BY <2>2, <3>1, <3>2 DEF DeliveryPanelInv, DeliveryEstablished
  <2>3. CASE DeliverReplayed
    <3>1. deliveryAction = "COMPLETED"
      BY <2>3 DEF DeliverReplayed, DecideRetry
    <3>2. delivery \in DeliveryPanels /\ delivery.established
      BY <3>1 DEF DeliveryPanelInv, DeliveryEstablished
    <3>3. delivery' \in DeliveryPanels /\ delivery'.established
      BY <2>3, <3>2 DEF DeliverReplayed, DeliveryPanels
    <3>4. delivery' # None
      BY <3>3, PanelIsSomething
    <3> QED
      BY <2>3, <3>1, <3>3, <3>4
      DEF DeliverReplayed, DeliveryPanelInv, DeliveryEstablished, vars
  <2>4. CASE DeliverUncertain \/ DeliverRefused \/ DeliveryUnreconciled
    <3>1. deliveryAction # "COMPLETED" /\ deliveryAction' # "COMPLETED"
      BY <2>4 DEF DeliverUncertain, DeliverRefused, DeliveryUnreconciled, MayDispatch, DecideRetry
    <3> DEFINE rejected == [established |-> FALSE, request |-> "REJECTED"]
    <3>2. delivery' \in {delivery, rejected}
      BY <1>3, <2>4, <3>1 DEF Deliver, DeliverConfirmed, DeliverReplayed, DecideRetry
    <3>3. rejected \in DeliveryPanels /\ ~rejected.established
      BY DEF DeliveryPanels
    <3> HIDE DEF rejected
    <3>4. ~acknowledged /\ ~DeliveryEstablished
      BY <3>1 DEF DeliveryPanelInv
    <3>5. delivery' \in DeliveryPanels \union {None} /\ ~DeliveryEstablished'
      BY <3>2, <3>3, <3>4 DEF DeliveryPanelInv, DeliveryEstablished
    <3> QED
      BY <2>1, <3>1, <3>4, <3>5 DEF DeliveryPanelInv
  <2> QED
    BY <1>3, <2>2, <2>3, <2>4 DEF Deliver
<1> QED
  BY <1>1, <1>2, <1>3, RequestFrame

\* The two panels of an image are built by the same call, and show the latest
\* verdict after every kind of submission.
LEMMA EvidencePanelsKept ==
  ASSUME IInv, VerdictPanelInv, FieldPanelInv, [PageNext]_pageVars, ~StartNewSession
  PROVE  VerdictPanelInv' /\ FieldPanelInv'
<1>1. CASE UNCHANGED <<verdict, field, fieldVars>>
  BY <1>1 DEF VerdictPanelInv, FieldPanelInv, LatestResult, fieldVars
<1>2. ASSUME NEW i \in Images, Submit(i)
      PROVE  VerdictPanelInv' /\ FieldPanelInv'
  <2>1. ASSUME NEW status, NEW crossing, NEW observed, UNCHANGED <<verdict, events>>,
               crossing = "ACCEPTED" => verdict # None,
               field' = FieldView(status, crossing, observed, verdict, wf)
        PROVE  VerdictPanelInv' /\ FieldPanelInv'
    BY <2>1 DEF VerdictPanelInv, FieldPanelInv, LatestResult, FieldView, FieldStaticView
  <2>2. CASE /\ field' = FieldView("REJECTED", None, FALSE, verdict, wf)
             /\ UNCHANGED <<vars, verdict>>
    BY <2>1, <2>2, PageAssumption DEF vars
  <2>3. CASE /\ field' = FieldView("PROVIDER_DISABLED", None, FALSE, verdict, wf)
             /\ UNCHANGED <<vars, verdict>>
    BY <2>1, <2>3, PageAssumption DEF vars
  <2>4. CASE /\ field' = FieldView("REPLAYED", IF field = None THEN None ELSE field.crossing,
                                   TRUE, verdict, wf)
             /\ UNCHANGED <<vars, verdict>>
    <3>1. (IF field = None THEN None ELSE field.crossing) = "ACCEPTED" => verdict # None
      BY PageAssumption DEF FieldPanelInv
    <3> QED
      BY <2>1, <2>4, <3>1 DEF vars
  <2>5. CASE /\ SubmitUnusable(i)
             /\ field' = FieldView("FAILED", None, FALSE, verdict, wf)
             /\ UNCHANGED verdict
    BY <2>1, <2>5, PageAssumption DEF SubmitUnusable
  <2>6. CASE SubmitRefusedByStore(i) /\ UNCHANGED <<field, verdict>>
    BY <2>6 DEF SubmitRefusedByStore, VerdictPanelInv, FieldPanelInv, LatestResult
  <2>7. ASSUME NEW observed \in {"EXPECTED", "DIFFERENT", "INCONCLUSIVE"},
               SubmitObserved(i, observed),
               verdict' = VerdictAfter(observed, events' # events),
               field' = FieldView("OBSERVED", "ACCEPTED", TRUE, verdict', wf')
        PROVE  VerdictPanelInv' /\ FieldPanelInv'
    <3> DEFINE r == CompareObservation(observed)
               e == [image |-> i, result |-> r]
               shown == IF events' # events THEN r ELSE None
    <3>1. r \in Results
      BY VerdictOf
    <3>2. verdict' = VerdictView(shown) /\ verdict' \in VerdictPanels /\ verdict' # None
      BY <2>7, <3>1, PanelIsSomething DEF VerdictAfter, VerdictPanels
    <3>3. events' # events => events' = Append(events, e)
      BY <2>7 DEF SubmitObserved
    <3>4. events' # events => events' # <<>> /\ LatestResult' = r
      <4> DEFINE Event == [image : Images, result : Results]
      <4>1. events \in Seq(Event) /\ e \in Event /\ e.result = r
        BY <3>1 DEF IInv, TypeOK
      <4> HIDE DEF Event, e
      <4> QED
        BY <3>3, <4>1, AppendGrows DEF LatestResult
    <3> HIDE DEF r
    <3>5. VerdictPanelInv'
      BY <3>2, <3>4 DEF VerdictPanelInv, VerdictView
    <3>6. FieldPanelInv'
      BY <2>7, <3>2 DEF FieldPanelInv, FieldView, FieldStaticView
    <3> QED
      BY <3>5, <3>6
  <2> QED
    BY <1>2, <2>2, <2>3, <2>4, <2>5, <2>6, <2>7 DEF Submit
<1> QED
  BY <1>1, <1>2, RequestFrame

\* A proof, once there, is on every panel built after it, and a refusal before it
\* offers nothing.
LEMMA ProofPanelKept ==
  ASSUME IInv, IInv', SessionInv, ProofPanelInv, [PageNext]_pageVars, ~StartNewSession
  PROVE  ProofPanelInv'
<1>1. CASE UNCHANGED <<proofPanel, proof>>
  BY <1>1 DEF ProofPanelInv
<1>2. CASE RequestProof
  <2> USE DEF ProofView, ChangeIsDeployed
  <2>1. proof # None => ProofContextExists
    BY DEF ProofContextExists, IInv, TypeOK, CompletionInv, DeliveryInv, PastDelivery, SessionInv
  <2>2. CASE ~ProofContextExists /\ proofPanel' = ProofUnavailableView /\ UNCHANGED vars
    BY <2>1, <2>2 DEF ProofUnavailableView, ProofPanelInv, vars
  <2>3. CASE proof = None /\ proofPanel' = ProofView("BLOCKED", FALSE, wf) /\ UNCHANGED vars
    BY <2>3 DEF ProofPanelInv, vars
  <2>4. CASE GenerateProof /\ proofPanel' = ProofView("PROOF_COMPLETE", TRUE, wf')
    <3>1. wf'.state = "PROOF_COMPLETE" /\ proof' # None
      <4>1. proof' \in [artifact : Artifacts, receipt : Nat, event : Nat]
        BY <2>4, EventCount DEF GenerateProof, ProofEligible, C3Remediated, IInv, TypeOK
      <4> QED
        BY <4>1, CatalogAssumption DEF IInv, CompletionInv
    <3>2. proofPanel' \in ProofPanels /\ proofPanel'.status = "PROOF_COMPLETE"
      BY <2>4 DEF ProofPanels
    <3> QED
      BY <3>1, <3>2, PanelIsSomething DEF ProofPanelInv
  <2>5. CASE ProofReplayed
    <3>1. proofPanel' \in ProofPanels /\ proofPanel'.status = "PROOF_COMPLETE"
      <4>1. ProofEligible \in BOOLEAN
        BY DEF ProofEligible, C2ImpactDetermined, C3Remediated, C4DeltaDelivered,
           C5LatestVerificationPass, C6EvidenceTraceable, C7StateCompatible
      <4> QED
        BY <2>5, <4>1 DEF ProofReplayed, ProofPanels
    <3> QED
      BY <2>5, <3>1, PanelIsSomething DEF ProofReplayed, ProofPanelInv, vars
  <2> QED
    BY <1>2, <2>2, <2>3, <2>4, <2>5 DEF RequestProof
<1> QED
  BY <1>1, <1>2, RequestFrame

\* The invariant of the pages holds in every reachable state of every session.
THEOREM PageInvariant == PageSpec => []PageInv
<1>1. PageInit => PageInv
  <2> SUFFICES ASSUME PageInit PROVE PageInv
    OBVIOUS
  <2>1. Init /\ IInv
    BY InitIInv DEF PageInit
  <2>2. SessionInv
    BY <2>1, CatalogAssumption, PageAssumption DEF Init, SessionInv
  <2>3. DeliveryPanelInv /\ VerdictPanelInv /\ FieldPanelInv /\ ProofPanelInv
    BY DEF PageInit, Init, FreshPanels, DeliveryPanelInv, DeliveryEstablished, VerdictPanelInv,
       FieldPanelInv, ProofPanelInv
  <2> QED
    BY <2>1, <2>2, <2>3 DEF PageInv
<1>2. PageInv /\ [PageNext]_pageVars => PageInv'
  <2> SUFFICES ASSUME PageInv, [PageNext]_pageVars PROVE PageInv'
    OBVIOUS
  <2>1. CASE StartNewSession
    BY <2>1, NewSession DEF PageInv
  <2>2. CASE ~StartNewSession
    <3>1. [Next]_vars
      BY <2>2, RequestFrame
    <3>2. IInv'
      BY <3>1, NextIInv DEF PageInv
    <3> QED
      BY <2>2, <3>1, <3>2, SessionKept, DeliveryPanelKept, EvidencePanelsKept, ProofPanelKept
      DEF PageInv
  <2> QED
    BY <2>1, <2>2
<1> QED
  BY <1>1, <1>2, PTL DEF PageSpec

\* What the pages derive, as the invariant has it.
LEMMA PanelsDerived ==
  ASSUME PageInv
  PROVE  /\ DeliveryEstablished <=> deliveryAction = "COMPLETED"
         /\ DeliveryEstablished <=> receiptRef # 0
         /\ DeliveryEstablished => delta # None
         /\ VerdictStateView.result = IF verdict = None THEN None ELSE verdict.result
         /\ VerdictStateView.verified = (verdict # None /\ verdict.verified)
         /\ VerdictStateView.result # None =>
              events # <<>> /\ VerdictStateView.result = LatestResult /\ LatestResult \in Results
         /\ VerdictStateView.deployed <=> proof # None
         /\ VerdictStateView.status # "EVALUATING"
         /\ DownloadOffered <=> proof # None
         /\ ProofOffered => ProofEligible
<1> USE DEF PageInv
<1>1. DeliveryEstablished <=> deliveryAction = "COMPLETED"
  BY DEF DeliveryPanelInv
<1>2. receiptRef # 0 <=> deliveryAction = "COMPLETED"
  BY DEF IInv, DeliveryInv, SessionInv
<1>3. receiptRef # 0 => delta # None
  BY DEF IInv, DeliveryInv
<1>4. /\ VerdictStateView.result = IF verdict = None THEN None ELSE verdict.result
      /\ VerdictStateView.verified = (verdict # None /\ verdict.verified)
      /\ VerdictStateView.deployed = ChangeIsDeployed(wf)
      /\ VerdictStateView.status = IF verdict # None THEN verdict.status
                                     ELSE IF field # None /\ field.observation
                                            THEN "EVALUATING" ELSE "AWAITING_EVIDENCE"
  <2>1. verdict # None => verdict.verified \in BOOLEAN
    <3>1. \A result : VerdictView(result).verified \in BOOLEAN
      BY DEF VerdictView
    <3> QED
      BY <3>1 DEF VerdictPanelInv, VerdictPanels
  <2> QED
    BY <2>1 DEF VerdictStateView
<1>5. VerdictStateView.result # None =>
        events # <<>> /\ VerdictStateView.result = LatestResult
  BY <1>4 DEF VerdictPanelInv
<1>6. events # <<>> => LatestResult \in Results
  <2> DEFINE Event == [image : Images, result : Results]
  <2>1. events \in Seq(Event) /\ \A e \in Event : e.result \in Results
    BY DEF IInv, TypeOK
  <2> HIDE DEF Event
  <2>2. events # <<>> => events[Len(events)] \in Event
    BY <2>1
  <2> QED
    BY <2>1, <2>2 DEF LatestResult
<1>7. ChangeIsDeployed(wf) <=> proof # None
  BY DEF ChangeIsDeployed, IInv, CompletionInv
<1>8. VerdictStateView.status # "EVALUATING"
  <2>1. verdict # None => verdict.status # "EVALUATING"
    BY DEF VerdictPanelInv, VerdictPanels, VerdictView
  <2>2. field # None /\ field.observation => verdict # None
    BY DEF FieldPanelInv
  <2> QED
    BY <1>4, <2>1, <2>2
<1>9. DownloadOffered <=> proof # None
  <2>1. CASE proofPanel # None
    BY <2>1 DEF DownloadOffered, ProofStateView, ProofPanelInv
  <2>2. CASE proofPanel = None
    BY <2>2 DEF DownloadOffered, ProofStateView, ProofPanelInv, ProofView, ProofUnavailableView
  <2> QED
    BY <2>1, <2>2
<1>10. ProofOffered => ProofEligible
  <2>1. CASE proofPanel # None
    BY <2>1, <1>9 DEF ProofOffered, DownloadOffered, ProofStateView, ProofPanelInv
  <2>2. CASE proofPanel = None
    BY <2>2 DEF ProofOffered, ProofStateView, ProofView, ProofUnavailableView
  <2> QED
    BY <2>1, <2>2
<1> QED
  BY <1>1, <1>2, <1>3, <1>4, <1>5, <1>6, <1>7, <1>8, <1>9, <1>10

\* The headline of Mission Control never says more than its session has
\* established, whatever the panels it is put together from are left over from.
THEOREM HeadlineIsTrue == PageSpec => []HeadlineTellsTruth
<1>1. PageInv => HeadlineTellsTruth
  <2> SUFFICES ASSUME PageInv PROVE HeadlineTellsTruth
    OBVIOUS
  <2> DEFINE v == VerdictStateView
  <2>v. \A r \in Results : VerdictState(r) \in VerdictStates
    BY VerdictOf
  <2>1. CASE DownloadOffered
    <3>1. Headline = "DEPLOYED AND VERIFIED" /\ proof # None
      BY <2>1, PanelsDerived DEF Headline, DownloadOffered, ProofOffered
    <3>2. Headline \notin {VerdictState(r) : r \in Results} /\ wf.state = "PROOF_COMPLETE"
      BY <3>1, <2>v DEF VerdictStates, PageInv, IInv, CompletionInv
    <3> QED
      BY <3>1, <3>2 DEF HeadlineTellsTruth
  <2>2. CASE ~DownloadOffered /\ ProofOffered
    <3>1. Headline = "AWAITING CHANGE PROOF" /\ proof = None /\ ProofEligible
      BY <2>2, PanelsDerived DEF Headline
    <3>2. Headline \notin {VerdictState(r) : r \in Results}
      BY <3>1, <2>v DEF VerdictStates
    <3> QED
      BY <3>1, <3>2 DEF HeadlineTellsTruth
  <2>3. CASE ~DownloadOffered /\ ~ProofOffered /\ v.result # None
    <3>1. Headline = VerdictState(LatestResult) /\ LatestResult \in Results /\ proof = None
      BY <2>3, PanelsDerived DEF Headline
    <3> QED
      BY <3>1, <2>v DEF HeadlineTellsTruth, VerdictStates
  <2>4. CASE ~DownloadOffered /\ ~ProofOffered /\ v.result = None
    <3>1. /\ proof = None
          /\ Headline = IF receiptRef # 0 THEN "AWAITING FIELD EVIDENCE"
                        ELSE IF delta # None THEN "AWAITING DELIVERY"
                        ELSE IF impact = "NO_TARGET" THEN "IMPACT REVIEW REQUIRED"
                        ELSE IF impact # None THEN "IMPACT QUALIFIED"
                        ELSE IF intel \in {"PROVIDER_DISABLED", "FAILED"}
                               THEN "IMPACT REVIEW REQUIRED"
                        ELSE "SOURCE CHANGE RECEIVED"
      BY <2>4, PanelsDerived DEF Headline
    <3>2. Headline \notin {VerdictState(r) : r \in Results}
      BY <3>1, <2>v DEF VerdictStates
    <3>3. delta = None => events = <<>>
      BY DEF PageInv, IInv, VerdictStateIsLatest, DeliveryInv, PastDelivery, VerdictStates
    <3>4. impact # None /\ impact # "NO_TARGET" => Qualified # None
      BY DEF PageInv, IInv, TypeOK, Qualified
    <3> QED
      BY <3>1, <3>2, <3>3, <3>4 DEF HeadlineTellsTruth
  <2> QED
    BY <2>1, <2>2, <2>3, <2>4
<1> QED
  BY <1>1, PageInvariant, PTL

\* The panels agree with each other and with the records, and the worker's page
\* is open exactly on a delivery that the channel receipted.
THEOREM PanelsNeverDisagree == PageSpec => []PanelsAgree
<1>1. PageInv => PanelsAgree
  <2> SUFFICES ASSUME PageInv PROVE PanelsAgree
    OBVIOUS
  <2>1. field # None => /\ field.facts.result = VerdictStateView.result
                        /\ field.facts.verified = VerdictStateView.verified
    BY PanelsDerived DEF PageInv, FieldPanelInv
  <2>2. VerdictStateView.result # None =>
          {VerdictStateView.result, CapabilityStatus.deterministic_verdict} = {LatestResult}
    BY PanelsDerived DEF CapabilityStatus
  <2>3. VerdictStateView.deployed <=> CapabilityStatus.change_proof = "PROOF_COMPLETE"
    <3>1. CapabilityStatus.change_proof = "PROOF_COMPLETE" <=> proof # None
      BY DEF CapabilityStatus, PageInv, ProofPanelInv
    <3> QED
      BY <3>1, PanelsDerived
  <2>4. RemediationView \in {"MUTATED", "ALREADY_COMPLETED"} =>
          evidence # None /\ remediation[evidence] = "COMPLETED"
    BY DEF RemediationView, PageInv, SessionInv, IInv, TypeOK, LedgerInv, LedgerMatchesRepository
  <2>5. CapabilityStatus.impact_gate = "SINGLE_QUALIFIED_TARGET" => affected = impact
    BY DEF CapabilityStatus, Qualified, PageInv, SessionInv
  <2>6. FrontlineAvailable <=> deliveryAction = "COMPLETED" /\ receiptRef \in 1..dispatches
    BY PanelsDerived DEF FrontlineAvailable, PageInv, IInv, TypeOK, DeliveryInv
  <2>7. acknowledged => FrontlineAvailable
    BY PanelsDerived DEF FrontlineAvailable, PageInv, DeliveryPanelInv
  <2> QED
    BY <2>1, <2>2, <2>3, <2>4, <2>5, <2>6, <2>7 DEF PanelsAgree
<1> QED
  BY <1>1, PageInvariant, PTL

=============================================================================
