------------------------ MODULE ChangeAnalysisProofs ------------------------
(***************************************************************************)
(* Proofs about ChangeAnalysis, for every catalog, every number of         *)
(* attempts and every configuration of the repair, and about the gate      *)
(* behind it; then about PublicPilot, whose visitors may ask for one such  *)
(* analysis each, for every number of tabs, workflows and photographs.     *)
(***************************************************************************)
EXTENDS ChangeAnalysis, AutonomyGate, PublicPilot, SequenceTheorems, TLAPS

-----------------------------------------------------------------------------
(***************************************************************************)
(* The policy                                                              *)
(***************************************************************************)

\* What holds while the call runs: every attempt so far was worth a retry, and a
\* malformed one among them took the repair.
Running ==
  /\ Len(attempts) < MaxAttempts
  /\ \A k \in 1..Len(attempts) : attempts[k] \notin {"OK", "NON_TRANSIENT"}
  /\ \A k \in 1..Len(attempts) : attempts[k] = "MALFORMED_OUTPUT" => repairUsed /\ AllowRepair
  /\ \A j, k \in 1..Len(attempts) :
       attempts[j] = "MALFORMED_OUTPUT" /\ attempts[k] = "MALFORMED_OUTPUT" => j = k

SpendInv ==
  /\ CallTypeOK
  /\ SpendBounded
  /\ outcome = "PENDING" => Running

\* An attempt that fails keeps the call within its budget.
LEMMA FailureKeepsBudget ==
  ASSUME NEW failure \in FailureClass, SpendInv, AttemptFails(failure)
  PROVE  SpendInv'
<1> USE SemanticCallAssumption
<1> DEFINE n == Len(attempts)
<1>1. /\ outcome = "PENDING" /\ Running /\ CallTypeOK
      /\ attempts' = Append(attempts, failure)
      /\ repairUsed' = (repairUsed \/ (failure = "MALFORMED_OUTPUT" /\ ~RefusesRepair(failure)))
      /\ outcome' = OutcomeOf(failure)
  BY DEF SpendInv, AttemptFails
<1>2. /\ n \in Nat /\ Len(attempts') = n + 1 /\ attempts'[n + 1] = failure
      /\ \A k \in 1..n : attempts'[k] = attempts[k]
      /\ attempts' \in Seq(FailureClass \union {"OK"})
  BY <1>1 DEF CallTypeOK
<1>3. CallTypeOK'
  BY <1>1, <1>2 DEF CallTypeOK, OutcomeOf, RetryOutcome, RefusesRepair
<1>4. n < MaxAttempts
  BY <1>1 DEF Running
<1>5. SpendBounded'
  BY <1>1, <1>2, <1>4 DEF SpendBounded, Running
<1>6. ASSUME outcome' = "PENDING" PROVE Running'
  <2>1. failure # "NON_TRANSIENT" /\ ~RefusesRepair(failure) /\ n + 1 # MaxAttempts
    BY <1>1, <1>6 DEF OutcomeOf
  <2>2. failure # "OK"
    BY DEF FailureClass
  <2>3. Len(attempts') < MaxAttempts
    BY <1>2, <1>4, <2>1
  <2>4. \A k \in 1..Len(attempts') : attempts'[k] \notin {"OK", "NON_TRANSIENT"}
    BY <1>1, <1>2, <2>1, <2>2 DEF Running
  <2>5. failure = "MALFORMED_OUTPUT" => ~repairUsed /\ AllowRepair /\ repairUsed'
    BY <1>1, <2>1 DEF RefusesRepair
  <2>6. \A k \in 1..Len(attempts') :
          attempts'[k] = "MALFORMED_OUTPUT" => repairUsed' /\ AllowRepair
    BY <1>1, <1>2, <2>5 DEF Running
  <2>7. \A j, k \in 1..Len(attempts') :
          attempts'[j] = "MALFORMED_OUTPUT" /\ attempts'[k] = "MALFORMED_OUTPUT" => j = k
    BY <1>1, <1>2, <2>5 DEF Running
  <2> QED BY <2>3, <2>4, <2>6, <2>7 DEF Running
<1> QED BY <1>3, <1>5, <1>6 DEF SpendInv

\* So does one that succeeds, which is the last.
LEMMA SuccessKeepsBudget ==
  ASSUME SpendInv, AttemptSucceeds
  PROVE  SpendInv'
<1> USE SemanticCallAssumption
<1> DEFINE n == Len(attempts)
<1>1. /\ Running /\ CallTypeOK
      /\ attempts' = Append(attempts, "OK")
      /\ repairUsed' = repairUsed /\ outcome' = "SUCCEEDED"
  BY DEF SpendInv, AttemptSucceeds
<1>2. /\ n \in Nat /\ Len(attempts') = n + 1
      /\ \A k \in 1..n : attempts'[k] = attempts[k]
      /\ attempts' \in Seq(FailureClass \union {"OK"})
  BY <1>1 DEF CallTypeOK
<1>3. CallTypeOK'
  BY <1>1, <1>2 DEF CallTypeOK, RetryOutcome
<1>4. n < MaxAttempts
  BY <1>1 DEF Running
<1>5. SpendBounded'
  BY <1>1, <1>2, <1>4 DEF SpendBounded, Running
<1> QED BY <1>1, <1>3, <1>5 DEF SpendInv

-----------------------------------------------------------------------------
(***************************************************************************)
(* The analysis                                                            *)
(***************************************************************************)

LEMMA ClassesAreFailures ==
  /\ \A words \in SUBSET {"NON_TRANSIENT", "SCHEMA", "TRANSIENT"} :
       ClassifyEvent(words) \in FailureClass
  /\ \A error : ClassifyException(error) \in FailureClass
<1>1. ASSUME NEW words \in SUBSET {"NON_TRANSIENT", "SCHEMA", "TRANSIENT"}
      PROVE  ClassifyEvent(words) \in FailureClass
  BY DEF ClassifyEvent, FailureClass
<1>2. ASSUME NEW error PROVE ClassifyException(error) \in FailureClass
  BY DEF ClassifyException, FailureClass
<1> QED BY <1>1, <1>2

\* A step is an attempt that fails, one that succeeds, or leaves the call alone.
LEMMA CallSteps ==
  ASSUME [Next]_vars
  PROVE  \/ \E failure \in FailureClass : AttemptFails(failure)
         \/ AttemptSucceeds
         \/ UNCHANGED callVars
<1>1. CASE Answers
  BY <1>1, ClassesAreFailures
     DEF Answers, ErrorFails, Unreadable, Misshaped, Late, AttemptLate, Proposes, FailureClass
<1>2. CASE Request
  BY <1>2 DEF Request
<1>3. CASE Decide
  BY <1>3 DEF Decide, AnalysisFails, CrossingRejects, Qualify
<1>4. CASE UNCHANGED vars
  BY <1>4 DEF vars
<1> QED BY <1>1, <1>2, <1>3, <1>4 DEF Next

\* No analysis spends more than its configuration allows, whatever the model
\* answers (SpendBounded, run_semantic_call).
THEOREM SpendIsBounded == Spec => []SpendBounded
<1>1. Init => SpendInv
  <2> SUFFICES ASSUME CallInit PROVE SpendInv
    BY DEF Init
  <2>1. Len(attempts) = 0
    BY DEF CallInit
  <2>2. CallTypeOK
    <3>1. <<>> \in Seq(FailureClass \union {"OK"})
      OBVIOUS
    <3> QED BY <3>1 DEF CallInit, CallTypeOK
  <2> QED BY <2>1, <2>2, SemanticCallAssumption DEF SpendInv, SpendBounded, Running
<1>2. SpendInv /\ [Next]_vars => SpendInv'
  <2> SUFFICES ASSUME SpendInv, [Next]_vars PROVE SpendInv'
    OBVIOUS
  <2>1. CASE \E failure \in FailureClass : AttemptFails(failure)
    BY <2>1, FailureKeepsBudget
  <2>2. CASE AttemptSucceeds
    BY <2>2, SuccessKeepsBudget
  <2>3. CASE UNCHANGED callVars
    BY <2>3 DEF callVars, SpendInv, CallTypeOK, SpendBounded, Running
  <2> QED BY <2>1, <2>2, <2>3, CallSteps
<1>3. SpendInv => SpendBounded
  BY DEF SpendInv
<1> QED BY <1>1, <1>2, <1>3, PTL DEF Spec

-----------------------------------------------------------------------------
(***************************************************************************)
(* The decision                                                            *)
(***************************************************************************)

LEMMA ResolvesOne ==
  ASSUME NEW candidates \in Seq(Candidates), Resolve(candidates) # None
  PROVE  \E k \in DOMAIN candidates :
           QualifiedAt(candidates) = {k} /\ Resolve(candidates) = candidates[k].artifact
<1>1. PICK k \in DOMAIN candidates : QualifiedAt(candidates) = {k}
  BY DEF Resolve
<1>2. (CHOOSE j \in QualifiedAt(candidates) : TRUE) = k
  BY <1>1
<1> QED BY <1>1, <1>2 DEF Resolve

LEMMA ResolveType ==
  ASSUME NEW candidates \in Seq(Candidates)
  PROVE  Resolve(candidates) \in Artifacts \union {None}
<1> SUFFICES ASSUME Resolve(candidates) # None PROVE Resolve(candidates) \in Artifacts
  OBVIOUS
<1>1. PICK k \in DOMAIN candidates :
        QualifiedAt(candidates) = {k} /\ Resolve(candidates) = candidates[k].artifact
  BY ResolvesOne
<1> QED BY <1>1 DEF QualifiedAt, Qualifies

LEMMA ProposalType ==
  ASSUME NEW wrong \in {{}} \union {{l} : l \in Layers}, NEW n \in 0..MaxCandidates,
         NEW candidates \in [1..n -> Candidates]
  PROVE  [wrong |-> wrong, candidates |-> candidates] \in Proposals
<1>1. candidates \in Seq(Candidates)
  BY AnalysisAssumption
<1>2. wrong \in SUBSET Layers
  OBVIOUS
<1> QED BY <1>1, <1>2 DEF Proposals

\* The outcome of an attempt that fails is one of a call.
LEMMA FailureTypes ==
  ASSUME NEW failure \in FailureClass, CallTypeOK, AttemptFails(failure)
  PROVE  CallTypeOK' /\ outcome' # "SUCCEEDED" /\ outcome = "PENDING"
<1>1. attempts' \in Seq(FailureClass \union {"OK"})
  BY DEF AttemptFails, CallTypeOK
<1>2. repairUsed' \in BOOLEAN
  BY DEF AttemptFails, CallTypeOK
<1>3. outcome' \in {"NON_TRANSIENT", "EXHAUSTED", "PENDING"}
  BY DEF AttemptFails, OutcomeOf
<1>4. outcome = "PENDING"
  BY DEF AttemptFails
<1> QED BY <1>1, <1>2, <1>3, <1>4 DEF CallTypeOK, RetryOutcome

LEMMA InitialTypes == Init => TypeOK
<1>1. <<>> \in Seq(FailureClass \union {"OK"})
  OBVIOUS
<1> QED BY <1>1 DEF Init, CallInit, TypeOK, CallTypeOK

\* Every variable keeps its kind (TypeOK).
THEOREM TypeCorrect == Spec => []TypeOK
<1>1. Init => TypeOK
  BY InitialTypes
<1>2. TypeOK /\ [Next]_vars => TypeOK'
  <2> SUFFICES ASSUME TypeOK, [Next]_vars PROVE TypeOK'
    OBVIOUS
  <2> USE DEF TypeOK
  <2>1. CASE Request
    BY <2>1 DEF Request, callVars, CallTypeOK
  <2>2. ASSUME NEW failure \in FailureClass, ErrorFails(failure) PROVE TypeOK'
    <3>1. CallTypeOK' /\ outcome' # "SUCCEEDED" /\ outcome = "PENDING"
      BY <2>2, FailureTypes DEF ErrorFails
    <3> QED BY <2>2, <3>1 DEF ErrorFails
  <2>3. CASE Misshaped
    <3>1. CallTypeOK' /\ outcome' # "SUCCEEDED" /\ outcome = "PENDING"
      BY <2>3, FailureTypes DEF Misshaped, FailureClass
    <3> QED BY <2>3, <3>1 DEF Misshaped
  <2>4. CASE Late
    <3>1. CallTypeOK' /\ outcome' # "SUCCEEDED" /\ outcome = "PENDING"
      BY <2>4, FailureTypes DEF Late, AttemptLate, FailureClass
    <3> QED BY <2>4, <3>1 DEF Late
  <2>5. ASSUME NEW p \in Proposals, Proposes(p) PROVE TypeOK'
    <3>1. CallTypeOK' /\ outcome' = "SUCCEEDED"
      BY <2>5 DEF Proposes, AttemptSucceeds, CallTypeOK, RetryOutcome
    <3> QED BY <2>5, <3>1, AnalysisAssumption DEF Proposes
  <2>6. CASE Answers
    <3>1. CASE \E words \in SUBSET {"NON_TRANSIENT", "SCHEMA", "TRANSIENT"} :
                 ErrorFails(ClassifyEvent(words))
      BY <2>2, <3>1, ClassesAreFailures
    <3>2. CASE \E error \in {"RETRYABLE_STATUS", "DEADLINE", "OTHER"} :
                 ErrorFails(ClassifyException(error))
      BY <2>2, <3>2, ClassesAreFailures
    <3>3. CASE Unreadable
      BY <2>2, <3>3 DEF Unreadable, FailureClass
    <3>4. ASSUME NEW wrong \in {{}} \union {{l} : l \in Layers}, NEW n \in 0..MaxCandidates,
                 NEW candidates \in [1..n -> Candidates],
                 Proposes([wrong |-> wrong, candidates |-> candidates])
          PROVE  TypeOK'
      BY <2>5, <3>4, ProposalType
    <3> QED BY <2>3, <2>4, <2>6, <3>1, <3>2, <3>3, <3>4 DEF Answers
  <2>7. CASE AnalysisFails
    BY <2>7 DEF AnalysisFails, FailedStatus, ProposalStatus, callVars, CallTypeOK
  <2>8. CASE CrossingRejects
    BY <2>8 DEF CrossingRejects, ProposalStatus, callVars, CallTypeOK
  <2>9. CASE Qualify
    <3>1. proposal.candidates \in Seq(Candidates)
      BY <2>9 DEF Qualify, Proposals
    <3> QED BY <2>9, <3>1, ResolveType DEF Qualify, ProposalStatus, callVars, CallTypeOK
  <2>10. CASE UNCHANGED vars
    BY <2>10 DEF vars, callVars, CallTypeOK
  <2> QED BY <2>1, <2>6, <2>7, <2>8, <2>9, <2>10 DEF Next, Decide
<1> QED BY <1>1, <1>2, PTL DEF Spec

\* What DecisionJustified rests on: no decision while the call runs, and a call
\* that succeeded ends with the answer that did.
DecisionInv ==
  /\ TypeOK
  /\ DecisionJustified
  /\ decision # None => outcome # "PENDING"
  /\ outcome = "SUCCEEDED" => Last(attempts) = "OK"

\* Only Qualify decides for a target, and it names the one that qualifies.
LEMMA QualifyJustifies ==
  ASSUME DecisionInv, Qualify PROVE TargetJustified'
<1> SUFFICES ASSUME decision' = "TARGET" PROVE TargetJustified'
  BY DEF TargetJustified
<1> DEFINE candidates == proposal.candidates
<1>1. /\ outcome = "SUCCEEDED" /\ outcome' = outcome /\ attempts' = attempts
      /\ proposal' = proposal /\ catalog' = catalog /\ target' = Resolve(candidates)
      /\ FailedLayers(proposal) = {} /\ Resolve(candidates) # None
  BY DEF Qualify, AcceptChangeSet, callVars
<1>2. candidates \in Seq(Candidates)
  BY <1>1 DEF DecisionInv, TypeOK, Proposals
<1>3. PICK k \in DOMAIN candidates :
        QualifiedAt(candidates) = {k} /\ Resolve(candidates) = candidates[k].artifact
  BY <1>1, <1>2, ResolvesOne
<1>4. proposal.wrong = {} /\ Named \subseteq Artifacts
  BY <1>1 DEF FailedLayers, UnknownCandidates, Range, Named
<1>5. target' \in Named /\ catalog[target'] = Conditions
  BY <1>1, <1>3 DEF Named, QualifiedAt, Qualifies
<1>6. ASSUME NEW a \in Named, catalog[a] = Conditions PROVE a = target'
  <2>1. PICK j \in DOMAIN candidates : a = candidates[j].artifact
    BY <1>6 DEF Named
  <2>2. j \in QualifiedAt(candidates)
    BY <1>4, <1>6, <2>1 DEF QualifiedAt, Qualifies
  <2> QED BY <1>1, <1>3, <2>1, <2>2
<1>7. Last(attempts) = "OK"
  BY <1>1 DEF DecisionInv
<1>8. Named' = Named /\ Last(attempts') = Last(attempts)
  BY <1>1 DEF Named
<1> QED BY <1>1, <1>4, <1>5, <1>6, <1>7, <1>8 DEF TargetJustified

\* The workflow goes to a human only when no one qualified artifact was named once.
LEMMA ReviewHasReason ==
  ASSUME DecisionInv, CrossingRejects \/ Qualify PROVE ReviewJustified'
<1> SUFFICES ASSUME decision' = "REVIEW" PROVE ReviewJustified'
  BY DEF ReviewJustified
<1> DEFINE candidates == proposal.candidates
<1>1. /\ outcome = "SUCCEEDED" /\ UNCHANGED <<outcome, proposal, catalog>>
      /\ candidates \in Seq(Candidates)
  BY DEF Qualify, AcceptChangeSet, CrossingRejects, callVars, DecisionInv, TypeOK, Proposals
<1>2. CASE FailedLayers(proposal) # {}
  <2>1. proposal.wrong # {} \/ ~(Named \subseteq Artifacts)
    BY <1>1, <1>2 DEF FailedLayers, UnknownCandidates, Range, Named
  <2> QED
    BY <1>1, <2>1 DEF ReviewJustified, Named
<1>3. CASE FailedLayers(proposal) = {}
  <2>1. Resolve(candidates) = None
    BY <1>3 DEF Qualify, AcceptChangeSet, CrossingRejects
  <2>2. ASSUME NEW a \in Artifacts, catalog[a] = Conditions, a \in Named,
               \A b \in Named : catalog[b] = Conditions => b = a,
               \A j, k \in DOMAIN candidates :
                 candidates[j].artifact = a /\ candidates[k].artifact = a => j = k
        PROVE  FALSE
    <3>1. PICK j \in DOMAIN candidates : candidates[j].artifact = a
      BY <2>2 DEF Named
    <3>2. QualifiedAt(candidates) = {j}
      BY <2>2, <3>1 DEF QualifiedAt, Qualifies, Named
    <3>3. Resolve(candidates) = candidates[CHOOSE k \in QualifiedAt(candidates) : TRUE].artifact
      BY <3>2 DEF Resolve
    <3>4. (CHOOSE k \in QualifiedAt(candidates) : TRUE) = j
      BY <3>2
    <3> QED
      BY <2>1, <3>1, <3>3, <3>4, AnalysisAssumption
  <2> QED
    BY <1>1, <2>2 DEF ReviewJustified, Named
<1> QED
  BY <1>2, <1>3

\* A target rests on a proposal that was complete and in time, and is the one
\* artifact in it that qualifies; a review has one of its reasons
\* (DecisionJustified, analyze_change).
THEOREM DecisionIsJustified == Spec => []DecisionJustified
<1>1. Init => DecisionInv
  BY InitialTypes, AnalysisAssumption DEF Init, CallInit, DecisionInv, DecisionJustified,
     TargetJustified, ReviewJustified
<1>2. DecisionInv /\ TypeOK' /\ [Next]_vars => DecisionInv'
  <2> SUFFICES ASSUME DecisionInv, TypeOK', [Next]_vars PROVE DecisionInv'
    OBVIOUS
  <2>1. ASSUME outcome = "PENDING", UNCHANGED decision,
               outcome' = "SUCCEEDED" => Last(attempts') = "OK"
        PROVE  DecisionInv'
    BY <2>1, AnalysisAssumption DEF DecisionInv, DecisionJustified, TargetJustified, ReviewJustified
  <2>2. ASSUME NEW failure \in FailureClass, AttemptFails(failure), UNCHANGED decision
        PROVE  DecisionInv'
    <3>1. CallTypeOK
      BY DEF DecisionInv, TypeOK
    <3>2. outcome' # "SUCCEEDED" /\ outcome = "PENDING"
      BY <2>2, <3>1, FailureTypes
    <3> QED BY <2>1, <2>2, <3>2
  <2>3. CASE Request
    BY <2>1, <2>3 DEF Request, callVars
  <2>4. CASE Answers
    <3>1. UNCHANGED decision
      BY <2>4 DEF Answers, ErrorFails, Unreadable, Misshaped, Late, Proposes
    <3>2. CASE \E failure \in FailureClass : AttemptFails(failure)
      BY <2>2, <3>1, <3>2
    <3>3. CASE AttemptSucceeds
      <4>1. attempts \in Seq(FailureClass \union {"OK"})
        BY DEF DecisionInv, TypeOK, CallTypeOK
      <4>2. attempts' = Append(attempts, "OK") /\ outcome = "PENDING"
        BY <3>3 DEF AttemptSucceeds
      <4>3. Last(attempts') = "OK"
        BY <4>1, <4>2 DEF Last
      <4> QED BY <2>1, <3>1, <4>2, <4>3
    <3> QED BY <2>4, <3>2, <3>3, ClassesAreFailures
            DEF Answers, ErrorFails, Unreadable, Misshaped, Late, AttemptLate, Proposes, FailureClass
  <2>5. CASE AnalysisFails
    <3>1. /\ outcome \in {"EXHAUSTED", "NON_TRANSIENT"} /\ UNCHANGED <<outcome, attempts>>
          /\ decision' = "REVIEW"
      BY <2>5 DEF AnalysisFails, callVars
    <3> QED
      BY <3>1 DEF DecisionInv, DecisionJustified, TargetJustified, ReviewJustified
  <2>6. CASE CrossingRejects
    <3>1. outcome = "SUCCEEDED" /\ UNCHANGED <<outcome, attempts>> /\ decision' = "REVIEW"
      BY <2>6 DEF CrossingRejects, callVars
    <3> QED
      BY <2>6, <3>1, ReviewHasReason DEF DecisionInv, DecisionJustified, TargetJustified
  <2>8. CASE Qualify
    <3>1. outcome = "SUCCEEDED" /\ UNCHANGED <<outcome, attempts>>
      BY <2>8 DEF Qualify, callVars
    <3> QED
      BY <2>8, <3>1, QualifyJustifies, ReviewHasReason DEF DecisionInv, DecisionJustified
  <2>7. CASE UNCHANGED vars
    BY <2>7 DEF vars, callVars, DecisionInv, DecisionJustified, TargetJustified, ReviewJustified,
       Named
  <2> QED BY <2>3, <2>4, <2>5, <2>6, <2>7, <2>8 DEF Next, Decide
<1>3. DecisionInv => DecisionJustified
  BY DEF DecisionInv
<1> QED BY <1>1, <1>2, <1>3, TypeCorrect, PTL DEF Spec

-----------------------------------------------------------------------------
(***************************************************************************)
(* The autonomy gate and supersession, for every artifact, every source    *)
(* version and every change                                                *)
(***************************************************************************)

\* What an authorization rests on.
LEMMA AuthorizedMeans ==
  ASSUME NEW artifact, NEW source, NEW change, Authorized(artifact, source, change)
  PROVE  /\ change.version # "" /\ change.requirement # ""
         /\ change.previous # "" /\ change.current # "" /\ change.previous # change.current
         /\ artifact.authorized /\ artifact.id \in change.scope /\ artifact.contentRef # ""
         /\ ConflictFree(artifact, source, change)
<1> DEFINE holds == AutonomyConditions(artifact, source, change)
<1>1. \A c \in DOMAIN holds : holds[c]
  BY DEF Authorized, FailedConditions
<1>2. DOMAIN holds = {"C1", "C2", "C3", "C4", "C5", "C6", "C7", "C8", "C9"}
  BY DEF AutonomyConditions
<1>3. holds.C1 /\ holds.C2 /\ holds.C3 /\ holds.C4 /\ holds.C5 /\ holds.C6 /\ holds.C8
      /\ holds.C9
  BY <1>1, <1>2
<1> QED
  BY <1>3 DEF AutonomyConditions

\* The target of a conflict-free artifact is in the source with the approved
\* value, and in the artifact once, with the former or the approved value.
LEMMA ConflictFreeTarget ==
  ASSUME NEW artifact, NEW source, NEW change, ConflictFree(artifact, source, change)
  PROVE  /\ change.requirement \in DOMAIN source
         /\ source[change.requirement] = change.current
         /\ change.requirement \in DOMAIN artifact.requirements
         /\ ~StatedTwice(artifact, change.requirement)
<1> DEFINE req == change.requirement
<1>1. TargetStatus(artifact, source, change) \in {"AT_PREVIOUS_VALUE", "ALREADY_CURRENT"}
  BY DEF ConflictFree, Compatible
<1>2. req \in DOMAIN source
  <2>1. SUFFICES ASSUME req \notin DOMAIN source PROVE FALSE
    OBVIOUS
  <2>2. TargetStatus(artifact, source, change) = "MISSING_IN_SOURCE"
    BY <2>1 DEF TargetStatus
  <2> QED BY <1>1, <2>2
<1>3. source[req] = change.current
  <2>1. SUFFICES ASSUME source[req] # change.current PROVE FALSE
    OBVIOUS
  <2>2. TargetStatus(artifact, source, change) = "UNEXPECTED_VALUE"
    BY <1>2, <2>1 DEF TargetStatus
  <2> QED BY <1>1, <2>2
<1>4. req \in DOMAIN artifact.requirements
  <2>1. SUFFICES ASSUME req \notin DOMAIN artifact.requirements PROVE FALSE
    OBVIOUS
  <2>2. TargetStatus(artifact, source, change) = "MISSING_IN_ARTIFACT"
    BY <1>2, <1>3, <2>1 DEF TargetStatus
  <2> QED BY <1>1, <2>2
<1>5. ~StatedTwice(artifact, req)
  <2>1. SUFFICES ASSUME StatedTwice(artifact, req) PROVE FALSE
    OBVIOUS
  <2>2. TargetStatus(artifact, source, change) = "DUPLICATE_REPRESENTATION"
    BY <1>2, <1>3, <1>4, <2>1 DEF TargetStatus
  <2> QED BY <1>1, <2>2
<1> QED
  BY <1>2, <1>3, <1>4, <1>5

\* The write the gate lets through leaves the artifact with exactly the
\* requirements of the approved source: nothing else deviates, and nothing else is
\* touched (evaluate_autonomy, evaluate_divergence, apply_requirement).
THEOREM GateWriteConforms ==
  ASSUME NEW R, NEW V, NEW artifact \in DownstreamArtifacts(R, V),
         NEW source \in RequirementSets(R, V), NEW change \in ApprovedChanges(R, V), NEW ref
  PROVE  AuthorizedWriteConforms(artifact, source, change, ref)
<1> DEFINE req == change.requirement
           held == artifact.requirements
           after == Remediated(artifact, change, ref)
<1> SUFFICES ASSUME Authorized(artifact, source, change)
             PROVE  after.requirements = source
  BY DEF AuthorizedWriteConforms
<1>1. ConflictFree(artifact, source, change)
  BY AuthorizedMeans
<1>2. /\ req \in DOMAIN source /\ source[req] = change.current
      /\ req \in DOMAIN held
  BY <1>1, ConflictFreeTarget
<1>3. PICK S, T \in SUBSET R : source \in [S -> V] /\ held \in [T -> V]
  BY DEF RequirementSets, DownstreamArtifacts
<1>4. Divergent(artifact, source, change) = {}
  BY <1>1 DEF ConflictFree
<1>5. \A r \in (DOMAIN source \union DOMAIN held) \ {req} :
        r \in DOMAIN source \intersect DOMAIN held /\ source[r] = held[r]
  BY <1>4 DEF Divergent
<1>6. DOMAIN source = DOMAIN held
  BY <1>2, <1>5
<1>7. after.requirements = [held EXCEPT ![req] = change.current]
  BY DEF Remediated, DownstreamArtifacts
<1>8. S = T
  BY <1>3, <1>6
<1>9. [held EXCEPT ![req] = change.current] = [r \in T |-> source[r]]
  BY <1>2, <1>3, <1>5, <1>8
<1> QED
  BY <1>3, <1>7, <1>8, <1>9

\* After its own write the gate still authorizes the remediation, as one the
\* artifact already has: a retry ends as a no-op and not in review.
THEOREM GateAllowsRetry ==
  ASSUME NEW R, NEW V, NEW artifact \in DownstreamArtifacts(R, V),
         NEW source \in RequirementSets(R, V), NEW change \in ApprovedChanges(R, V), NEW ref
  PROVE  RemediatedStaysAuthorized(artifact, source, change, ref)
<1> DEFINE req == change.requirement
           after == Remediated(artifact, change, ref)
<1> SUFFICES ASSUME Authorized(artifact, source, change), ref # ""
             PROVE  /\ TargetStatus(after, source, change) = "ALREADY_CURRENT"
                    /\ Authorized(after, source, change)
  BY DEF RemediatedStaysAuthorized
<1>1. /\ change.version # "" /\ req # ""
      /\ change.previous # "" /\ change.current # "" /\ change.previous # change.current
      /\ artifact.authorized /\ artifact.id \in change.scope
      /\ ConflictFree(artifact, source, change)
  BY AuthorizedMeans
<1>2. req \in DOMAIN source /\ source[req] = change.current
  BY <1>1, ConflictFreeTarget
<1>3. after.requirements = source
  BY GateWriteConforms DEF AuthorizedWriteConforms
<1>4. /\ after.id = artifact.id /\ after.authorized = artifact.authorized
      /\ after.requirement = artifact.requirement /\ after.contentRef = ref
      /\ after.requirement = req => after.current = change.current
  BY DEF Remediated, DownstreamArtifacts
<1>5. ~StatedTwice(after, req)
  BY <1>2, <1>3, <1>4 DEF StatedTwice
<1>6. TargetStatus(after, source, change) = "ALREADY_CURRENT"
  BY <1>1, <1>2, <1>3, <1>5 DEF TargetStatus
<1>7. Divergent(after, source, change) = {}
  BY <1>3 DEF Divergent
<1>8. ConflictFree(after, source, change)
  BY <1>6, <1>7 DEF ConflictFree, Compatible
<1> DEFINE holds == AutonomyConditions(after, source, change)
<1>9. \A c \in DOMAIN holds : holds[c]
  <2>1. DOMAIN holds = {"C1", "C2", "C3", "C4", "C5", "C6", "C7", "C8", "C9"}
    BY DEF AutonomyConditions
  <2>2. holds.C1 /\ holds.C2 /\ holds.C3 /\ holds.C4
    BY <1>1 DEF AutonomyConditions
  <2>3. holds.C5
    BY <1>1 DEF AutonomyConditions
  <2>4. holds.C6
    BY <1>1, <1>4 DEF AutonomyConditions
  <2>5. holds.C7
    BY <1>6 DEF AutonomyConditions, Unresolvable
  <2>6. holds.C8
    BY <1>8 DEF AutonomyConditions
  <2>7. holds.C9
    BY <1>4 DEF AutonomyConditions
  <2> QED
    BY <2>1, <2>2, <2>3, <2>4, <2>5, <2>6, <2>7
<1>10. FailedConditions(after, source, change) = {}
  BY <1>9 DEF FailedConditions
<1> QED
  BY <1>6, <1>10 DEF Authorized

\* A workflow that is to be superseded can be, in every state it may be in, and
\* it stays so; one that has ended is never ended anew (should_supersede,
\* supersede, LEGAL_TRANSITIONS).
THEOREM SupersessionEnds ==
  ASSUME NEW state \in WorkflowState, NEW change, NEW incoming
  PROVE  SupersessionIsFinal(state, change, incoming)
<1>1. LegalTargets("SUPERSEDED") = {}
  BY DEF LegalTargets, TerminalStates
<1>2. ASSUME state \notin TerminalStates PROVE Supersede(state) = "SUPERSEDED"
  BY <1>2 DEF Supersede, CanTransition, LegalTargets, Abandoned
<1>3. ASSUME state \in TerminalStates PROVE Supersede(state) = state
  BY <1>3 DEF Supersede, CanTransition, LegalTargets
<1> QED
  BY <1>1, <1>2, <1>3 DEF SupersessionIsFinal, ShouldSupersede, IsSupersedable

-----------------------------------------------------------------------------
(***************************************************************************)
(* The public pilot                                                        *)
(***************************************************************************)
Stages == {"NONE", "RECEIVED", "QUALIFIED", "REVIEW", "REMEDIATED", "DELIVERED"}
Attempts == [photo : Photos, result : Results]
Kinds == {"none", "ready", "blocked", "refused", "delta", "verdict", "proof"}

Handlers ==
  [step : {"idle", "health", "create", "advance", "pilot", "verify", "status", "ensure", "read"},
   wf : Workflows \union {Nothing}, photo : Photos \union {Nothing}, upload : BOOLEAN,
   result : Results, chronology : Seq(Attempts)]

PilotAnswers ==
  [ok : BOOLEAN, delivered : BOOLEAN, result : Results, chronology : Seq(Attempts)]

\* The calls a handler at some step may wait for.
WaitsFor(step, op) ==
  \/ step \in {"health", "create", "verify", "status", "ensure", "read"} /\ op = step
  \/ step = "advance" /\ op \in {"analyze", "deploy", "deliver"}
  \/ step = "pilot" /\ op = "status"

Ops == {"health", "create", "analyze", "deploy", "deliver", "status", "verify", "ensure", "read"}

Calls ==
  [tab : Tabs, op : Ops, wf : Workflows \union {Nothing}, photo : Photos \union {Nothing},
   awaited : BOOLEAN]

Pages ==
  [kind : Kinds, wf : Workflows \union {Nothing}, photo : Photos \union {Nothing},
   result : Results, chronology : Seq(Attempts), offer : BOOLEAN]

PilotTypes ==
  /\ stage \in [Workflows -> Stages]
  /\ analyses \in [Workflows -> Nat]
  /\ images \in [Workflows -> [Photos -> {"NONE", "OBSERVED", "UNUSABLE"}]]
  /\ events \in [Workflows -> Seq(Attempts)]
  /\ proven \in [Workflows -> BOOLEAN]
  /\ handler \in [Tabs -> Handlers]
  /\ \A t \in Tabs : handler[t].step \notin {"idle", "health"} => handler[t].wf \in Workflows
  /\ calls \subseteq Calls
  /\ \A c \in calls : (c.op # "health" => c.wf \in Workflows) /\ (c.op = "verify" => c.photo \in Photos)
  /\ \A t \in Tabs : handler[t].step = "verify" => handler[t].photo \in Photos
  /\ reply \in [Tabs -> PilotAnswers \union {Nothing}]
  /\ links \in [Tabs -> SUBSET Workflows]
  /\ expired \subseteq Workflows
  /\ page \in [Tabs -> Pages]
  /\ \A t \in Tabs : page[t].kind \in {"delta", "verdict", "proof"} => page[t].wf \in Workflows

\* A verdict that was true of the attempts once stays true: a PASS is the last one.
Told(result, es) ==
  /\ result = "PASS" => Verdict(es) = "PASS"
  /\ result = "FAIL" => \E n \in 1..Len(es) : es[n].result = "FAIL"

\* What an answer to a handler at some step says of its workflow.
AnswerTrue(step, w, r, stg, evs, prv) ==
  /\ step = "create" /\ r.ok => stg[w] # "NONE"
  /\ step = "advance" /\ r.ok /\ r.delivered => stg[w] = "DELIVERED"
  /\ step = "verify" /\ r.ok => Told(r.result, evs[w])
  /\ step = "status" => IsPrefixOf(r.chronology, evs[w])
  /\ step \in {"ensure", "read"} /\ r.ok => prv[w]

HandlerTrue(h, r, stg, evs, prv) ==
  /\ h.step = "idle" => r = Nothing
  /\ h.step \in {"pilot", "verify", "status", "ensure", "read"} => stg[h.wf] = "DELIVERED"
  /\ h.step \in {"status", "ensure"} => Told(h.result, evs[h.wf])
  /\ h.step = "ensure" => IsPrefixOf(h.chronology, evs[h.wf])
  /\ r # Nothing => AnswerTrue(h.step, h.wf, r, stg, evs, prv)

PageTrue(pg, stg, evs, prv) ==
  /\ pg.kind = "delta" => stg[pg.wf] = "DELIVERED"
  /\ pg.kind = "verdict" => /\ Told(pg.result, evs[pg.wf])
                            /\ IsPrefixOf(pg.chronology, evs[pg.wf])
                            /\ pg.offer => prv[pg.wf]
  /\ pg.kind = "proof" => prv[pg.wf]

BackendInv == \A w \in Workflows : proven[w] => Verdict(events[w]) = "PASS"

FrontInv ==
  /\ \A t \in Tabs : HandlerTrue(handler[t], reply[t], stage, events, proven)
  /\ \A t \in Tabs : PageTrue(page[t], stage, events, proven)
  /\ \A t \in Tabs : \A w \in links[t] : stage[w] = "DELIVERED"

\* An awaited call is the one its handler waits for.
AwaitInv ==
  /\ \A c \in calls : c.awaited => /\ WaitsFor(handler[c.tab].step, c.op)
                                   /\ c.wf = handler[c.tab].wf
                                   /\ reply[c.tab] = Nothing
  /\ \A c, d \in calls : c.awaited /\ d.awaited /\ c.tab = d.tab => c = d

\* The one right to have a workflow analysed passes from the call that creates it to
\* the handler that asked for it, and to the call that spends it.
Right(c) == c.op \in {"create", "analyze"}

SpendingInv ==
  /\ \A w \in Workflows : analyses[w] <= 1 /\ (stage[w] = "NONE" => analyses[w] = 0)
  /\ \A c \in calls : /\ c.op = "create" => stage[c.wf] = "NONE"
                      /\ c.op = "analyze" => stage[c.wf] # "NONE" /\ analyses[c.wf] = 0
  /\ \A c, d \in calls : Right(c) /\ Right(d) /\ c.wf = d.wf => c = d
  /\ \A t \in Tabs : handler[t].step = "create" =>
       /\ analyses[handler[t].wf] = 0
       /\ \A c \in calls : ~ (c.op = "analyze" /\ c.wf = handler[t].wf)
       /\ \A u \in Tabs : handler[u].step = "create" /\ handler[u].wf = handler[t].wf => u = t

PilotInv == PilotTypes /\ BackendInv /\ FrontInv /\ AwaitInv /\ SpendingInv

-----------------------------------------------------------------------------
\* What the backend never takes back: a delivery, a proof, an attempt.
Onward ==
  /\ \A w \in Workflows : /\ stage[w] = "DELIVERED" => stage'[w] = "DELIVERED"
                          /\ stage[w] # "NONE" => stage'[w] # "NONE"
                          /\ proven[w] => proven'[w]
  /\ \A w \in Workflows : \/ events'[w] = events[w]
                          \/ /\ Verdict(events[w]) # "PASS"
                             /\ \E e \in Attempts : events'[w] = Append(events[w], e)

LEMMA ToldKept ==
  ASSUME PilotTypes, Onward, NEW w \in Workflows, NEW result, Told(result, events[w])
  PROVE  Told(result, events'[w])
<1>1. CASE events'[w] = events[w]
  BY <1>1
<1>2. ASSUME Verdict(events[w]) # "PASS", NEW e \in Attempts, events'[w] = Append(events[w], e)
      PROVE  Told(result, events'[w])
  <2>1. events[w] \in Seq(Attempts) /\ Len(events[w]) \in Nat
    BY LenProperties DEF PilotTypes
  <2>2. /\ Len(events'[w]) = Len(events[w]) + 1
        /\ \A n \in 1..Len(events[w]) : events'[w][n] = events[w][n]
    BY <1>2, <2>1, AppendProperties
  <2>3. 1..Len(events[w]) \subseteq 1..Len(events'[w])
    BY <2>1, <2>2
  <2> QED
    BY <1>2, <2>2, <2>3 DEF Told
<1> QED
  BY <1>1, <1>2 DEF Onward

LEMMA ShownKept ==
  ASSUME PilotTypes, Onward, NEW w \in Workflows, NEW s \in Seq(Attempts), IsPrefixOf(s, events[w])
  PROVE  IsPrefixOf(s, events'[w])
<1>1. CASE events'[w] = events[w]
  BY <1>1
<1>2. ASSUME NEW e \in Attempts, events'[w] = Append(events[w], e)
      PROVE  IsPrefixOf(s, events'[w])
  <2>1. events[w] \in Seq(Attempts) /\ Len(events[w]) \in Nat /\ Len(s) \in Nat
    BY LenProperties DEF PilotTypes
  <2>2. /\ Len(events'[w]) = Len(events[w]) + 1
        /\ \A n \in 1..Len(events[w]) : events'[w][n] = events[w][n]
    BY <1>2, <2>1, AppendProperties
  <2> QED
    BY <2>1, <2>2 DEF IsPrefixOf
<1> QED
  BY <1>1, <1>2 DEF Onward

LEMMA AnswerKept ==
  ASSUME PilotTypes, Onward, NEW step, NEW w \in Workflows, NEW r \in PilotAnswers,
         AnswerTrue(step, w, r, stage, events, proven)
  PROVE  AnswerTrue(step, w, r, stage', events', proven')
<1>1. r.chronology \in Seq(Attempts)
  BY DEF PilotAnswers
<1>2. step = "verify" /\ r.ok => Told(r.result, events'[w])
  BY ToldKept DEF AnswerTrue
<1>3. step = "status" => IsPrefixOf(r.chronology, events'[w])
  BY <1>1, ShownKept DEF AnswerTrue
<1>4. step \in {"ensure", "read"} /\ r.ok => proven'[w]
  BY DEF AnswerTrue, Onward
<1>5. step = "create" /\ r.ok => stage'[w] # "NONE"
  BY DEF AnswerTrue, Onward
<1>6. step = "advance" /\ r.ok /\ r.delivered => stage'[w] = "DELIVERED"
  BY DEF AnswerTrue, Onward
<1> QED
  BY <1>2, <1>3, <1>4, <1>5, <1>6 DEF AnswerTrue

LEMMA HandlerKept ==
  ASSUME PilotTypes, Onward, NEW h \in Handlers, NEW r \in PilotAnswers \union {Nothing},
         h.step \notin {"idle", "health"} => h.wf \in Workflows,
         HandlerTrue(h, r, stage, events, proven)
  PROVE  HandlerTrue(h, r, stage', events', proven')
<1>1. CASE h.step \in {"idle", "health"}
  BY <1>1 DEF HandlerTrue, AnswerTrue
<1>2. CASE h.step \notin {"idle", "health"}
  <2>1. h.wf \in Workflows /\ h.chronology \in Seq(Attempts)
    BY <1>2 DEF Handlers
  <2>2. h.step \in {"pilot", "verify", "status", "ensure", "read"} => stage'[h.wf] = "DELIVERED"
    BY <2>1 DEF HandlerTrue, Onward
  <2>3. h.step \in {"status", "ensure"} => Told(h.result, events'[h.wf])
    BY <2>1, ToldKept DEF HandlerTrue
  <2>4. h.step = "ensure" => IsPrefixOf(h.chronology, events'[h.wf])
    BY <2>1, ShownKept DEF HandlerTrue
  <2>5. r # Nothing => AnswerTrue(h.step, h.wf, r, stage', events', proven')
    BY <2>1, AnswerKept DEF HandlerTrue
  <2> QED
    BY <1>2, <2>2, <2>3, <2>4, <2>5 DEF HandlerTrue
<1> QED
  BY <1>1, <1>2

LEMMA PageKept ==
  ASSUME PilotTypes, Onward, NEW pg \in Pages,
         pg.kind \in {"delta", "verdict", "proof"} => pg.wf \in Workflows,
         PageTrue(pg, stage, events, proven)
  PROVE  PageTrue(pg, stage', events', proven')
<1>1. pg.kind = "delta" => stage'[pg.wf] = "DELIVERED"
  BY DEF PageTrue, Onward
<1>2. pg.kind = "proof" => proven'[pg.wf]
  BY DEF PageTrue, Onward
<1>3. ASSUME pg.kind = "verdict"
      PROVE  /\ Told(pg.result, events'[pg.wf])
             /\ IsPrefixOf(pg.chronology, events'[pg.wf])
             /\ pg.offer => proven'[pg.wf]
  <2>1. pg.wf \in Workflows /\ pg.chronology \in Seq(Attempts)
    BY <1>3 DEF Pages
  <2>2. Told(pg.result, events'[pg.wf])
    BY <1>3, <2>1, ToldKept DEF PageTrue
  <2>3. IsPrefixOf(pg.chronology, events'[pg.wf])
    BY <1>3, <2>1, ShownKept DEF PageTrue
  <2>4. pg.offer => proven'[pg.wf]
    BY <1>3, <2>1 DEF PageTrue, Onward
  <2> QED
    BY <2>2, <2>3, <2>4
<1> QED
  BY <1>1, <1>2, <1>3 DEF PageTrue

-----------------------------------------------------------------------------
\* The pieces of PilotTypes that the browser and the front write.
LEMMA CallTypes ==
  ASSUME PilotTypes
  PROVE  /\ \A c \in calls : c \in Calls /\ c.tab \in Tabs /\ c.op \in Ops /\ c.awaited \in BOOLEAN
         /\ \A t \in Tabs : handler[t] \in Handlers /\ reply[t] \in PilotAnswers \union {Nothing}
         /\ \A t \in Tabs : page[t] \in Pages /\ links[t] \subseteq Workflows
BY DEF PilotTypes, Calls

LEMMA IdleTrue ==
  /\ Idle \in Handlers /\ Idle.step = "idle" /\ Idle.wf = Nothing
  /\ Blank \in Pages /\ Blank.kind = "none"
  /\ Failed \in PilotAnswers /\ ~Failed.ok /\ Failed.chronology = <<>>
  /\ RefusedPage \in Pages /\ RefusedPage.kind = "refused"
<1>1. <<>> \in Seq(Attempts)
  BY EmptySeq
<1>2. "INCONCLUSIVE" \in Results
  BY DEF Results
<1>3. Idle \in Handlers /\ Idle.step = "idle" /\ Idle.wf = Nothing
  BY <1>1, <1>2 DEF Idle, Handlers
<1>4. Blank \in Pages /\ Blank.kind = "none"
  BY <1>1, <1>2 DEF Blank, Pages, Kinds
<1>5. Failed \in PilotAnswers /\ ~Failed.ok /\ Failed.chronology = <<>>
  BY <1>1, <1>2 DEF Failed, PilotAnswers
<1>6. RefusedPage \in Pages /\ RefusedPage.kind = "refused"
  BY <1>4 DEF RefusedPage, Pages, Kinds
<1> QED
  BY <1>3, <1>4, <1>5, <1>6

\* A page that says nothing of a workflow.
LEMMA SilentPage ==
  ASSUME NEW pg, pg.kind \notin {"delta", "verdict", "proof"}
  PROVE  PageTrue(pg, stage, events, proven)
BY DEF PageTrue

\* A request arrives.
LEMMA BeginKeeps ==
  ASSUME PilotInv, NEW t \in Tabs, NEW step, NEW op, NEW w \in Workflows \union {Nothing},
         NEW p \in Photos \union {Nothing}, NEW upload \in BOOLEAN, Begin(t, step, op, w, p, upload),
         step \in {"health", "create", "pilot", "verify", "read"},
         step = "pilot" => op = "status", step # "pilot" => op = step,
         step # "health" => w \in Workflows,
         step = "verify" => p \in Photos,
         step \in {"pilot", "verify", "read"} => stage[w] = "DELIVERED",
         step = "create" => Fresh(w)
  PROVE  PilotInv'
<1> DEFINE h == [Idle EXCEPT !.step = step, !.wf = w, !.photo = p, !.upload = upload]
           new == CallOf(t, op, w, p)
<1>1. PilotTypes /\ BackendInv /\ FrontInv /\ AwaitInv /\ SpendingInv
  BY DEF PilotInv
<1>2. /\ handler' = [handler EXCEPT ![t] = h] /\ calls' = calls \union {new}
      /\ page' = [page EXCEPT ![t] = Blank] /\ handler[t].step = "idle"
      /\ UNCHANGED <<stage, analyses, images, events, proven, reply, links, expired>>
  BY DEF Begin, backendVars
<1>3. h \in Handlers /\ h.step = step /\ h.wf = w /\ h.photo = p
  BY IdleTrue DEF Handlers
<1>4. op \in Ops /\ WaitsFor(step, op) /\ op \notin {"analyze", "deploy", "deliver"}
      /\ (op = "create" <=> step = "create") /\ (op = "health" <=> step = "health")
      /\ (op = "verify" <=> step = "verify")
  BY DEF Ops, WaitsFor
<1>5. /\ new \in Calls /\ new.tab = t /\ new.op = op /\ new.wf = w /\ new.photo = p
      /\ new.awaited = TRUE
  BY <1>4 DEF CallOf, Calls
<1> HIDE DEF h, new
<1>6. handler \in [Tabs -> Handlers] /\ page \in [Tabs -> Pages] /\ calls \subseteq Calls
  BY <1>1 DEF PilotTypes
<1>7. /\ \A u \in Tabs : handler'[u] = IF u = t THEN h ELSE handler[u]
      /\ \A u \in Tabs : page'[u] = IF u = t THEN Blank ELSE page[u]
      /\ handler' \in [Tabs -> Handlers] /\ page' \in [Tabs -> Pages] /\ calls' \subseteq Calls
  BY <1>2, <1>3, <1>5, <1>6, IdleTrue
<1>8. PilotTypes'
  <2>1. \A u \in Tabs : /\ handler'[u].step \notin {"idle", "health"} => handler'[u].wf \in Workflows
                        /\ handler'[u].step = "verify" => handler'[u].photo \in Photos
    BY <1>1, <1>3, <1>7 DEF PilotTypes
  <2>2. \A c \in calls' : (c.op # "health" => c.wf \in Workflows) /\ (c.op = "verify" => c.photo \in Photos)
    BY <1>1, <1>2, <1>4, <1>5 DEF PilotTypes
  <2>3. \A u \in Tabs : page'[u].kind \in {"delta", "verdict", "proof"} => page'[u].wf \in Workflows
    BY <1>1, <1>7, IdleTrue DEF PilotTypes
  <2> QED
    BY <1>1, <1>2, <1>7, <2>1, <2>2, <2>3 DEF PilotTypes
<1>9. reply[t] = Nothing
  BY <1>1, <1>2 DEF FrontInv, HandlerTrue
<1>10. FrontInv'
  <2>1. HandlerTrue(h, Nothing, stage, events, proven)
    BY <1>3 DEF HandlerTrue
  <2>2. \A u \in Tabs : HandlerTrue(handler'[u], reply'[u], stage', events', proven')
    BY <1>1, <1>2, <1>7, <1>9, <2>1 DEF FrontInv
  <2>3. \A u \in Tabs : PageTrue(page'[u], stage', events', proven')
    BY <1>1, <1>2, <1>7, IdleTrue, SilentPage DEF FrontInv
  <2> QED
    BY <1>1, <1>2, <2>2, <2>3 DEF FrontInv
<1>11. AwaitInv'
  <2>1. \A c \in calls : c.awaited => c.tab # t
    BY <1>1, <1>2 DEF AwaitInv, WaitsFor
  <2>2. \A c \in calls : c.tab \in Tabs
    BY <1>1, CallTypes
  <2>3. ASSUME NEW c \in calls', c.awaited
        PROVE  /\ WaitsFor(handler'[c.tab].step, c.op)
               /\ c.wf = handler'[c.tab].wf
               /\ reply'[c.tab] = Nothing
    <3>1. CASE c \in calls
      BY <1>1, <1>2, <1>7, <2>1, <2>2, <2>3, <3>1 DEF AwaitInv
    <3>2. CASE c = new
      BY <1>2, <1>3, <1>4, <1>5, <1>7, <1>9, <3>2
    <3> QED
      BY <1>2, <3>1, <3>2
  <2>4. ASSUME NEW c \in calls', NEW d \in calls', c.awaited, d.awaited, c.tab = d.tab
        PROVE  c = d
    BY <1>1, <1>2, <1>5, <2>1, <2>4 DEF AwaitInv
  <2> QED
    BY <2>3, <2>4 DEF AwaitInv
<1>12. SpendingInv'
  <2>1. step = "create" => /\ stage[w] = "NONE" /\ analyses[w] = 0
                           /\ \A u \in Tabs : handler[u].wf # w
                           /\ \A c \in calls : c.wf # w
    BY <1>1 DEF Fresh, SpendingInv
  <2>2. ASSUME NEW c \in calls', c.op \in {"create", "analyze"}
        PROVE  c \in calls \/ (c = new /\ step = "create")
    BY <1>2, <1>4, <1>5, <2>2
  <2>3. \A c \in calls' : /\ c.op = "create" => stage[c.wf] = "NONE"
                          /\ c.op = "analyze" => stage[c.wf] # "NONE" /\ analyses[c.wf] = 0
    BY <1>1, <1>4, <1>5, <2>1, <2>2 DEF SpendingInv
  <2>4. \A c, d \in calls' : Right(c) /\ Right(d) /\ c.wf = d.wf => c = d
    BY <1>1, <1>4, <1>5, <2>1, <2>2 DEF SpendingInv, Right
  <2>5. ASSUME NEW u \in Tabs, handler'[u].step = "create"
        PROVE  /\ analyses[handler'[u].wf] = 0
               /\ \A c \in calls' : ~ (c.op = "analyze" /\ c.wf = handler'[u].wf)
               /\ \A v \in Tabs : handler'[v].step = "create" /\ handler'[v].wf = handler'[u].wf => v = u
    <3>1. CASE u = t
      BY <1>3, <1>4, <1>5, <1>7, <2>1, <2>2, <2>5, <3>1
    <3>2. CASE u # t
      <4>1. handler'[u] = handler[u] /\ handler[u].step = "create"
        BY <1>7, <2>5, <3>2
      <4>2. /\ analyses[handler[u].wf] = 0
            /\ \A c \in calls : ~ (c.op = "analyze" /\ c.wf = handler[u].wf)
            /\ \A v \in Tabs : handler[v].step = "create" /\ handler[v].wf = handler[u].wf => v = u
        BY <1>1, <4>1 DEF SpendingInv
      <4>3. \A c \in calls' : ~ (c.op = "analyze" /\ c.wf = handler[u].wf)
        BY <1>4, <1>5, <2>2, <4>2
      <4>4. step = "create" => handler[u].wf # w
        BY <2>1
      <4> QED
        BY <1>3, <1>7, <4>1, <4>2, <4>3, <4>4
    <3> QED
      BY <3>1, <3>2
  <2> QED
    BY <1>1, <1>2, <2>3, <2>4, <2>5 DEF SpendingInv
<1>13. BackendInv'
  BY <1>1, <1>2 DEF BackendInv
<1> QED
  BY <1>8, <1>10, <1>11, <1>12, <1>13 DEF PilotInv

\* A handler goes on to its next call.
LEMMA ContinueKeeps ==
  ASSUME PilotInv, NEW t \in Tabs, NEW op, NEW next \in Handlers, Continue(t, op, next),
         reply[t] # Nothing, next.wf \in Workflows, next.wf = handler[t].wf,
         next.step = IF op = "analyze" THEN "advance" ELSE op,
         op \in {"analyze", "status", "ensure"},
         HandlerTrue(next, Nothing, stage, events, proven),
         op = "analyze" => handler[t].step = "create" /\ stage[next.wf] # "NONE"
  PROVE  PilotInv'
<1> DEFINE new == CallOf(t, op, next.wf, next.photo)
<1>1. PilotTypes /\ BackendInv /\ FrontInv /\ AwaitInv /\ SpendingInv
  BY DEF PilotInv
<1>2. /\ handler' = [handler EXCEPT ![t] = next] /\ calls' = calls \union {new}
      /\ reply' = [reply EXCEPT ![t] = Nothing]
      /\ UNCHANGED <<stage, analyses, images, events, proven, links, expired, page>>
  BY DEF Continue, backendVars, browserVars
<1>3. op \in Ops /\ WaitsFor(next.step, op) /\ next.step \notin {"idle", "health", "create", "verify"}
  BY DEF Ops, WaitsFor
<1>4. next.photo \in Photos \union {Nothing}
  BY DEF Handlers
<1>5. /\ new \in Calls /\ new.tab = t /\ new.op = op /\ new.wf = next.wf /\ new.awaited = TRUE
  BY <1>3, <1>4 DEF CallOf, Calls
<1> HIDE DEF new
<1>6. /\ handler \in [Tabs -> Handlers] /\ calls \subseteq Calls
      /\ reply \in [Tabs -> PilotAnswers \union {Nothing}]
  BY <1>1 DEF PilotTypes
<1>7. /\ \A u \in Tabs : handler'[u] = IF u = t THEN next ELSE handler[u]
      /\ \A u \in Tabs : reply'[u] = IF u = t THEN Nothing ELSE reply[u]
      /\ handler' \in [Tabs -> Handlers] /\ calls' \subseteq Calls
      /\ reply' \in [Tabs -> PilotAnswers \union {Nothing}]
  BY <1>2, <1>5, <1>6
<1>8. PilotTypes'
  <2>1. \A u \in Tabs : /\ handler'[u].step \notin {"idle", "health"} => handler'[u].wf \in Workflows
                        /\ handler'[u].step = "verify" => handler'[u].photo \in Photos
    BY <1>1, <1>3, <1>7 DEF PilotTypes
  <2>2. \A c \in calls' : (c.op # "health" => c.wf \in Workflows) /\ (c.op = "verify" => c.photo \in Photos)
    BY <1>1, <1>2, <1>5 DEF PilotTypes
  <2> QED
    BY <1>1, <1>2, <1>7, <2>1, <2>2 DEF PilotTypes
<1>9. FrontInv'
  <2>1. \A u \in Tabs : HandlerTrue(handler'[u], reply'[u], stage', events', proven')
    BY <1>1, <1>2, <1>7 DEF FrontInv
  <2> QED
    BY <1>1, <1>2, <2>1 DEF FrontInv
<1>10. AwaitInv'
  <2>1. \A c \in calls : c.awaited => c.tab # t
    BY <1>1 DEF AwaitInv
  <2>2. \A c \in calls : c.tab \in Tabs
    BY <1>1, CallTypes
  <2>3. ASSUME NEW c \in calls', c.awaited
        PROVE  /\ WaitsFor(handler'[c.tab].step, c.op)
               /\ c.wf = handler'[c.tab].wf
               /\ reply'[c.tab] = Nothing
    <3>1. CASE c \in calls
      BY <1>1, <1>7, <2>1, <2>2, <2>3, <3>1 DEF AwaitInv
    <3>2. CASE c = new
      BY <1>3, <1>5, <1>7, <3>2
    <3> QED
      BY <1>2, <3>1, <3>2
  <2>4. ASSUME NEW c \in calls', NEW d \in calls', c.awaited, d.awaited, c.tab = d.tab
        PROVE  c = d
    BY <1>1, <1>2, <1>5, <2>1, <2>4 DEF AwaitInv
  <2> QED
    BY <2>3, <2>4 DEF AwaitInv
<1>11. SpendingInv'
  <2>1. op = "analyze" =>
          /\ stage[next.wf] # "NONE" /\ analyses[next.wf] = 0
          /\ \A c \in calls : ~ (Right(c) /\ c.wf = next.wf)
          /\ \A u \in Tabs : handler[u].step = "create" /\ handler[u].wf = next.wf => u = t
    BY <1>1 DEF SpendingInv, Right
  <2>2. ASSUME NEW c \in calls', c.op \in {"create", "analyze"}
        PROVE  c \in calls \/ (c = new /\ op = "analyze")
    BY <1>2, <1>5, <2>2
  <2>3. \A c \in calls' : /\ c.op = "create" => stage[c.wf] = "NONE"
                          /\ c.op = "analyze" => stage[c.wf] # "NONE" /\ analyses[c.wf] = 0
    BY <1>1, <1>5, <2>1, <2>2 DEF SpendingInv
  <2>4. \A c, d \in calls' : Right(c) /\ Right(d) /\ c.wf = d.wf => c = d
    BY <1>1, <1>5, <2>1, <2>2 DEF SpendingInv, Right
  <2>5. ASSUME NEW u \in Tabs, handler'[u].step = "create"
        PROVE  /\ analyses[handler'[u].wf] = 0
               /\ \A c \in calls' : ~ (c.op = "analyze" /\ c.wf = handler'[u].wf)
               /\ \A v \in Tabs : handler'[v].step = "create" /\ handler'[v].wf = handler'[u].wf => v = u
    <3>1. u # t /\ handler'[u] = handler[u] /\ handler[u].step = "create"
      BY <1>3, <1>7, <2>5
    <3>2. /\ analyses[handler[u].wf] = 0
          /\ \A c \in calls : ~ (c.op = "analyze" /\ c.wf = handler[u].wf)
          /\ \A v \in Tabs : handler[v].step = "create" /\ handler[v].wf = handler[u].wf => v = u
      BY <1>1, <3>1 DEF SpendingInv
    <3>3. op = "analyze" => handler[u].wf # next.wf
      BY <2>1, <3>1
    <3>4. \A c \in calls' : ~ (c.op = "analyze" /\ c.wf = handler[u].wf)
      BY <1>5, <2>2, <3>2, <3>3
    <3> QED
      BY <1>3, <1>7, <3>1, <3>2, <3>4
  <2> QED
    BY <1>1, <1>2, <2>3, <2>4, <2>5 DEF SpendingInv
<1>12. BackendInv'
  BY <1>1, <1>2 DEF BackendInv
<1> QED
  BY <1>8, <1>9, <1>10, <1>11, <1>12 DEF PilotInv

\* A handler answers, and is done.
LEMMA RespondKeeps ==
  ASSUME PilotInv, NEW t \in Tabs, NEW p \in Pages, Respond(t, p),
         handler[t].step = "idle" \/ reply[t] # Nothing,
         p.kind \in {"delta", "verdict", "proof"} => p.wf \in Workflows,
         PageTrue(p, stage, events, proven),
         links' \in [Tabs -> SUBSET Workflows],
         \A u \in Tabs : \A w \in links'[u] : stage[w] = "DELIVERED"
  PROVE  PilotInv'
<1>1. PilotTypes /\ BackendInv /\ FrontInv /\ AwaitInv /\ SpendingInv
  BY DEF PilotInv
<1>2. /\ handler' = [handler EXCEPT ![t] = Idle] /\ reply' = [reply EXCEPT ![t] = Nothing]
      /\ page' = [page EXCEPT ![t] = p]
      /\ UNCHANGED <<stage, analyses, images, events, proven, calls, expired>>
  BY DEF Respond, backendVars
<1>3. /\ handler \in [Tabs -> Handlers] /\ page \in [Tabs -> Pages]
      /\ reply \in [Tabs -> PilotAnswers \union {Nothing}]
  BY <1>1 DEF PilotTypes
<1>4. /\ \A u \in Tabs : handler'[u] = IF u = t THEN Idle ELSE handler[u]
      /\ \A u \in Tabs : reply'[u] = IF u = t THEN Nothing ELSE reply[u]
      /\ \A u \in Tabs : page'[u] = IF u = t THEN p ELSE page[u]
      /\ handler' \in [Tabs -> Handlers] /\ page' \in [Tabs -> Pages]
      /\ reply' \in [Tabs -> PilotAnswers \union {Nothing}]
  BY <1>2, <1>3, IdleTrue
<1>5. PilotTypes'
  <2>1. \A u \in Tabs : /\ handler'[u].step \notin {"idle", "health"} => handler'[u].wf \in Workflows
                        /\ handler'[u].step = "verify" => handler'[u].photo \in Photos
    BY <1>1, <1>4, IdleTrue DEF PilotTypes
  <2>2. \A u \in Tabs : page'[u].kind \in {"delta", "verdict", "proof"} => page'[u].wf \in Workflows
    BY <1>1, <1>4 DEF PilotTypes
  <2> QED
    BY <1>1, <1>2, <1>4, <2>1, <2>2 DEF PilotTypes
<1>6. FrontInv'
  <2>1. HandlerTrue(Idle, Nothing, stage, events, proven)
    BY IdleTrue DEF HandlerTrue
  <2>2. \A u \in Tabs : HandlerTrue(handler'[u], reply'[u], stage', events', proven')
    BY <1>1, <1>2, <1>4, <2>1 DEF FrontInv
  <2>3. \A u \in Tabs : PageTrue(page'[u], stage', events', proven')
    BY <1>1, <1>2, <1>4 DEF FrontInv
  <2> QED
    BY <1>2, <2>2, <2>3 DEF FrontInv
<1>7. AwaitInv'
  <2>1. \A c \in calls : c.awaited => c.tab # t
    BY <1>1 DEF AwaitInv, WaitsFor
  <2>2. \A c \in calls : c.tab \in Tabs
    BY <1>1, CallTypes
  <2> QED
    BY <1>1, <1>2, <1>4, <2>1, <2>2 DEF AwaitInv
<1>8. SpendingInv'
  <2>1. \A u \in Tabs : handler'[u].step = "create" => handler'[u] = handler[u]
    BY <1>4, IdleTrue
  <2> QED
    BY <1>1, <1>2, <2>1 DEF SpendingInv
<1>9. BackendInv'
  BY <1>1, <1>2 DEF BackendInv
<1> QED
  BY <1>5, <1>6, <1>7, <1>8, <1>9 DEF PilotInv

\* A call that was given up, or not, stands for one that was there.
StandsFor(c, b, given) ==
  /\ c.op = b.op /\ c.wf = b.wf /\ c.photo = b.photo /\ c.tab = b.tab
  /\ c = IF b \in given THEN [b EXCEPT !.awaited = FALSE] ELSE b
  /\ b \in given => ~c.awaited

LEMMA CallsGivenUp ==
  ASSUME PilotInv, NEW given \in SUBSET calls,
         calls' \subseteq (calls \ given) \union {[c EXCEPT !.awaited = FALSE] : c \in given}
  PROVE  calls' \subseteq Calls /\ \A c \in calls' : \E b \in calls : StandsFor(c, b, given)
<1>1. calls \subseteq Calls
  BY DEF PilotInv, PilotTypes
<1>2. ASSUME NEW c \in calls'
      PROVE  c \in Calls /\ \E b \in calls : StandsFor(c, b, given)
  <2>1. CASE c \in calls \ given
    <3>1. StandsFor(c, c, given)
      BY <2>1 DEF StandsFor
    <3> QED
      BY <1>1, <2>1, <3>1
  <2>2. ASSUME NEW b \in given, c = [b EXCEPT !.awaited = FALSE]
        PROVE  c \in Calls /\ \E x \in calls : StandsFor(c, x, given)
    <3>1. b \in calls /\ b \in Calls
      BY <1>1
    <3>2. /\ c \in Calls /\ c.op = b.op /\ c.wf = b.wf /\ c.photo = b.photo /\ c.tab = b.tab
          /\ ~c.awaited
      BY <2>2, <3>1 DEF Calls
    <3>3. StandsFor(c, b, given)
      BY <2>2, <3>2 DEF StandsFor
    <3> QED
      BY <3>1, <3>2, <3>3
  <2> QED
    BY <2>1, <2>2
<1> QED
  BY <1>2

\* Giving calls up spends nothing.
LEMMA SpendingKept ==
  ASSUME PilotInv, NEW given \in SUBSET calls,
         calls' \subseteq (calls \ given) \union {[c EXCEPT !.awaited = FALSE] : c \in given},
         UNCHANGED <<stage, analyses>>,
         \A t \in Tabs : handler'[t].step = "create" => handler'[t] = handler[t]
  PROVE  SpendingInv'
<1>1. SpendingInv
  BY DEF PilotInv
<1>2. \A c \in calls' : \E b \in calls : StandsFor(c, b, given)
  BY CallsGivenUp
<1>3. \A c \in calls' : /\ c.op = "create" => stage[c.wf] = "NONE"
                        /\ c.op = "analyze" => stage[c.wf] # "NONE" /\ analyses[c.wf] = 0
  BY <1>1, <1>2 DEF SpendingInv, StandsFor
<1>4. ASSUME NEW c \in calls', NEW d \in calls', Right(c), Right(d), c.wf = d.wf
      PROVE  c = d
  <2>1. PICK b \in calls : StandsFor(c, b, given)
    BY <1>2
  <2>2. PICK e \in calls : StandsFor(d, e, given)
    BY <1>2
  <2>3. Right(b) /\ Right(e) /\ b.wf = e.wf
    <3>1. b.op = c.op /\ e.op = d.op /\ b.wf = e.wf
      BY <1>4, <2>1, <2>2 DEF StandsFor
    <3> QED
      BY <1>4, <3>1 DEF Right
  <2>4. b = e
    BY <1>1, <2>3 DEF SpendingInv
  <2> QED
    BY <2>1, <2>2, <2>4 DEF StandsFor
<1>5. ASSUME NEW t \in Tabs, handler'[t].step = "create"
      PROVE  \A c \in calls' : ~ (c.op = "analyze" /\ c.wf = handler'[t].wf)
  BY <1>1, <1>2, <1>5 DEF SpendingInv, StandsFor
<1> QED
  BY <1>1, <1>3, <1>4, <1>5 DEF SpendingInv

LEMMA FailedSaysNothing ==
  ASSUME PilotTypes, NEW step, NEW w, step = "status" => w \in Workflows
  PROVE  AnswerTrue(step, w, Failed, stage, events, proven)
<1>1. step = "status" => Len(events[w]) \in Nat
  BY LenProperties DEF PilotTypes
<1>2. step = "status" => IsPrefixOf(<<>>, events[w])
  BY <1>1, EmptySeq DEF IsPrefixOf
<1> QED
  BY <1>2, IdleTrue DEF AnswerTrue

\* The handler stops waiting; its call is lost, or goes on without it.
LEMMA TimeoutKeeps ==
  ASSUME PilotInv, NEW t \in Tabs, Timeout(t) PROVE PilotInv'
<1> DEFINE mine == {c \in calls : c.tab = t /\ c.awaited}
<1>1. PilotTypes /\ BackendInv /\ FrontInv /\ AwaitInv /\ SpendingInv
  BY DEF PilotInv
<1>2. /\ handler[t].step # "idle" /\ reply' = [reply EXCEPT ![t] = Failed]
      /\ UNCHANGED <<stage, analyses, images, events, proven, handler, links, expired, page>>
      /\ calls' \subseteq (calls \ mine) \union {[c EXCEPT !.awaited = FALSE] : c \in mine}
  BY DEF Timeout, backendVars, browserVars
<1>3. mine \in SUBSET calls /\ \A c \in mine : c.tab = t
  OBVIOUS
<1>4. \A c \in calls : c.awaited /\ c.tab = t => c \in mine
  OBVIOUS
<1> HIDE DEF mine
<1>5. /\ calls' \subseteq Calls
      /\ \A c \in calls' : \E b \in calls : StandsFor(c, b, mine)
  BY <1>2, <1>3, CallsGivenUp
<1>6. \A c \in calls' : c.awaited => c \in calls /\ c.tab # t
  BY <1>4, <1>5 DEF StandsFor
<1>7. reply \in [Tabs -> PilotAnswers \union {Nothing}]
  BY <1>1 DEF PilotTypes
<1>8. /\ \A u \in Tabs : reply'[u] = IF u = t THEN Failed ELSE reply[u]
      /\ reply' \in [Tabs -> PilotAnswers \union {Nothing}]
  BY <1>2, <1>7, IdleTrue
<1>9. PilotTypes'
  <2>1. \A c \in calls' : (c.op # "health" => c.wf \in Workflows) /\ (c.op = "verify" => c.photo \in Photos)
    <3>1. \A b \in calls : (b.op # "health" => b.wf \in Workflows) /\ (b.op = "verify" => b.photo \in Photos)
      BY <1>1 DEF PilotTypes
    <3>2. \A c \in calls' : \E b \in calls : c.op = b.op /\ c.wf = b.wf /\ c.photo = b.photo
      BY <1>5 DEF StandsFor
    <3> QED
      BY <3>1, <3>2
  <2> QED
    BY <1>1, <1>2, <1>5, <1>8, <2>1 DEF PilotTypes
<1>10. FrontInv'
  <2>1. AnswerTrue(handler[t].step, handler[t].wf, Failed, stage, events, proven)
    BY <1>1, FailedSaysNothing DEF PilotTypes
  <2>2. HandlerTrue(handler[t], Failed, stage, events, proven)
    BY <1>1, <1>2, <2>1 DEF FrontInv, HandlerTrue
  <2>3. \A u \in Tabs : HandlerTrue(handler'[u], reply'[u], stage', events', proven')
    BY <1>1, <1>2, <1>8, <2>2 DEF FrontInv
  <2> QED
    BY <1>1, <1>2, <2>3 DEF FrontInv
<1>11. AwaitInv'
  <2>1. \A c \in calls : c.tab \in Tabs
    BY <1>1, CallTypes
  <2> QED
    BY <1>1, <1>2, <1>6, <1>8, <2>1 DEF AwaitInv
<1>12. SpendingInv'
  BY <1>2, <1>3, SpendingKept
<1>13. BackendInv'
  BY <1>1, <1>2 DEF BackendInv
<1> QED
  BY <1>9, <1>10, <1>11, <1>12, <1>13 DEF PilotInv

\* The front's process ends and comes back.
LEMMA RestartKeeps ==
  ASSUME PilotInv, Restart PROVE PilotInv'
<1>1. PilotTypes /\ BackendInv /\ FrontInv /\ AwaitInv /\ SpendingInv
  BY DEF PilotInv
<1>2. /\ handler' = [t \in Tabs |-> Idle] /\ reply' = [t \in Tabs |-> Nothing]
      /\ UNCHANGED <<stage, analyses, images, events, proven, links, page>>
      /\ calls' \subseteq (calls \ calls) \union {[c EXCEPT !.awaited = FALSE] : c \in calls}
  BY DEF Restart, backendVars
<1>3. expired' \subseteq Workflows
  BY <1>1 DEF Restart, PilotTypes
<1>4. /\ calls' \subseteq Calls
      /\ \A c \in calls' : \E b \in calls : StandsFor(c, b, calls)
  BY <1>2, CallsGivenUp
<1>5. PilotTypes'
  <2>1. \A c \in calls' : (c.op # "health" => c.wf \in Workflows) /\ (c.op = "verify" => c.photo \in Photos)
    BY <1>1, <1>4 DEF PilotTypes, StandsFor
  <2>2. /\ handler' \in [Tabs -> Handlers] /\ reply' \in [Tabs -> PilotAnswers \union {Nothing}]
        /\ \A t \in Tabs : handler'[t].step = "idle"
    BY <1>2, IdleTrue
  <2> QED
    BY <1>1, <1>2, <1>3, <1>4, <2>1, <2>2 DEF PilotTypes
<1>6. FrontInv'
  <2>1. HandlerTrue(Idle, Nothing, stage, events, proven)
    BY IdleTrue DEF HandlerTrue
  <2> QED
    BY <1>1, <1>2, <2>1 DEF FrontInv
<1>7. AwaitInv'
  BY <1>4 DEF AwaitInv, StandsFor
<1>8. \A t \in Tabs : handler'[t].step # "create"
  BY <1>2, IdleTrue
<1>9. SpendingInv'
  BY <1>2, <1>8, SpendingKept
<1>10. BackendInv'
  BY <1>1, <1>2 DEF BackendInv
<1> QED
  BY <1>5, <1>6, <1>7, <1>9, <1>10 DEF PilotInv

\* A link is copied, or is no longer accepted.
LEMMA LinksKeep ==
  ASSUME PilotInv,
         \/ \E t, u \in Tabs, w \in Workflows : CopyLink(t, u, w)
         \/ \E w \in Workflows : Expire(w)
  PROVE  PilotInv'
<1>1. PilotTypes /\ BackendInv /\ FrontInv /\ AwaitInv /\ SpendingInv
  BY DEF PilotInv
<1>2. UNCHANGED <<stage, analyses, images, events, proven, handler, calls, reply, page>>
  BY DEF CopyLink, Expire, backendVars, frontVars
<1>3. /\ links' \in [Tabs -> SUBSET Workflows] /\ expired' \subseteq Workflows
      /\ \A u \in Tabs : \A w \in links'[u] : stage[w] = "DELIVERED"
  <2>1. ASSUME NEW t \in Tabs, NEW u \in Tabs, NEW w \in Workflows, CopyLink(t, u, w)
        PROVE  /\ links' \in [Tabs -> SUBSET Workflows] /\ expired' = expired
               /\ \A v \in Tabs : \A x \in links'[v] : stage[x] = "DELIVERED"
    <3>1. /\ w \in links[t] /\ links' = [links EXCEPT ![u] = links[u] \union {w}] /\ expired' = expired
          /\ links \in [Tabs -> SUBSET Workflows]
      BY <1>1, <2>1 DEF CopyLink, PilotTypes
    <3>2. stage[w] = "DELIVERED"
      BY <1>1, <3>1 DEF FrontInv
    <3> QED
      BY <1>1, <3>1, <3>2 DEF FrontInv
  <2>2. ASSUME NEW w \in Workflows, Expire(w)
        PROVE  links' = links /\ expired' \subseteq Workflows
    BY <1>1, <2>2 DEF Expire, PilotTypes
  <2> QED
    BY <1>1, <2>1, <2>2 DEF PilotTypes, FrontInv
<1>4. PilotTypes'
  BY <1>1, <1>2, <1>3 DEF PilotTypes
<1>5. FrontInv'
  BY <1>1, <1>2, <1>3 DEF FrontInv
<1>6. AwaitInv' /\ SpendingInv' /\ BackendInv'
  BY <1>1, <1>2 DEF AwaitInv, SpendingInv, BackendInv
<1> QED
  BY <1>4, <1>5, <1>6 DEF PilotInv

-----------------------------------------------------------------------------
BackendTypes ==
  /\ stage \in [Workflows -> Stages]
  /\ analyses \in [Workflows -> Nat]
  /\ images \in [Workflows -> [Photos -> {"NONE", "OBSERVED", "UNUSABLE"}]]
  /\ events \in [Workflows -> Seq(Attempts)]
  /\ proven \in [Workflows -> BOOLEAN]

\* What every step of the backend leaves true of handlers, pages and links.
LEMMA TruthKept ==
  ASSUME PilotInv, Onward, UNCHANGED <<handler, page, links>>
  PROVE  /\ \A t \in Tabs : HandlerTrue(handler[t], reply[t], stage', events', proven')
         /\ \A t \in Tabs : PageTrue(page'[t], stage', events', proven')
         /\ \A t \in Tabs : \A w \in links'[t] : stage'[w] = "DELIVERED"
<1>1. PilotTypes /\ FrontInv
  BY DEF PilotInv
<1>2. ASSUME NEW t \in Tabs PROVE HandlerTrue(handler[t], reply[t], stage', events', proven')
  <2>1. /\ handler[t] \in Handlers /\ reply[t] \in PilotAnswers \union {Nothing}
        /\ handler[t].step \notin {"idle", "health"} => handler[t].wf \in Workflows
        /\ HandlerTrue(handler[t], reply[t], stage, events, proven)
    BY <1>1 DEF PilotTypes, FrontInv
  <2> QED
    BY <1>1, <2>1, HandlerKept
<1>3. ASSUME NEW t \in Tabs PROVE PageTrue(page'[t], stage', events', proven')
  <2>1. /\ page[t] \in Pages
        /\ page[t].kind \in {"delta", "verdict", "proof"} => page[t].wf \in Workflows
        /\ PageTrue(page[t], stage, events, proven)
    BY <1>1 DEF PilotTypes, FrontInv
  <2> QED
    BY <1>1, <2>1, PageKept
<1>4. ASSUME NEW t \in Tabs, NEW w \in links'[t] PROVE stage'[w] = "DELIVERED"
  <2>1. w \in links[t] /\ w \in Workflows /\ stage[w] = "DELIVERED"
    BY <1>1, <1>4, CallTypes DEF FrontInv
  <2> QED
    BY <2>1 DEF Onward
<1> QED
  BY <1>2, <1>3, <1>4

\* A call is performed and answered.
LEMMA CompletesKeeps ==
  ASSUME PilotInv, NEW c \in calls, NEW answer \in PilotAnswers, Completes(c, answer),
         BackendTypes', UNCHANGED analyses, BackendInv', Onward,
         \A w \in Workflows :
           stage[w] = "NONE" => stage'[w] = "NONE" \/ (c.op = "create" /\ c.wf = w),
         \A step : WaitsFor(step, c.op) =>
                     AnswerTrue(step, c.wf, answer, stage', events', proven')
  PROVE  PilotInv'
<1>1. PilotTypes /\ BackendInv /\ FrontInv /\ AwaitInv /\ SpendingInv
  BY DEF PilotInv
<1>2. /\ calls' = calls \ {c}
      /\ reply' = IF c.awaited THEN [reply EXCEPT ![c.tab] = answer] ELSE reply
      /\ UNCHANGED <<handler, links, expired, page>>
  BY DEF Completes, browserVars
<1>3. c.tab \in Tabs /\ reply \in [Tabs -> PilotAnswers \union {Nothing}]
  BY <1>1, CallTypes DEF PilotTypes
<1>4. /\ reply' \in [Tabs -> PilotAnswers \union {Nothing}]
      /\ \A t \in Tabs : reply'[t] = IF c.awaited /\ t = c.tab THEN answer ELSE reply[t]
  BY <1>2, <1>3
<1>5. PilotTypes'
  BY <1>1, <1>2, <1>4 DEF PilotTypes, BackendTypes
<1>6. FrontInv'
  <2>1. /\ \A t \in Tabs : HandlerTrue(handler[t], reply[t], stage', events', proven')
        /\ \A t \in Tabs : PageTrue(page'[t], stage', events', proven')
        /\ \A t \in Tabs : \A w \in links'[t] : stage'[w] = "DELIVERED"
    BY <1>2, TruthKept
  <2>2. ASSUME c.awaited PROVE HandlerTrue(handler[c.tab], answer, stage', events', proven')
    <3>1. WaitsFor(handler[c.tab].step, c.op) /\ c.wf = handler[c.tab].wf
      BY <1>1, <2>2 DEF AwaitInv
    <3>2. AnswerTrue(handler[c.tab].step, handler[c.tab].wf, answer, stage', events', proven')
      BY <3>1
    <3>3. handler[c.tab].step # "idle"
      BY <3>1 DEF WaitsFor
    <3> QED
      BY <1>3, <2>1, <3>2, <3>3 DEF HandlerTrue
  <2>3. ASSUME NEW t \in Tabs PROVE HandlerTrue(handler'[t], reply'[t], stage', events', proven')
    <3>1. CASE c.awaited /\ t = c.tab
      BY <1>2, <1>4, <2>2, <3>1
    <3>2. CASE ~(c.awaited /\ t = c.tab)
      BY <1>2, <1>4, <2>1, <3>2
    <3> QED
      BY <3>1, <3>2
  <2> QED
    BY <2>1, <2>3 DEF FrontInv
<1>7. AwaitInv'
  <2>1. \A d \in calls' : d.awaited => ~(c.awaited /\ d.tab = c.tab)
    BY <1>1, <1>2 DEF AwaitInv
  <2>2. \A d \in calls : d.tab \in Tabs
    BY <1>1, CallTypes
  <2> QED
    BY <1>1, <1>2, <1>4, <2>1, <2>2 DEF AwaitInv
<1>8. SpendingInv'
  <2>1. \A w \in Workflows : stage'[w] = "NONE" => stage[w] = "NONE"
    BY DEF Onward
  <2>2. \A d \in calls : d.op # "health" => d.wf \in Workflows
    BY <1>1 DEF PilotTypes
  <2>3. \A d \in calls' : d.op = "create" => stage'[d.wf] = "NONE"
    BY <1>1, <1>2, <2>2 DEF SpendingInv, Right
  <2>4. \A d \in calls' : d.op = "analyze" => stage'[d.wf] # "NONE" /\ analyses'[d.wf] = 0
    BY <1>1, <1>2, <2>1, <2>2 DEF SpendingInv
  <2> QED
    BY <1>1, <1>2, <2>1, <2>3, <2>4 DEF SpendingInv
<1> QED
  BY <1>5, <1>6, <1>7, <1>8 DEF PilotInv

\* A call goes on with the next use case of the advance route.
LEMMA GoesOnKeeps ==
  ASSUME PilotInv, NEW c \in calls, NEW op \in {"deploy", "deliver"}, GoesOn(c, op),
         c.op \in {"analyze", "deploy"}, stage' \in [Workflows -> Stages], Onward,
         analyses' = IF c.op = "analyze" THEN [analyses EXCEPT ![c.wf] = @ + 1] ELSE analyses,
         UNCHANGED <<images, events, proven>>,
         \A w \in Workflows : stage[w] = "NONE" => stage'[w] = "NONE"
  PROVE  PilotInv'
<1> DEFINE new == [c EXCEPT !.op = op]
<1>1. PilotTypes /\ BackendInv /\ FrontInv /\ AwaitInv /\ SpendingInv
  BY DEF PilotInv
<1>2. calls' = (calls \ {c}) \union {new} /\ UNCHANGED <<handler, reply, links, expired, page>>
  BY DEF GoesOn, browserVars
<1>3. c \in Calls /\ c.wf \in Workflows /\ c.tab \in Tabs
  BY <1>1, CallTypes DEF PilotTypes
<1>4. /\ new \in Calls /\ new.op = op /\ new.tab = c.tab /\ new.wf = c.wf
      /\ new.awaited = c.awaited
  BY <1>3 DEF Calls, Ops
<1> HIDE DEF new
<1>5. /\ analyses \in [Workflows -> Nat] /\ analyses' \in [Workflows -> Nat]
      /\ \A w \in Workflows :
           analyses'[w] = IF c.op = "analyze" /\ w = c.wf THEN analyses[w] + 1 ELSE analyses[w]
  BY <1>1, <1>3 DEF PilotTypes
<1>6. PilotTypes'
  <2>1. \A d \in calls' : (d.op # "health" => d.wf \in Workflows) /\ (d.op = "verify" => d.photo \in Photos)
    BY <1>1, <1>2, <1>3, <1>4 DEF PilotTypes
  <2>2. calls' \subseteq Calls
    BY <1>1, <1>2, <1>4 DEF PilotTypes
  <2> QED
    BY <1>1, <1>2, <1>5, <2>1, <2>2 DEF PilotTypes
<1>7. FrontInv'
  <2>1. /\ \A t \in Tabs : HandlerTrue(handler[t], reply[t], stage', events', proven')
        /\ \A t \in Tabs : PageTrue(page'[t], stage', events', proven')
        /\ \A t \in Tabs : \A w \in links'[t] : stage'[w] = "DELIVERED"
    BY <1>2, TruthKept
  <2> QED
    BY <1>2, <2>1 DEF FrontInv
<1>8. AwaitInv'
  <2>1. ASSUME c.awaited
        PROVE  WaitsFor(handler[c.tab].step, op) /\ c.wf = handler[c.tab].wf /\ reply[c.tab] = Nothing
    BY <1>1, <2>1 DEF AwaitInv, WaitsFor
  <2>2. ASSUME NEW d \in calls', d.awaited
        PROVE  /\ WaitsFor(handler'[d.tab].step, d.op)
               /\ d.wf = handler'[d.tab].wf
               /\ reply'[d.tab] = Nothing
    <3>1. CASE d \in calls
      BY <1>1, <1>2, <2>2, <3>1 DEF AwaitInv
    <3>2. CASE d = new
      BY <1>2, <1>4, <2>1, <2>2, <3>2
    <3> QED
      BY <1>2, <3>1, <3>2
  <2>3. ASSUME NEW d \in calls', NEW e \in calls', d.awaited, e.awaited, d.tab = e.tab
        PROVE  d = e
    BY <1>1, <1>2, <1>4, <2>3 DEF AwaitInv
  <2> QED
    BY <2>2, <2>3 DEF AwaitInv
<1>9. SpendingInv'
  <2>1. \A w \in Workflows : stage'[w] = "NONE" <=> stage[w] = "NONE"
    BY DEF Onward
  <2>2. \A d \in calls : d.op # "health" => d.wf \in Workflows
    BY <1>1 DEF PilotTypes
  <2>3. c.op = "analyze" => stage[c.wf] # "NONE" /\ analyses[c.wf] = 0
    BY <1>1 DEF SpendingInv
  <2>4. \A w \in Workflows : analyses'[w] <= 1 /\ (stage'[w] = "NONE" => analyses'[w] = 0)
    BY <1>1, <1>3, <1>5, <2>1, <2>3 DEF SpendingInv
  <2>5. \A d \in calls' : d.op \in {"create", "analyze"} => d \in calls /\ d # c
    BY <1>2, <1>4
  <2>6. \A d \in calls' : c.op = "analyze" /\ d.op \in {"create", "analyze"} => d.wf # c.wf
    BY <1>1, <2>5 DEF SpendingInv, Right
  <2>7. \A d \in calls' : /\ d.op = "create" => stage'[d.wf] = "NONE"
                          /\ d.op = "analyze" => stage'[d.wf] # "NONE" /\ analyses'[d.wf] = 0
    BY <1>1, <1>5, <2>1, <2>2, <2>5, <2>6 DEF SpendingInv
  <2>8. \A d, e \in calls' : Right(d) /\ Right(e) /\ d.wf = e.wf => d = e
    BY <1>1, <2>5 DEF SpendingInv, Right
  <2>9. ASSUME NEW u \in Tabs, handler[u].step = "create"
        PROVE  /\ analyses'[handler[u].wf] = 0
               /\ \A d \in calls' : ~ (d.op = "analyze" /\ d.wf = handler[u].wf)
    <3>1. /\ analyses[handler[u].wf] = 0 /\ handler[u].wf \in Workflows
          /\ \A d \in calls : ~ (d.op = "analyze" /\ d.wf = handler[u].wf)
      BY <1>1, <2>9 DEF SpendingInv, PilotTypes
    <3> QED
      BY <1>5, <2>5, <3>1
  <2> QED
    BY <1>1, <1>2, <2>4, <2>7, <2>8, <2>9 DEF SpendingInv
<1>10. BackendInv'
  BY <1>1 DEF BackendInv
<1> QED
  BY <1>6, <1>7, <1>8, <1>9, <1>10 DEF PilotInv

-----------------------------------------------------------------------------
LEMMA AcceptedTrue ==
  /\ Accepted \in PilotAnswers /\ Accepted.chronology = <<>>
  /\ \A d \in BOOLEAN : /\ [Accepted EXCEPT !.delivered = d] \in PilotAnswers
                       /\ [Accepted EXCEPT !.delivered = d].delivered = d
  /\ \A r \in Results : /\ [Accepted EXCEPT !.result = r] \in PilotAnswers
                       /\ [Accepted EXCEPT !.result = r].result = r
<1>1. Accepted \in PilotAnswers /\ Accepted.chronology = <<>>
  BY IdleTrue DEF Accepted, PilotAnswers
<1> QED
  BY <1>1 DEF PilotAnswers

LEMMA VerdictIsResult ==
  ASSUME NEW es \in Seq(Attempts) PROVE Verdict(es) \in Results /\ Told(Verdict(es), es)
<1>1. CASE es = <<>>
  BY <1>1 DEF Verdict, Results, Told
<1>2. CASE es # <<>>
  <2>1. Len(es) \in Nat /\ Len(es) # 0
    BY <1>2, LenProperties, EmptySeq
  <2>2. Len(es) \in 1..Len(es) /\ es[Len(es)] \in Attempts /\ Verdict(es) = es[Len(es)].result
    BY <1>2, <2>1, ElementOfSeq DEF Verdict
  <2>3. Verdict(es) \in Results
    BY <2>2 DEF Attempts
  <2> QED
    BY <2>2, <2>3 DEF Told
<1> QED
  BY <1>1, <1>2

LEMMA PrefixOfItself ==
  ASSUME NEW es \in Seq(Attempts) PROVE IsPrefixOf(es, es)
BY LenProperties DEF IsPrefixOf

LEMMA BackendStays ==
  ASSUME PilotInv, UNCHANGED <<stage, analyses, images, events, proven>>
  PROVE  BackendTypes' /\ BackendInv' /\ Onward
BY DEF PilotInv, PilotTypes, BackendTypes, BackendInv, Onward

\* Calls that change nothing.
LEMMA ReadsKeep ==
  ASSUME PilotInv, NEW c \in calls,
         ApiRefuses(c) \/ ApiHealth(c) \/ ApiStatus(c) \/ ApiReadProof(c)
  PROVE  PilotInv'
<1>1. PilotTypes
  BY DEF PilotInv
<1>2. UNCHANGED <<stage, analyses, images, events, proven>>
  BY DEF ApiRefuses, ApiHealth, ApiStatus, ApiReadProof, backendVars
<1>3. BackendTypes' /\ BackendInv' /\ Onward
  BY <1>2, BackendStays
<1>4. c.op # "health" => c.wf \in Workflows
  BY <1>1 DEF PilotTypes
<1>5. ASSUME NEW answer \in PilotAnswers, Completes(c, answer),
             \A step : WaitsFor(step, c.op) => AnswerTrue(step, c.wf, answer, stage, events, proven)
      PROVE  PilotInv'
  <2>1. \A step : WaitsFor(step, c.op) => AnswerTrue(step, c.wf, answer, stage', events', proven')
    BY <1>2, <1>5
  <2> QED
    BY <1>2, <1>3, <1>5, <2>1, CompletesKeeps
<1>6. CASE ApiRefuses(c)
  <2>1. \A step : WaitsFor(step, c.op) => AnswerTrue(step, c.wf, Failed, stage, events, proven)
    BY <1>1, <1>4, FailedSaysNothing DEF WaitsFor
  <2> QED
    BY <1>5, <1>6, <2>1, IdleTrue DEF ApiRefuses
<1>7. CASE ApiHealth(c)
  <2>1. \A step : WaitsFor(step, c.op) => AnswerTrue(step, c.wf, Accepted, stage, events, proven)
    BY <1>7 DEF ApiHealth, WaitsFor, AnswerTrue
  <2> QED
    BY <1>5, <1>7, <2>1, AcceptedTrue DEF ApiHealth
<1>8. CASE ApiStatus(c)
  <2> DEFINE a == StatusOf(c.wf)
  <2>1. c.op = "status" /\ c.wf \in Workflows /\ events[c.wf] \in Seq(Attempts)
    BY <1>1, <1>4, <1>8 DEF ApiStatus, PilotTypes
  <2>2. a \in PilotAnswers /\ a.chronology = events[c.wf]
    BY <2>1, AcceptedTrue DEF StatusOf, PilotAnswers
  <2>3. Completes(c, a)
    BY <1>8 DEF ApiStatus
  <2> HIDE DEF a
  <2>4. \A step : WaitsFor(step, c.op) => AnswerTrue(step, c.wf, a, stage, events, proven)
    BY <2>1, <2>2, PrefixOfItself DEF WaitsFor, AnswerTrue
  <2> QED
    BY <1>5, <2>2, <2>3, <2>4
<1>9. CASE ApiReadProof(c)
  <2>1. \A step : WaitsFor(step, c.op) => AnswerTrue(step, c.wf, Accepted, stage, events, proven)
    BY <1>9 DEF ApiReadProof, WaitsFor, AnswerTrue
  <2> QED
    BY <1>5, <1>9, <2>1, AcceptedTrue DEF ApiReadProof
<1> QED
  BY <1>6, <1>7, <1>8, <1>9

LEMMA ApiCreateKeeps ==
  ASSUME PilotInv, NEW c \in calls, ApiCreate(c) PROVE PilotInv'
<1>1. PilotTypes /\ BackendInv /\ SpendingInv
  BY DEF PilotInv
<1>2. /\ c.op = "create" /\ stage' = [stage EXCEPT ![c.wf] = "RECEIVED"]
      /\ Completes(c, Accepted) /\ UNCHANGED <<analyses, images, events, proven>>
  BY DEF ApiCreate
<1>3. c.wf \in Workflows /\ stage[c.wf] = "NONE" /\ stage \in [Workflows -> Stages]
  BY <1>1, <1>2 DEF PilotTypes, SpendingInv
<1>4. /\ stage' \in [Workflows -> Stages] /\ stage'[c.wf] = "RECEIVED"
      /\ \A w \in Workflows : w # c.wf => stage'[w] = stage[w]
  BY <1>2, <1>3 DEF Stages
<1>5. BackendTypes' /\ BackendInv'
  BY <1>1, <1>2, <1>4 DEF PilotTypes, BackendTypes, BackendInv
<1>6. Onward
  BY <1>2, <1>3, <1>4 DEF Onward
<1>7. \A w \in Workflows : stage[w] = "NONE" => stage'[w] = "NONE" \/ (c.op = "create" /\ c.wf = w)
  BY <1>2, <1>4
<1>8. \A step : WaitsFor(step, c.op) => AnswerTrue(step, c.wf, Accepted, stage', events', proven')
  BY <1>2, <1>4 DEF WaitsFor, AnswerTrue
<1> QED
  BY <1>2, <1>5, <1>6, <1>7, <1>8, AcceptedTrue, CompletesKeeps

\* A use case of the advance route takes its workflow one stage on, or leaves it.
LEMMA StageWritten ==
  ASSUME stage \in [Workflows -> Stages], NEW w \in Workflows, NEW s \in Stages,
         stage' = [stage EXCEPT ![w] = s]
  PROVE  /\ stage' \in [Workflows -> Stages]
         /\ stage'[w] = s
         /\ \A v \in Workflows : v # w => stage'[v] = stage[v]
OBVIOUS

LEMMA ApiAnalyzeKeeps ==
  ASSUME PilotInv, NEW c \in calls, ApiAnalyze(c) PROVE PilotInv'
<1>1. PilotTypes
  BY DEF PilotInv
<1>2. /\ c.op = "analyze" /\ analyses' = [analyses EXCEPT ![c.wf] = @ + 1]
      /\ GoesOn(c, "deploy") /\ UNCHANGED <<images, events, proven>>
  BY DEF ApiAnalyze
<1>3. c.wf \in Workflows /\ stage \in [Workflows -> Stages]
  BY <1>1, <1>2 DEF PilotTypes
<1>4. /\ stage' \in [Workflows -> Stages]
      /\ \A w \in Workflows : \/ stage'[w] = stage[w]
                              \/ stage[w] = "RECEIVED" /\ stage'[w] \in {"QUALIFIED", "REVIEW"}
  <2>1. CASE UNCHANGED stage
    BY <1>3, <2>1
  <2>2. ASSUME stage[c.wf] = "RECEIVED", NEW s \in {"QUALIFIED", "REVIEW"},
               stage' = [stage EXCEPT ![c.wf] = s]
        PROVE  /\ stage' \in [Workflows -> Stages]
               /\ \A w \in Workflows : \/ stage'[w] = stage[w]
                                       \/ stage[w] = "RECEIVED" /\ stage'[w] \in {"QUALIFIED", "REVIEW"}
    <3>1. s \in Stages
      BY DEF Stages
    <3> QED
      BY <1>3, <2>2, <3>1, StageWritten
  <2> QED
    BY <2>1, <2>2 DEF ApiAnalyze
<1>5. Onward /\ \A w \in Workflows : stage[w] = "NONE" => stage'[w] = "NONE"
  BY <1>2, <1>4 DEF Onward
<1> QED
  BY <1>2, <1>4, <1>5, GoesOnKeeps

LEMMA ApiDeployKeeps ==
  ASSUME PilotInv, NEW c \in calls, ApiDeploy(c) PROVE PilotInv'
<1>1. PilotTypes
  BY DEF PilotInv
<1>2. c.op = "deploy" /\ GoesOn(c, "deliver") /\ UNCHANGED <<analyses, images, events, proven>>
  BY DEF ApiDeploy
<1>3. c.wf \in Workflows /\ stage \in [Workflows -> Stages]
  BY <1>1, <1>2 DEF PilotTypes
<1>4. /\ stage' \in [Workflows -> Stages]
      /\ \A w \in Workflows : \/ stage'[w] = stage[w]
                              \/ stage[w] = "QUALIFIED" /\ stage'[w] = "REMEDIATED"
  <2>1. CASE UNCHANGED stage
    BY <1>3, <2>1
  <2>2. CASE stage[c.wf] = "QUALIFIED" /\ stage' = [stage EXCEPT ![c.wf] = "REMEDIATED"]
    <3>1. "REMEDIATED" \in Stages
      BY DEF Stages
    <3> QED
      BY <1>3, <2>2, <3>1, StageWritten
  <2> QED
    BY <2>1, <2>2 DEF ApiDeploy
<1>5. Onward /\ \A w \in Workflows : stage[w] = "NONE" => stage'[w] = "NONE"
  BY <1>2, <1>4 DEF Onward
<1> QED
  BY <1>2, <1>4, <1>5, GoesOnKeeps

LEMMA ApiDeliverKeeps ==
  ASSUME PilotInv, NEW c \in calls, ApiDeliver(c) PROVE PilotInv'
<1> DEFINE d == stage'[c.wf] = "DELIVERED"
           a == [Accepted EXCEPT !.delivered = d]
<1>1. PilotTypes /\ BackendInv
  BY DEF PilotInv
<1>2. c.op = "deliver" /\ Completes(c, a) /\ UNCHANGED <<analyses, images, events, proven>>
  BY DEF ApiDeliver
<1>3. c.wf \in Workflows /\ stage \in [Workflows -> Stages]
  BY <1>1, <1>2 DEF PilotTypes
<1>4. /\ stage' \in [Workflows -> Stages]
      /\ \A w \in Workflows : \/ stage'[w] = stage[w]
                              \/ stage[w] = "REMEDIATED" /\ stage'[w] = "DELIVERED"
  <2>1. CASE UNCHANGED stage
    BY <1>3, <2>1
  <2>2. CASE stage[c.wf] = "REMEDIATED" /\ stage' = [stage EXCEPT ![c.wf] = "DELIVERED"]
    <3>1. "DELIVERED" \in Stages
      BY DEF Stages
    <3> QED
      BY <1>3, <2>2, <3>1, StageWritten
  <2> QED
    BY <2>1, <2>2 DEF ApiDeliver
<1>5. Onward /\ \A w \in Workflows : stage[w] = "NONE" => stage'[w] = "NONE"
  BY <1>2, <1>4 DEF Onward
<1>6. BackendTypes' /\ BackendInv'
  BY <1>1, <1>2, <1>4 DEF PilotTypes, BackendTypes, BackendInv
<1>7. d \in BOOLEAN
  OBVIOUS
<1>8. a \in PilotAnswers /\ a.delivered = d
  BY <1>7, AcceptedTrue
<1>9. a.delivered => stage'[c.wf] = "DELIVERED"
  BY <1>8
<1> HIDE DEF a
<1>10. \A step : WaitsFor(step, c.op) => AnswerTrue(step, c.wf, a, stage', events', proven')
  BY <1>2, <1>9 DEF WaitsFor, AnswerTrue
<1> QED
  BY <1>2, <1>5, <1>6, <1>8, <1>10, CompletesKeeps

LEMMA ApiCreateProofKeeps ==
  ASSUME PilotInv, NEW c \in calls, ApiCreateProof(c) PROVE PilotInv'
<1>1. PilotTypes /\ BackendInv
  BY DEF PilotInv
<1>2. /\ c.op = "ensure" /\ Verdict(events[c.wf]) = "PASS"
      /\ proven' = [proven EXCEPT ![c.wf] = TRUE]
      /\ Completes(c, Accepted) /\ UNCHANGED <<stage, analyses, images, events>>
  BY DEF ApiCreateProof
<1>3. c.wf \in Workflows /\ proven \in [Workflows -> BOOLEAN]
  BY <1>1, <1>2 DEF PilotTypes
<1>4. /\ proven' \in [Workflows -> BOOLEAN] /\ proven'[c.wf]
      /\ \A w \in Workflows : w # c.wf => proven'[w] = proven[w]
  BY <1>2, <1>3
<1>5. BackendTypes'
  BY <1>1, <1>2, <1>4 DEF PilotTypes, BackendTypes
<1>6. \A w \in Workflows : proven[w] => proven'[w]
  BY <1>4
<1>7. Onward
  BY <1>2, <1>6 DEF Onward
<1>8. BackendInv'
  BY <1>1, <1>2, <1>4 DEF BackendInv
<1>9. \A step : WaitsFor(step, c.op) => AnswerTrue(step, c.wf, Accepted, stage', events', proven')
  BY <1>2, <1>4 DEF WaitsFor, AnswerTrue
<1> QED
  BY <1>2, <1>5, <1>7, <1>8, <1>9, AcceptedTrue, CompletesKeeps

\* The photograph is judged, or is not.
LEMMA ApiVerifyKeeps ==
  ASSUME PilotInv, NEW c \in calls, ApiObserves(c) \/ ApiObservesNothing(c) PROVE PilotInv'
<1> DEFINE a == [Accepted EXCEPT !.result = Verdict(events'[c.wf])]
<1>1. PilotTypes /\ BackendInv
  BY DEF PilotInv
<1>2. c.op = "verify" /\ Completes(c, a) /\ UNCHANGED <<stage, analyses, proven>>
  BY DEF ApiObserves, ApiObservesNothing
<1>3. /\ c.wf \in Workflows /\ c.photo \in Photos /\ events \in [Workflows -> Seq(Attempts)]
      /\ images \in [Workflows -> [Photos -> {"NONE", "OBSERVED", "UNUSABLE"}]]
  BY <1>1, <1>2 DEF PilotTypes
<1>4. images' \in [Workflows -> [Photos -> {"NONE", "OBSERVED", "UNUSABLE"}]]
  <2> DEFINE Marks == {"NONE", "OBSERVED", "UNUSABLE"}
  <2>1. ASSUME NEW m \in Marks, images' = [images EXCEPT ![c.wf][c.photo] = m]
        PROVE  images' \in [Workflows -> [Photos -> Marks]]
    <3>1. images[c.wf] \in [Photos -> Marks]
      BY <1>3
    <3>2. [images[c.wf] EXCEPT ![c.photo] = m] \in [Photos -> Marks]
      BY <3>1
    <3>3. images' = [images EXCEPT ![c.wf] = [images[c.wf] EXCEPT ![c.photo] = m]]
      BY <2>1
    <3> QED
      BY <1>3, <3>2, <3>3
  <2> QED
    BY <1>3, <2>1 DEF ApiObserves, ApiObservesNothing
<1>5. \/ UNCHANGED events
      \/ /\ Verdict(events[c.wf]) # "PASS"
         /\ \E e \in Attempts : events' = [events EXCEPT ![c.wf] = Append(@, e)]
  <2>1. ASSUME NEW r \in Results PROVE [photo |-> c.photo, result |-> r] \in Attempts
    BY <1>3 DEF Attempts
  <2> QED
    BY <2>1 DEF ApiObserves, ApiObservesNothing, AwaitsEvidence
<1>6. /\ events' \in [Workflows -> Seq(Attempts)]
      /\ \A w \in Workflows : \/ events'[w] = events[w]
                              \/ /\ Verdict(events[w]) # "PASS"
                                 /\ \E e \in Attempts : events'[w] = Append(events[w], e)
  <2>1. CASE UNCHANGED events
    BY <1>3, <2>1
  <2>2. ASSUME Verdict(events[c.wf]) # "PASS", NEW e \in Attempts,
               events' = [events EXCEPT ![c.wf] = Append(@, e)]
        PROVE  /\ events' \in [Workflows -> Seq(Attempts)]
               /\ \A w \in Workflows : w # c.wf => events'[w] = events[w]
               /\ events'[c.wf] = Append(events[c.wf], e)
    <3>1. events[c.wf] \in Seq(Attempts) /\ Append(events[c.wf], e) \in Seq(Attempts)
      BY <1>3, AppendProperties
    <3> DEFINE more == Append(events[c.wf], e)
    <3>2. events' = [events EXCEPT ![c.wf] = more] /\ more \in Seq(Attempts)
      BY <2>2, <3>1
    <3> HIDE DEF more
    <3>3. events' \in [Workflows -> Seq(Attempts)] /\ events'[c.wf] = more
          /\ \A w \in Workflows : w # c.wf => events'[w] = events[w]
      BY <1>3, <3>2
    <3> QED
      BY <3>3 DEF more
  <2>3. ASSUME Verdict(events[c.wf]) # "PASS", NEW e \in Attempts,
               events' = [events EXCEPT ![c.wf] = Append(@, e)], NEW w \in Workflows
        PROVE  \/ events'[w] = events[w]
               \/ /\ Verdict(events[w]) # "PASS"
                  /\ \E x \in Attempts : events'[w] = Append(events[w], x)
    BY <2>2, <2>3
  <2> QED
    BY <1>5, <2>1, <2>2, <2>3
<1>7. BackendTypes'
  BY <1>1, <1>2, <1>4, <1>6 DEF PilotTypes, BackendTypes
<1>8. BackendInv'
  BY <1>1, <1>2, <1>6 DEF BackendInv
<1>9. Onward
  BY <1>2, <1>6 DEF Onward
<1>10. Verdict(events'[c.wf]) \in Results /\ Told(Verdict(events'[c.wf]), events'[c.wf])
  BY <1>3, <1>6, VerdictIsResult
<1>11. a \in PilotAnswers /\ a.result = Verdict(events'[c.wf])
  BY <1>10, AcceptedTrue
<1> HIDE DEF a
<1>12. \A step : WaitsFor(step, c.op) => AnswerTrue(step, c.wf, a, stage', events', proven')
  BY <1>2, <1>10, <1>11 DEF WaitsFor, AnswerTrue
<1> QED
  BY <1>2, <1>7, <1>8, <1>9, <1>11, <1>12, CompletesKeeps

\* Every call the backend performs, or refuses.
LEMMA ApiKeeps ==
  ASSUME PilotInv, NEW c \in calls, Api(c) PROVE PilotInv'
BY ReadsKeep, ApiCreateKeeps, ApiAnalyzeKeeps, ApiDeployKeeps, ApiDeliverKeeps, ApiVerifyKeeps,
   ApiCreateProofKeeps DEF Api

-----------------------------------------------------------------------------
\* The visitor's requests: a link is held only for a delivered workflow.
LEMMA RequestsKeep ==
  ASSUME PilotInv, NEW t \in Tabs,
         \/ OpenLanding(t)
         \/ \E w \in Workflows :
              \/ Start(t, w) \/ OpenPilot(t, w) \/ OpenProof(t, w)
              \/ \E p \in Photos, upload \in BOOLEAN : SubmitPhoto(t, w, p, upload)
  PROVE  PilotInv'
<1>1. \A w \in links[t] : stage[w] = "DELIVERED"
  BY DEF PilotInv, FrontInv
<1>7. FALSE \in BOOLEAN /\ Nothing \in Workflows \union {Nothing} /\ Nothing \in Photos \union {Nothing}
  OBVIOUS
<1>2. CASE OpenLanding(t)
  <2>1. Begin(t, "health", "health", Nothing, Nothing, FALSE)
    BY <1>2 DEF OpenLanding
  <2>2. ASSUME NEW upload \in BOOLEAN, NEW p \in Photos \union {Nothing},
               Begin(t, "health", "health", Nothing, p, upload)
        PROVE  PilotInv'
    BY <1>7, <2>2, BeginKeeps
  <2> QED
    BY <1>7, <2>1, <2>2
<1>3. ASSUME NEW w \in Workflows, Start(t, w) PROVE PilotInv'
  <2>1. Fresh(w) /\ Begin(t, "create", "create", w, Nothing, FALSE)
    BY <1>3 DEF Start
  <2> QED
    BY <1>7, <2>1, BeginKeeps
<1>4. ASSUME NEW w \in Workflows, OpenPilot(t, w) PROVE PilotInv'
  <2>1. stage[w] = "DELIVERED" /\ Begin(t, "pilot", "status", w, Nothing, FALSE)
    BY <1>1, <1>4 DEF OpenPilot
  <2>2. ASSUME NEW upload \in BOOLEAN, NEW p \in Photos \union {Nothing},
               Begin(t, "pilot", "status", w, p, upload)
        PROVE  PilotInv'
    BY <2>1, <2>2, BeginKeeps
  <2> QED
    BY <1>7, <2>1, <2>2
<1>5. ASSUME NEW w \in Workflows, OpenProof(t, w) PROVE PilotInv'
  <2>1. stage[w] = "DELIVERED" /\ Begin(t, "read", "read", w, Nothing, FALSE)
    BY <1>1, <1>5 DEF OpenProof
  <2>2. ASSUME NEW upload \in BOOLEAN, NEW p \in Photos \union {Nothing},
               Begin(t, "read", "read", w, p, upload)
        PROVE  PilotInv'
    BY <2>1, <2>2, BeginKeeps
  <2> QED
    BY <1>7, <2>1, <2>2
<1>6. ASSUME NEW w \in Workflows, NEW p \in Photos, NEW upload \in BOOLEAN, SubmitPhoto(t, w, p, upload)
      PROVE  PilotInv'
  <2>1. stage[w] = "DELIVERED" /\ Begin(t, "verify", "verify", w, p, upload)
    BY <1>1, <1>6 DEF SubmitPhoto
  <2> QED
    BY <1>7, <2>1, BeginKeeps
<1> QED
  BY <1>2, <1>3, <1>4, <1>5, <1>6

\* What the invariant says of a handler that has its answer.
LEMMA AnswerHeld ==
  ASSUME PilotInv, NEW t \in Tabs, NEW step \in {"create", "advance", "pilot", "verify", "status", "ensure", "read"},
         Has(t, step)
  PROVE  /\ handler[t] \in Handlers /\ handler[t].step = step /\ handler[t].wf \in Workflows
         /\ reply[t] \in PilotAnswers /\ reply[t] # Nothing
         /\ AnswerTrue(step, handler[t].wf, reply[t], stage, events, proven)
         /\ step \in {"pilot", "verify", "status", "ensure", "read"} => stage[handler[t].wf] = "DELIVERED"
         /\ step \in {"status", "ensure"} => Told(handler[t].result, events[handler[t].wf])
         /\ step = "ensure" => IsPrefixOf(handler[t].chronology, events[handler[t].wf])
<1>1. PilotTypes /\ handler[t].step = step /\ reply[t] # Nothing
      /\ HandlerTrue(handler[t], reply[t], stage, events, proven)
  BY DEF PilotInv, FrontInv, Has
<1>2. handler[t] \in Handlers /\ reply[t] \in PilotAnswers
  BY <1>1, CallTypes
<1>3. handler[t].wf \in Workflows
  BY <1>1 DEF PilotTypes
<1> QED
  BY <1>1, <1>2, <1>3 DEF HandlerTrue

\* A page answered with the links left alone.
LEMMA PageKeeps ==
  ASSUME PilotInv, NEW t \in Tabs, NEW p \in Pages, Respond(t, p), UNCHANGED links,
         handler[t].step = "idle" \/ reply[t] # Nothing,
         p.kind \in {"delta", "verdict", "proof"} => p.wf \in Workflows,
         PageTrue(p, stage, events, proven)
  PROVE  PilotInv'
<1>1. /\ links' \in [Tabs -> SUBSET Workflows]
      /\ \A u \in Tabs : \A w \in links'[u] : stage[w] = "DELIVERED"
  BY DEF PilotInv, PilotTypes, FrontInv
<1> QED
  BY <1>1, RespondKeeps

LEMMA RefuseKeeps ==
  ASSUME PilotInv, NEW t \in Tabs, Refuse(t), handler[t].step = "idle" \/ reply[t] # Nothing
  PROVE  PilotInv'
<1>1. Respond(t, RefusedPage) /\ UNCHANGED links
  BY DEF Refuse
<1>2. PageTrue(RefusedPage, stage, events, proven)
  BY IdleTrue, SilentPage
<1> QED
  BY <1>1, <1>2, IdleTrue, PageKeeps

\* The pages that name a workflow and nothing else.
LEMMA NamedPages ==
  ASSUME NEW w \in Workflows
  PROVE  /\ DeltaPage(w) \in Pages /\ DeltaPage(w).kind = "delta" /\ DeltaPage(w).wf = w
         /\ ProofPage(w) \in Pages /\ ProofPage(w).kind = "proof" /\ ProofPage(w).wf = w
BY IdleTrue DEF DeltaPage, ProofPage, Pages, Kinds

LEMMA LandingKeeps ==
  ASSUME PilotInv, NEW t \in Tabs, FinishLanding(t) PROVE PilotInv'
<1> DEFINE p == LandingPage(Reachable(reply[t]))
<1>1. Respond(t, p) /\ UNCHANGED links /\ reply[t] # Nothing
  BY DEF FinishLanding, Has
<1>2. p = [Blank EXCEPT !.kind = "ready"] \/ p = [Blank EXCEPT !.kind = "blocked"]
  BY DEF LandingPage
<1>3. p \in Pages /\ p.kind \in {"ready", "blocked"}
  BY <1>2, IdleTrue DEF Pages, Kinds
<1> HIDE DEF p
<1> QED
  BY <1>1, <1>3, SilentPage, PageKeeps

LEMMA CreatedKeeps ==
  ASSUME PilotInv, NEW t \in Tabs, Created(t) PROVE PilotInv'
<1> DEFINE next == [handler[t] EXCEPT !.step = "advance"]
<1>1. Has(t, "create")
  BY DEF Created
<1>2. /\ handler[t] \in Handlers /\ handler[t].step = "create" /\ handler[t].wf \in Workflows
      /\ reply[t] # Nothing /\ AnswerTrue("create", handler[t].wf, reply[t], stage, events, proven)
  BY <1>1, AnswerHeld
<1>3. CASE reply[t].ok
  <2>1. Continue(t, "analyze", next)
    BY <1>3 DEF Created
  <2>2. next \in Handlers /\ next.step = "advance" /\ next.wf = handler[t].wf
    BY <1>2 DEF Handlers
  <2> HIDE DEF next
  <2>3. HandlerTrue(next, Nothing, stage, events, proven)
    BY <2>2 DEF HandlerTrue
  <2>4. stage[next.wf] # "NONE"
    BY <1>2, <1>3, <2>2 DEF AnswerTrue
  <2> QED
    BY <1>2, <2>1, <2>2, <2>3, <2>4, ContinueKeeps
<1>4. CASE ~reply[t].ok
  <2>1. Refuse(t)
    BY <1>4 DEF Created
  <2> QED
    BY <1>2, <2>1, RefuseKeeps
<1> QED
  BY <1>3, <1>4

\* The visitor gets the link, and only to what was delivered.
LEMMA AdvancedKeeps ==
  ASSUME PilotInv, NEW t \in Tabs, Advanced(t) PROVE PilotInv'
<1> DEFINE w == handler[t].wf
<1>1. Has(t, "advance")
  BY DEF Advanced
<1>2. w \in Workflows /\ reply[t] # Nothing /\ AnswerTrue("advance", w, reply[t], stage, events, proven)
  BY <1>1, AnswerHeld
<1>3. CASE MayRedirect(reply[t])
  <2>1. Respond(t, Blank) /\ links' = [links EXCEPT ![t] = @ \union {w}]
    BY <1>3 DEF Advanced
  <2>2. stage[w] = "DELIVERED"
    BY <1>2, <1>3 DEF AnswerTrue, MayRedirect
  <2>3. links \in [Tabs -> SUBSET Workflows] /\ \A u \in Tabs : \A v \in links[u] : stage[v] = "DELIVERED"
    BY DEF PilotInv, PilotTypes, FrontInv
  <2> HIDE DEF w
  <2>4. links' \in [Tabs -> SUBSET Workflows] /\ \A u \in Tabs : links'[u] \subseteq links[u] \union {w}
    BY <1>2, <2>1, <2>3
  <2>5. \A u \in Tabs : \A v \in links'[u] : stage[v] = "DELIVERED"
    BY <2>2, <2>3, <2>4
  <2>6. PageTrue(Blank, stage, events, proven)
    BY IdleTrue, SilentPage
  <2> QED
    BY <1>2, <2>1, <2>4, <2>5, <2>6, IdleTrue, RespondKeeps
<1>4. CASE ~MayRedirect(reply[t])
  <2>1. Refuse(t)
    BY <1>4 DEF Advanced
  <2> QED
    BY <1>2, <2>1, RefuseKeeps
<1> QED
  BY <1>3, <1>4

LEMMA FinishPilotKeeps ==
  ASSUME PilotInv, NEW t \in Tabs, FinishPilot(t) PROVE PilotInv'
<1> DEFINE p == DeltaPage(handler[t].wf)
<1>1. Has(t, "pilot")
  BY DEF FinishPilot
<1>2. handler[t].wf \in Workflows /\ reply[t] # Nothing /\ stage[handler[t].wf] = "DELIVERED"
  BY <1>1, AnswerHeld
<1>3. CASE reply[t].ok
  <2>1. Respond(t, p) /\ UNCHANGED links
    BY <1>3 DEF FinishPilot
  <2>2. p \in Pages /\ p.kind = "delta" /\ p.wf = handler[t].wf
    BY <1>2, NamedPages
  <2> HIDE DEF p
  <2>3. PageTrue(p, stage, events, proven)
    BY <1>2, <2>2 DEF PageTrue
  <2> QED
    BY <1>2, <2>1, <2>2, <2>3, PageKeeps
<1>4. CASE ~reply[t].ok
  <2>1. Refuse(t)
    BY <1>4 DEF FinishPilot
  <2> QED
    BY <1>2, <2>1, RefuseKeeps
<1> QED
  BY <1>3, <1>4

LEMMA VerifiedKeeps ==
  ASSUME PilotInv, NEW t \in Tabs, Verified(t) PROVE PilotInv'
<1> DEFINE next == [handler[t] EXCEPT !.step = "status", !.result = reply[t].result]
<1>1. Has(t, "verify")
  BY DEF Verified
<1>2. /\ handler[t] \in Handlers /\ handler[t].wf \in Workflows /\ stage[handler[t].wf] = "DELIVERED"
      /\ reply[t] \in PilotAnswers /\ reply[t] # Nothing
      /\ AnswerTrue("verify", handler[t].wf, reply[t], stage, events, proven)
  BY <1>1, AnswerHeld
<1>3. CASE reply[t].ok
  <2>1. Continue(t, "status", next)
    BY <1>3 DEF Verified
  <2>2. reply[t].result \in Results
    BY <1>2 DEF PilotAnswers
  <2>3. next \in Handlers /\ next.step = "status" /\ next.wf = handler[t].wf /\ next.result = reply[t].result
    BY <1>2, <2>2 DEF Handlers
  <2> HIDE DEF next
  <2>4. Told(next.result, events[next.wf])
    BY <1>2, <1>3, <2>3 DEF AnswerTrue
  <2>5. HandlerTrue(next, Nothing, stage, events, proven)
    BY <1>2, <2>3, <2>4 DEF HandlerTrue
  <2> QED
    BY <1>2, <2>1, <2>3, <2>5, ContinueKeeps
<1>4. CASE ~reply[t].ok
  <2>1. Refuse(t)
    BY <1>4 DEF Verified
  <2> QED
    BY <1>2, <2>1, RefuseKeeps
<1> QED
  BY <1>3, <1>4

\* A verdict page says what its handler holds.
LEMMA VerdictPageTrue ==
  ASSUME NEW h \in Handlers, NEW s \in Seq(Attempts), NEW offer \in BOOLEAN, h.wf \in Workflows,
         Told(h.result, events[h.wf]), IsPrefixOf(s, events[h.wf]), offer => proven[h.wf]
  PROVE  /\ VerdictPage(h, s, offer) \in Pages /\ VerdictPage(h, s, offer).wf \in Workflows
         /\ PageTrue(VerdictPage(h, s, offer), stage, events, proven)
<1> DEFINE p == VerdictPage(h, s, offer)
<1>1. h.result \in Results /\ h.photo \in Photos \union {Nothing}
  BY DEF Handlers
<1>2. p \in Pages
  BY <1>1 DEF VerdictPage, Pages, Kinds
<1>3. p.kind = "verdict" /\ p.wf = h.wf /\ p.result = h.result /\ p.chronology = s
  BY DEF VerdictPage
<1>4. p.offer = offer
  BY DEF VerdictPage
<1> HIDE DEF p
<1>5. PageTrue(p, stage, events, proven)
  BY <1>3, <1>4 DEF PageTrue
<1> QED
  BY <1>2, <1>3, <1>5 DEF p

LEMMA ReadBackKeeps ==
  ASSUME PilotInv, NEW t \in Tabs, ReadBack(t) PROVE PilotInv'
<1> DEFINE s == Chronology(reply[t])
           next == [handler[t] EXCEPT !.step = "ensure", !.chronology = s]
           p == VerdictPage(handler[t], s, FALSE)
<1>1. Has(t, "status")
  BY DEF ReadBack
<1>2. /\ handler[t] \in Handlers /\ handler[t].wf \in Workflows /\ stage[handler[t].wf] = "DELIVERED"
      /\ reply[t] \in PilotAnswers /\ reply[t] # Nothing
      /\ AnswerTrue("status", handler[t].wf, reply[t], stage, events, proven)
      /\ Told(handler[t].result, events[handler[t].wf])
  BY <1>1, AnswerHeld
<1>3. s \in Seq(Attempts) /\ IsPrefixOf(s, events[handler[t].wf])
  BY <1>2 DEF Chronology, PilotAnswers, AnswerTrue
<1>4. CASE handler[t].result = "PASS"
  <2>1. Continue(t, "ensure", next)
    BY <1>4 DEF ReadBack
  <2> HIDE DEF s
  <2>2. /\ next \in Handlers /\ next.step = "ensure" /\ next.wf = handler[t].wf
        /\ next.result = handler[t].result /\ next.chronology = s
    BY <1>2, <1>3 DEF Handlers
  <2> HIDE DEF next
  <2>3. HandlerTrue(next, Nothing, stage, events, proven)
    BY <1>2, <1>3, <2>2 DEF HandlerTrue
  <2> QED
    BY <1>2, <2>1, <2>2, <2>3, ContinueKeeps
<1>5. CASE handler[t].result # "PASS"
  <2>1. Respond(t, p) /\ UNCHANGED links
    BY <1>5 DEF ReadBack
  <2> HIDE DEF s
  <2>2. p \in Pages /\ p.wf \in Workflows /\ PageTrue(p, stage, events, proven)
    BY <1>2, <1>3, VerdictPageTrue
  <2> HIDE DEF p
  <2> QED
    BY <1>2, <2>1, <2>2, PageKeeps
<1> QED
  BY <1>4, <1>5

LEMMA EnsuredKeeps ==
  ASSUME PilotInv, NEW t \in Tabs, Ensured(t) PROVE PilotInv'
<1> DEFINE offer == ProofReady(reply[t])
           p == VerdictPage(handler[t], handler[t].chronology, offer)
<1>1. Has(t, "ensure") /\ Respond(t, p) /\ UNCHANGED links
  BY DEF Ensured
<1>2. /\ handler[t] \in Handlers /\ handler[t].wf \in Workflows
      /\ reply[t] \in PilotAnswers /\ reply[t] # Nothing
      /\ AnswerTrue("ensure", handler[t].wf, reply[t], stage, events, proven)
      /\ Told(handler[t].result, events[handler[t].wf])
      /\ IsPrefixOf(handler[t].chronology, events[handler[t].wf])
  BY <1>1, AnswerHeld
<1>3. offer \in BOOLEAN
  BY <1>2 DEF ProofReady, PilotAnswers
<1>4. offer => proven[handler[t].wf]
  BY <1>2 DEF ProofReady, AnswerTrue
<1>5. handler[t].chronology \in Seq(Attempts)
  BY <1>2 DEF Handlers
<1> HIDE DEF offer
<1>6. p \in Pages /\ p.wf \in Workflows /\ PageTrue(p, stage, events, proven)
  BY <1>2, <1>3, <1>4, <1>5, VerdictPageTrue
<1> HIDE DEF p
<1> QED
  BY <1>1, <1>2, <1>6, PageKeeps

LEMMA FinishProofKeeps ==
  ASSUME PilotInv, NEW t \in Tabs, FinishProof(t) PROVE PilotInv'
<1> DEFINE p == ProofPage(handler[t].wf)
<1>1. Has(t, "read")
  BY DEF FinishProof
<1>2. /\ handler[t].wf \in Workflows /\ reply[t] # Nothing
      /\ AnswerTrue("read", handler[t].wf, reply[t], stage, events, proven)
  BY <1>1, AnswerHeld
<1>3. CASE reply[t].ok
  <2>1. Respond(t, p) /\ UNCHANGED links
    BY <1>3 DEF FinishProof
  <2>2. p \in Pages /\ p.kind = "proof" /\ p.wf = handler[t].wf
    BY <1>2, NamedPages
  <2> HIDE DEF p
  <2>3. proven[p.wf]
    BY <1>2, <1>3, <2>2 DEF AnswerTrue
  <2>4. PageTrue(p, stage, events, proven)
    BY <2>2, <2>3 DEF PageTrue
  <2> QED
    BY <1>2, <2>1, <2>2, <2>4, PageKeeps
<1>4. CASE ~reply[t].ok
  <2>1. Refuse(t)
    BY <1>4 DEF FinishProof
  <2> QED
    BY <1>2, <2>1, RefuseKeeps
<1> QED
  BY <1>3, <1>4

-----------------------------------------------------------------------------
LEMMA PilotStarts == PilotInit => PilotInv
<1> SUFFICES ASSUME PilotInit PROVE PilotInv
  OBVIOUS
<1>1. /\ stage = [w \in Workflows |-> "NONE"] /\ analyses = [w \in Workflows |-> 0]
      /\ images = [w \in Workflows |-> [p \in Photos |-> "NONE"]]
      /\ events = [w \in Workflows |-> <<>>] /\ proven = [w \in Workflows |-> FALSE]
      /\ handler = [t \in Tabs |-> Idle] /\ calls = {} /\ reply = [t \in Tabs |-> Nothing]
      /\ links = [t \in Tabs |-> {}] /\ expired = {} /\ page = [t \in Tabs |-> Blank]
  BY DEF PilotInit
<1>2. PilotTypes
  <2>1. "NONE" \in Stages /\ <<>> \in Seq(Attempts)
    BY EmptySeq DEF Stages
  <2>2. /\ stage \in [Workflows -> Stages] /\ analyses \in [Workflows -> Nat]
        /\ events \in [Workflows -> Seq(Attempts)] /\ proven \in [Workflows -> BOOLEAN]
    BY <1>1, <2>1
  <2>3. images \in [Workflows -> [Photos -> {"NONE", "OBSERVED", "UNUSABLE"}]]
    BY <1>1
  <2>4. handler \in [Tabs -> Handlers] /\ reply \in [Tabs -> PilotAnswers \union {Nothing}]
    BY <1>1, IdleTrue
  <2>5. links \in [Tabs -> SUBSET Workflows] /\ expired \subseteq Workflows /\ page \in [Tabs -> Pages]
    BY <1>1, IdleTrue
  <2> QED
    BY <1>1, <2>2, <2>3, <2>4, <2>5, IdleTrue DEF PilotTypes
<1>3. BackendInv
  BY <1>1 DEF BackendInv
<1>4. FrontInv
  BY <1>1, IdleTrue, SilentPage DEF FrontInv, HandlerTrue
<1>5. AwaitInv /\ SpendingInv
  BY <1>1, IdleTrue DEF AwaitInv, SpendingInv
<1> QED
  BY <1>2, <1>3, <1>4, <1>5 DEF PilotInv

LEMMA HandlersKeep ==
  ASSUME PilotInv, NEW t \in Tabs, Handle(t) PROVE PilotInv'
BY LandingKeeps, CreatedKeeps, AdvancedKeeps, FinishPilotKeeps, VerifiedKeeps, ReadBackKeeps,
   EnsuredKeeps, FinishProofKeeps DEF Handle

LEMMA PilotSteps == PilotInv /\ [PilotNext]_pilotVars => PilotInv'
<1> SUFFICES ASSUME PilotInv, [PilotNext]_pilotVars PROVE PilotInv'
  OBVIOUS
<1>1. ASSUME NEW t \in Tabs, RefusedAtOnce(t) PROVE PilotInv'
  BY <1>1, RefuseKeeps DEF RefusedAtOnce
<1>2. ASSUME NEW t \in Tabs, OpenLanding(t) PROVE PilotInv'
  BY <1>2, RequestsKeep
<1>3. ASSUME NEW t \in Tabs, NEW w \in Workflows,
             \/ Start(t, w) \/ OpenPilot(t, w) \/ OpenProof(t, w)
             \/ \E p \in Photos, upload \in BOOLEAN : SubmitPhoto(t, w, p, upload)
      PROVE  PilotInv'
  BY <1>3, RequestsKeep
<1>4. ASSUME NEW t \in Tabs, NEW w \in Workflows, NEW u \in Tabs, CopyLink(t, u, w) PROVE PilotInv'
  BY <1>4, LinksKeep
<1>5. ASSUME NEW t \in Tabs, Handle(t) PROVE PilotInv'
  BY <1>5, HandlersKeep
<1>6. ASSUME NEW t \in Tabs, Timeout(t) PROVE PilotInv'
  BY <1>6, TimeoutKeeps
<1>7. ASSUME NEW c \in calls, Api(c) PROVE PilotInv'
  BY <1>7, ApiKeeps
<1>8. ASSUME NEW w \in Workflows, Expire(w) PROVE PilotInv'
  BY <1>8, LinksKeep
<1>9. CASE Restart
  BY <1>9, RestartKeeps
<1>10. CASE UNCHANGED pilotVars
  BY <1>10 DEF pilotVars, backendVars, frontVars, browserVars, PilotInv, PilotTypes, BackendInv,
     FrontInv, AwaitInv, SpendingInv
<1> QED
  BY <1>1, <1>2, <1>3, <1>4, <1>5, <1>6, <1>7, <1>8, <1>9, <1>10 DEF PilotNext

\* Whatever tabs, timeouts and restarts do in between, what the front's handlers
\* hold, what its pages show and who may still spend a workflow's one analysis agree
\* with the backend (driftzero_public's app.py and its client of the API).
THEOREM PilotInvariant == PilotSpec => []PilotInv
<1> QED
  BY PilotStarts, PilotSteps, PTL DEF PilotSpec

\* A page once shown stays true for as long as somebody may read it: its delta was
\* delivered, its PASS is the run's last verdict, its FAIL was one, its attempts are
\* the run's first ones and its proof exists (the pages of driftzero_public's app.py).
THEOREM PagesStayTrue == PilotSpec => []PagesTellTruth
<1>1. PilotInv => PagesTellTruth
  <2> SUFFICES ASSUME PilotInv, NEW t \in Tabs
               PROVE  LET pg == page[t]
                      IN  /\ pg.kind = "delta" => stage[pg.wf] = "DELIVERED"
                          /\ pg.kind = "verdict" =>
                               /\ pg.result = "PASS" => Verdict(events[pg.wf]) = "PASS"
                               /\ pg.result = "FAIL" => \E n \in 1..Len(events[pg.wf]) :
                                                          events[pg.wf][n].result = "FAIL"
                               /\ IsPrefixOf(pg.chronology, events[pg.wf])
                               /\ pg.offer => proven[pg.wf]
                          /\ pg.kind = "proof" => proven[pg.wf] /\ Verdict(events[pg.wf]) = "PASS"
    BY DEF PagesTellTruth
  <2>1. PageTrue(page[t], stage, events, proven) /\ BackendInv
    BY DEF PilotInv, FrontInv
  <2>2. page[t].kind = "proof" => page[t].wf \in Workflows
    BY DEF PilotInv, PilotTypes
  <2> QED
    BY <2>1, <2>2 DEF PageTrue, Told, BackendInv
<1> QED
  BY <1>1, PilotInvariant, PTL

\* Whoever holds a link, minted or copied, holds it for a delivered delta: live_start
\* redirects nobody else.
THEOREM LinksMeanDelivered == PilotSpec => []LinkMeansDelivered
<1>1. PilotInv => LinkMeansDelivered
  BY DEF PilotInv, FrontInv, LinkMeansDelivered
<1> QED
  BY <1>1, PilotInvariant, PTL

\* A workflow spends one change analysis at most: live_start advances it once, and no
\* timeout, call that outlives its request or restart of the front does it again.
THEOREM NoSecondAnalysis == PilotSpec => []AnalysedOnce
<1>1. PilotInv => AnalysedOnce
  BY DEF PilotInv, SpendingInv, AnalysedOnce
<1> QED
  BY <1>1, PilotInvariant, PTL

=============================================================================
