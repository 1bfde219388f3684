--------------------------- MODULE ChangeAnalysis ---------------------------
(***************************************************************************)
(* One analyze_change: the Change Intelligence Agent calls the model       *)
(* through the ADK under the policy of SemanticCall, Crossing 1 holds its  *)
(* proposal against the approved change, and the Truth Engine qualifies    *)
(* the candidates (agents/change_intel.py, driftzero_adk/                  *)
(* change_intel_runtime.py, orchestration.py, truth_engine/impact.py).     *)
(* HeroService has the same use case as one action with the result open.   *)
(***************************************************************************)
EXTENDS SemanticCall, SequencesExt

CONSTANTS
  Artifacts,      \* the catalog, by artifact id
  Strangers,      \* ids a proposal may name that are not in the catalog
  Catalogs,       \* the catalogs to choose from: artifact -> conditions it meets
  MaxCandidates,  \* bound on the candidates of a proposal
  None

\* FR-002.
Conditions == {"operation_match", "instruction_correspondence", "value_conflict",
               "in_authorized_scope"}

\* The parts of the approved change a proposal repeats, by the layer that
\* Crossing 1 compares them in, and a proposal: what it gets wrong of them, and
\* its candidates with the model's own opinion on each.
Layers == {"PROVENANCE", "EXPECTED_SOURCE_IDENTITY", "SOURCE_VERSION_APPLICABILITY",
           "SEMANTIC_INVARIANT"}
Candidates == [artifact : Artifacts \union Strangers, affected : BOOLEAN]
Proposals == [wrong : SUBSET Layers, candidates : Seq(Candidates)]

ASSUME AnalysisAssumption ==
  /\ Catalogs \subseteq [Artifacts -> SUBSET Conditions]
  /\ MaxCandidates \in Nat
  /\ Artifacts \intersect Strangers = {}
  /\ None \notin Artifacts /\ None \notin Proposals /\ None \notin {"TARGET", "REVIEW"}

ProposalStatus == {"PROPOSED", "RETRIES_EXHAUSTED", "NON_TRANSIENT_FAILURE", "SCHEMA_REJECTED"}

VARIABLES
  catalog,      \* what the catalog says, fixed from the start
  lastFailure,  \* the agent's _last_failure: "schema" or None
  hint,         \* whether the request under way carries a repair hint, None without one
  proposal,     \* the accepted answer of the model, or None
  status,       \* ProposalStatus of the analysis, or None
  decision      \* "TARGET", "REVIEW", or None while there is none
VARIABLE target \* the qualified artifact, or None

vars == <<callVars, catalog, lastFailure, hint, proposal, status, decision, target>>

Init ==
  /\ CallInit
  /\ catalog \in Catalogs
  /\ lastFailure = None
  /\ hint = None
  /\ proposal = None
  /\ status = None
  /\ decision = None
  /\ target = None

-----------------------------------------------------------------------------
(***************************************************************************)
(* One attempt                                                             *)
(***************************************************************************)

\* _call_model builds the request.
Request ==
  /\ outcome = "PENDING" /\ hint = None
  /\ hint' = (lastFailure = "schema")
  /\ UNCHANGED <<callVars, catalog, lastFailure, proposal, status, decision, target>>

\* An error event of the ADK is classified by the words in it, the more cautious
\* class first: "NonTransientModelError" also contains "transient".
ClassifyEvent(words) ==
  IF "NON_TRANSIENT" \in words  THEN "NON_TRANSIENT"
  ELSE IF "SCHEMA" \in words    THEN "MALFORMED_OUTPUT"
  ELSE IF "TRANSIENT" \in words THEN "TRANSIENT"
  ELSE "NON_TRANSIENT"

\* An exception by its status code, unknown ones being final.  An invocation
\* that exceeds its deadline is cut off and counts as transient.
ClassifyException(error) ==
  IF error \in {"RETRYABLE_STATUS", "DEADLINE"} THEN "TRANSIENT" ELSE "NON_TRANSIENT"

\* The attempt raises an error of this class.
ErrorFails(failure) ==
  /\ hint # None
  /\ AttemptFails(failure)
  /\ hint' = None
  /\ UNCHANGED <<catalog, lastFailure, proposal, status, decision, target>>

\* No JSON object comes back: the client refuses it, and the agent's memory of
\* the last failure does not change.
Unreadable == ErrorFails("MALFORMED_OUTPUT")

\* An object comes back that is no ChangeSet.
Misshaped ==
  /\ hint # None
  /\ AttemptFails("MALFORMED_OUTPUT")
  /\ hint' = None
  /\ lastFailure' = "schema"
  /\ UNCHANGED <<catalog, proposal, status, decision, target>>

\* A ChangeSet, returned after the deadline.
Late ==
  /\ hint # None
  /\ AttemptLate
  /\ hint' = None
  /\ lastFailure' = None
  /\ UNCHANGED <<catalog, proposal, status, decision, target>>

Proposes(p) ==
  /\ hint # None
  /\ AttemptSucceeds
  /\ hint' = None
  /\ lastFailure' = None
  /\ proposal' = p
  /\ UNCHANGED <<catalog, status, decision, target>>

-----------------------------------------------------------------------------
(***************************************************************************)
(* From the outcome of the call to the decision                            *)
(***************************************************************************)

\* The agent failed: explicit, and never an empty proposal.
FailedStatus ==
  IF outcome = "NON_TRANSIENT"   THEN "NON_TRANSIENT_FAILURE"
  ELSE IF lastFailure = "schema" THEN "SCHEMA_REJECTED"
  ELSE "RETRIES_EXHAUSTED"

\* MUTANT: only a final failure is reported.
AnalysisFailsFinally ==
  /\ outcome = "NON_TRANSIENT" /\ decision = None
  /\ status' = FailedStatus
  /\ decision' = "REVIEW"
  /\ UNCHANGED <<callVars, catalog, lastFailure, hint, proposal, target>>

AnalysisFails ==
  /\ outcome \in {"EXHAUSTED", "NON_TRANSIENT"} /\ decision = None
  /\ status' = FailedStatus
  /\ decision' = "REVIEW"
  /\ UNCHANGED <<callVars, catalog, lastFailure, hint, proposal, target>>

\* Crossing 1.  The opinions on the candidates are not consulted.
UnknownCandidates(p) == {c \in Range(p.candidates) : c.artifact \notin Artifacts}
FailedLayers(p) ==
  p.wrong \union (IF UnknownCandidates(p) = {} THEN {} ELSE {"EXPECTED_ARTIFACT_IDENTITY"})

\* MUTANT: a candidate the model calls affected is taken at its word.
QualifiesByClaim(c) ==
  c.artifact \in Artifacts /\ (catalog[c.artifact] = Conditions \/ c.affected)

\* The four conditions, from the catalog's records alone.
Qualifies(c) == c.artifact \in Artifacts /\ catalog[c.artifact] = Conditions

QualifiedAt(candidates) == {k \in DOMAIN candidates : Qualifies(candidates[k])}

\* One qualified candidate is the target; none or several are for review.  A
\* candidate that is named twice counts twice.
Resolve(candidates) ==
  IF \E k \in DOMAIN candidates : QualifiedAt(candidates) = {k}
    THEN candidates[CHOOSE k \in QualifiedAt(candidates) : TRUE].artifact
    ELSE None

\* Crossing 1: no layer of the validator objects.
AcceptChangeSet(p) == FailedLayers(p) = {}

CrossingRejects ==
  /\ outcome = "SUCCEEDED" /\ decision = None
  /\ ~AcceptChangeSet(proposal)
  /\ status' = "PROPOSED"
  /\ decision' = "REVIEW"
  /\ UNCHANGED <<callVars, catalog, lastFailure, hint, proposal, target>>

Qualify ==
  /\ outcome = "SUCCEEDED" /\ decision = None
  /\ AcceptChangeSet(proposal)
  /\ status' = "PROPOSED"
  /\ target' = Resolve(proposal.candidates)
  /\ decision' = IF Resolve(proposal.candidates) = None THEN "REVIEW" ELSE "TARGET"
  /\ UNCHANGED <<callVars, catalog, lastFailure, hint, proposal>>

Answers ==
  \/ \E words \in SUBSET {"NON_TRANSIENT", "SCHEMA", "TRANSIENT"} : ErrorFails(ClassifyEvent(words))
  \/ \E error \in {"RETRYABLE_STATUS", "DEADLINE", "OTHER"} : ErrorFails(ClassifyException(error))
  \/ Unreadable
  \/ Misshaped
  \/ Late
  \/ \E wrong \in {{}} \union {{l} : l \in Layers}, n \in 0..MaxCandidates :
       \E candidates \in [1..n -> Candidates] :
         Proposes([wrong |-> wrong, candidates |-> candidates])

Decide == AnalysisFails \/ CrossingRejects \/ Qualify

Next == Request \/ Answers \/ Decide

\* The analysis goes on by itself; the deadline bounds every attempt.
Fairness == WF_vars(Next)
Spec == Init /\ [][Next]_vars /\ Fairness

-----------------------------------------------------------------------------
(***************************************************************************)
(* Properties                                                              *)
(***************************************************************************)

\* Every variable holds a value of its kind, a request is under way only while
\* the call runs, and there is a proposal exactly when the call succeeded.
TypeOK ==
  /\ CallTypeOK
  /\ catalog \in Catalogs
  /\ lastFailure \in {"schema", None}
  /\ hint \in BOOLEAN \union {None}
  /\ hint # None => outcome = "PENDING"
  /\ proposal \in Proposals \union {None}
  /\ proposal # None <=> outcome = "SUCCEEDED"
  /\ status \in ProposalStatus \union {None}
  /\ decision \in {"TARGET", "REVIEW", None}
  /\ target \in Artifacts \union {None}

Named == {proposal.candidates[k].artifact : k \in DOMAIN proposal.candidates}

\* An artifact becomes the target only from an answer that came in time, repeats
\* the approved change and names nothing unknown; it meets all four conditions,
\* and nothing else the proposal names does.  What the model says about the
\* candidates moves nothing (_qualify_impact).
TargetJustified ==
  decision = "TARGET" =>
    /\ outcome = "SUCCEEDED" /\ Last(attempts) = "OK"
    /\ proposal.wrong = {} /\ Named \subseteq Artifacts
    /\ target \in Named /\ catalog[target] = Conditions
    /\ \A a \in Named : catalog[a] = Conditions => a = target

\* The workflow is sent to a human only for a reason: the call failed, the
\* proposal contradicts the change or names a stranger, or it does not name one
\* qualified artifact once (_review_required).
ReviewJustified ==
  decision = "REVIEW" =>
    \/ outcome # "SUCCEEDED"
    \/ proposal.wrong # {} \/ ~(Named \subseteq Artifacts)
    \/ \A a \in Artifacts : catalog[a] = Conditions =>
         \/ a \notin Named
         \/ \E b \in Named : b # a /\ catalog[b] = Conditions
         \/ \E j, k \in DOMAIN proposal.candidates :
              j # k /\ proposal.candidates[j].artifact = a /\ proposal.candidates[k].artifact = a

\* Whatever the decision is, it is justified (analyze_change).
DecisionJustified == TargetJustified /\ ReviewJustified

\* Every analysis comes to a decision, whatever the model does with each attempt.
Concludes == <>(decision # None)

=============================================================================
