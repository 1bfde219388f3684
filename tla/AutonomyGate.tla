---------------------------- MODULE AutonomyGate ----------------------------
(***************************************************************************)
(* The rules of the truth engine that decide whether a remediation may go  *)
(* out without a review, and whether a newer change overtakes a workflow:  *)
(* the divergence comparator (divergence.py), the nine conditions of the   *)
(* autonomy gate (autonomy_gate.py) and supersession (supersession.py).    *)
(* Pure definitions over an artifact, the requirements of the approved     *)
(* source version and a change; a requirement set is a function from       *)
(* requirement ids to values, "" is the string that Python takes for false.*)
(***************************************************************************)
EXTENDS WorkflowStates

\* The artifacts and the changes the rules are asked about, over any sets of
\* requirement ids and values.
RequirementSets(R, V) == UNION {[S -> V] : S \in SUBSET R}
DownstreamArtifacts(R, V) ==
  [id : STRING, requirement : R, current : V, requirements : RequirementSets(R, V),
   contentRef : STRING, authorized : BOOLEAN]
ApprovedChanges(R, V) ==
  [procedure : STRING, version : STRING, previousVersion : STRING, operation : STRING,
   requirement : R, previous : V, current : V, scope : SUBSET STRING]

-----------------------------------------------------------------------------
(***************************************************************************)
(* Divergence                                                              *)
(***************************************************************************)

\* The states of the target that the write may start from, and those in which it
\* is not to be found exactly once.
Compatible == {"AT_PREVIOUS_VALUE", "ALREADY_CURRENT"}
Unresolvable == {"MISSING_IN_ARTIFACT", "MISSING_IN_SOURCE", "DUPLICATE_REPRESENTATION"}

\* The artifact states the target twice, and the two disagree.
StatedTwice(artifact, target) ==
  artifact.requirement = target /\ artifact.current # artifact.requirements[target]

\* The first of these that applies.
TargetStatus(artifact, source, change) ==
  LET target == change.requirement
      held == artifact.requirements[target]
  IN  CASE target \notin DOMAIN source                -> "MISSING_IN_SOURCE"
        [] target \in DOMAIN source
             /\ source[target] # change.current       -> "UNEXPECTED_VALUE"
        [] target \in DOMAIN source
             /\ source[target] = change.current
             /\ target \notin DOMAIN artifact.requirements -> "MISSING_IN_ARTIFACT"
        [] OTHER -> IF StatedTwice(artifact, target) THEN "DUPLICATE_REPRESENTATION"
                    ELSE IF held = change.previous   THEN "AT_PREVIOUS_VALUE"
                    ELSE IF held = change.current    THEN "ALREADY_CURRENT"
                    ELSE "UNEXPECTED_VALUE"

\* Every other requirement that one side lacks or the two hold differently.
Divergent(artifact, source, change) ==
  {r \in (DOMAIN source \union DOMAIN artifact.requirements) \ {change.requirement} :
     \/ r \notin DOMAIN source \intersect DOMAIN artifact.requirements
     \/ source[r] # artifact.requirements[r]}

ConflictFree(artifact, source, change) ==
  /\ TargetStatus(artifact, source, change) \in Compatible
  /\ Divergent(artifact, source, change) = {}

-----------------------------------------------------------------------------
(***************************************************************************)
(* The gate                                                                *)
(***************************************************************************)

\* The nine conditions; 7 and 8 read one comparison.
AutonomyConditions(artifact, source, change) ==
  [C1 |-> change.version # "",
   C2 |-> change.requirement # "",
   C3 |-> change.previous # "",
   C4 |-> change.current # "",
   C5 |-> change.requirement # "" /\ change.previous # change.current,
   C6 |-> artifact.authorized /\ artifact.id \in change.scope,
   C7 |-> TargetStatus(artifact, source, change) \notin Unresolvable,
   C8 |-> ConflictFree(artifact, source, change),
   C9 |-> artifact.contentRef # ""]

FailedConditions(artifact, source, change) ==
  LET holds == AutonomyConditions(artifact, source, change)
  IN  {c \in DOMAIN holds : ~holds[c]}

Authorized(artifact, source, change) == FailedConditions(artifact, source, change) = {}

\* What the mutation tool's write makes of an authorized artifact: one requirement,
\* with current_value in step when it is the artifact's own.
Remediated(artifact, change, ref) ==
  [artifact EXCEPT
     !.requirements = [@ EXCEPT ![change.requirement] = change.current],
     !.current = IF artifact.requirement = change.requirement THEN change.current ELSE @,
     !.contentRef = ref]

-----------------------------------------------------------------------------
(***************************************************************************)
(* Supersession                                                            *)
(***************************************************************************)

IsApplicableSuccessor(change, incoming) ==
  /\ incoming.procedure = change.procedure
  /\ incoming.operation = change.operation
  /\ incoming.requirement = change.requirement
  /\ incoming.previousVersion = change.version
  /\ incoming.version # change.version

IsSupersedable(state) == state \notin TerminalStates

ShouldSupersede(state, change, incoming) ==
  IsSupersedable(state) /\ IsApplicableSuccessor(change, incoming)

\* supersede goes through transition, which refuses an illegal one.
Supersede(state) == IF CanTransition(state, "SUPERSEDED") THEN "SUPERSEDED" ELSE state

-----------------------------------------------------------------------------
(***************************************************************************)
(* What the rules promise                                                  *)
(***************************************************************************)

\* The write the gate lets through leaves the artifact with exactly the
\* requirements of the approved source: no other deviation is hidden by it
\* (evaluate_autonomy and evaluate_divergence against apply_requirement).
AuthorizedWriteConforms(artifact, source, change, ref) ==
  Authorized(artifact, source, change) =>
    Remediated(artifact, change, ref).requirements = source

\* A retry after the write is not a conflict: the gate authorizes the remediated
\* artifact too, as one that already holds the approved value.
RemediatedStaysAuthorized(artifact, source, change, ref) ==
  Authorized(artifact, source, change) /\ ref # "" =>
    LET after == Remediated(artifact, change, ref)
    IN  /\ TargetStatus(after, source, change) = "ALREADY_CURRENT"
        /\ Authorized(after, source, change)

\* A workflow that should be superseded always can be and then never goes on, and
\* a workflow that has ended is left as it ended.
SupersessionIsFinal(state, change, incoming) ==
  /\ ShouldSupersede(state, change, incoming) =>
       Supersede(state) = "SUPERSEDED" /\ LegalTargets(Supersede(state)) = {}
  /\ state \in TerminalStates => Supersede(state) = state

=============================================================================
