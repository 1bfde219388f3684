--------------------------- MODULE WorkflowStates ---------------------------
(***************************************************************************)
(* The 13 lifecycle states of one change deployment and the structural     *)
(* legality of a transition between them.  Pure definitions: every module  *)
(* that advances a workflow goes through CanTransition.                    *)
(***************************************************************************)

\* The canonical states (driftzero/models/workflow.py).
WorkflowState ==
  { "CHANGE_RECEIVED", "IMPACT_DETERMINED", "REMEDIATION_PENDING",
    "REVIEW_REQUIRED", "REMEDIATION_COMPLETED",
    "FRONTLINE_DELIVERY_COMPLETED", "AWAITING_FIELD_VERIFICATION",
    "VERIFICATION_INCONCLUSIVE", "VERIFICATION_FAILED",
    "VERIFICATION_PASSED", "PROOF_COMPLETE", "SUPERSEDED", "FAILED" }

\* States with no outgoing transition.
TerminalStates == {"PROOF_COMPLETE", "SUPERSEDED", "FAILED"}

\* Every non-terminal state may leave for these two.
Abandoned == {"SUPERSEDED", "FAILED"}

\* The exits of a state beyond supersession and failure: the progressive path
\* and the two recoverable verdicts.  REVIEW_REQUIRED has none.
Progress(s) ==
  CASE s = "CHANGE_RECEIVED"              -> {"IMPACT_DETERMINED"}
    [] s = "IMPACT_DETERMINED"            -> {"REMEDIATION_PENDING", "REVIEW_REQUIRED"}
    [] s = "REMEDIATION_PENDING"          -> {"REMEDIATION_COMPLETED", "REVIEW_REQUIRED"}
    [] s = "REMEDIATION_COMPLETED"        -> {"FRONTLINE_DELIVERY_COMPLETED"}
    [] s = "FRONTLINE_DELIVERY_COMPLETED" -> {"AWAITING_FIELD_VERIFICATION"}
    [] s = "AWAITING_FIELD_VERIFICATION"  ->
         {"VERIFICATION_PASSED", "VERIFICATION_FAILED", "VERIFICATION_INCONCLUSIVE"}
    [] s = "VERIFICATION_PASSED"          -> {"PROOF_COMPLETE"}
    [] s = "VERIFICATION_FAILED"          -> {"AWAITING_FIELD_VERIFICATION"}
    [] s = "VERIFICATION_INCONCLUSIVE"    -> {"AWAITING_FIELD_VERIFICATION"}
    [] OTHER                              -> {}

LegalTargets(s) == IF s \in TerminalStates THEN {} ELSE Progress(s) \union Abandoned

CanTransition(s, t) == t \in LegalTargets(s)

=============================================================================
