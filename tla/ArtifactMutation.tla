-------------------------- MODULE ArtifactMutation --------------------------
(***************************************************************************)
(* The artifact mutation tool (apply_authorized_artifact_patch) and the    *)
(* ledger it consults, step by step, for one authorized action on one      *)
(* artifact.                                                               *)
(*                                                                         *)
(* Callers run the tool concurrently: the API's advance route is served    *)
(* from a thread pool and nothing locks a service, its ledger or its       *)
(* repository.  Each caller's steps are the points where it reads or writes*)
(* the shared ledger or the repository, so what the code checks and then   *)
(* sets is two steps: the ledger's test for a record and the record's      *)
(* creation, the repository's comparison and its assignment.  The write    *)
(* can fail, or end with its outcome unknown.  Other writers may change    *)
(* the artifact, and a caller may die between any two steps, after which   *)
(* the ledger and the repository are still there.                          *)
(*                                                                         *)
(* Two reads or writes are one step where splitting them shows nothing     *)
(* more: the lookup and the retry decision after it (a record created      *)
(* between them is the DuplicateActionError of PlanCheck), and a mark's    *)
(* read of the record it replaces (its status is overwritten whatever it   *)
(* was, and the rest of a record is read only with a status that sets it). *)
(*                                                                         *)
(* The capability and request checks come before any of this and change    *)
(* nothing; the callers here hold a valid capability and send the request  *)
(* deploy_change builds.                                                   *)
(***************************************************************************)
EXTENDS Naturals, FiniteSets

CONSTANTS
  Callers,        \* threads that may run the tool
  WriteFaults,    \* how a repository write may go wrong
  DriftValues,    \* what other writers may set the requirement to
  MayCrash,       \* whether a caller may die between two steps
  MaxCalls,       \* bound on the tool calls made
  MaxDrifts       \* bound on the other writers' changes

\* The requirement holds the value the change replaces, the approved one, or
\* something else.
Values == {"BEFORE", "AFTER", "OTHER"}
Faults == {"FAILED", "UNCERTAIN_LANDED", "UNCERTAIN_LOST"}
ActionStatus == {"ABSENT", "PLANNED", "ATTEMPTED", "COMPLETED", "FAILED_OR_UNCERTAIN"}
Steps == {"idle", "decide", "read", "noop", "plan", "planning", "attempt", "apply", "writing",
          "complete", "reconcile_read", "reconcile", "complete_reconciled", "fail"}
\* A caller is here when it has passed a check and not yet acted on it.
Windows == {"planning", "writing"}

ASSUME MutationAssumption ==
  /\ IsFiniteSet(Callers)
  /\ WriteFaults \subseteq Faults
  /\ DriftValues \subseteq Values
  /\ MayCrash \in BOOLEAN
  /\ MaxCalls \in Nat
  /\ MaxDrifts \in Nat

VARIABLES
  value,     \* the requirement's value in the repository
  status,    \* the ledger's status of the action
  step,      \* where each caller is in the tool
  expected,  \* the value each caller's expected_before_hash was computed from
  seen,      \* the value each caller's reconciliation read
  known,     \* whether the ledger had the record when the caller looked it up
  issued,    \* the outcomes that carry evidence, returned so far
  writes,    \* writes of this action that took effect
  races,     \* the windows two callers have been in together (for the properties)
  started,   \* tool calls made
  drifts,    \* changes made by other writers
  drifted    \* the values they have set

vars == <<value, status, step, expected, seen, known, issued, writes, races,
          started, drifts, drifted>>
counters == <<writes, races, started, drifts, drifted>>

Init ==
  /\ value = "BEFORE"
  /\ status = "ABSENT"
  /\ step = [c \in Callers |-> "idle"]
  /\ expected = [c \in Callers |-> "BEFORE"]
  /\ seen = [c \in Callers |-> "BEFORE"]
  /\ known = [c \in Callers |-> FALSE]
  /\ issued = {}
  /\ writes = 0
  /\ races = {}
  /\ started = 0
  /\ drifts = 0
  /\ drifted = {}

\* Caller c moves from one step to another.
Goto(c, from, to) ==
  /\ step[c] = from
  /\ step' = [step EXCEPT ![c] = to]

\* Caller c enters a window, maybe while another caller is in it.
Enter(c, from, window) ==
  /\ Goto(c, from, window)
  /\ races' = races \union {w \in {window} : \E d \in Callers \ {c} : step[d] = w}

DecideRetry(s) ==
  CASE s \in {"ABSENT", "PLANNED"} -> "SAFE_TO_EXECUTE"
    [] s = "COMPLETED"             -> "ALREADY_COMPLETED"
    [] OTHER                       -> "RECONCILIATION_REQUIRED"

WasEverDispatched == status \notin {"ABSENT", "PLANNED"}
NoOpAdmissible == ~WasEverDispatched

-----------------------------------------------------------------------------
(***************************************************************************)
(* One call of the tool                                                    *)
(***************************************************************************)

\* deploy_change reads the artifact, hashes it and calls the tool.
Request(c) ==
  /\ started < MaxCalls
  /\ Goto(c, "idle", "decide")
  /\ expected' = [expected EXCEPT ![c] = value]
  /\ started' = started + 1
  /\ UNCHANGED <<value, status, seen, known, issued, writes, races, drifts, drifted>>

\* The ledger is looked up and asked what may be done; a completed action ends
\* the call here.
Decide(c) ==
  /\ \/ DecideRetry(status) = "SAFE_TO_EXECUTE" /\ Goto(c, "decide", "read")
     \/ DecideRetry(status) = "ALREADY_COMPLETED" /\ Goto(c, "decide", "idle")
     \/ DecideRetry(status) = "RECONCILIATION_REQUIRED" /\ Goto(c, "decide", "reconcile_read")
  /\ known' = [known EXCEPT ![c] = status # "ABSENT"]
  /\ UNCHANGED <<value, status, expected, seen, issued, counters>>

\* The artifact is read.  It must hold the value the change replaces, and the
\* content the request's hash was computed from; anything else ends the call,
\* except the approved value, which may be a no-op.
ReadArtifact(c) ==
  /\ \/ value = "AFTER" /\ Goto(c, "read", "noop")
     \/ value = "BEFORE" /\ expected[c] = "BEFORE" /\ Goto(c, "read", "plan")
     \/ value # "AFTER" /\ (value = "OTHER" \/ expected[c] # value) /\ Goto(c, "read", "idle")
  /\ UNCHANGED <<value, status, expected, seen, known, issued, counters>>

\* A no-op is recorded only for an action that was never dispatched.
NoOp(c) ==
  /\ Goto(c, "noop", "idle")
  /\ issued' = IF NoOpAdmissible THEN issued \union {"NO_OP"} ELSE issued
  /\ UNCHANGED <<value, status, expected, seen, known, counters>>

\* Intent is recorded unless the record was there at lookup.  Somebody else's
\* record since then is a DuplicateActionError; one that comes after this check
\* goes unnoticed.
PlanCheck(c) ==
  /\ \/ known[c] /\ Goto(c, "plan", "attempt") /\ UNCHANGED races
     \/ ~known[c] /\ status = "ABSENT" /\ Enter(c, "plan", "planning")
     \/ ~known[c] /\ status # "ABSENT" /\ Goto(c, "plan", "idle") /\ UNCHANGED races
  /\ UNCHANGED <<value, status, expected, seen, known, issued, writes, started, drifts, drifted>>

\* The record is created, over whatever is there by now.
PlanSet(c) ==
  /\ Goto(c, "planning", "attempt")
  /\ status' = "PLANNED"
  /\ UNCHANGED <<value, expected, seen, known, issued, counters>>

\* MUTANT: the write goes out with only the intent recorded.
MarkNothing(c) ==
  /\ Goto(c, "attempt", "apply")
  /\ UNCHANGED <<value, status, expected, seen, known, issued, counters>>
MarkAttempted(c) ==
  /\ Goto(c, "attempt", "apply")
  /\ status' = "ATTEMPTED"
  /\ UNCHANGED <<value, expected, seen, known, issued, counters>>

\* MUTANT: the write is not conditional on the value it replaces.
CompareNothing(c) ==
  /\ Enter(c, "apply", "writing")
  /\ UNCHANGED <<value, status, expected, seen, known, issued, writes, started, drifts, drifted>>
\* The repository holds the value the change replaces: the write goes on.
CompareHolds(c) ==
  /\ value = "BEFORE"
  /\ Enter(c, "apply", "writing")
  /\ UNCHANGED <<value, status, expected, seen, known, issued, writes, started, drifts, drifted>>

\* Drift found by the comparison, or a failure before any effect.
CompareFails(c) ==
  /\ value # "BEFORE" \/ WriteFaults \intersect {"FAILED", "UNCERTAIN_LOST"} # {}
  /\ Goto(c, "apply", "fail")
  /\ UNCHANGED <<value, status, expected, seen, known, issued, counters>>

\* The artifact is replaced, whatever it holds by now, and the caller learns of
\* it or not.
WriteLands(c) ==
  /\ \/ Goto(c, "writing", "complete")
     \/ "UNCERTAIN_LANDED" \in WriteFaults /\ Goto(c, "writing", "fail")
  /\ value' = "AFTER"
  /\ writes' = writes + 1
  /\ UNCHANGED <<status, expected, seen, known, issued, races, started, drifts, drifted>>

\* A caller that was not alone in the window may find its snapshot reference
\* taken.
WriteCollides(c) ==
  /\ "writing" \in races
  /\ Goto(c, "writing", "fail")
  /\ UNCHANGED <<value, status, expected, seen, known, issued, counters>>

MarkCompleted(c) ==
  /\ Goto(c, "complete", "idle")
  /\ status' = "COMPLETED"
  /\ issued' = issued \union {"MUTATED"}
  /\ UNCHANGED <<value, expected, seen, known, counters>>

\* Whatever the ledger says by now.
MarkFailedOrUncertain(c) ==
  /\ Goto(c, "fail", "idle")
  /\ status' = "FAILED_OR_UNCERTAIN"
  /\ UNCHANGED <<value, expected, seen, known, issued, counters>>

\* Reconciliation reads the artifact first.
ReconcileRead(c) ==
  /\ Goto(c, "reconcile_read", "reconcile")
  /\ seen' = [seen EXCEPT ![c] = value]
  /\ UNCHANGED <<value, status, expected, known, issued, counters>>

\* MUTANT: an artifact not in the before-state counts as the intended one.
ReconcileLoosely(c) ==
  /\ \/ status = "COMPLETED" /\ Goto(c, "reconcile", "idle")
     \/ status # "COMPLETED" /\ seen[c] # "BEFORE" /\ Goto(c, "reconcile", "complete_reconciled")
     \/ status # "COMPLETED" /\ seen[c] = "BEFORE" /\ Goto(c, "reconcile", "fail")
  /\ UNCHANGED <<value, status, expected, seen, known, issued, counters>>
\* What was read is compared with the record's intent: the action must be on
\* record as dispatched and not completed, and the target in the intended state.
ReconcileMutation(c) ==
  /\ \/ status = "COMPLETED" /\ Goto(c, "reconcile", "idle")
     \/ /\ status \in {"ATTEMPTED", "FAILED_OR_UNCERTAIN"} /\ seen[c] = "AFTER"
        /\ Goto(c, "reconcile", "complete_reconciled")
     \/ /\ status # "COMPLETED" /\ (status \in {"ABSENT", "PLANNED"} \/ seen[c] # "AFTER")
        /\ Goto(c, "reconcile", "fail")
  /\ UNCHANGED <<value, status, expected, seen, known, issued, counters>>

MarkReconciled(c) ==
  /\ Goto(c, "complete_reconciled", "idle")
  /\ status' = "COMPLETED"
  /\ issued' = issued \union {"RECONCILED_MUTATION"}
  /\ UNCHANGED <<value, expected, seen, known, counters>>

\* A caller dies between two steps, or an exception the tool does not handle
\* (an unreadable repository) ends its call.
Crash(c) ==
  /\ MayCrash
  /\ step[c] # "idle"
  /\ step' = [step EXCEPT ![c] = "idle"]
  /\ UNCHANGED <<value, status, expected, seen, known, issued, counters>>

\* Another writer changes the artifact.
Drift ==
  /\ drifts < MaxDrifts
  /\ drifts' = drifts + 1
  /\ value' \in DriftValues \ {value}
  /\ drifted' = drifted \union {value'}
  /\ UNCHANGED <<status, step, expected, seen, known, issued, writes, races, started>>

ToolStep(c) ==
  \/ Request(c)
  \/ Decide(c)
  \/ ReadArtifact(c)
  \/ NoOp(c)
  \/ PlanCheck(c)
  \/ PlanSet(c)
  \/ MarkAttempted(c)
  \/ CompareHolds(c)
  \/ CompareFails(c)
  \/ WriteLands(c)
  \/ WriteCollides(c)
  \/ MarkCompleted(c)
  \/ MarkFailedOrUncertain(c)
  \/ ReconcileRead(c)
  \/ ReconcileMutation(c)
  \/ MarkReconciled(c)
  \/ Crash(c)

Next ==
  \/ \E c \in Callers : ToolStep(c)
  \/ Drift

Spec == Init /\ [][Next]_vars

-----------------------------------------------------------------------------
(***************************************************************************)
(* Properties                                                              *)
(***************************************************************************)

\* Every variable holds a value of its kind.
TypeOK ==
  /\ value \in Values
  /\ status \in ActionStatus
  /\ step \in [Callers -> Steps]
  /\ expected \in [Callers -> Values]
  /\ seen \in [Callers -> Values]
  /\ known \in [Callers -> BOOLEAN]
  /\ issued \subseteq {"MUTATED", "RECONCILED_MUTATION", "NO_OP"}
  /\ writes \in Nat /\ started \in Nat /\ drifts \in Nat
  /\ drifted \subseteq Values
  /\ races \subseteq Windows

\* The action changes the artifact at most once, however many callers run it,
\* die in it, overwrite its record and run it again, unless two of them were
\* between the repository's comparison and its assignment together, or somebody
\* else restored the replaced value.  (The tool's docstring promises it without
\* the conditions; without a lock the code keeps it only with them.)
AtMostOneWrite == "writing" \notin races /\ "BEFORE" \notin drifted => writes <= 1

\* Evidence of a mutation, reconciled or not, is only ever given for a write this
\* action made, unless somebody else set the approved value (reconcile_mutation,
\* condition 3).
EvidenceOfOwnWrite ==
  issued \intersect {"MUTATED", "RECONCILED_MUTATION"} # {} => writes > 0 \/ "AFTER" \in drifted

\* An effect is never ahead of the ledger: whoever dies after the write leaves a
\* record that sends the next call to reconciliation instead of a second write,
\* unless two callers were creating the record together.
EffectIsRecorded == writes > 0 /\ "planning" \notin races => WasEverDispatched

-----------------------------------------------------------------------------
(***************************************************************************)
(* Refinement: the promise of AtMostOnceEffect.                            *)
(***************************************************************************)
Effect == INSTANCE AtMostOnceEffect WITH
  dispatched <- WasEverDispatched,
  effects <- writes,
  interference <- drifted,
  claims <- issued

\* Every write is an effect that the promise allows at that moment: recorded
\* first, the first of its kind, and claimed after it, with the exceptions
\* AtMostOnceEffect names.
ImplementsAtMostOnce == Effect!EffectSpec

=============================================================================
