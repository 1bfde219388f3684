----------------------- MODULE ArtifactMutationProofs -----------------------
(***************************************************************************)
(* Proofs about ArtifactMutation, for any number of concurrent callers,    *)
(* every fault, any number of calls and whatever other writers set.        *)
(***************************************************************************)
EXTENDS ArtifactMutation, FiniteSetTheorems, TLAPS

\* The initial state is well typed.
LEMMA InitTypeOK == Init => TypeOK
  BY DEF Init, TypeOK, Values, ActionStatus, Steps

\* Every step of a caller, and every drift, keeps the variables in their kinds.
LEMMA NextTypeOK ==
  ASSUME TypeOK, [Next]_vars
  PROVE  TypeOK'
<1> USE MutationAssumption DEF TypeOK, Goto, counters
<1>1. ASSUME NEW c \in Callers, ToolStep(c)
      PROVE  TypeOK'
  <2>1. CASE Request(c)
    BY <2>1 DEF Request, Steps
  <2>2. CASE Decide(c)
    BY <2>2 DEF Decide, Steps
  <2>3. CASE ReadArtifact(c)
    BY <2>3 DEF ReadArtifact, Steps
  <2>4. CASE NoOp(c)
    BY <2>4 DEF NoOp, Steps
  <2>5. CASE PlanCheck(c) \/ PlanSet(c)
    BY <2>5 DEF PlanCheck, PlanSet, Enter, Steps, Windows, ActionStatus
  <2>6. CASE MarkAttempted(c)
    BY <2>6 DEF MarkAttempted, Steps, ActionStatus
  <2>7. CASE CompareHolds(c) \/ CompareFails(c) \/ WriteCollides(c)
    BY <2>7 DEF CompareHolds, CompareFails, WriteCollides, Enter, Steps, Windows
  <2>12. CASE WriteLands(c)
    <3>1. \E to \in {"complete", "fail"} : step' = [step EXCEPT ![c] = to]
      BY <2>12 DEF WriteLands
    <3>2. step' \in [Callers -> Steps]
      BY <3>1 DEF Steps
    <3>3. /\ value' \in Values /\ writes' \in Nat
          /\ UNCHANGED <<status, expected, seen, known, issued, races, started, drifts, drifted>>
      BY <2>12 DEF WriteLands, Values
    <3> QED
      BY <3>2, <3>3
  <2>8. CASE MarkCompleted(c) \/ MarkReconciled(c)
    BY <2>8 DEF MarkCompleted, MarkReconciled, Steps, ActionStatus
  <2>9. CASE MarkFailedOrUncertain(c)
    BY <2>9 DEF MarkFailedOrUncertain, Steps, ActionStatus
  <2>10. CASE ReconcileRead(c) \/ ReconcileMutation(c)
    BY <2>10 DEF ReconcileRead, ReconcileMutation, Steps
  <2>11. CASE Crash(c)
    BY <2>11 DEF Crash, Steps
  <2> QED
    BY <1>1, <2>1, <2>2, <2>3, <2>4, <2>5, <2>6, <2>7, <2>8, <2>9, <2>10, <2>11, <2>12 DEF ToolStep
<1>2. CASE Drift
  BY <1>2 DEF Drift
<1>3. CASE UNCHANGED vars
  BY <1>3 DEF vars
<1> QED
  BY <1>1, <1>2, <1>3 DEF Next

\* Every reachable state is well typed.
THEOREM TypeCorrect == Spec => []TypeOK
  BY InitTypeOK, NextTypeOK, PTL DEF Spec

-----------------------------------------------------------------------------
(***************************************************************************)
(* Callers who are in a window together have raced.                        *)
(***************************************************************************)
AloneInv ==
  /\ TypeOK
  /\ \A w \in Windows : w \notin races =>
       \A c, d \in Callers : step[c] = w /\ step[d] = w => c = d

\* Callers never leave the set of windows they have met in.
LEMMA RacesGrow ==
  ASSUME TypeOK, [Next]_vars
  PROVE  races \subseteq races'
BY DEF Next, vars, ToolStep, Request, Decide, ReadArtifact, NoOp, PlanCheck, PlanSet, MarkAttempted,
   CompareHolds, CompareFails, WriteLands, WriteCollides, MarkCompleted, MarkFailedOrUncertain,
   ReconcileRead, ReconcileMutation, MarkReconciled, Crash, Drift, Enter, counters

\* A window is entered by Enter alone, which remembers who was in it.
LEMMA NextAloneInv ==
  ASSUME AloneInv, [Next]_vars
  PROVE  AloneInv'
<1> USE DEF AloneInv
<1>t. TypeOK' /\ races \subseteq races'
  BY NextTypeOK, RacesGrow
<1>k. ASSUME \A c \in Callers : step'[c] = step[c] \/ step'[c] \notin Windows
      PROVE  AloneInv'
  BY <1>t, <1>k
<1>e. ASSUME NEW c \in Callers, NEW from \in Steps, NEW w \in Windows, Enter(c, from, w)
      PROVE  AloneInv'
  <2>1. /\ step' = [step EXCEPT ![c] = w]
        /\ (\E d \in Callers \ {c} : step[d] = w) => w \in races'
    BY <1>e DEF Enter, Goto
  <2>2. \A d \in Callers \ {c} : step'[d] = step[d]
    BY <2>1 DEF TypeOK
  <2> QED
    BY <2>1, <2>2, <1>t DEF TypeOK
<1>1. ASSUME NEW c \in Callers, ToolStep(c)
      PROVE  AloneInv'
  <2>1. CASE \E from \in Steps, w \in Windows : Enter(c, from, w)
    BY <2>1, <1>e
  <2>2. CASE ~\E from \in Steps, w \in Windows : Enter(c, from, w)
    <3>1. ~CompareHolds(c)
      BY <2>2 DEF CompareHolds, Steps, Windows
    <3>2. \E to \in Steps \ Windows : step' = [step EXCEPT ![c] = to]
      <4>1. CASE PlanCheck(c)
        BY <4>1, <2>2 DEF PlanCheck, Goto, Steps, Windows
      <4>2. CASE WriteLands(c)
        BY <4>2 DEF WriteLands, Goto, Steps, Windows
      <4>3. CASE Decide(c) \/ ReadArtifact(c) \/ NoOp(c) \/ Request(c) \/ Crash(c)
        BY <4>3 DEF Decide, ReadArtifact, NoOp, Request, Crash, Goto, Steps, Windows
      <4>4. CASE PlanSet(c) \/ MarkAttempted(c) \/ CompareFails(c) \/ WriteCollides(c)
        BY <4>4 DEF PlanSet, MarkAttempted, CompareFails, WriteCollides, Goto, Steps, Windows
      <4>5. CASE MarkCompleted(c) \/ MarkFailedOrUncertain(c) \/ ReconcileRead(c)
                   \/ ReconcileMutation(c) \/ MarkReconciled(c)
        BY <4>5 DEF MarkCompleted, MarkFailedOrUncertain, ReconcileRead, ReconcileMutation,
           MarkReconciled, Goto, Steps, Windows
      <4> QED
        BY <1>1, <3>1, <4>1, <4>2, <4>3, <4>4, <4>5 DEF ToolStep
    <3> QED
      BY <3>2, <1>k DEF TypeOK
  <2> QED
    BY <2>1, <2>2
<1>2. CASE Drift \/ UNCHANGED vars
  BY <1>2, <1>k DEF Drift, vars
<1> QED
  BY <1>1, <1>2 DEF Next

\* At first nobody is in a window.
LEMMA InitAloneInv == Init => AloneInv
<1> SUFFICES ASSUME Init PROVE AloneInv
  OBVIOUS
<1>1. \A c \in Callers : step[c] = "idle"
  BY DEF Init
<1> QED
  BY <1>1, InitTypeOK DEF AloneInv, Windows

-----------------------------------------------------------------------------
(***************************************************************************)
(* The ledger is not behind the repository, whatever other writers do,     *)
(* until two callers create the record together.                           *)
(***************************************************************************)

\* Past MarkAttempted, or in reconciliation, a caller relies on the action being
\* on record as dispatched.
Committed == {"apply", "writing", "complete", "fail", "reconcile_read", "reconcile",
              "complete_reconciled"}

\* Once created, the record is never absent again.
CreatedInv ==
  \A c \in Callers : known[c] \/ step[c] \in {"attempt"} \union Committed => status # "ABSENT"

DispatchedInv ==
  /\ \A c \in Callers : step[c] = "planning" => status = "ABSENT"
  /\ \A c \in Callers : step[c] \in Committed => WasEverDispatched
  /\ writes > 0 => WasEverDispatched

RecordInv ==
  /\ AloneInv
  /\ CreatedInv
  /\ "planning" \notin races => DispatchedInv

\* Nothing is written or in flight at first.
LEMMA InitRecordInv == Init => RecordInv
<1> SUFFICES ASSUME Init PROVE RecordInv
  OBVIOUS
<1>1. writes = 0 /\ \A c \in Callers : step[c] = "idle" /\ known[c] = FALSE
  BY DEF Init
<1> QED
  BY <1>1, InitAloneInv DEF RecordInv, CreatedInv, DispatchedInv, Committed

\* Every step keeps the record created, and effects and committed callers behind
\* a dispatched one.
LEMMA NextRecordInv ==
  ASSUME RecordInv, [Next]_vars
  PROVE  /\ RecordInv'
         /\ "planning" \notin races' /\ WasEverDispatched => WasEverDispatched'
<1> DEFINE Goal == /\ RecordInv'
                   /\ "planning" \notin races' /\ WasEverDispatched => WasEverDispatched'
<1> USE DEF RecordInv
<1>0. TypeOK
  BY DEF AloneInv
<1>t. AloneInv' /\ races \subseteq races'
  BY <1>0, NextAloneInv, RacesGrow
<1>k. \* A step that leaves the record and the effect, and moves callers by the rules.
      ASSUME UNCHANGED <<status, writes>>,
             \A c \in Callers : known'[c] => known[c] \/ status # "ABSENT",
             \A c \in Callers : step'[c] \in {"attempt"} \union Committed => status # "ABSENT",
             "planning" \notin races =>
               \A c \in Callers : /\ step'[c] = "planning" => status = "ABSENT"
                                  /\ step'[c] \in Committed => WasEverDispatched
      PROVE  Goal
  <2>1. CreatedInv'
    BY <1>k DEF CreatedInv
  <2>2. "planning" \notin races' => DispatchedInv'
    BY <1>t, <1>k DEF DispatchedInv, WasEverDispatched
  <2> QED
    BY <1>t, <1>k, <2>1, <2>2 DEF WasEverDispatched
<1>d. \* A caller past the record's creation records the action as dispatched.
      ASSUME NEW c \in Callers, step[c] \in {"attempt"} \union Committed,
             status' \in {"ATTEMPTED", "COMPLETED", "FAILED_OR_UNCERTAIN"},
             UNCHANGED <<known, writes>>,
             \E to \in Steps \ {"planning"} : step' = [step EXCEPT ![c] = to]
      PROVE  Goal
  <2>1. CreatedInv' /\ WasEverDispatched'
    BY <1>d DEF CreatedInv, WasEverDispatched
  <2>2. \A e \in Callers : step'[e] = "planning" => step[e] = "planning"
    BY <1>d, <1>0 DEF TypeOK
  <2>3. status # "ABSENT"
    BY <1>d DEF CreatedInv
  <2>4. "planning" \notin races => \A e \in Callers : step[e] # "planning"
    BY <2>3 DEF DispatchedInv
  <2>5. "planning" \notin races' => DispatchedInv'
    BY <1>t, <2>1, <2>2, <2>4 DEF DispatchedInv
  <2> QED
    BY <1>t, <2>1, <2>5
<1>1. ASSUME NEW c \in Callers, ToolStep(c)
      PROVE  Goal
  <2>1. CASE Request(c) \/ ReadArtifact(c) \/ NoOp(c) \/ Crash(c)
    <3>1. /\ UNCHANGED <<status, writes, known>>
          /\ \E to \in {"idle", "decide", "read", "noop", "plan"} : step' = [step EXCEPT ![c] = to]
      BY <2>1 DEF Request, ReadArtifact, NoOp, Crash, Goto, counters
    <3>2. \A e \in Callers : step'[e] = step[e] \/ step'[e] \in {"idle", "decide", "read", "noop", "plan"}
      BY <3>1, <1>0 DEF TypeOK
    <3> QED
      BY <3>1, <3>2, <1>k DEF CreatedInv, DispatchedInv, Committed
  <2>2. CASE Decide(c)
    <3>1. /\ UNCHANGED <<status, writes>> /\ known' = [known EXCEPT ![c] = status # "ABSENT"]
          /\ \/ \E to \in {"read", "idle"} : step' = [step EXCEPT ![c] = to]
             \/ WasEverDispatched /\ step' = [step EXCEPT ![c] = "reconcile_read"]
      BY <2>2 DEF Decide, Goto, counters, DecideRetry, WasEverDispatched
    <3>2. \A e \in Callers : \/ step'[e] = step[e] \/ step'[e] \in {"idle", "read"}
                             \/ WasEverDispatched /\ step'[e] = "reconcile_read"
      BY <3>1, <1>0 DEF TypeOK
    <3>3. \A e \in Callers : known'[e] => known[e] \/ status # "ABSENT"
      BY <3>1, <1>0 DEF TypeOK
    <3>4. WasEverDispatched => status # "ABSENT"
      BY DEF WasEverDispatched
    <3> QED
      BY <3>1, <3>2, <3>3, <3>4, <1>k DEF CreatedInv, DispatchedInv, Committed
  <2>3. CASE PlanCheck(c)
    <3>1. /\ UNCHANGED <<status, writes, known>>
          /\ \/ known[c] /\ step' = [step EXCEPT ![c] = "attempt"]
             \/ status = "ABSENT" /\ step' = [step EXCEPT ![c] = "planning"]
             \/ step' = [step EXCEPT ![c] = "idle"]
      BY <2>3 DEF PlanCheck, Enter, Goto
    <3>2. \A e \in Callers : \/ step'[e] = step[e] \/ step'[e] = "idle"
                             \/ known[e] /\ step'[e] = "attempt"
                             \/ status = "ABSENT" /\ step'[e] = "planning"
      BY <3>1, <1>0 DEF TypeOK
    <3> QED
      BY <3>1, <3>2, <1>k DEF CreatedInv, DispatchedInv, Committed
  <2>4. CASE PlanSet(c)
    <3>1. /\ UNCHANGED <<writes, known, races>> /\ status' = "PLANNED"
          /\ step[c] = "planning" /\ step' = [step EXCEPT ![c] = "attempt"]
      BY <2>4 DEF PlanSet, Goto, counters
    <3>2. CreatedInv'
      BY <3>1 DEF CreatedInv
    <3>3. CASE "planning" \in races
      BY <1>t, <3>1, <3>2, <3>3
    <3>4. CASE "planning" \notin races
      <4>1. status = "ABSENT" /\ ~WasEverDispatched
        BY <3>1, <3>4 DEF DispatchedInv, WasEverDispatched
      <4>2. \A e \in Callers : step[e] \notin Committed
        BY <3>4, <4>1 DEF DispatchedInv
      <4>3. ~(writes > 0)
        BY <3>4, <4>1 DEF DispatchedInv
      <4>4. \A e \in Callers : step'[e] \notin Committed
        BY <3>1, <4>2, <1>0 DEF TypeOK, Committed
      <4>5. \A e \in Callers : step'[e] # "planning"
        BY <3>1, <3>4, <1>0 DEF TypeOK, AloneInv, Windows
      <4> QED
        BY <1>t, <3>1, <3>2, <4>1, <4>3, <4>4, <4>5 DEF DispatchedInv
    <3> QED
      BY <3>3, <3>4
  <2>5. CASE MarkAttempted(c) \/ MarkCompleted(c) \/ MarkFailedOrUncertain(c) \/ MarkReconciled(c)
    <3>1. /\ step[c] \in {"attempt"} \union Committed
          /\ status' \in {"ATTEMPTED", "COMPLETED", "FAILED_OR_UNCERTAIN"}
          /\ UNCHANGED <<known, writes>>
          /\ \E to \in {"apply", "idle"} : step' = [step EXCEPT ![c] = to]
      BY <2>5 DEF MarkAttempted, MarkCompleted, MarkFailedOrUncertain, MarkReconciled, Goto,
         Committed, counters
    <3> QED
      BY <3>1, <1>d DEF Steps
  <2>6. CASE CompareHolds(c) \/ CompareFails(c) \/ WriteCollides(c) \/ ReconcileRead(c)
               \/ ReconcileMutation(c)
    <3>1. /\ UNCHANGED <<status, writes, known>> /\ step[c] \in Committed
          /\ \E to \in {"writing", "fail", "reconcile", "idle", "complete_reconciled"} :
               step' = [step EXCEPT ![c] = to]
      BY <2>6 DEF CompareHolds, CompareFails, WriteCollides, ReconcileRead, ReconcileMutation,
         Enter, Goto, Committed, counters
    <3>2. \A e \in Callers :
            \/ step'[e] = step[e]
            \/ step'[e] \in {"writing", "fail", "reconcile", "idle", "complete_reconciled"}
      BY <3>1, <1>0 DEF TypeOK
    <3>3. status # "ABSENT" /\ ("planning" \notin races => WasEverDispatched)
      BY <3>1 DEF CreatedInv, DispatchedInv
    <3> QED
      BY <3>1, <3>2, <3>3, <1>k DEF CreatedInv, DispatchedInv, Committed
  <2>7. CASE WriteLands(c)
    <3>1. /\ UNCHANGED <<status, known>> /\ step[c] = "writing"
          /\ \E to \in {"complete", "fail"} : step' = [step EXCEPT ![c] = to]
      BY <2>7 DEF WriteLands, Goto
    <3>2. \A e \in Callers : step'[e] = step[e] \/ step'[e] \in {"complete", "fail"}
      BY <3>1, <1>0 DEF TypeOK
    <3>3. status # "ABSENT" /\ ("planning" \notin races => WasEverDispatched)
      BY <3>1 DEF CreatedInv, DispatchedInv, Committed
    <3>4. CreatedInv'
      BY <3>1, <3>2, <3>3 DEF CreatedInv
    <3>5. "planning" \notin races' => DispatchedInv'
      BY <1>t, <3>1, <3>2, <3>3 DEF DispatchedInv, WasEverDispatched
    <3> QED
      BY <1>t, <3>1, <3>4, <3>5 DEF WasEverDispatched
  <2> QED
    BY <1>1, <2>1, <2>2, <2>3, <2>4, <2>5, <2>6, <2>7 DEF ToolStep
<1>2. CASE Drift \/ UNCHANGED vars
  BY <1>2, <1>k DEF Drift, vars, CreatedInv, DispatchedInv
<1> QED
  BY <1>1, <1>2 DEF Next

\* An effect is never ahead of the ledger.
THEOREM EffectOnRecord == Spec => []EffectIsRecorded
<1>1. RecordInv => EffectIsRecorded
  BY DEF RecordInv, DispatchedInv, EffectIsRecorded
<1> QED
  BY <1>1, InitRecordInv, NextRecordInv, PTL DEF Spec

-----------------------------------------------------------------------------
(***************************************************************************)
(* The effect happens at most once, until two callers are between the      *)
(* comparison and the assignment together, or another writer restores the  *)
(* value the change replaces.                                              *)
(***************************************************************************)
Undisturbed == "writing" \notin races /\ "BEFORE" \notin drifted

OnceInv ==
  /\ AloneInv
  /\ AtMostOneWrite
  /\ Undisturbed =>
       /\ writes > 0 => value # "BEFORE"
       /\ \A c \in Callers : step[c] = "writing" => writes = 0

\* While nobody restores the replaced value and writers come one at a time, a
\* write is only possible once.
LEMMA NextOnceInv ==
  ASSUME OnceInv, [Next]_vars
  PROVE  OnceInv'
<1> USE DEF OnceInv, AtMostOneWrite, Undisturbed
<1>0. TypeOK
  BY DEF AloneInv
<1>t. AloneInv' /\ races \subseteq races'
  BY <1>0, NextAloneInv, RacesGrow
<1>1. ASSUME NEW c \in Callers, WriteLands(c)
      PROVE  OnceInv'
  <2>1. /\ step[c] = "writing" /\ value' = "AFTER" /\ writes' = writes + 1
        /\ UNCHANGED <<races, drifted>>
        /\ \E to \in {"complete", "fail"} : step' = [step EXCEPT ![c] = to]
    BY <1>1 DEF WriteLands, Goto
  <2>2. CASE Undisturbed
    <3>1. writes' = 1
      BY <2>1, <2>2
    <3>2. \A d \in Callers : step'[d] # "writing"
      BY <2>1, <2>2, <1>0 DEF AloneInv, Windows, TypeOK
    <3> QED
      BY <1>t, <2>1, <3>1, <3>2
  <2>3. CASE ~Undisturbed
    BY <1>t, <2>1, <2>3
  <2> QED
    BY <2>2, <2>3
<1>2. ASSUME NEW c \in Callers, CompareHolds(c)
      PROVE  OnceInv'
  <2>1. /\ value = "BEFORE" /\ UNCHANGED <<value, writes, drifted>>
        /\ step' = [step EXCEPT ![c] = "writing"]
    BY <1>2 DEF CompareHolds, Enter, Goto
  <2>2. Undisturbed => writes = 0
    BY <2>1, <1>0 DEF TypeOK
  <2> QED
    BY <1>t, <2>1, <2>2
<1>3. CASE Drift
  BY <1>3, <1>t DEF Drift
<1>4. ASSUME UNCHANGED <<value, writes, drifted>>,
             \A d \in Callers : step'[d] = "writing" => step[d] = "writing"
      PROVE  OnceInv'
  BY <1>4, <1>t
<1>5. ASSUME NEW c \in Callers, ToolStep(c), ~WriteLands(c), ~CompareHolds(c)
      PROVE  OnceInv'
  <2>1. UNCHANGED <<value, writes, drifted>>
    BY <1>5 DEF ToolStep, Request, Decide, ReadArtifact, NoOp, PlanCheck, PlanSet, MarkAttempted,
         CompareFails, WriteCollides, MarkCompleted, MarkFailedOrUncertain, ReconcileRead,
         ReconcileMutation, MarkReconciled, Crash, counters
  <2>2. \E to \in Steps \ {"writing"} : step' = [step EXCEPT ![c] = to]
    <3>1. CASE PlanCheck(c) \/ PlanSet(c) \/ MarkAttempted(c) \/ CompareFails(c) \/ WriteCollides(c)
      BY <3>1 DEF PlanCheck, PlanSet, MarkAttempted, CompareFails, WriteCollides, Enter, Goto, Steps
    <3>2. CASE Decide(c) \/ ReadArtifact(c) \/ NoOp(c) \/ Request(c) \/ Crash(c)
      BY <3>2 DEF Decide, ReadArtifact, NoOp, Request, Crash, Goto, Steps
    <3>3. CASE MarkCompleted(c) \/ MarkFailedOrUncertain(c) \/ ReconcileRead(c)
                 \/ ReconcileMutation(c) \/ MarkReconciled(c)
      BY <3>3 DEF MarkCompleted, MarkFailedOrUncertain, ReconcileRead, ReconcileMutation,
         MarkReconciled, Goto, Steps
    <3> QED
      BY <1>5, <3>1, <3>2, <3>3 DEF ToolStep
  <2> QED
    BY <2>1, <2>2, <1>4, <1>0 DEF TypeOK
<1>6. CASE UNCHANGED vars
  BY <1>6, <1>4 DEF vars
<1> QED
  BY <1>1, <1>2, <1>3, <1>5, <1>6 DEF Next

\* No write and no writer at first.
LEMMA InitOnceInv == Init => OnceInv
<1> SUFFICES ASSUME Init PROVE OnceInv
  OBVIOUS
<1>1. writes = 0
  BY DEF Init
<1> QED
  BY <1>1, InitAloneInv DEF OnceInv, AtMostOneWrite

\* At most one write, for any callers, crashes, faults and retries, with the
\* repository's comparison and its assignment as separate steps.
THEOREM OneWrite == Spec => []AtMostOneWrite
<1>1. OnceInv /\ [Next]_vars => OnceInv'
  BY NextOnceInv
<1>2. OnceInv => AtMostOneWrite
  BY DEF OnceInv
<1> QED
  BY <1>1, <1>2, InitOnceInv, PTL DEF Spec

-----------------------------------------------------------------------------
(***************************************************************************)
(* Evidence of a mutation names a write of this action, until another      *)
(* writer sets the approved value.                                         *)
(***************************************************************************)
Achieved == writes > 0 \/ "AFTER" \in drifted

EvidenceInv ==
  /\ TypeOK
  /\ EvidenceOfOwnWrite
  /\ value = "AFTER" => Achieved
  /\ \A c \in Callers :
       step[c] \in {"complete", "complete_reconciled"} \/ seen[c] = "AFTER" => Achieved

\* While nobody else writes the approved value, seeing it proves an own write.
LEMMA NextEvidenceInv ==
  ASSUME EvidenceInv, [Next]_vars
  PROVE  EvidenceInv'
<1> USE DEF EvidenceInv, EvidenceOfOwnWrite, Achieved
<1>t. TypeOK'
  BY NextTypeOK
<1>1. CASE Achieved
  <2>1. writes' >= writes /\ drifted \subseteq drifted'
    BY <1>1 DEF Next, vars, ToolStep, Request, Decide, ReadArtifact, NoOp, PlanCheck, PlanSet,
         MarkAttempted, CompareHolds, CompareFails, WriteLands, WriteCollides, MarkCompleted,
         MarkFailedOrUncertain, ReconcileRead, ReconcileMutation, MarkReconciled, Crash, Drift,
         counters, TypeOK
  <2>2. Achieved'
    BY <1>1, <2>1, <1>t DEF TypeOK
  <2> QED
    BY <2>2, <1>t
<1>2. CASE ~Achieved
  <2>1. ASSUME NEW c \in Callers, ToolStep(c)
        PROVE  EvidenceInv'
    <3>1. CASE WriteLands(c)
      <4>1. Achieved'
        BY <3>1 DEF WriteLands, TypeOK
      <4> QED
        BY <4>1, <1>t
    <3>2. CASE MarkCompleted(c) \/ MarkReconciled(c)
      BY <3>2, <1>2 DEF MarkCompleted, MarkReconciled, Goto
    <3>3. CASE NoOp(c)
      <4>1. /\ UNCHANGED <<value, writes, seen, drifted>> /\ step' = [step EXCEPT ![c] = "idle"]
            /\ issued' \in {issued, issued \union {"NO_OP"}}
        BY <3>3 DEF NoOp, Goto, counters
      <4>2. \A d \in Callers : step'[d] = "idle" \/ step'[d] = step[d]
        BY <4>1 DEF TypeOK
      <4> QED
        BY <4>1, <4>2, <1>2, <1>t
    <3>4. CASE ReconcileRead(c) \/ ReconcileMutation(c)
      <4>1. UNCHANGED <<value, writes, issued, drifted>>
        BY <3>4 DEF ReconcileRead, ReconcileMutation, counters
      <4>2. \A d \in Callers : seen'[d] = seen[d] \/ seen'[d] = value
        BY <3>4 DEF ReconcileRead, ReconcileMutation, TypeOK
      <4>3. \A d \in Callers : step'[d] = step[d]
                                 \/ step'[d] \notin {"complete", "complete_reconciled"}
        <5>1. ~(seen[c] = "AFTER")
          BY <1>2
        <5>2. \E to \in Steps \ {"complete", "complete_reconciled"} : step' = [step EXCEPT ![c] = to]
          BY <3>4, <5>1 DEF ReconcileRead, ReconcileMutation, Goto, Steps
        <5> QED
          BY <5>2 DEF TypeOK
      <4> QED
        BY <4>1, <4>2, <4>3, <1>2, <1>t
    <3>5. CASE Request(c) \/ Decide(c) \/ ReadArtifact(c) \/ PlanCheck(c) \/ PlanSet(c)
                 \/ MarkAttempted(c) \/ CompareHolds(c) \/ CompareFails(c) \/ WriteCollides(c)
                 \/ MarkFailedOrUncertain(c) \/ Crash(c)
      <4>1. UNCHANGED <<value, writes, issued, seen, drifted>>
        BY <3>5 DEF Request, Decide, ReadArtifact, PlanCheck, PlanSet, MarkAttempted, CompareHolds,
             CompareFails, WriteCollides, MarkFailedOrUncertain, Crash, counters
      <4>2. \E to \in Steps \ {"complete", "complete_reconciled"} : step' = [step EXCEPT ![c] = to]
        BY <3>5 DEF Request, Decide, ReadArtifact, PlanCheck, PlanSet, MarkAttempted, CompareHolds,
             CompareFails, WriteCollides, MarkFailedOrUncertain, Crash, Enter, Goto, Steps
      <4>3. \A d \in Callers : step'[d] = step[d]
                                 \/ step'[d] \notin {"complete", "complete_reconciled"}
        BY <4>2 DEF TypeOK
      <4> QED
        BY <4>1, <4>3, <1>2, <1>t
    <3> QED
      BY <2>1, <3>1, <3>2, <3>3, <3>4, <3>5 DEF ToolStep
  <2>2. CASE Drift
    BY <2>2, <1>2, <1>t DEF Drift
  <2>3. CASE UNCHANGED vars
    BY <2>3, <1>t DEF vars
  <2> QED
    BY <2>1, <2>2, <2>3 DEF Next
<1> QED
  BY <1>1, <1>2

\* Mutation evidence, reconciled or not, is only ever given for an own write.
THEOREM EvidenceIsEarned == Spec => []EvidenceOfOwnWrite
<1>1. Init => EvidenceInv
  <2> SUFFICES ASSUME Init PROVE EvidenceInv
    OBVIOUS
  <2>1. /\ issued = {} /\ value = "BEFORE"
        /\ \A c \in Callers : step[c] = "idle" /\ seen[c] = "BEFORE"
    BY DEF Init
  <2> QED
    BY <2>1, InitTypeOK DEF EvidenceInv, EvidenceOfOwnWrite
<1>2. EvidenceInv /\ [Next]_vars => EvidenceInv'
  BY NextEvidenceInv
<1>3. EvidenceInv => EvidenceOfOwnWrite
  BY DEF EvidenceInv
<1> QED
  BY <1>1, <1>2, <1>3, PTL DEF Spec

-----------------------------------------------------------------------------
(***************************************************************************)
(* The tool implements AtMostOnceEffect.                                   *)
(***************************************************************************)
\* Every step of the tool is a step of AtMostOnceEffect or leaves it alone.
LEMMA EffectStep ==
  ASSUME RecordInv, OnceInv, EvidenceInv, [Next]_vars
  PROVE  [Effect!EffectNext]_Effect!effectVars
<1> USE DEF Effect!EffectNext, Effect!effectVars
<1>s. \* A step that shows nothing.
      ASSUME UNCHANGED <<writes, races, issued, drifted>>, WasEverDispatched' = WasEverDispatched
      PROVE  UNCHANGED Effect!effectVars
  BY <1>s
<1>e. \* A step that enters a window.
      ASSUME NEW c \in Callers, NEW from \in Steps, NEW w \in Windows, Enter(c, from, w),
             UNCHANGED <<writes, issued, drifted>>, WasEverDispatched' = WasEverDispatched
      PROVE  [Effect!EffectNext]_Effect!effectVars
  <2>1. races' = races \/ races' = races \union {w}
    BY <1>e DEF Enter
  <2> QED
    BY <1>e, <1>s, <2>1 DEF Effect!Race, Windows
<1>1. ASSUME NEW c \in Callers, ToolStep(c)
      PROVE  [Effect!EffectNext]_Effect!effectVars
  <2>1. CASE Request(c) \/ Decide(c) \/ ReadArtifact(c) \/ CompareFails(c) \/ WriteCollides(c)
               \/ ReconcileRead(c) \/ ReconcileMutation(c) \/ Crash(c)
    <3>1. UNCHANGED <<status, writes, races, issued, drifted>>
      BY <2>1 DEF Request, Decide, ReadArtifact, CompareFails, WriteCollides, ReconcileRead,
           ReconcileMutation, Crash, counters
    <3> QED
      BY <3>1, <1>s DEF WasEverDispatched
  <2>2. CASE NoOp(c)
    <3>1. UNCHANGED <<status, writes, races, drifted>>
          /\ issued' = IF ~WasEverDispatched THEN issued \union {"NO_OP"} ELSE issued
      BY <2>2 DEF NoOp, NoOpAdmissible, counters
    <3> QED
      BY <3>1 DEF Effect!ClaimNoOp, WasEverDispatched
  <2>3. CASE PlanCheck(c) \/ CompareHolds(c)
    <3>1. /\ UNCHANGED <<status, writes, issued, drifted>>
          /\ races' = races \/ \E from \in Steps, w \in Windows : Enter(c, from, w)
      BY <2>3 DEF PlanCheck, CompareHolds, Steps, Windows
    <3>2. WasEverDispatched' = WasEverDispatched
      BY <3>1 DEF WasEverDispatched
    <3> QED
      BY <3>1, <3>2, <1>s, <1>e
  <2>4. CASE PlanSet(c)
    <3>1. /\ UNCHANGED <<writes, races, issued, drifted>> /\ step[c] = "planning"
          /\ WasEverDispatched' = FALSE
      BY <2>4 DEF PlanSet, Goto, counters, WasEverDispatched
    <3>2. CASE "planning" \in races
      BY <3>1, <3>2 DEF Effect!Forget
    <3>3. CASE "planning" \notin races
      <4>1. WasEverDispatched = FALSE
        BY <3>1, <3>3 DEF RecordInv, DispatchedInv, WasEverDispatched
      <4> QED
        BY <3>1, <4>1, <1>s
    <3> QED
      BY <3>2, <3>3
  <2>5. CASE MarkAttempted(c) \/ MarkFailedOrUncertain(c)
    <3>1. UNCHANGED <<writes, races, issued, drifted>> /\ WasEverDispatched' = TRUE
      BY <2>5 DEF MarkAttempted, MarkFailedOrUncertain, counters, WasEverDispatched
    <3> QED
      BY <3>1 DEF Effect!Dispatch, WasEverDispatched
  <2>6. CASE WriteLands(c)
    <3>1. /\ UNCHANGED <<status, races, issued, drifted>> /\ writes' = writes + 1
          /\ step[c] = "writing"
      BY <2>6 DEF WriteLands, Goto
    <3>2. /\ WasEverDispatched \/ "planning" \in races
          /\ WasEverDispatched' = WasEverDispatched
      BY <3>1 DEF RecordInv, DispatchedInv, Committed, WasEverDispatched
    <3>3. writes = 0 \/ "writing" \in races \/ "BEFORE" \in drifted
      BY <3>1 DEF OnceInv, Undisturbed
    <3> QED
      BY <3>1, <3>2, <3>3 DEF Effect!TakeEffect
  <2>7. CASE MarkCompleted(c) \/ MarkReconciled(c)
    <3>1. /\ UNCHANGED <<writes, races, drifted>>
          /\ \E o \in {"MUTATED", "RECONCILED_MUTATION"} : issued' = issued \union {o}
          /\ WasEverDispatched' = TRUE
          /\ step[c] \in {"complete", "complete_reconciled"}
      BY <2>7 DEF MarkCompleted, MarkReconciled, Goto, counters, WasEverDispatched
    <3>2. /\ WasEverDispatched \/ "planning" \in races
          /\ writes > 0 \/ "AFTER" \in drifted
      BY <3>1 DEF RecordInv, DispatchedInv, EvidenceInv, Achieved, Committed
    <3> QED
      BY <3>1, <3>2 DEF Effect!ClaimMutation
  <2> QED
    BY <1>1, <2>1, <2>2, <2>3, <2>4, <2>5, <2>6, <2>7 DEF ToolStep
<1>2. CASE Drift
  <2>1. UNCHANGED <<status, writes, races, issued>> /\ drifted \subseteq drifted'
    BY <1>2 DEF Drift
  <2> QED
    BY <2>1 DEF Effect!Interfere, WasEverDispatched
<1>3. CASE UNCHANGED vars
  BY <1>3, <1>s DEF vars, WasEverDispatched
<1> QED
  BY <1>1, <1>2, <1>3 DEF Next

\* The detailed tool implements the promise, each write as an effect of its own.
THEOREM ToolImplementsAtMostOnce == Spec => ImplementsAtMostOnce
<1>1. Init => EvidenceInv /\ Effect!EffectInit
  <2> SUFFICES ASSUME Init PROVE EvidenceInv /\ Effect!EffectInit
    OBVIOUS
  <2>1. /\ issued = {} /\ value = "BEFORE" /\ writes = 0 /\ status = "ABSENT" /\ drifted = {}
        /\ races = {} /\ \A c \in Callers : step[c] = "idle" /\ seen[c] = "BEFORE"
    BY DEF Init
  <2> QED
    BY <2>1, InitTypeOK DEF EvidenceInv, EvidenceOfOwnWrite, Effect!EffectInit, WasEverDispatched
<1>2. RecordInv /\ OnceInv /\ EvidenceInv /\ [Next]_vars
        => RecordInv' /\ OnceInv' /\ EvidenceInv' /\ [Effect!EffectNext]_Effect!effectVars
  BY NextRecordInv, NextOnceInv, NextEvidenceInv, EffectStep
<1> QED
  BY <1>1, <1>2, InitRecordInv, InitOnceInv, PTL DEF Spec, ImplementsAtMostOnce, Effect!EffectSpec

=============================================================================
