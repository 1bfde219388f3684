----------------------- MODULE FrontlineDeliveryProofs -----------------------
(***************************************************************************)
(* Proofs about FrontlineDelivery: for any number of request threads, any  *)
(* faults and answers, and any other writers.                              *)
(***************************************************************************)
EXTENDS FrontlineDelivery, SequenceTheorems, TLAPS

\* What the threads share, without the claims and the steps they are at.
SharedOK ==
  /\ content \in Contents
  /\ action \in Actions
  /\ action.status # "ABSENT" => action.before # None
  /\ crossing \in {"ACCEPTED", "REJECTED", None}
  /\ validated \in {"ACCEPTED", "REJECTED", None}
  /\ accepted \in MutationClaims \union NoOpClaims \union {None}
  /\ delta \in Deltas \union {None}
  /\ receipts \in Seq(Receipts)
  /\ delivery \in [status : ActionStatus, receipt : 0..Len(receipts)]
  /\ view \in {"ESTABLISHED", "REJECTED", None}
  /\ delivered \in 0..Len(receipts)
  /\ acknowledged \in BOOLEAN
  /\ overlapped \in BOOLEAN
  /\ clock \in Nat /\ requests \in Nat /\ drifts \in Nat

Steps == Deploying \union
         {"idle", "decide", "reconcile", "resolve", "lookup", "intend", "intending",
          "mark", "dispatch", "cross3", "establish", "reject"}
ThreadsOK ==
  /\ pc \in [Threads -> Steps]
  /\ known \in [Threads -> BOOLEAN]
  /\ DOMAIN claim = Threads
  /\ \A t \in Threads : ClaimOK(t)

LEMMA TypeSplit == TypeOK <=> SharedOK /\ ThreadsOK
BY DEF TypeOK, SharedOK, ThreadsOK, Steps

LEMMA InitTypeOK == Init => TypeOK
<1> SUFFICES ASSUME Init PROVE TypeOK
  OBVIOUS
<1>1. receipts \in Seq(Receipts) /\ Len(receipts) = 0
  BY EmptySeq DEF Init
<1>2. ThreadsOK
  BY DEF Init, ThreadsOK, ClaimOK, Steps
<1>3. action \in Actions /\ content \in Contents
  BY DEF Init, Actions, ActionStatus, Contents, Values
<1>4. delivery \in [status : ActionStatus, receipt : 0..Len(receipts)]
  BY <1>1 DEF Init, ActionStatus
<1>5. delivered \in 0..Len(receipts)
  BY <1>1 DEF Init
<1>6. SharedOK
  BY <1>1, <1>3, <1>4, <1>5 DEF Init, SharedOK
<1> QED
  BY <1>2, <1>6, TypeSplit

\* What appending to a sequence leaves and adds.
LEMMA AppendFacts ==
  ASSUME NEW S, NEW s \in Seq(S), NEW e \in S
  PROVE  /\ Append(s, e) \in Seq(S)
         /\ Len(Append(s, e)) = Len(s) + 1
         /\ Append(s, e)[Len(s) + 1] = e
         /\ \A k \in 1..Len(s) : Append(s, e)[k] = s[k]
BY AppendProperties

\* A thread moves: the others' claims stay, and so do the receipts, the delta and
\* the record they refer to.
Moves(t) ==
  /\ pc'[t] \in Steps /\ pc' = [pc EXCEPT ![t] = pc'[t]]
  /\ DOMAIN claim' = Threads
  /\ \A u \in Threads : u # t => claim'[u] = claim[u]
  /\ known' \in [Threads -> BOOLEAN]
  /\ \A u \in Threads : u # t => known'[u] = known[u]
  /\ Len(receipts) <= Len(receipts')
  /\ delta # None => delta' # None
  /\ action.status # "ABSENT" => action'.status # "ABSENT"

LEMMA MoveKeepsClaims ==
  ASSUME ThreadsOK, SharedOK, SharedOK', NEW t \in Threads, Moves(t), ClaimOK(t)'
  PROVE  ThreadsOK'
<1>1. pc' \in [Threads -> Steps] /\ DOMAIN claim' = Threads /\ known' \in [Threads -> BOOLEAN]
  BY DEF ThreadsOK, Moves
<1>2. Len(receipts) \in Nat /\ Len(receipts') \in Nat
  BY LenProperties DEF SharedOK
<1>3. ASSUME NEW u \in Threads, u # t PROVE ClaimOK(u)'
  <2>1. ClaimOK(u) /\ pc'[u] = pc[u] /\ claim'[u] = claim[u] /\ known'[u] = known[u]
    BY <1>3 DEF ThreadsOK, Moves
  <2> QED
    BY <1>2, <2>1 DEF ClaimOK, Moves
<1> QED
  BY <1>1, <1>3 DEF ThreadsOK

\* Whatever moves no thread keeps the claims sound.
LEMMA StillKeepsClaims ==
  ASSUME ThreadsOK, UNCHANGED <<pc, claim, known, receipts, delta, action>>
  PROVE  ThreadsOK'
BY DEF ThreadsOK, ClaimOK

LEMMA SentTypes ==
  ASSUME SharedOK, delta # None, NEW status \in {"DELIVERED", "UNCERTAIN"}, Sent(status)
  PROVE  /\ receipts' \in Seq(Receipts)
         /\ Len(receipts') = Len(receipts) + 1
         /\ \A k \in 1..Len(receipts) : receipts'[k] = receipts[k]
         /\ receipts'[Len(receipts) + 1].status = status
<1> DEFINE r == [payload |-> delta.payload, status |-> status, issuedAt |-> clock]
<1>1. r \in Receipts
  BY DEF SharedOK, Receipts, Deltas
<1>2. receipts' = Append(receipts, r)
  BY DEF Sent
<1> QED
  BY <1>1, <1>2, AppendFacts DEF SharedOK

-----------------------------------------------------------------------------
(***************************************************************************)
(* Type correctness                                                        *)
(***************************************************************************)

\* What a step of the tool has to show: what it leaves behind is an artifact and
\* a record, and what its thread has in hand fits where it goes.
LEMMA ToolKeepsTypes ==
  ASSUME SharedOK, ThreadsOK, NEW t \in Threads,
         ToolUnchanged, content' \in Contents, overlapped' \in BOOLEAN,
         action' \in Actions, action'.status # "ABSENT" => action'.before # None,
         action.status # "ABSENT" => action'.status # "ABSENT",
         NEW to \in Steps, pc' = [pc EXCEPT ![t] = to],
         DOMAIN claim' = Threads, \A u \in Threads : u # t => claim'[u] = claim[u],
         NEW k \in BOOLEAN, known' = [known EXCEPT ![t] = k],
         ClaimOK(t)'
  PROVE  SharedOK' /\ ThreadsOK'
<1>1. SharedOK'
  BY DEF SharedOK, ToolUnchanged, session, bounds
<1>2. Len(receipts) \in Nat
  BY LenProperties DEF SharedOK
<1>3. Moves(t)
  BY <1>2 DEF Moves, ThreadsOK, ToolUnchanged, session
<1> QED
  BY <1>1, <1>3, MoveKeepsClaims

\* A step of the tool that leaves the record and what the service knows of it.
LEMMA ToolMoves ==
  ASSUME SharedOK, ThreadsOK, NEW t \in Threads,
         ToolUnchanged, content' \in Contents, overlapped' \in BOOLEAN,
         UNCHANGED <<action, known>>,
         NEW to \in Steps, pc' = [pc EXCEPT ![t] = to],
         DOMAIN claim' = Threads, \A u \in Threads : u # t => claim'[u] = claim[u],
         ClaimOK(t)'
  PROVE  SharedOK' /\ ThreadsOK'
<1>1. known[t] \in BOOLEAN /\ known' = [known EXCEPT ![t] = known[t]]
  BY DEF ThreadsOK
<1>2. /\ action' \in Actions /\ (action'.status # "ABSENT" => action'.before # None)
      /\ action.status # "ABSENT" => action'.status # "ABSENT"
  BY DEF SharedOK
<1> QED
  BY <1>1, <1>2, ToolKeepsTypes

\* The steps of the mutation tool keep the types.
LEMMA ToolTypes ==
  ASSUME SharedOK, ThreadsOK, NEW t \in Threads, ToolStep(t)
  PROVE  SharedOK' /\ ThreadsOK'
<1> USE DEF Goto, Hold
<1>0. /\ Len(receipts) \in Nat
      /\ ClaimOK(t) /\ pc[t] \in Steps /\ pc \in [Threads -> Steps]
      /\ content \in Contents /\ action \in Actions /\ overlapped \in BOOLEAN
      /\ action.status \in ActionStatus
      /\ action.status # "ABSENT" => action.before # None
      /\ known \in [Threads -> BOOLEAN] /\ DOMAIN claim = Threads
      /\ UNCHANGED receipts
  BY LenProperties DEF SharedOK, ThreadsOK, Actions, ToolStep, ToolUnchanged, ReplayCompleted,
     DecideToExecute, DecideToReconcile, Decide, ReadApproved, ReadExpected, ReadDrifted, NoOp,
     PlanCheck, PlanSet, MarkAttempted, CompareHolds, CompareFails, WriteLands, WriteCollides,
     MarkCompleted, MarkFailedOrUncertain, ReconcileRead, ReconcileMutation, MarkReconciled
<1>1. CASE ReplayCompleted(t)
  <2>1. ClaimOK(t)'
    BY <1>0, <1>1 DEF ReplayCompleted, ClaimOK, ToolUnchanged, session
  <2> QED
    BY <1>0, <1>1, <2>1, ToolMoves DEF ReplayCompleted, Steps
<1>2. CASE DecideToExecute(t)
  <2>1. ClaimOK(t)'
    BY <1>0, <1>2 DEF DecideToExecute, Decide, ClaimOK, ToolUnchanged, session
  <2>2. (action.status # "ABSENT") \in BOOLEAN /\ overlapped' \in BOOLEAN
    BY <1>0, <1>2 DEF DecideToExecute, Decide
  <2>3. "read" \in Steps /\ pc' = [pc EXCEPT ![t] = "read"] /\ claim' = claim
        /\ known' = [known EXCEPT ![t] = (action.status # "ABSENT")]
    BY <1>2 DEF DecideToExecute, Decide, Steps, Deploying
  <2>4. ToolUnchanged /\ content' \in Contents /\ action' = action
    BY <1>0, <1>2 DEF DecideToExecute, Decide
  <2> QED
    BY <1>0, <2>1, <2>2, <2>3, <2>4, ToolKeepsTypes
<1>3. CASE DecideToReconcile(t)
  <2>0. action.status # "ABSENT" /\ overlapped' \in BOOLEAN
    BY <1>0, <1>3 DEF DecideToReconcile, Decide, DecideRetry
  <2>1. ClaimOK(t)'
    BY <1>0, <1>3, <2>0 DEF DecideToReconcile, Decide, ClaimOK, ToolUnchanged, session
  <2> QED
    BY <1>0, <1>3, <2>0, <2>1, ToolMoves DEF DecideToReconcile, Decide, Steps, Deploying
<1>4. CASE ReadApproved(t)
  <2>1. [kind |-> "NO_OP", after |-> content] \in NoOpClaims
    BY <1>0 DEF NoOpClaims
  <2>2. ClaimOK(t)'
    BY <1>0, <1>4, <2>1 DEF ReadApproved, ClaimOK, ToolUnchanged, session
  <2> QED
    BY <1>0, <1>4, <2>2, ToolMoves DEF ReadApproved, Steps, Deploying
<1>5. CASE ReadExpected(t)
  <2>1. CASE known[t]
    <3>1. ClaimOK(t)'
      BY <1>0, <1>5, <2>1 DEF ReadExpected, ClaimOK, ToolUnchanged, session
    <3> QED
      BY <1>0, <1>5, <2>1, <3>1, ToolMoves DEF ReadExpected, Steps, Deploying
  <2>2. CASE ~known[t]
    <3>1. ClaimOK(t)'
      BY <1>0, <1>5, <2>2 DEF ReadExpected, ClaimOK, ToolUnchanged, session
    <3> QED
      BY <1>0, <1>5, <2>2, <3>1, ToolMoves DEF ReadExpected, Steps, Deploying
  <2> QED
    BY <2>1, <2>2
<1>6. CASE ReadDrifted(t)
  <2>1. ClaimOK(t)'
    BY <1>0, <1>6 DEF ReadDrifted, ClaimOK, ToolUnchanged, session
  <2> QED
    BY <1>0, <1>6, <2>1, ToolMoves DEF ReadDrifted, Steps
<1>7. CASE NoOp(t)
  <2>1. CASE DecideRetry(action.status) = "SAFE_TO_EXECUTE"
    <3>1. ClaimOK(t)'
      BY <1>0, <1>7, <2>1 DEF NoOp, ClaimOK, ToolUnchanged, session
    <3> QED
      BY <1>0, <1>7, <2>1, <3>1, ToolMoves DEF NoOp, Steps, Deploying
  <2>2. CASE DecideRetry(action.status) # "SAFE_TO_EXECUTE"
    <3>1. ClaimOK(t)'
      BY <1>0, <1>7, <2>2 DEF NoOp, ClaimOK, ToolUnchanged, session
    <3> QED
      BY <1>0, <1>7, <2>2, <3>1, ToolMoves DEF NoOp, Steps
  <2> QED
    BY <2>1, <2>2
<1>8. CASE PlanCheck(t)
  <2>1. CASE action.status = "ABSENT" /\ Goto(t, "plan", "planning") /\ UNCHANGED claim
    <3>1. ClaimOK(t)'
      BY <1>0, <1>8, <2>1 DEF PlanCheck, ClaimOK, ToolUnchanged, session
    <3> QED
      BY <1>0, <1>8, <2>1, <3>1, ToolMoves DEF PlanCheck, Steps, Deploying
  <2>2. CASE Goto(t, "plan", "idle") /\ Hold(t, None)
    <3>1. ClaimOK(t)'
      BY <1>0, <1>8, <2>2 DEF PlanCheck, ClaimOK, ToolUnchanged, session
    <3> QED
      BY <1>0, <1>8, <2>2, <3>1, ToolMoves DEF PlanCheck, Steps
  <2> QED
    BY <1>8, <2>1, <2>2 DEF PlanCheck
<1>9. CASE PlanSet(t)
  <2>1. claim[t] \in Contents /\ claim[t] # None
    BY <1>0, <1>9, DeliveryAssumption DEF PlanSet, ClaimOK, Contents
  <2>2. action' \in Actions /\ action'.status # "ABSENT" /\ action'.before # None
    BY <1>9, <2>1 DEF PlanSet, Actions, ActionStatus
  <2>3. ClaimOK(t)'
    BY <1>0, <1>9, <2>1, <2>2 DEF PlanSet, ClaimOK, ToolUnchanged, session
  <2>4. known' = [known EXCEPT ![t] = known[t]] /\ known[t] \in BOOLEAN
    BY <1>0, <1>9 DEF PlanSet
  <2> QED
    BY <1>0, <1>9, <2>2, <2>3, <2>4, ToolKeepsTypes DEF PlanSet, Steps, Deploying
<1>10. ASSUME NEW status \in ActionStatus \ {"ABSENT"}, NEW reconciled \in BOOLEAN,
              action.status # "ABSENT",
              action' = [action EXCEPT !.status = status, !.reconciled = reconciled]
       PROVE  action' \in Actions /\ action'.status # "ABSENT" /\ action'.before # None
  BY <1>0, <1>10 DEF Actions
<1>11. action.reconciled \in BOOLEAN
       /\ \A status \in ActionStatus :
            [action EXCEPT !.status = status]
              = [action EXCEPT !.status = status, !.reconciled = action.reconciled]
  BY <1>0 DEF Actions
<1>12. known' = known => known' = [known EXCEPT ![t] = known[t]] /\ known[t] \in BOOLEAN
  BY <1>0
<1>13. CASE MarkAttempted(t)
  <2>1. action' \in Actions /\ action'.status # "ABSENT" /\ action'.before # None
    BY <1>0, <1>10, <1>11, <1>13 DEF MarkAttempted, ClaimOK, ActionStatus
  <2>2. ClaimOK(t)'
    BY <1>0, <1>13, <2>1 DEF MarkAttempted, ClaimOK, ToolUnchanged, session
  <2> QED
    BY <1>0, <1>12, <1>13, <2>1, <2>2, ToolKeepsTypes DEF MarkAttempted, Steps, Deploying
<1>14. CASE CompareHolds(t)
  <2>1. claim[t] \in Contents /\ [content EXCEPT !.value = "AFTER"] \in Contents
    BY <1>0, <1>14 DEF CompareHolds, ClaimOK, Contents, Values
  <2>2. [kind |-> "MUTATION", before |-> claim[t], after |-> [content EXCEPT !.value = "AFTER"],
         reconciled |-> FALSE] \in MutationClaims
    BY <2>1 DEF MutationClaims
  <2>3. ClaimOK(t)'
    BY <1>0, <1>14, <2>2 DEF CompareHolds, ClaimOK, ToolUnchanged, session
  <2> QED
    BY <1>0, <1>14, <2>3, ToolMoves DEF CompareHolds, Steps, Deploying
<1>15. CASE CompareFails(t)
  <2>1. ClaimOK(t)'
    BY <1>0, <1>15 DEF CompareFails, ClaimOK, ToolUnchanged, session
  <2> QED
    BY <1>0, <1>15, <2>1, ToolMoves DEF CompareFails, Steps, Deploying
<1>16. CASE WriteLands(t)
  <2>0. claim[t].after \in Contents
    BY <1>0, <1>16 DEF WriteLands, ClaimOK, MutationClaims
  <2>1. CASE Goto(t, "write", "complete") /\ UNCHANGED claim
    <3>1. ClaimOK(t)'
      BY <1>0, <1>16, <2>1 DEF WriteLands, ClaimOK, ToolUnchanged, session
    <3> QED
      BY <1>0, <1>16, <2>0, <2>1, <3>1, ToolMoves DEF WriteLands, Steps, Deploying
  <2>2. CASE Goto(t, "write", "fail") /\ Hold(t, None)
    <3>1. ClaimOK(t)'
      BY <1>0, <1>16, <2>2 DEF WriteLands, ClaimOK, ToolUnchanged, session
    <3> QED
      BY <1>0, <1>16, <2>0, <2>2, <3>1, ToolMoves DEF WriteLands, Steps, Deploying
  <2> QED
    BY <1>16, <2>1, <2>2 DEF WriteLands
<1>17. CASE WriteCollides(t)
  <2>1. ClaimOK(t)'
    BY <1>0, <1>17 DEF WriteCollides, ClaimOK, ToolUnchanged, session
  <2> QED
    BY <1>0, <1>17, <2>1, ToolMoves DEF WriteCollides, Steps, Deploying
<1>18. CASE MarkCompleted(t)
  <2>1. action' \in Actions /\ action'.status # "ABSENT" /\ action'.before # None
    BY <1>0, <1>10, <1>18 DEF MarkCompleted, ClaimOK, ActionStatus
  <2>2. ClaimOK(t)'
    BY <1>0, <1>18, <2>1 DEF MarkCompleted, ClaimOK, ToolUnchanged, session
  <2> QED
    BY <1>0, <1>12, <1>18, <2>1, <2>2, ToolKeepsTypes DEF MarkCompleted, Steps, Deploying
<1>19. CASE MarkFailedOrUncertain(t)
  <2>1. action' \in Actions /\ action'.status # "ABSENT" /\ action'.before # None
    <3>1. action.status # "ABSENT" /\ "FAILED_OR_UNCERTAIN" \in ActionStatus \ {"ABSENT"}
      BY <1>0, <1>19 DEF MarkFailedOrUncertain, ClaimOK, ActionStatus
    <3>2. action' = [action EXCEPT !.status = "FAILED_OR_UNCERTAIN",
                                   !.reconciled = action.reconciled]
      BY <1>11, <1>19, <3>1 DEF MarkFailedOrUncertain
    <3> QED
      BY <1>10, <1>11, <3>1, <3>2
  <2>2. ClaimOK(t)'
    BY <1>0, <1>19, <2>1 DEF MarkFailedOrUncertain, ClaimOK, ToolUnchanged, session
  <2> QED
    BY <1>0, <1>12, <1>19, <2>1, <2>2, ToolKeepsTypes DEF MarkFailedOrUncertain, Steps
<1>20. CASE ReconcileRead(t)
  <2>1. ClaimOK(t)'
    BY <1>0, <1>20 DEF ReconcileRead, ClaimOK, ToolUnchanged, session
  <2> QED
    BY <1>0, <1>20, <2>1, ToolMoves DEF ReconcileRead, Steps, Deploying
<1>21. CASE ReconcileMutation(t)
  <2>0. action.status # "ABSENT" /\ action.before \in Contents /\ claim[t] \in Contents
    BY <1>0, <1>21 DEF ReconcileMutation, ClaimOK, Actions
  <2>1. CASE /\ Goto(t, "judge", "reconciled")
             /\ Hold(t, [kind |-> "MUTATION", before |-> action.before, after |-> claim[t],
                         reconciled |-> TRUE])
    <3> DEFINE evidence == [kind |-> "MUTATION", before |-> action.before, after |-> claim[t],
                            reconciled |-> TRUE]
    <3>1. evidence \in MutationClaims
      BY <2>0 DEF MutationClaims
    <3>2. claim' = [claim EXCEPT ![t] = evidence]
      BY <2>1
    <3> HIDE DEF evidence
    <3>3. ClaimOK(t)'
      BY <1>0, <1>21, <2>0, <2>1, <3>1, <3>2 DEF ReconcileMutation, ClaimOK, ToolUnchanged, session
    <3> QED
      BY <1>0, <1>21, <2>1, <3>2, <3>3, ToolMoves DEF ReconcileMutation, Steps, Deploying
  <2>2. CASE Goto(t, "judge", "fail") /\ Hold(t, None)
    <3>1. ClaimOK(t)'
      BY <1>0, <1>21, <2>0, <2>2 DEF ReconcileMutation, ClaimOK, ToolUnchanged, session
    <3> QED
      BY <1>0, <1>21, <2>2, <3>1, ToolMoves DEF ReconcileMutation, Steps, Deploying
  <2>3. CASE Goto(t, "judge", "idle") /\ Hold(t, None)
    <3>1. ClaimOK(t)'
      BY <1>0, <1>21, <2>0, <2>3 DEF ReconcileMutation, ClaimOK, ToolUnchanged, session
    <3> QED
      BY <1>0, <1>21, <2>3, <3>1, ToolMoves DEF ReconcileMutation, Steps
  <2> QED
    BY <1>21, <2>1, <2>2, <2>3 DEF ReconcileMutation
<1>22. CASE MarkReconciled(t)
  <2>1. action' \in Actions /\ action'.status # "ABSENT" /\ action'.before # None
    BY <1>0, <1>10, <1>22 DEF MarkReconciled, ClaimOK, ActionStatus
  <2>2. ClaimOK(t)'
    BY <1>0, <1>22, <2>1 DEF MarkReconciled, ClaimOK, ToolUnchanged, session
  <2> QED
    BY <1>0, <1>12, <1>22, <2>1, <2>2, ToolKeepsTypes DEF MarkReconciled, Steps, Deploying
<1> QED
  BY <1>1, <1>2, <1>3, <1>4, <1>5, <1>6, <1>7, <1>8, <1>9, <1>13, <1>14, <1>15, <1>16, <1>17,
     <1>18, <1>19, <1>20, <1>21, <1>22 DEF ToolStep

\* Crossing 2 and the composition keep the types.
LEMMA DeploymentTypes ==
  ASSUME SharedOK, ThreadsOK, NEW t \in Threads,
         \/ RequestDeployment(t) \/ CrossRecord(t) \/ CrossArtifact(t)
         \/ IsFirst(t) \/ Compose(t) \/ Stamp(t)
  PROVE  SharedOK' /\ ThreadsOK'
<1> USE DEF Goto, Begin, Hold, session, bounds
<1>0. /\ Len(receipts) \in Nat
      /\ ClaimOK(t) /\ pc[t] \in Steps
      /\ content \in Contents
  BY LenProperties DEF SharedOK, ThreadsOK
<1>2. CASE RequestDeployment(t)
  <2>3. SharedOK'
    BY <1>2 DEF RequestDeployment, SharedOK
  <2>4. ClaimOK(t)'
    BY <1>0, <1>2 DEF RequestDeployment, ClaimOK, ThreadsOK
  <2>9. Moves(t)
    BY <1>0, <1>2 DEF RequestDeployment, Steps, ThreadsOK, Moves
  <2> QED
    BY <2>3, <2>4, <2>9, MoveKeepsClaims
<1>3. CASE CrossRecord(t)
  <2>2. SharedOK'
    BY <1>3 DEF CrossRecord, SharedOK
  <2>3. ClaimOK(t)'
    BY <1>0, <1>3 DEF CrossRecord, ClaimOK, ThreadsOK
  <2>9. Moves(t)
    BY <1>0, <1>3 DEF CrossRecord, Steps, Deploying, ThreadsOK, Moves
  <2> QED
    BY <2>2, <2>3, <2>9, MoveKeepsClaims
<1>9. CASE CrossArtifact(t)
  <2>1. claim[t] \in MutationClaims \union NoOpClaims
    BY <1>0, <1>9 DEF CrossArtifact, ClaimOK
  <2>2. SharedOK'
    BY <1>9, <2>1 DEF CrossArtifact, RemediationBoundaryResult, SharedOK
  <2>3. ClaimOK(t)'
    BY <1>0, <1>9 DEF CrossArtifact, ClaimOK, ThreadsOK
  <2>9. Moves(t)
    BY <1>0, <1>9 DEF CrossArtifact, Steps, Deploying, ThreadsOK, Moves
  <2> QED
    BY <2>2, <2>3, <2>9, MoveKeepsClaims
<1>10. CASE IsFirst(t)
  <2>1. SharedOK'
    BY <1>10 DEF IsFirst, SharedOK, ToolUnchanged
  <2>2. ClaimOK(t)'
    BY <1>0, <1>10 DEF IsFirst, ClaimOK, ThreadsOK, ToolUnchanged
  <2>9. Moves(t)
    BY <1>0, <1>10 DEF IsFirst, Steps, Deploying, ThreadsOK, Moves, ToolUnchanged
  <2> QED
    BY <2>1, <2>2, <2>9, MoveKeepsClaims
<1>11. CASE Compose(t)
  <2>1. delta' \in Deltas
    BY <1>0, <1>11 DEF Compose, SharedOK, Deltas, Contents
  <2>2. delta' # None
    BY <2>1, DeliveryAssumption DEF Deltas
  <2>3. SharedOK'
    BY <1>11, <2>1 DEF Compose, SharedOK
  <2>4. ClaimOK(t)'
    BY <1>0, <1>11, <2>2 DEF Compose, ClaimOK, ThreadsOK
  <2>9. Moves(t)
    BY <1>0, <1>11, <2>2 DEF Compose, Steps, Deploying, ThreadsOK, Moves
  <2> QED
    BY <2>3, <2>4, <2>9, MoveKeepsClaims
<1>12. CASE Stamp(t)
  <2>1. delta \in Deltas
    BY <1>0, <1>12 DEF Stamp, SharedOK, ClaimOK
  <2>2. delta' \in Deltas /\ clock' \in Nat
    BY <1>12, <2>1 DEF Stamp, SharedOK, Deltas
  <2>3. delta' # None
    BY <2>2, DeliveryAssumption DEF Deltas
  <2>4. SharedOK'
    BY <1>12, <2>2 DEF Stamp, SharedOK
  <2>5. ClaimOK(t)'
    BY <1>0, <1>12, <2>3 DEF Stamp, ClaimOK, ThreadsOK
  <2>9. Moves(t)
    BY <1>0, <1>12, <2>3 DEF Stamp, Steps, ThreadsOK, Moves
  <2> QED
    BY <2>4, <2>5, <2>9, MoveKeepsClaims
<1> QED
  BY <1>2, <1>3, <1>9, <1>10, <1>11, <1>12

\* The steps of a delivery keep the types.
LEMMA DeliveryTypes ==
  ASSUME SharedOK, ThreadsOK, NEW t \in Threads, RequestDelivery(t) \/ DeliveryStep(t)
  PROVE  SharedOK' /\ ThreadsOK'
<1> USE DEF Goto, Begin, Hold, session, bounds
<1>0. /\ Len(receipts) \in Nat
      /\ ClaimOK(t) /\ pc[t] \in Steps
      /\ delivery.status \in ActionStatus /\ delivery.receipt \in 0..Len(receipts)
  BY LenProperties DEF SharedOK, ThreadsOK
<1>1. CASE RequestDelivery(t)
  <2>1. SharedOK'
    BY <1>1 DEF RequestDelivery, SharedOK
  <2>2. ClaimOK(t)'
    BY <1>0, <1>1 DEF RequestDelivery, ClaimOK, ThreadsOK
  <2>3. Moves(t)
    BY <1>0, <1>1 DEF RequestDelivery, Steps, ThreadsOK, Moves
  <2> QED
    BY <2>1, <2>2, <2>3, MoveKeepsClaims
<1>2. CASE ReconcileDelivery(t)
  <2>1. \A r \in RecoverableReceipts : r \in 0..Len(receipts)
    BY <1>0 DEF RecoverableReceipts
  <2>2. SharedOK'
    BY <1>2 DEF ReconcileDelivery, SharedOK
  <2>3. ClaimOK(t)'
    BY <1>0, <1>2, <2>1 DEF ReconcileDelivery, ClaimOK, ThreadsOK
  <2>4. Moves(t)
    BY <1>0, <1>2 DEF ReconcileDelivery, Steps, ThreadsOK, Moves
  <2> QED
    BY <2>2, <2>3, <2>4, MoveKeepsClaims
<1>13. CASE ResolveDelivery(t)
  <2>0. claim[t] \in 0..Len(receipts)
    BY <1>0, <1>13 DEF ResolveDelivery, ClaimOK
  <2>1. delivery' \in [status : ActionStatus, receipt : 0..Len(receipts)]
    BY <1>0, <1>13, <2>0 DEF ResolveDelivery, SharedOK, ActionStatus
  <2>2. SharedOK'
    BY <1>13, <2>1 DEF ResolveDelivery, SharedOK
  <2>3. ClaimOK(t)'
    BY <1>0, <1>13 DEF ResolveDelivery, ClaimOK, ThreadsOK
  <2>4. Moves(t)
    BY <1>0, <1>13 DEF ResolveDelivery, Steps, ThreadsOK, Moves
  <2> QED
    BY <2>2, <2>3, <2>4, MoveKeepsClaims
<1>14. CASE LookUpDelivery(t)
  <2>1. SharedOK'
    BY <1>14 DEF LookUpDelivery, SharedOK
  <2>2. ClaimOK(t)'
    BY <1>0, <1>14 DEF LookUpDelivery, ClaimOK, ThreadsOK
  <2>3. Moves(t)
    BY <1>0, <1>14 DEF LookUpDelivery, Steps, ThreadsOK, Moves
  <2> QED
    BY <2>1, <2>2, <2>3, MoveKeepsClaims
<1>15. CASE PlanDeliveryCheck(t)
  <2>1. SharedOK'
    BY <1>15 DEF PlanDeliveryCheck, SharedOK
  <2>2. ClaimOK(t)'
    BY <1>0, <1>15 DEF PlanDeliveryCheck, ClaimOK, ThreadsOK
  <2>3. Moves(t)
    BY <1>0, <1>15 DEF PlanDeliveryCheck, Steps, ThreadsOK, Moves
  <2> QED
    BY <2>1, <2>2, <2>3, MoveKeepsClaims
<1>3. CASE PlanDeliverySet(t)
  <2>1. delivery' \in [status : ActionStatus, receipt : 0..Len(receipts)]
    BY <1>0, <1>3 DEF PlanDeliverySet, SharedOK, ActionStatus
  <2>2. SharedOK'
    BY <1>3, <2>1 DEF PlanDeliverySet, SharedOK
  <2>3. ClaimOK(t)'
    BY <1>0, <1>3 DEF PlanDeliverySet, ClaimOK, ThreadsOK
  <2>4. Moves(t)
    BY <1>0, <1>3 DEF PlanDeliverySet, Steps, ThreadsOK, Moves
  <2> QED
    BY <2>2, <2>3, <2>4, MoveKeepsClaims
<1>4. CASE AttemptDelivery(t)
  <2>1. delivery' \in [status : ActionStatus, receipt : 0..Len(receipts)]
    BY <1>0, <1>4 DEF AttemptDelivery, SharedOK, ActionStatus
  <2>4. SharedOK'
    BY <1>4, <2>1 DEF AttemptDelivery, SharedOK
  <2>5. ClaimOK(t)'
    BY <1>0, <1>4 DEF AttemptDelivery, ClaimOK, ThreadsOK
  <2>6. Moves(t)
    BY <1>0, <1>4 DEF AttemptDelivery, Steps, ThreadsOK, Moves
  <2> QED
    BY <2>4, <2>5, <2>6, MoveKeepsClaims
<1>5. ASSUME NEW to \in {"idle", "cross3"}, NEW receipt, DispatchEnds(t, to, receipt),
             receipts' \in Seq(Receipts), Len(receipts') \in Nat,
             Len(receipts) <= Len(receipts'),
             IF to = "idle" THEN receipt = None ELSE receipt \in 1..Len(receipts'),
             delivery' \in [status : ActionStatus, receipt : 0..Len(receipts')],
             UNCHANGED <<content, action, session, known, overlapped, clock, bounds>>
      PROVE  SharedOK' /\ ThreadsOK'
  <2>2. delivered' \in 0..Len(receipts')
    BY <1>0, <1>5 DEF SharedOK
  <2>3. SharedOK'
    BY <1>5, <2>2 DEF SharedOK
  <2>4. pc[t] = "dispatch" /\ delta' # None
    BY <1>0, <1>5 DEF DispatchEnds, ClaimOK
  <2>5. pc'[t] = to /\ claim'[t] = receipt
    BY <1>5 DEF DispatchEnds, ThreadsOK
  <2>6. ClaimOK(t)'
    BY <1>0, <1>5, <2>4, <2>5 DEF ClaimOK
  <2>7. Moves(t)
    BY <1>0, <1>5, <2>4 DEF DispatchEnds, Steps, ThreadsOK, Moves
  <2> QED
    BY <2>3, <2>6, <2>7, MoveKeepsClaims
<1>6. CASE DispatchRefused(t)
  <2>1. receipts' = receipts /\ delivery' = delivery /\ DispatchEnds(t, "idle", None)
    BY <1>6 DEF DispatchRefused
  <2>2. UNCHANGED <<content, action, session, known, overlapped, clock, bounds>>
    BY <1>6 DEF DispatchRefused
  <2>3. receipts \in Seq(Receipts) /\ delivery \in [status : ActionStatus, receipt : 0..Len(receipts)]
    BY DEF SharedOK
  <2> QED
    BY <1>0, <1>5, <2>1, <2>2, <2>3
<1>7. CASE Dispatched(t)
  <2>1. delta # None
    BY <1>0, <1>7 DEF Dispatched, DispatchEnds, ClaimOK
  <2>2. PICK status \in {"DELIVERED", "UNCERTAIN"} : Sent(status)
    BY <1>7 DEF Dispatched
  <2>3. receipts' \in Seq(Receipts) /\ Len(receipts') = Len(receipts) + 1
    BY <2>1, <2>2, SentTypes
  <2>4. DispatchEnds(t, "cross3", Len(receipts) + 1) /\ delivery' = delivery
    BY <1>7 DEF Dispatched
  <2>5. delivery' \in [status : ActionStatus, receipt : 0..Len(receipts')]
    BY <1>0, <2>3, <2>4 DEF SharedOK
  <2>6. UNCHANGED <<content, action, session, known, overlapped, clock, bounds>>
    BY <1>7 DEF Dispatched
  <2> QED
    BY <1>0, <1>5, <2>3, <2>4, <2>5, <2>6
<1>8. CASE DispatchUncertain(t)
  <2>1. delta # None
    BY <1>0, <1>8 DEF DispatchUncertain, DispatchEnds, ClaimOK
  <2>2. receipts' \in Seq(Receipts) /\ Len(receipts') \in Nat /\ Len(receipts) <= Len(receipts')
    <3>1. CASE Sent("DELIVERED")
      BY <1>0, <2>1, <3>1, SentTypes
    <3>2. CASE UNCHANGED receipts
      BY <1>0, <3>2 DEF SharedOK
    <3> QED
      BY <1>8, <3>1, <3>2 DEF DispatchUncertain
  <2>3. DispatchEnds(t, "idle", None)
        /\ delivery' = [delivery EXCEPT !.status = "FAILED_OR_UNCERTAIN"]
    BY <1>8 DEF DispatchUncertain
  <2>4. delivery' \in [status : ActionStatus, receipt : 0..Len(receipts')]
    <3>1. delivery \in [status : ActionStatus, receipt : 0..Len(receipts')]
      BY <1>0, <2>2 DEF SharedOK
    <3> QED
      BY <2>3, <3>1 DEF ActionStatus
  <2>5. UNCHANGED <<content, action, session, known, overlapped, clock, bounds>>
    BY <1>8 DEF DispatchUncertain
  <2> QED
    BY <1>5, <2>2, <2>3, <2>4, <2>5
<1>9. CASE CrossDelivery(t)
  <2>1. SharedOK'
    BY <1>9 DEF CrossDelivery, DeliveryBoundaryResult, SharedOK
  <2>2. ClaimOK(t)'
    BY <1>0, <1>9 DEF CrossDelivery, DeliveryBoundaryResult, ClaimOK, ThreadsOK
  <2>3. Moves(t)
    BY <1>0, <1>9 DEF CrossDelivery, DeliveryBoundaryResult, Steps, ThreadsOK, Moves
  <2> QED
    BY <2>1, <2>2, <2>3, MoveKeepsClaims
<1>10. CASE EstablishDelivery(t)
  <2>1. claim[t] \in 1..Len(receipts)
    BY <1>0, <1>10 DEF EstablishDelivery, ClaimOK
  <2>2. SharedOK'
    BY <1>0, <1>10, <2>1 DEF EstablishDelivery, SharedOK, ActionStatus
  <2>3. ClaimOK(t)'
    BY <1>0, <1>10 DEF EstablishDelivery, ClaimOK, ThreadsOK
  <2>4. Moves(t)
    BY <1>0, <1>10 DEF EstablishDelivery, Steps, ThreadsOK, Moves
  <2> QED
    BY <2>2, <2>3, <2>4, MoveKeepsClaims
<1>11. CASE RejectDelivery(t)
  <2>1. SharedOK'
    BY <1>0, <1>11 DEF RejectDelivery, SharedOK, ActionStatus
  <2>2. ClaimOK(t)'
    BY <1>0, <1>11 DEF RejectDelivery, ClaimOK, ThreadsOK
  <2>3. Moves(t)
    BY <1>0, <1>11 DEF RejectDelivery, Steps, ThreadsOK, Moves
  <2> QED
    BY <2>1, <2>2, <2>3, MoveKeepsClaims
<1> QED
  BY <1>1, <1>2, <1>3, <1>4, <1>6, <1>7, <1>8, <1>9, <1>10, <1>11, <1>13, <1>14, <1>15 DEF DeliveryStep

LEMMA NextTypeOK == TypeOK /\ [Next]_vars => TypeOK'
<1> SUFFICES ASSUME TypeOK, [Next]_vars PROVE TypeOK'
  OBVIOUS
<1>0. SharedOK /\ ThreadsOK
  BY TypeSplit
<1>1. SUFFICES SharedOK' /\ ThreadsOK'
  BY TypeSplit DEF TypeOK, SharedOK, ThreadsOK, Steps
<1>2. ASSUME NEW t \in Threads, ThreadStep(t) PROVE SharedOK' /\ ThreadsOK'
  BY <1>0, <1>2, ToolTypes, DeploymentTypes, DeliveryTypes DEF ThreadStep
<1>4. CASE Acknowledge
  <2>1. SharedOK'
    BY <1>0, <1>4 DEF Acknowledge, SharedOK, threads, bounds
  <2> QED
    BY <1>0, <1>4, <2>1, StillKeepsClaims DEF Acknowledge, threads
<1>5. CASE Drift
  <2>0. content \in Contents /\ drifts \in Nat
    BY <1>0 DEF SharedOK
  <2>1. content' \in Contents /\ drifts' \in Nat
    <3>1. \A v \in DriftValues : [content EXCEPT !.value = v] \in Contents
      BY <2>0, DeliveryAssumption DEF Contents
    <3>2. [content EXCEPT !.rest = @ + 1] \in Contents
      BY <2>0 DEF Contents
    <3> QED
      BY <1>5, <2>0, <3>1, <3>2 DEF Drift
  <2>2. SharedOK'
    BY <1>0, <1>5, <2>1 DEF Drift, SharedOK, session, threads
  <2> QED
    BY <1>0, <1>5, <2>2, StillKeepsClaims DEF Drift, session, threads
<1>6. CASE UNCHANGED vars
  <2>1. SharedOK'
    BY <1>0, <1>6 DEF vars, SharedOK, session, threads, bounds
  <2> QED
    BY <1>0, <1>6, <2>1, StillKeepsClaims DEF vars, session, threads
<1> QED
  BY <1>2, <1>4, <1>5, <1>6 DEF Next

\* What the session, the ledger and the threads refer to exists, whatever the
\* interleaving of requests and other writers.
THEOREM TypeCorrect == Spec => []TypeOK
BY InitTypeOK, NextTypeOK, PTL DEF Spec

-----------------------------------------------------------------------------
(***************************************************************************)
(* What counts as delivered rests on a receipt                             *)
(***************************************************************************)

\* DeliveryIsReceipted is not inductive: a thread that is about to establish
\* the delivery, or to resolve it, must have a receipt in hand that says so.
HoldsReceipt(t) ==
  /\ pc[t] = "establish" => receipts[claim[t]].status = "DELIVERED"
  /\ pc[t] = "resolve" /\ claim[t] # 0 => receipts[claim[t]].status = "DELIVERED"

ReceiptInv == DeliveryIsReceipted /\ \A t \in Threads : HoldsReceipt(t)

\* Receipts are never taken back.
LEMMA ReceiptsStay ==
  ASSUME TypeOK, [Next]_vars
  PROVE  \A k \in 1..Len(receipts) : receipts'[k] = receipts[k]
<1> USE DEF session, vars
<1>1. ASSUME NEW t \in Threads, NEW status \in {"DELIVERED", "UNCERTAIN"}, Sent(status),
             Dispatched(t) \/ DispatchUncertain(t)
      PROVE  \A k \in 1..Len(receipts) : receipts'[k] = receipts[k]
  <2>1. SharedOK /\ ClaimOK(t)
    BY TypeSplit DEF ThreadsOK
  <2>2. delta # None
    BY <1>1, <2>1 DEF Dispatched, DispatchUncertain, DispatchEnds, Goto, ClaimOK
  <2> QED
    BY <1>1, <2>1, <2>2, SentTypes
<1>2. ASSUME NEW t \in Threads, ThreadStep(t)
      PROVE  \A k \in 1..Len(receipts) : receipts'[k] = receipts[k]
  <2>1. CASE Dispatched(t)
    BY <1>1, <2>1 DEF Dispatched
  <2>2. CASE DispatchUncertain(t)
    BY <1>1, <2>2 DEF DispatchUncertain
  <2>3. CASE ToolStep(t) \/ IsFirst(t)
    BY <2>3 DEF ToolStep, ToolUnchanged, ReplayCompleted, DecideToExecute, DecideToReconcile,
       Decide, ReadApproved, ReadExpected, ReadDrifted, NoOp, PlanCheck, PlanSet, MarkAttempted,
       CompareHolds, CompareFails, WriteLands, WriteCollides, MarkCompleted,
       MarkFailedOrUncertain, ReconcileRead, ReconcileMutation, MarkReconciled, IsFirst
  <2>4. CASE ~Dispatched(t) /\ ~DispatchUncertain(t) /\ ~ToolStep(t) /\ ~IsFirst(t)
    BY <1>2, <2>4 DEF ThreadStep, DeliveryStep, RequestDeployment, RequestDelivery, CrossRecord,
       CrossArtifact, Compose, Stamp, ReconcileDelivery, ResolveDelivery, LookUpDelivery,
       PlanDeliveryCheck, PlanDeliverySet, AttemptDelivery, DispatchRefused, CrossDelivery,
       EstablishDelivery, RejectDelivery
  <2> QED
    BY <2>1, <2>2, <2>3, <2>4
<1> QED
  BY <1>2 DEF Next, Acknowledge, Drift

\* A step of one thread leaves where the others are and what they have in hand.
LEMMA OthersStay ==
  ASSUME TypeOK, NEW t \in Threads, ThreadStep(t)
  PROVE  \A u \in Threads : u # t => pc'[u] = pc[u] /\ claim'[u] = claim[u]
<1> USE DEF Goto, Begin, Hold
<1>0. pc \in [Threads -> Steps] /\ DOMAIN claim = Threads
  BY DEF TypeOK, Steps
<1>1. CASE ToolStep(t)
  BY <1>0, <1>1 DEF ToolStep, ReplayCompleted, DecideToExecute, DecideToReconcile,
     Decide, ReadApproved, ReadExpected, ReadDrifted, NoOp, PlanCheck, PlanSet, MarkAttempted,
     CompareHolds, CompareFails, WriteLands, WriteCollides, MarkCompleted,
     MarkFailedOrUncertain, ReconcileRead, ReconcileMutation, MarkReconciled
<1>2. CASE ~ToolStep(t)
  BY <1>0, <1>2 DEF ThreadStep, DeliveryStep, RequestDeployment, RequestDelivery, CrossRecord,
     CrossArtifact, IsFirst, Compose, Stamp, ReconcileDelivery, ResolveDelivery, LookUpDelivery,
     PlanDeliveryCheck, PlanDeliverySet, AttemptDelivery, DispatchRefused, Dispatched,
     DispatchUncertain, DispatchEnds, CrossDelivery, EstablishDelivery, RejectDelivery
<1> QED
  BY <1>1, <1>2

\* The steps of a deployment touch nothing of a delivery.
DeploymentStep(t) ==
  RequestDeployment(t) \/ ToolStep(t) \/ CrossRecord(t) \/ CrossArtifact(t) \/ IsFirst(t)
  \/ Compose(t) \/ Stamp(t)

LEMMA DeploymentLeavesDelivery ==
  ASSUME TypeOK, NEW t \in Threads, DeploymentStep(t)
  PROVE  /\ UNCHANGED <<delivery, delivered, receipts>>
         /\ pc'[t] \in Deploying \union {"decide", "idle"}
<1> USE DEF Goto, Begin, session
<1>0. pc \in [Threads -> Steps]
  BY DEF TypeOK, Steps
<1>1. CASE ToolStep(t)
  BY <1>0, <1>1 DEF ToolStep, ToolUnchanged, ReplayCompleted, DecideToExecute, DecideToReconcile,
     Decide, ReadApproved, ReadExpected, ReadDrifted, NoOp, PlanCheck, PlanSet, MarkAttempted,
     CompareHolds, CompareFails, WriteLands, WriteCollides, MarkCompleted,
     MarkFailedOrUncertain, ReconcileRead, ReconcileMutation, MarkReconciled, Deploying
<1>2. CASE ~ToolStep(t)
  BY <1>0, <1>2 DEF DeploymentStep, ToolUnchanged, RequestDeployment, CrossRecord, CrossArtifact,
     IsFirst, Compose, Stamp, Deploying
<1> QED
  BY <1>1, <1>2

\* The steps that touch neither the ledger's delivery record, nor the receipt
\* delivery rests on, nor who has a receipt in hand.
DeliveryStill ==
  /\ delivery' = delivery /\ delivered' = delivered
  /\ \A t \in Threads : pc'[t] \in {"establish", "resolve"}
                          => pc'[t] = pc[t] /\ claim'[t] = claim[t]

LEMMA StillKeepsReceiptInv ==
  ASSUME TypeOK, [Next]_vars, ReceiptInv, DeliveryStill
  PROVE  ReceiptInv'
<1>1. /\ \A k \in 1..Len(receipts) : receipts'[k] = receipts[k]
      /\ delivered \in 0..Len(receipts) /\ delivery.receipt \in 0..Len(receipts)
      /\ \A t \in Threads : pc[t] = "establish" => claim[t] \in 1..Len(receipts)
      /\ \A t \in Threads : pc[t] = "resolve" => claim[t] \in 0..Len(receipts)
      /\ Len(receipts) \in Nat
  BY ReceiptsStay, LenProperties DEF TypeOK, ClaimOK
<1> QED
  BY <1>1 DEF ReceiptInv, DeliveryIsReceipted, HoldsReceipt, DeliveryStill

LEMMA NextReceiptInv == TypeOK /\ ReceiptInv /\ [Next]_vars => ReceiptInv'
<1> SUFFICES ASSUME TypeOK, ReceiptInv, [Next]_vars PROVE ReceiptInv'
  OBVIOUS
<1> USE DEF session, bounds, Goto, Begin, Hold
<1>0. /\ \A k \in 1..Len(receipts) : receipts'[k] = receipts[k]
      /\ delivered \in 0..Len(receipts)
      /\ delivery.receipt \in 0..Len(receipts) /\ delivery.status \in ActionStatus
      /\ delivery = [status |-> delivery.status, receipt |-> delivery.receipt]
      /\ \A u \in Threads : pc[u] \in {"establish", "cross3"} => claim[u] \in 1..Len(receipts)
      /\ \A u \in Threads : pc[u] = "resolve" => claim[u] \in 0..Len(receipts)
      /\ Len(receipts) \in Nat
      /\ pc \in [Threads -> Steps] /\ DOMAIN claim = Threads
  BY ReceiptsStay, LenProperties DEF TypeOK, ClaimOK, Steps
<1>1. ASSUME NEW t \in Threads, ThreadStep(t) PROVE ReceiptInv'
  <2>0. \A u \in Threads : u # t => pc'[u] = pc[u] /\ claim'[u] = claim[u]
    BY <1>1, OthersStay
  <2>1. ASSUME delivery' = delivery, delivered' = delivered, pc'[t] \notin {"establish", "resolve"}
        PROVE  ReceiptInv'
    BY <2>0, <2>1, StillKeepsReceiptInv DEF DeliveryStill
  <2>2. CASE DeploymentStep(t)
    BY <2>1, <2>2, DeploymentLeavesDelivery DEF Deploying
  <2>3. CASE \/ RequestDelivery(t) \/ LookUpDelivery(t) \/ PlanDeliveryCheck(t)
             \/ DispatchRefused(t) \/ Dispatched(t)
    BY <1>0, <2>1, <2>3 DEF RequestDelivery, LookUpDelivery, PlanDeliveryCheck, DispatchRefused,
       Dispatched, DispatchEnds
  <2>4. ASSUME HoldsReceipt(t)' PROVE \A u \in Threads : HoldsReceipt(u)'
    BY <1>0, <2>0, <2>4 DEF ReceiptInv, HoldsReceipt
  <2>5. CASE ReconcileDelivery(t)
    <3>1. \A r \in RecoverableReceipts : receipts'[r].status = "DELIVERED"
      BY <1>0 DEF RecoverableReceipts
    <3>2. HoldsReceipt(t)'
      BY <1>0, <2>5, <3>1 DEF ReconcileDelivery, HoldsReceipt
    <3>3. DeliveryIsReceipted'
      BY <1>0, <2>5 DEF ReconcileDelivery, ReceiptInv, DeliveryIsReceipted
    <3> QED
      BY <2>4, <3>2, <3>3 DEF ReceiptInv
  <2>6. CASE ResolveDelivery(t)
    <3>1. claim[t] # 0 => receipts'[claim[t]].status = "DELIVERED"
      BY <1>0, <2>6 DEF ResolveDelivery, ReceiptInv, HoldsReceipt
    <3>2. DeliveryIsReceipted'
      BY <1>0, <2>6, <3>1 DEF ResolveDelivery, ReceiptInv, DeliveryIsReceipted
    <3>3. HoldsReceipt(t)'
      BY <1>0, <2>6 DEF ResolveDelivery, HoldsReceipt
    <3> QED
      BY <2>4, <3>2, <3>3 DEF ReceiptInv
  <2>7. CASE PlanDeliverySet(t) \/ AttemptDelivery(t) \/ DispatchUncertain(t) \/ RejectDelivery(t)
    <3>1. delivery'.status # "COMPLETED" /\ delivered' = delivered
      BY <1>0, <2>7 DEF PlanDeliverySet, AttemptDelivery, DispatchUncertain, RejectDelivery
    <3>2. DeliveryIsReceipted'
      BY <1>0, <3>1 DEF ReceiptInv, DeliveryIsReceipted
    <3>3. HoldsReceipt(t)'
      BY <1>0, <2>7 DEF PlanDeliverySet, AttemptDelivery, DispatchUncertain, RejectDelivery,
         DispatchEnds, HoldsReceipt
    <3> QED
      BY <2>4, <3>2, <3>3 DEF ReceiptInv
  <2>8. CASE CrossDelivery(t)
    <3>1. HoldsReceipt(t)'
      BY <1>0, <2>8 DEF CrossDelivery, DeliveryBoundaryResult, AcceptDeliveryResult, HoldsReceipt
    <3>2. DeliveryIsReceipted'
      BY <1>0, <2>8 DEF CrossDelivery, ReceiptInv, DeliveryIsReceipted
    <3> QED
      BY <2>4, <3>1, <3>2 DEF ReceiptInv
  <2>9. CASE EstablishDelivery(t)
    <3>1. claim[t] \in 1..Len(receipts) /\ receipts'[claim[t]].status = "DELIVERED"
      BY <1>0, <2>9 DEF EstablishDelivery, ReceiptInv, HoldsReceipt
    <3>2. DeliveryIsReceipted'
      BY <1>0, <2>9, <3>1 DEF EstablishDelivery, DeliveryIsReceipted
    <3>3. HoldsReceipt(t)'
      BY <1>0, <2>9 DEF EstablishDelivery, HoldsReceipt
    <3> QED
      BY <2>4, <3>2, <3>3 DEF ReceiptInv
  <2> QED
    BY <1>1, <2>2, <2>3, <2>5, <2>6, <2>7, <2>8, <2>9 DEF ThreadStep, DeploymentStep, DeliveryStep
<1>2. CASE Acknowledge \/ Drift \/ UNCHANGED vars
  <2>1. DeliveryStill
    BY <1>2 DEF DeliveryStill, Acknowledge, Drift, vars, threads
  <2> QED
    BY <2>1, StillKeepsReceiptInv
<1> QED
  BY <1>1, <1>2 DEF Next

\* No interleaving of dispatches, reconciliations and rejections lets
\* workflow.delivery_ref or a completed delivery action name anything but a
\* receipt in which the channel says DELIVERED.
THEOREM DeliveryAlwaysReceipted == Spec => []DeliveryIsReceipted
<1>1. Init => ReceiptInv
  BY DEF Init, ReceiptInv, DeliveryIsReceipted, HoldsReceipt
<1> QED
  BY <1>1, TypeCorrect, NextReceiptInv, PTL DEF Spec, ReceiptInv

-----------------------------------------------------------------------------
(***************************************************************************)
(* What Crossing 2 accepts                                                 *)
(***************************************************************************)

\* AcceptedIsRecorded is not inductive.  As long as deployments do not overlap,
\* the thread that is in one alone knows what the ledger says: a mutation is
\* dispatched only for an action that is not on record, marked only while it is
\* not completed, and measured when the record backs it.
Solo == \A t, u \in Threads : pc[t] \in Deploying /\ pc[u] \in Deploying => t = u

RecordOK(t) ==
  /\ pc[t] \in {"read", "noop", "plan", "planning"} => action.status = "ABSENT"
  /\ pc[t] \in {"attempt", "apply", "write", "complete", "fail", "reread", "judge", "reconciled"}
       => action.status # "COMPLETED"
  /\ pc[t] = "cross2" /\ claim[t].kind = "NO_OP" => action.status = "ABSENT"
  /\ pc[t] = "measure" => claim[t].kind = "MUTATION" /\ RecordBacks(claim[t])

RecordInv ==
  /\ AcceptedIsRecorded
  /\ ~overlapped =>
       /\ Solo
       /\ action.status = "PLANNED" => \E t \in Threads : pc[t] = "attempt"
       /\ \A t \in Threads : RecordOK(t)

\* That deployments overlapped is never forgotten.
LEMMA OverlapStays ==
  ASSUME NEW t \in Threads, ThreadStep(t), overlapped
  PROVE  overlapped'
<1>1. CASE DecideToExecute(t) \/ DecideToReconcile(t)
  BY <1>1 DEF DecideToExecute, DecideToReconcile, Decide
<1>2. CASE ToolStep(t) /\ ~DecideToExecute(t) /\ ~DecideToReconcile(t)
  <2>1. overlapped' = overlapped
    BY <1>2 DEF ToolStep, ReplayCompleted, ReadApproved, ReadExpected, ReadDrifted, NoOp, PlanCheck,
       PlanSet, MarkAttempted, CompareHolds, CompareFails, WriteLands, WriteCollides, MarkCompleted,
       MarkFailedOrUncertain, ReconcileRead, ReconcileMutation, MarkReconciled
  <2> QED
    BY <2>1
<1>3. CASE ~ToolStep(t)
  <2>1. overlapped' = overlapped
    BY <1>3 DEF ThreadStep, DeliveryStep, RequestDeployment, RequestDelivery, CrossRecord,
       CrossArtifact, IsFirst, Compose, Stamp, ReconcileDelivery, ResolveDelivery, LookUpDelivery,
       PlanDeliveryCheck, PlanDeliverySet, AttemptDelivery, DispatchRefused, Dispatched,
       DispatchUncertain, CrossDelivery, EstablishDelivery, RejectDelivery
  <2> QED
    BY <2>1
<1> QED
  BY <1>1, <1>2, <1>3

\* Who begins to deploy does so alone, or the overlap is noted.
LEMMA BeginsAlone ==
  ASSUME TypeOK, NEW t \in Threads, ThreadStep(t), pc'[t] \in Deploying, pc[t] \notin Deploying,
         ~overlapped'
  PROVE  \A u \in Threads : u # t => pc[u] \notin Deploying
<1> USE DEF Goto, Begin
<1>0. pc \in [Threads -> Steps]
  BY DEF TypeOK, Steps
<1>1. CASE DecideToExecute(t) \/ DecideToReconcile(t)
  BY <1>1 DEF DecideToExecute, DecideToReconcile, Decide
<1>2. CASE ToolStep(t) /\ ~DecideToExecute(t) /\ ~DecideToReconcile(t)
  BY <1>0, <1>2 DEF ToolStep, ReplayCompleted, ReadApproved, ReadExpected, ReadDrifted, NoOp,
     PlanCheck, PlanSet, MarkAttempted, CompareHolds, CompareFails, WriteLands, WriteCollides,
     MarkCompleted, MarkFailedOrUncertain, ReconcileRead, ReconcileMutation, MarkReconciled,
     Deploying
<1>3. CASE RequestDeployment(t) \/ CrossRecord(t) \/ CrossArtifact(t) \/ IsFirst(t) \/ Compose(t)
           \/ Stamp(t)
  BY <1>0, <1>3 DEF RequestDeployment, CrossRecord, CrossArtifact, IsFirst, Compose, Stamp, Deploying
<1>4. CASE RequestDelivery(t) \/ DeliveryStep(t)
  BY <1>0, <1>4 DEF RequestDelivery, DeliveryStep, ReconcileDelivery, ResolveDelivery,
     LookUpDelivery, PlanDeliveryCheck, PlanDeliverySet, AttemptDelivery, DispatchRefused,
     Dispatched, DispatchUncertain, DispatchEnds, CrossDelivery, DeliveryBoundaryResult,
     EstablishDelivery, RejectDelivery, Deploying
<1> QED
  BY <1>1, <1>2, <1>3, <1>4 DEF ThreadStep

\* Who marks the record, and who accepts.
LEMMA DeploymentFacts ==
  ASSUME TypeOK, NEW t \in Threads, ThreadStep(t)
  PROVE  /\ action' # action => pc[t] \in {"planning", "attempt", "complete", "fail", "reconciled"}
         /\ pc[t] = "attempt" => action'.status = "ATTEMPTED"
         /\ action' # action /\ action'.status = "PLANNED" => pc'[t] = "attempt"
         /\ accepted' # accepted => CrossArtifact(t)
<1> USE DEF Goto, Begin, session
<1>0. pc \in [Threads -> Steps] /\ action \in Actions
  BY DEF TypeOK, Steps
<1>1. CASE PlanSet(t)
  BY <1>0, <1>1 DEF PlanSet, ToolUnchanged
<1>2. CASE MarkAttempted(t)
  BY <1>0, <1>2 DEF MarkAttempted, ToolUnchanged, Actions
<1>3. CASE MarkCompleted(t) \/ MarkFailedOrUncertain(t) \/ MarkReconciled(t)
  BY <1>0, <1>3 DEF MarkCompleted, MarkFailedOrUncertain, MarkReconciled, ToolUnchanged, Actions
<1>4. CASE ToolStep(t) /\ ~PlanSet(t) /\ ~MarkAttempted(t) /\ ~MarkCompleted(t)
           /\ ~MarkFailedOrUncertain(t) /\ ~MarkReconciled(t)
  BY <1>0, <1>4 DEF ToolStep, ToolUnchanged, ReplayCompleted, DecideToExecute, DecideToReconcile,
     Decide, ReadApproved, ReadExpected, ReadDrifted, NoOp, PlanCheck, CompareHolds, CompareFails,
     WriteLands, WriteCollides, ReconcileRead, ReconcileMutation
<1>5. CASE RequestDeployment(t) \/ CrossRecord(t) \/ IsFirst(t) \/ Compose(t) \/ Stamp(t)
  BY <1>0, <1>5 DEF RequestDeployment, CrossRecord, IsFirst, Compose, Stamp, ToolUnchanged
<1>6. CASE CrossArtifact(t)
  BY <1>0, <1>6 DEF CrossArtifact
<1>7. CASE RequestDelivery(t) \/ DeliveryStep(t)
  BY <1>0, <1>7 DEF RequestDelivery, DeliveryStep, ReconcileDelivery, ResolveDelivery,
     LookUpDelivery, PlanDeliveryCheck, PlanDeliverySet, AttemptDelivery, DispatchRefused,
     Dispatched, DispatchUncertain, DispatchEnds, CrossDelivery, EstablishDelivery, RejectDelivery
<1> QED
  BY <1>1, <1>2, <1>3, <1>4, <1>5, <1>6, <1>7 DEF ThreadStep

\* The thread that steps, alone in its deployment, still knows the record.
LEMMA StepKeepsRecordOK ==
  ASSUME TypeOK, RecordInv, NEW t \in Threads, ThreadStep(t), ~overlapped'
  PROVE  RecordOK(t)'
<1> USE DEF Goto, Begin, Hold, session
<1>0. /\ pc \in [Threads -> Steps] /\ action \in Actions /\ DOMAIN claim = Threads
      /\ ClaimOK(t)
      /\ ~overlapped
  BY OverlapStays DEF TypeOK, Steps
<1>1. RecordOK(t) /\ Solo /\ (action.status = "PLANNED" => \E u \in Threads : pc[u] = "attempt")
  BY <1>0 DEF RecordInv
<1>2. CASE pc'[t] \notin Deploying
  BY <1>2 DEF RecordOK, Deploying
<1>3. CASE DecideToExecute(t)
  <2>1. \A u \in Threads : u # t => pc[u] \notin Deploying
    BY <1>0, <1>3 DEF DecideToExecute, Decide
  <2>2. action.status \in {"ABSENT", "PLANNED"} /\ pc[t] = "decide"
    BY <1>3 DEF DecideToExecute, Decide, DecideRetry
  <2>3. action.status = "ABSENT"
    BY <1>1, <2>1, <2>2 DEF Deploying
  <2> QED
    BY <1>0, <1>3, <2>3 DEF DecideToExecute, Decide, RecordOK
<1>4. CASE DecideToReconcile(t)
  BY <1>0, <1>4 DEF DecideToReconcile, Decide, DecideRetry, RecordOK
<1>5. CASE ReadApproved(t)
  BY <1>0, <1>1, <1>5 DEF ReadApproved, RecordOK
<1>6. CASE ReadExpected(t)
  BY <1>0, <1>1, <1>6 DEF ReadExpected, RecordOK, ClaimOK
<1>7. CASE NoOp(t)
  BY <1>0, <1>1, <1>7 DEF NoOp, RecordOK
<1>8. CASE PlanCheck(t)
  BY <1>0, <1>1, <1>8 DEF PlanCheck, RecordOK
<1>9. CASE PlanSet(t)
  BY <1>0, <1>9 DEF PlanSet, RecordOK
<1>10. CASE MarkAttempted(t)
  <2>1. action'.status = "ATTEMPTED"
    BY <1>0, <1>10 DEF MarkAttempted, Actions
  <2> QED
    BY <1>0, <1>10, <2>1 DEF MarkAttempted, RecordOK
<1>11. CASE CompareHolds(t) \/ CompareFails(t) \/ WriteLands(t) \/ WriteCollides(t)
            \/ ReconcileRead(t)
  BY <1>0, <1>1, <1>11 DEF CompareHolds, CompareFails, WriteLands, WriteCollides, ReconcileRead,
     RecordOK
<1>12. CASE ReconcileMutation(t)
  BY <1>0, <1>1, <1>12 DEF ReconcileMutation, RecordOK
<1>13. CASE MarkCompleted(t) \/ MarkReconciled(t)
  <2>1. claim[t] \in MutationClaims /\ claim'[t] = claim[t] /\ pc'[t] = "cross2"
    BY <1>0, <1>13 DEF MarkCompleted, MarkReconciled, ClaimOK
  <2>2. claim'[t].kind # "NO_OP"
    BY <2>1 DEF MutationClaims
  <2> QED
    BY <2>1, <2>2 DEF RecordOK
<1>14. CASE CrossRecord(t)
  <2>1. CASE RecordBacks(claim[t]) /\ pc'[t] = "measure" /\ claim' = claim
    <3>1. claim[t].kind # "NO_OP" /\ claim[t] \in MutationClaims \union NoOpClaims
      BY <1>0, <1>1, <1>14, <2>1 DEF CrossRecord, RecordOK, RecordBacks, ClaimOK
    <3>2. claim[t].kind = "MUTATION"
      BY <3>1 DEF MutationClaims, NoOpClaims
    <3>3. action' = action
      BY <1>14 DEF CrossRecord
    <3> QED
      BY <2>1, <3>2, <3>3 DEF RecordOK, RecordBacks
  <2>2. CASE pc'[t] = "first"
    BY <2>2 DEF RecordOK
  <2> QED
    BY <1>0, <1>14, <2>1, <2>2 DEF CrossRecord
<1>15. CASE CrossArtifact(t) \/ IsFirst(t) \/ Compose(t)
  BY <1>0, <1>15 DEF CrossArtifact, IsFirst, Compose, RecordOK
<1>16. \/ pc'[t] \notin Deploying
       \/ DecideToExecute(t) \/ DecideToReconcile(t) \/ ReadApproved(t) \/ ReadExpected(t)
       \/ NoOp(t) \/ PlanCheck(t) \/ PlanSet(t) \/ MarkAttempted(t)
       \/ CompareHolds(t) \/ CompareFails(t) \/ WriteLands(t) \/ WriteCollides(t)
       \/ ReconcileRead(t) \/ ReconcileMutation(t) \/ MarkCompleted(t) \/ MarkReconciled(t)
       \/ CrossRecord(t) \/ CrossArtifact(t) \/ IsFirst(t) \/ Compose(t)
  <2>1. CASE ReplayCompleted(t) \/ ReadDrifted(t) \/ MarkFailedOrUncertain(t)
             \/ RequestDeployment(t) \/ Stamp(t) \/ RequestDelivery(t)
    BY <1>0, <2>1 DEF ReplayCompleted, ReadDrifted, MarkFailedOrUncertain, RequestDeployment,
       Stamp, RequestDelivery, Deploying
  <2>2. CASE DeliveryStep(t)
    BY <1>0, <2>2 DEF DeliveryStep, ReconcileDelivery, ResolveDelivery,
       LookUpDelivery, PlanDeliveryCheck, PlanDeliverySet, AttemptDelivery, DispatchRefused,
       Dispatched, DispatchUncertain, DispatchEnds, CrossDelivery, DeliveryBoundaryResult,
       EstablishDelivery, RejectDelivery, Deploying
  <2> QED
    BY <2>1, <2>2 DEF ThreadStep, ToolStep
<1> QED
  BY <1>2, <1>3, <1>4, <1>5, <1>6, <1>7, <1>8, <1>9, <1>10, <1>11, <1>12, <1>13, <1>14, <1>15,
     <1>16

\* Evidence Crossing 2 accepts is a mutation's and what the artifact shows.
LEMMA AcceptanceFacts ==
  ASSUME TypeOK, NEW t \in Threads, CrossArtifact(t), accepted' # accepted
  PROVE  /\ accepted' = claim[t] /\ pc[t] = "measure" /\ action' = action
         /\ ArtifactHolds(claim[t])
BY DEF CrossArtifact, Goto

LEMMA NextRecordInv == TypeOK /\ RecordInv /\ [Next]_vars => RecordInv'
<1> SUFFICES ASSUME TypeOK, RecordInv, [Next]_vars PROVE RecordInv'
  OBVIOUS
<1>0. pc \in [Threads -> Steps] /\ action \in Actions
  BY DEF TypeOK, Steps
<1>1. ASSUME NEW t \in Threads, ThreadStep(t) PROVE RecordInv'
  <2>1. CASE overlapped'
    BY <2>1 DEF RecordInv, AcceptedIsRecorded
  <2>2. CASE ~overlapped'
    <3>1. /\ ~overlapped
          /\ \A u \in Threads : u # t => pc'[u] = pc[u] /\ claim'[u] = claim[u]
          /\ Solo /\ \A u \in Threads : RecordOK(u)
          /\ action.status = "PLANNED" => \E u \in Threads : pc[u] = "attempt"
      BY <1>1, <2>2, OverlapStays, OthersStay DEF RecordInv
    <3>2. Solo'
      BY <1>1, <2>2, <3>1, BeginsAlone DEF Solo
    <3>3. ASSUME NEW u \in Threads PROVE RecordOK(u)'
      <4>1. CASE u = t
        BY <1>1, <2>2, <4>1, StepKeepsRecordOK
      <4>2. CASE u # t /\ pc[u] \in Deploying
        <5>1. pc[t] \notin Deploying
          BY <3>1, <4>2 DEF Solo
        <5>2. action' = action
          BY <1>1, <5>1, DeploymentFacts DEF Deploying
        <5> QED
          BY <3>1, <4>2, <5>2 DEF RecordOK, RecordBacks
      <4>3. CASE u # t /\ pc[u] \notin Deploying
        BY <3>1, <4>3 DEF RecordOK, Deploying
      <4> QED
        BY <4>1, <4>2, <4>3
    <3>4. action'.status = "PLANNED" => \E u \in Threads : pc'[u] = "attempt"
      <4>1. CASE action' = action
        BY <1>1, <3>1, <4>1, DeploymentFacts
      <4>2. CASE action' # action
        BY <1>1, <4>2, DeploymentFacts
      <4> QED
        BY <4>1, <4>2
    <3>5. AcceptedIsRecorded'
      <4>1. CASE accepted' = accepted /\ accepted = None
        BY <4>1 DEF AcceptedIsRecorded
      <4>2. CASE accepted' = accepted /\ accepted # None
        <5>1. action.status = "COMPLETED" /\ accepted.kind = "MUTATION"
          BY <3>1, <4>2 DEF RecordInv, AcceptedIsRecorded
        <5>2. pc[t] \notin {"planning", "attempt", "complete", "fail", "reconciled"}
          BY <3>1, <5>1 DEF RecordOK
        <5>3. action' = action
          BY <1>1, <5>2, DeploymentFacts
        <5> QED
          BY <3>1, <4>2, <5>3 DEF RecordInv, AcceptedIsRecorded
      <4>3. CASE accepted' # accepted
        <5>1. CrossArtifact(t)
          BY <1>1, <4>3, DeploymentFacts
        <5>2. accepted' = claim[t] /\ pc[t] = "measure" /\ action' = action
          BY <4>3, <5>1, AcceptanceFacts
        <5>3. claim[t].kind = "MUTATION" /\ RecordBacks(claim[t])
          BY <3>1, <5>2 DEF RecordOK
        <5>4. action = [status |-> action.status, before |-> action.before,
                        reconciled |-> action.reconciled]
          BY <1>0 DEF Actions
        <5> QED
          BY <5>2, <5>3, <5>4 DEF AcceptedIsRecorded, RecordBacks
      <4> QED
        BY <4>1, <4>2, <4>3
    <3> QED
      BY <2>2, <3>2, <3>3, <3>4, <3>5 DEF RecordInv
  <2> QED
    BY <2>1, <2>2
<1>2. CASE Acknowledge \/ Drift \/ UNCHANGED vars
  <2>1. UNCHANGED <<accepted, action, pc, claim, overlapped>>
    BY <1>2 DEF Acknowledge, Drift, vars, session, threads
  <2> QED
    BY <2>1 DEF RecordInv, AcceptedIsRecorded, Solo, RecordOK, RecordBacks
<1> QED
  BY <1>1, <1>2 DEF Next

\* Evidence Crossing 2 accepted is, and whatever other requests do stays, what
\* the ledger has on record of a completed mutation, as long as no two
\* deployments were past the tool's retry decision at once.
THEOREM AcceptedStaysRecorded == Spec => []AcceptedIsRecorded
<1>1. Init => RecordInv
  BY DEF Init, RecordInv, AcceptedIsRecorded, Solo, RecordOK, Deploying
<1> QED
  BY <1>1, TypeCorrect, NextRecordInv, PTL DEF Spec, RecordInv

\* Evidence is accepted only of an artifact that is, in that very step, what the
\* evidence says, with the approved value.
THEOREM AcceptanceIsCurrent == Spec => AcceptedHolds
<1>1. ASSUME TypeOK, [Next]_vars, accepted' # accepted
      PROVE  content = accepted'.after /\ content.value = "AFTER"
  <2>1. \E t \in Threads : ThreadStep(t)
    BY <1>1 DEF Next, Acknowledge, Drift, vars, session
  <2>2. PICK t \in Threads : CrossArtifact(t)
    BY <1>1, <2>1, DeploymentFacts
  <2> QED
    BY <1>1, <2>2, AcceptanceFacts DEF ArtifactHolds
<1>2. TypeOK /\ [Next]_vars => [accepted' # accepted => content = accepted'.after
                                                        /\ content.value = "AFTER"]_vars
  BY <1>1
<1> QED
  BY <1>2, TypeCorrect, PTL DEF Spec, AcceptedHolds

-----------------------------------------------------------------------------
(***************************************************************************)
(* What is delivered is the session's delta                                *)
(***************************************************************************)

\* DeliveredIsTheDelta is not inductive: the delta is composed once, by a thread
\* that found no execution captured, before anything is delivered; and a thread
\* about to establish the delivery has a receipt for it.
DeltaInv ==
  /\ delta # None => validated # None
  /\ \A t \in Threads : pc[t] \in {"first", "compose"} => crossing # None
  /\ delivered # 0 => delta # None
  /\ ~overlapped => \A t \in Threads : pc[t] = "compose" => validated = None
  /\ ~overlapped => \A t \in Threads :
                      pc[t] = "establish" => receipts[claim[t]].payload = delta.payload
  /\ DeliveredIsTheDelta

\* Who composes, captures and establishes, and that a verdict is not taken back.
LEMMA CompositionFacts ==
  ASSUME TypeOK, NEW t \in Threads, ThreadStep(t)
  PROVE  /\ delta' # delta => Compose(t) \/ Stamp(t)
         /\ validated' # validated => Compose(t)
         /\ crossing # None => crossing' # None
         /\ pc'[t] = "compose" => IsFirst(t)
         /\ pc'[t] = "first" => CrossRecord(t) \/ CrossArtifact(t)
         /\ delivered' # delivered => EstablishDelivery(t)
         /\ pc'[t] = "establish" => CrossDelivery(t)
<1> USE DEF Goto, Begin, session
<1>0. pc \in [Threads -> Steps]
  BY DEF TypeOK, Steps
<1>1. CASE ToolStep(t)
  <2>1. UNCHANGED session
    BY <1>1 DEF ToolStep, ToolUnchanged, ReplayCompleted, DecideToExecute, DecideToReconcile,
       Decide, ReadApproved, ReadExpected, ReadDrifted, NoOp, PlanCheck, PlanSet, MarkAttempted,
       CompareHolds, CompareFails, WriteLands, WriteCollides, MarkCompleted,
       MarkFailedOrUncertain, ReconcileRead, ReconcileMutation, MarkReconciled
  <2>2. pc'[t] \notin {"compose", "first", "establish"}
    BY <1>0, <1>1 DEF ToolStep, ReplayCompleted, DecideToExecute, DecideToReconcile,
       Decide, ReadApproved, ReadExpected, ReadDrifted, NoOp, PlanCheck, PlanSet, MarkAttempted,
       CompareHolds, CompareFails, WriteLands, WriteCollides, MarkCompleted,
       MarkFailedOrUncertain, ReconcileRead, ReconcileMutation, MarkReconciled
  <2> QED
    BY <2>1, <2>2
<1>2. CASE RequestDeployment(t) \/ CrossRecord(t) \/ CrossArtifact(t)
  BY <1>0, <1>2, DeliveryAssumption DEF RequestDeployment, CrossRecord, CrossArtifact,
     RemediationBoundaryResult
<1>3. CASE IsFirst(t) \/ Compose(t) \/ Stamp(t)
  BY <1>0, <1>3 DEF IsFirst, Compose, Stamp, ToolUnchanged
<1>4. CASE RequestDelivery(t) \/ DeliveryStep(t)
  <2>1. delta' = delta /\ validated' = validated /\ crossing' = crossing
    BY <1>4 DEF RequestDelivery, DeliveryStep, ReconcileDelivery, ResolveDelivery,
       LookUpDelivery, PlanDeliveryCheck, PlanDeliverySet, AttemptDelivery, DispatchRefused,
       Dispatched, DispatchUncertain, CrossDelivery, EstablishDelivery, RejectDelivery
  <2>2. pc'[t] \notin {"compose", "first"}
    BY <1>0, <1>4 DEF RequestDelivery, DeliveryStep, ReconcileDelivery, ResolveDelivery,
       LookUpDelivery, PlanDeliveryCheck, PlanDeliverySet, AttemptDelivery, DispatchRefused,
       Dispatched, DispatchUncertain, DispatchEnds, CrossDelivery, DeliveryBoundaryResult,
       EstablishDelivery, RejectDelivery
  <2>3. delivered' # delivered => EstablishDelivery(t)
    BY <1>4 DEF RequestDelivery, DeliveryStep, ReconcileDelivery, ResolveDelivery,
       LookUpDelivery, PlanDeliveryCheck, PlanDeliverySet, AttemptDelivery, DispatchRefused,
       Dispatched, DispatchUncertain, CrossDelivery, RejectDelivery
  <2>4. pc'[t] = "establish" => CrossDelivery(t)
    BY <1>0, <1>4 DEF RequestDelivery, DeliveryStep, ReconcileDelivery, ResolveDelivery,
       LookUpDelivery, PlanDeliveryCheck, PlanDeliverySet, AttemptDelivery, DispatchRefused,
       Dispatched, DispatchUncertain, DispatchEnds, EstablishDelivery, RejectDelivery
  <2> QED
    BY <2>1, <2>2, <2>3, <2>4
<1> QED
  BY <1>1, <1>2, <1>3, <1>4 DEF ThreadStep

LEMMA NextDeltaInv == TypeOK /\ RecordInv /\ DeltaInv /\ [Next]_vars => DeltaInv'
<1> SUFFICES ASSUME TypeOK, RecordInv, DeltaInv, [Next]_vars PROVE DeltaInv'
  OBVIOUS
<1> USE DEF Goto, Hold, session
<1>0. /\ \A k \in 1..Len(receipts) : receipts'[k] = receipts[k]
      /\ Len(receipts) \in Nat /\ delivered \in 0..Len(receipts)
      /\ pc \in [Threads -> Steps] /\ DOMAIN claim = Threads
      /\ \A u \in Threads : ClaimOK(u)
      /\ delta \in Deltas \union {None}
  BY ReceiptsStay, LenProperties DEF TypeOK, Steps
<1>1. ASSUME NEW t \in Threads, ThreadStep(t) PROVE DeltaInv'
  <2>1. \A u \in Threads : u # t => pc'[u] = pc[u] /\ claim'[u] = claim[u]
    BY <1>1, OthersStay
  <2>2. overlapped => overlapped'
    BY <1>1, OverlapStays
  <2>3. Compose(t) => delta' \in Deltas /\ delta' # None /\ validated' # None
    <3>1. Compose(t) => delta' \in Deltas
      BY <1>0 DEF Compose, TypeOK, Deltas, Contents
    <3>2. Compose(t) => validated' # None
      BY DEF Compose, DeltaInv
    <3> QED
      BY <3>1, <3>2, DeliveryAssumption DEF Deltas
  <2>4. Stamp(t) => delta # None /\ delta' # None /\ delta'.payload = delta.payload
    <3>1. Stamp(t) => delta \in Deltas /\ delta # None
      BY <1>0 DEF Stamp, ClaimOK
    <3>2. Stamp(t) => delta' \in Deltas /\ delta'.payload = delta.payload
      BY <3>1 DEF Stamp, Deltas, TypeOK
    <3> QED
      BY <3>1, <3>2, DeliveryAssumption DEF Deltas
  <2>5. (delta' # None => validated' # None) /\ (delta # None => delta' # None)
    BY <1>1, <2>3, <2>4, CompositionFacts DEF DeltaInv, Stamp
  <2>6. \A u \in Threads : pc'[u] \in {"first", "compose"} => crossing' # None
    <3>1. (CrossRecord(t) \/ CrossArtifact(t)) /\ pc'[t] = "first" => crossing' # None
      BY <1>0, DeliveryAssumption DEF CrossRecord, CrossArtifact, RemediationBoundaryResult
    <3>2. pc'[t] \in {"first", "compose"} => crossing' # None
      BY <1>1, <3>1, CompositionFacts DEF DeltaInv, IsFirst
    <3> QED
      BY <1>1, <2>1, <3>2, CompositionFacts DEF DeltaInv
  <2>7. delivered' # 0 => delta' # None
    BY <1>0, <1>1, <2>5, CompositionFacts DEF DeltaInv, EstablishDelivery, ClaimOK
  <2>8. ASSUME ~overlapped' PROVE Solo /\ ~overlapped
    BY <2>2, <2>8 DEF RecordInv
  <2>9. ASSUME ~overlapped', NEW u \in Threads, pc'[u] = "compose" PROVE validated' = None
    <3>1. CASE u = t
      BY <1>0, <1>1, <2>9, <3>1, CompositionFacts DEF IsFirst, ToolUnchanged
    <3>2. CASE u # t
      <4>1. pc[u] = "compose" /\ pc[t] # "compose"
        BY <2>1, <2>8, <2>9, <3>2 DEF Solo, Deploying
      <4>2. validated' = validated
        BY <1>1, <4>1, CompositionFacts DEF Compose
      <4> QED
        BY <2>8, <2>9, <4>1, <4>2 DEF DeltaInv
    <3> QED
      BY <3>1, <3>2
  <2>10. ASSUME ~overlapped', delta # None PROVE delta'.payload = delta.payload
    <3>1. ~Compose(t)
      BY <1>0, <2>8, <2>10 DEF DeltaInv, Compose
    <3> QED
      BY <1>1, <2>4, <3>1, CompositionFacts
  <2>11. ASSUME ~overlapped', NEW u \in Threads, pc'[u] = "establish"
         PROVE  receipts'[claim'[u]].payload = delta'.payload
    <3>1. CASE pc[u] = "establish" /\ claim'[u] = claim[u]
      BY <1>0, <2>8, <2>10, <2>11, <3>1 DEF DeltaInv, ClaimOK
    <3>2. CASE u = t
      <4>1. CrossDelivery(t)
        BY <1>1, <2>11, <3>2, CompositionFacts
      <4> QED
        BY <1>0, <2>11, <3>2, <4>1 DEF CrossDelivery, DeliveryBoundaryResult, AcceptDeliveryResult
    <3> QED
      BY <2>1, <2>11, <3>1, <3>2
  <2>12. ASSUME ~overlapped', delivered' # 0
         PROVE  receipts'[delivered'].payload = delta'.payload
    <3>1. CASE delivered' = delivered
      BY <1>0, <2>8, <2>10, <2>12, <3>1 DEF DeltaInv, DeliveredIsTheDelta
    <3>2. CASE EstablishDelivery(t)
      <4>1. pc[t] = "establish" /\ delivered' = claim[t] /\ delta' = delta
            /\ receipts' = receipts
        BY <3>2 DEF EstablishDelivery
      <4>2. receipts[claim[t]].payload = delta.payload
        BY <2>8, <2>12, <4>1 DEF DeltaInv
      <4> QED
        BY <4>1, <4>2
    <3> QED
      BY <1>1, <3>1, <3>2, CompositionFacts
  <2> QED
    BY <2>5, <2>6, <2>7, <2>9, <2>11, <2>12 DEF DeltaInv, DeliveredIsTheDelta
<1>2. CASE Acknowledge \/ Drift \/ UNCHANGED vars
  <2>1. UNCHANGED <<delta, validated, crossing, delivered, receipts, pc, claim, overlapped>>
    BY <1>2 DEF Acknowledge, Drift, vars, threads
  <2> QED
    BY <2>1 DEF DeltaInv, DeliveredIsTheDelta
<1> QED
  BY <1>1, <1>2 DEF Next

\* The receipt delivery rests on is for the delta the session holds, whatever is
\* retried, reconciled or written meanwhile, as long as no two deployments were
\* past the tool's retry decision at once.
THEOREM DeliveryIsOfTheDelta == Spec => []DeliveredIsTheDelta
<1>1. Init => RecordInv
  BY DEF Init, RecordInv, AcceptedIsRecorded, Solo, RecordOK, Deploying
<1>2. Init => DeltaInv
  BY DEF Init, DeltaInv, DeliveredIsTheDelta
<1> QED
  BY <1>1, <1>2, TypeCorrect, NextRecordInv, NextDeltaInv, PTL DEF Spec, DeltaInv

=============================================================================
