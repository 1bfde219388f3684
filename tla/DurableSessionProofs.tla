------------------------ MODULE DurableSessionProofs ------------------------
(***************************************************************************)
(* Proofs about DurableSession: for any number of instances, resumes,      *)
(* verification events and failing store calls; and about the lease that   *)
(* an instance takes before it resumes (ResumeLeases), for any set of      *)
(* instances and tokens.                                                   *)
(***************************************************************************)
EXTENDS DurableSession, ResumeLeases, SequenceTheorems, TLAPS

-----------------------------------------------------------------------------
(***************************************************************************)
(* The jobs a use case leaves                                              *)
(***************************************************************************)

\* A job ends with the flush of the decorator.
Jobs == {job \in Seq(Tasks) : job # <<>> => Last(job) = "RETURN"}

LEMMA NewJob ==
  ASSUME NEW tasks \in Seq(Tasks)
  PROVE  /\ tasks \o <<"RETURN">> \in Jobs
         /\ tasks \o <<"RETURN">> # <<>>
         /\ tasks # <<>> => Head(tasks \o <<"RETURN">>) = Head(tasks)
<1> DEFINE job == tasks \o <<"RETURN">>
<1>1. <<"RETURN">> \in Seq(Tasks) /\ Len(<<"RETURN">>) = 1 /\ <<"RETURN">>[1] = "RETURN"
  BY DEF Tasks
<1>2. /\ job \in Seq(Tasks) /\ Len(job) = Len(tasks) + 1 /\ Len(tasks) \in Nat
      /\ job[Len(tasks) + 1] = "RETURN"
      /\ \A k \in 1..Len(tasks) : job[k] = tasks[k]
  BY <1>1, ConcatProperties, LenProperties
<1>3. job # <<>> /\ Last(job) = "RETURN"
  BY <1>2 DEF Last
<1>4. ASSUME tasks # <<>> PROVE Head(job) = Head(tasks)
  <2>1. Len(tasks) >= 1
    BY <1>4, EmptySeq, LenProperties
  <2> QED
    BY <1>2, <1>3, <2>1, <1>4
<1> QED
  BY <1>2, <1>3, <1>4 DEF Jobs

LEMMA JobDone ==
  ASSUME NEW job \in Jobs, job # <<>>
  PROVE  Tail(job) \in Jobs
<1>1. job \in Seq(Tasks) /\ Len(job) \in Nat /\ Len(job) >= 1
  BY EmptySeq, LenProperties DEF Jobs
<1>2. /\ Tail(job) \in Seq(Tasks) /\ Len(Tail(job)) = Len(job) - 1
      /\ \A k \in 1..Len(Tail(job)) : Tail(job)[k] = job[k + 1]
  BY <1>1, HeadTailProperties
<1>3. ASSUME Tail(job) # <<>> PROVE Last(Tail(job)) = Last(job)
  <2>1. Len(Tail(job)) >= 1
    BY <1>1, <1>2, <1>3, EmptySeq
  <2> QED
    BY <1>1, <1>2, <2>1 DEF Last
<1> QED
  BY <1>2, <1>3 DEF Jobs

LEMMA NoJob == <<>> \in Jobs
BY DEF Jobs

-----------------------------------------------------------------------------
(***************************************************************************)
(* Type correctness                                                        *)
(***************************************************************************)

TypeInv == TypeOK /\ todo \in [Instances -> Jobs]

LEMMA InitTypes == Init => TypeInv
<1> SUFFICES ASSUME Init PROVE TypeInv
  OBVIOUS
<1>1. FreshSnapshot \in Snapshots
  BY EmptySeq DEF FreshSnapshot, Snapshots
<1>2. FreshSession \in Sessions
  <2>1. <<>> \in Seq(WorkflowState)
    BY EmptySeq
  <2> QED
    BY <1>1, <2>1 DEF FreshSession, Sessions, Workflows, WorkflowState, Ledgers
<1>3. /\ session \in [Instances -> Sessions \union {None}]
      /\ basis \in [Instances -> {"UNREAD", "CURRENT", "STALE"}]
  BY <1>2 DEF Init
<1>4. workflowDoc \in Workflows /\ actionDocs \in Ledgers /\ snapshotDoc \in Snapshots
  BY <1>1, <1>2 DEF Init, Sessions
<1>5. todo \in [Instances -> Jobs] /\ todo \in [Instances -> Seq(Tasks)]
  BY NoJob DEF Init, Jobs
<1>6. resumes \in 0..MaxResumes /\ faults \in 0..MaxFaults /\ dispatches \in Nat
  BY DurableAssumption DEF Init
<1> QED
  BY <1>3, <1>4, <1>5, <1>6 DEF Init, TypeInv, TypeOK

\* Everything a request leaves that does not depend on which one it was.
Requested(i) ==
  /\ Idle(i)
  /\ session' = [session EXCEPT ![i] = session'[i]]
  /\ session'[i] \in Sessions
  /\ todo' = [todo EXCEPT ![i] = todo'[i]]
  /\ todo'[i] \in Jobs /\ todo'[i] # <<>>
  /\ session'[i].proof # session[i].proof => Head(todo'[i]) = "PROOF"
  /\ UNCHANGED <<writing, basis, docs, mode, resumes, faults>>

LEMMA UseCaseRequested ==
  ASSUME TypeInv, NEW i \in Instances, NEW s \in Sessions, NEW tasks \in Seq(Tasks),
         UseCase(i, s, tasks),
         s.proof # session[i].proof => tasks # <<>> /\ Head(tasks) = "PROOF"
  PROVE  Requested(i) /\ session'[i] = s
<1> DEFINE job == tasks \o <<"RETURN">>
<1>1. job \in Jobs /\ job # <<>> /\ (tasks # <<>> => Head(job) = Head(tasks))
  BY NewJob
<1>2. session' = [session EXCEPT ![i] = s] /\ todo' = [todo EXCEPT ![i] = job]
  BY DEF UseCase
<1> HIDE DEF job
<1>3. session'[i] = s /\ todo'[i] = job
  BY <1>2 DEF TypeInv, TypeOK
<1> QED
  BY <1>1, <1>2, <1>3 DEF UseCase, Requested

LEMMA RequestsRequested ==
  ASSUME TypeInv, NEW i \in Instances, Request(i)
  PROVE  Requested(i) /\ dispatches' \in {dispatches, dispatches + 1}
<1>0. session[i] \in Sessions
  BY DEF Request, AnalysisFails, AnalysisFindsNoTarget, AnalysisQualifies, DeployChange,
     DeliverToFrontline, SubmitFieldEvidence, GenerateProof, RepeatProof, NothingToDo,
     UseCase, Idle, Live, TypeInv, TypeOK
<1> DEFINE s == session[i]
<1>1. /\ s.workflow \in Workflows /\ s.ledger \in Ledgers /\ s.snapshot \in Snapshots
      /\ s.deliveryId \in ActionIds /\ s.snapshot.events \in Seq(Results)
  BY <1>0 DEF Sessions, Snapshots, ActionIds
<1>2. /\ <<>> \in Seq(Tasks)
      /\ <<"IMPACT_DETERMINED">> \in Seq(Tasks)
      /\ <<"IMPACT_DETERMINED", "REVIEW_REQUIRED">> \in Seq(Tasks)
      /\ <<"IMPACT_DETERMINED", "REMEDIATION_PENDING", "REMEDIATION_COMPLETED", "COMPOSE">>
           \in Seq(Tasks)
      /\ <<"FRONTLINE_DELIVERY_COMPLETED", "AWAITING_FIELD_VERIFICATION">> \in Seq(Tasks)
      /\ <<"PROOF">> \in Seq(Tasks) /\ <<"PROOF", "PROOF_COMPLETE">> \in Seq(Tasks)
  BY DEF Tasks
<1>3. CASE AnalysisFails(i)
  BY <1>0, <1>2, <1>3, UseCaseRequested DEF AnalysisFails
<1>4. CASE AnalysisFindsNoTarget(i)
  <2>1. [s EXCEPT !.snapshot.impact = "NO_TARGET"] \in Sessions
        /\ [s EXCEPT !.snapshot.impact = "NO_TARGET"].proof = s.proof
    BY <1>0, <1>1 DEF Sessions, Snapshots
  <2> QED
    BY <1>2, <1>4, <2>1, UseCaseRequested DEF AnalysisFindsNoTarget
<1>5. CASE AnalysisQualifies(i)
  <2> DEFINE u == [s EXCEPT !.snapshot.impact = "TARGET", !.workflow.affected = TRUE]
  <2>1. u \in Sessions /\ u.proof = s.proof
    BY <1>0, <1>1 DEF Sessions, Snapshots, Workflows
  <2>2. UseCase(i, u, <<"IMPACT_DETERMINED">>) /\ UNCHANGED dispatches
    BY <1>5 DEF AnalysisQualifies
  <2> HIDE DEF u
  <2> QED
    BY <1>2, <2>1, <2>2, UseCaseRequested
<1>6. CASE DeployChange(i)
  <2> DEFINE u == [s EXCEPT !.ledger["REMEDIATE"] = "COMPLETED", !.snapshot.evidence = TRUE]
  <2>1. u \in Sessions /\ u.proof = s.proof
    BY <1>0, <1>1 DEF Sessions, Snapshots, Ledgers, ActionIds
  <2>2. /\ UseCase(i, u, <<"IMPACT_DETERMINED", "REMEDIATION_PENDING", "REMEDIATION_COMPLETED",
                          "COMPOSE">>)
        /\ UNCHANGED dispatches
    BY <1>6 DEF DeployChange
  <2> HIDE DEF u
  <2> QED
    BY <1>2, <2>1, <2>2, UseCaseRequested
<1>7. CASE DeliverToFrontline(i)
  <2> DEFINE u == [s EXCEPT !.ledger[s.deliveryId] = "COMPLETED", !.sent = @ + 1,
                            !.snapshot.receipt = s.sent + 1, !.workflow.delivered = TRUE]
  <2>1. u \in Sessions /\ u.proof = s.proof
    <3>1. [s.ledger EXCEPT ![s.deliveryId] = "COMPLETED"] \in Ledgers
      BY <1>1 DEF Ledgers
    <3>2. s.sent + 1 \in Nat
      BY <1>0 DEF Sessions
    <3>3. [s.snapshot EXCEPT !.receipt = s.sent + 1] \in Snapshots
      BY <1>1, <3>2 DEF Snapshots
    <3>4. [s.workflow EXCEPT !.delivered = TRUE] \in Workflows
      BY <1>1 DEF Workflows
    <3> QED
      BY <1>0, <3>1, <3>2, <3>3, <3>4 DEF Sessions
  <2>2. /\ UseCase(i, u, <<"FRONTLINE_DELIVERY_COMPLETED", "AWAITING_FIELD_VERIFICATION">>)
        /\ dispatches' = dispatches + 1
    BY <1>7 DEF DeliverToFrontline
  <2> HIDE DEF u
  <2> QED
    BY <1>2, <2>1, <2>2, UseCaseRequested
<1>8. ASSUME NEW result \in Results, SubmitFieldEvidence(i, result)
      PROVE  Requested(i) /\ dispatches' = dispatches
  <2> DEFINE u == [s EXCEPT !.workflow.state = VerdictState(result),
                            !.snapshot.events = Append(s.snapshot.events, result)]
  <2>1. Append(s.snapshot.events, result) \in Seq(Results) /\ VerdictState(result) \in WorkflowState
    BY <1>1, AppendProperties DEF VerdictState, WorkflowState
  <2>2. u \in Sessions /\ u.proof = s.proof
    BY <1>0, <1>1, <2>1 DEF Sessions, Snapshots, Workflows
  <2>3. UseCase(i, u, <<>>) /\ UNCHANGED dispatches
    BY <1>8 DEF SubmitFieldEvidence
  <2> HIDE DEF u
  <2> QED
    BY <1>2, <2>2, <2>3, UseCaseRequested
<1>9. CASE GenerateProof(i)
  <2> DEFINE u == [s EXCEPT !.proof = ProofOf(s)]
             tasks == <<"PROOF", "PROOF_COMPLETE">>
  <2>1. u \in Sessions
    <3>1. s.workflow.history \in Seq(WorkflowState) /\ s.snapshot.receipt \in Nat
      BY <1>1 DEF Snapshots, Workflows
    <3>2. ProofOf(s) \in Proofs
      BY <1>1, <3>1 DEF ProofOf, Proofs
    <3> HIDE DEF s
    <3> QED
      BY <1>0, <3>2 DEF Sessions, s
  <2>2. UseCase(i, u, tasks) /\ UNCHANGED dispatches
    BY <1>9 DEF GenerateProof
  <2>3. tasks # <<>> /\ Head(tasks) = "PROOF" /\ tasks \in Seq(Tasks)
    BY <1>2
  <2> HIDE DEF u, tasks
  <2> QED
    BY <2>1, <2>2, <2>3, UseCaseRequested
<1>10. CASE RepeatProof(i)
  BY <1>0, <1>2, <1>10, UseCaseRequested DEF RepeatProof
<1>11. CASE NothingToDo(i)
  BY <1>0, <1>2, <1>11, UseCaseRequested DEF NothingToDo
<1> QED
  BY <1>3, <1>4, <1>5, <1>6, <1>7, <1>8, <1>9, <1>10, <1>11 DEF Request

\* Only a live instance performs.
LEMMA PerformerLives ==
  ASSUME TypeInv, NEW i \in Instances, todo[i] # <<>> \/ writing[i] # "NONE"
  PROVE  session[i] \in Sessions /\ Live(i)
BY DEF TypeInv, TypeOK, Live

\* Sessions come and go, and no other instance is touched.
SessionsKept(i) ==
  /\ session' \in [Instances -> Sessions \union {None}]
  /\ \A j \in Instances : j # i => session'[j] = session[j] /\ todo'[j] = todo[j]
                                   /\ writing'[j] = writing[j]

LEMMA MovedTypes ==
  ASSUME NEW w \in Workflows, NEW target \in WorkflowState
  PROVE  /\ Moved(w, target) \in Workflows
         /\ Moved(w, target).state = target
         /\ Moved(w, target).history = Append(w.history, w.state)
<1>1. w.history \in Seq(WorkflowState) /\ w.state \in WorkflowState
  BY DEF Workflows
<1>2. Append(w.history, w.state) \in Seq(WorkflowState)
  BY <1>1, AppendProperties
<1> QED
  BY <1>2 DEF Moved, Workflows

\* The steps of a job and of a flush keep the types.
LEMMA PerformTypes ==
  ASSUME TypeInv, NEW i \in Instances, Perform(i)
  PROVE  TypeInv' /\ SessionsKept(i) /\ session'[i] \in Sessions
<1> USE DEF docs, counters
<1>t. TypeOK /\ todo \in [Instances -> Jobs] /\ todo[i] \in Jobs
  BY DEF TypeInv, TypeOK
<1>s. session[i] \in Sessions /\ session[i] # None /\ Live(i)
  BY PerformerLives DEF Perform, Advance, ComposeDelta, ReturnFlushes, RecordWorkflow,
     RecordActions, RecordSession, RecordProof, WorkflowConflict, ProofConflict, StoreFails, Due, Live
<1>p. session[i].workflow \in Workflows /\ session[i].ledger \in Ledgers
      /\ session[i].snapshot \in Snapshots /\ session[i].proof \in Proofs \union {None}
  BY <1>s DEF Sessions
<1> DEFINE Documents == {"NONE", "WORKFLOW", "ACTIONS", "SNAPSHOT"}
           Flow == /\ todo' \in [Instances -> Jobs] /\ writing' \in [Instances -> Documents]
                   /\ \A j \in Instances : j # i => todo'[j] = todo[j] /\ writing'[j] = writing[j]
           Stored == /\ workflowDoc' \in Workflows /\ actionDocs' \in Ledgers
                     /\ snapshotDoc' \in Snapshots /\ proofDoc' \in Proofs \union {None}
                     /\ basis' \in [Instances -> {"UNREAD", "CURRENT", "STALE"}]
<1>1. ASSUME Flow, Stored, faults' \in 0..MaxFaults, UNCHANGED <<mode, dispatches, resumes>>,
             NEW s \in Sessions, session' = [session EXCEPT ![i] = s]
      PROVE  TypeInv' /\ SessionsKept(i) /\ session'[i] \in Sessions
  <2>1. session' \in [Instances -> Sessions \union {None}] /\ session'[i] = s
    BY <1>t, <1>1 DEF TypeOK
  <2>2. todo' \in [Instances -> Seq(Tasks)]
    BY <1>1 DEF Jobs
  <2>3. ASSUME NEW j \in Instances, session'[j] = None
        PROVE  todo'[j] = <<>> /\ writing'[j] = "NONE"
    <3>1. j # i
      BY <2>1, <2>3, NoneIsNoSession
    <3> QED
      BY <1>t, <1>1, <2>3, <3>1 DEF TypeOK, Live
  <2>4. TypeOK'
    BY <1>t, <1>1, <2>1, <2>2, <2>3 DEF TypeOK, Live
  <2> QED
    BY <1>t, <1>1, <2>1, <2>4 DEF TypeInv, TypeOK, SessionsKept
<1>2. session = [session EXCEPT ![i] = session[i]]
  BY <1>t DEF TypeOK
<1>3. ASSUME Flow, Stored, faults' \in 0..MaxFaults, UNCHANGED <<session, mode, dispatches, resumes>>
      PROVE  TypeInv' /\ SessionsKept(i) /\ session'[i] \in Sessions
  BY <1>1, <1>2, <1>3, <1>s
<1>4. UNCHANGED <<basis, docs>> => Stored
  BY <1>t DEF TypeOK
<1>5. UNCHANGED faults => faults' \in 0..MaxFaults
  BY <1>t DEF TypeOK
<1>6. Raises => faults' \in 0..MaxFaults
  BY <1>t, DurableAssumption DEF Raises, TypeOK
<1>7. Abort(i) => Flow
  BY <1>t, NoJob DEF Abort, Write, TypeOK
<1>8. ASSUME Pop(i), todo[i] # <<>>,
             UNCHANGED writing \/ \E document \in Documents : Write(i, document)
      PROVE  Flow
  BY <1>t, <1>8, JobDone DEF Pop, Write, TypeOK
<1>9. ASSUME NEW answered \in BOOLEAN, NEW document \in Documents, Answers(i, answered, document)
      PROVE  Flow /\ faults' \in 0..MaxFaults
  BY <1>t, <1>5, <1>6, <1>7, <1>9 DEF Answers, Write, TypeOK
<1> HIDE DEF Flow, Stored
<1>10. ASSUME NEW target \in WorkflowState, Advance(i, target)
       PROVE  TypeInv' /\ SessionsKept(i) /\ session'[i] \in Sessions
  <2>1. Flow /\ Stored /\ faults' \in 0..MaxFaults
    BY <1>4, <1>5, <1>8, <1>10 DEF Advance, Due
  <2>2. [session[i] EXCEPT !.workflow = Moved(session[i].workflow, target)] \in Sessions
    BY <1>s, <1>p, MovedTypes DEF Sessions
  <2>3. \/ session' = [session EXCEPT ![i] =
                          [session[i] EXCEPT !.workflow = Moved(session[i].workflow, target)]]
        \/ session' = session
    BY <1>10 DEF Advance
  <2> QED
    BY <1>1, <1>3, <1>10, <2>1, <2>2, <2>3 DEF Advance
<1>11. CASE ComposeDelta(i)
  <2>1. Flow /\ Stored /\ faults' \in 0..MaxFaults
    BY <1>4, <1>5, <1>8, <1>11 DEF ComposeDelta, Due
  <2>2. [session[i] EXCEPT !.snapshot.delta = TRUE] \in Sessions
    BY <1>s, <1>p DEF Sessions, Snapshots
  <2>3. session' = [session EXCEPT ![i] = [session[i] EXCEPT !.snapshot.delta = TRUE]]
    BY <1>11 DEF ComposeDelta
  <2> QED
    BY <1>1, <1>11, <2>1, <2>2, <2>3 DEF ComposeDelta
<1>12. CASE ReturnFlushes(i)
  BY <1>3, <1>4, <1>5, <1>8, <1>12 DEF ReturnFlushes, Due
<1>13. ASSUME NEW answered \in BOOLEAN,
              \/ RecordWorkflow(i, answered) \/ RecordActions(i, answered)
              \/ RecordSession(i, answered)
       PROVE  TypeInv' /\ SessionsKept(i) /\ session'[i] \in Sessions
  <2>1. Flow /\ faults' \in 0..MaxFaults
    BY <1>9, <1>13 DEF RecordWorkflow, RecordActions, RecordSession
  <2>2. BasisAfter(i, answered) \in [Instances -> {"UNREAD", "CURRENT", "STALE"}]
    BY <1>t DEF BasisAfter, TypeOK
  <2>3. Stored
    BY <1>t, <1>p, <1>13, <2>2 DEF Stored, RecordWorkflow, RecordActions, RecordSession, TypeOK
  <2> QED
    BY <1>3, <1>13, <2>1, <2>3 DEF RecordWorkflow, RecordActions, RecordSession
<1>14. ASSUME NEW answered \in BOOLEAN, RecordProof(i, answered)
       PROVE  TypeInv' /\ SessionsKept(i) /\ session'[i] \in Sessions
  <2>1. Flow /\ faults' \in 0..MaxFaults
    BY <1>5, <1>6, <1>7, <1>8, <1>14 DEF RecordProof, Due
  <2>2. Stored
    BY <1>t, <1>p, <1>14 DEF Stored, RecordProof, TypeOK
  <2> QED
    BY <1>3, <1>14, <2>1, <2>2 DEF RecordProof
<1>15. CASE WorkflowConflict(i) \/ ProofConflict(i)
  BY <1>3, <1>4, <1>5, <1>7, <1>15 DEF WorkflowConflict, ProofConflict
<1>16. CASE StoreFails(i)
  BY <1>3, <1>4, <1>6, <1>7, <1>16 DEF StoreFails
<1> QED
  BY <1>10, <1>11, <1>12, <1>13, <1>14, <1>15, <1>16 DEF Perform

LEMMA NextTypes == TypeInv /\ [Next]_vars => TypeInv'
<1> SUFFICES ASSUME TypeInv, [Next]_vars PROVE TypeInv'
  OBVIOUS
<1> USE DEF docs, counters
<1>0. TypeOK /\ todo \in [Instances -> Jobs]
  BY DEF TypeInv
<1>1. ASSUME NEW i \in Instances, Request(i) PROVE TypeInv'
  <2>1. Requested(i) /\ dispatches' \in {dispatches, dispatches + 1}
    BY <1>1, RequestsRequested
  <2>2. session' \in [Instances -> Sessions \union {None}]
        /\ \A j \in Instances : j # i => session'[j] = session[j]
    BY <1>0, <2>1 DEF Requested, TypeOK
  <2>3. todo' \in [Instances -> Jobs] /\ \A j \in Instances : j # i => todo'[j] = todo[j]
    BY <1>0, <2>1 DEF Requested, TypeOK
  <2>4. todo' \in [Instances -> Seq(Tasks)]
    BY <2>3 DEF Jobs
  <2>5. dispatches' \in Nat
    BY <1>0, <2>1 DEF TypeOK
  <2>6. ASSUME NEW j \in Instances, session'[j] = None
        PROVE  todo'[j] = <<>> /\ writing'[j] = "NONE"
    <3>1. j # i
      BY <2>1, <2>6, NoneIsNoSession DEF Requested
    <3> QED
      BY <1>0, <2>1, <2>2, <2>3, <2>6, <3>1 DEF Requested, TypeOK, Live
  <2> QED
    BY <1>0, <2>1, <2>2, <2>3, <2>4, <2>5, <2>6 DEF Requested, TypeInv, TypeOK, Live
<1>2. ASSUME NEW i \in Instances, Perform(i) PROVE TypeInv'
  BY <1>2, PerformTypes
<1>3. ASSUME NEW i \in Instances, Crash(i) PROVE TypeInv'
  <2>1. todo' \in [Instances -> Jobs]
    BY <1>0, <1>3, NoJob DEF Crash, Abort
  <2>2. todo' \in [Instances -> Seq(Tasks)]
    BY <2>1 DEF Jobs
  <2> QED
    BY <1>0, <1>3, <2>1, <2>2 DEF Crash, Abort, Write, TypeInv, TypeOK, Live
<1>4. ASSUME NEW i \in Instances, Resume(i) PROVE TypeInv'
  <2>1. Rehydrated \in Sessions
    BY <1>0 DEF Rehydrated, Sessions, TypeOK
  <2>2. session' \in [Instances -> Sessions \union {None}]
        /\ session' = [session EXCEPT ![i] = Rehydrated]
    BY <1>0, <1>4, <2>1 DEF Resume, TypeOK
  <2>3. resumes' \in 0..MaxResumes
    BY <1>0, <1>4, DurableAssumption DEF Resume, TypeOK
  <2> QED
    BY <1>0, <1>4, <2>1, <2>2, <2>3 DEF Resume, TypeInv, TypeOK, Live
<1>5. CASE UNCHANGED vars
  BY <1>0, <1>5 DEF vars, TypeInv, TypeOK, Live
<1> QED
  BY <1>1, <1>2, <1>3, <1>4, <1>5 DEF Next

\* Every variable holds a value of its kind, an instance that is not live has
\* nothing left to do, and every job ends with the flush of the decorator.
LEMMA AlwaysTyped == Spec => []TypeInv
<1> QED
  BY InitTypes, NextTypes, PTL DEF Spec

\* Every variable holds a value of its kind, and only a live instance has work left.
THEOREM TypeCorrect == Spec => []TypeOK
<1>1. TypeInv => TypeOK
  BY DEF TypeInv
<1> QED
  BY AlwaysTyped, <1>1, PTL

-----------------------------------------------------------------------------
(***************************************************************************)
(* A resume costs at most one more delivery                                *)
(***************************************************************************)

AloneInv == mode # "OVERLAP" => \A i, j \in Instances : Live(i) /\ Live(j) => i = j

\* The bound, with one delivery to spare for a session that has not delivered.
DeliveriesInv ==
  mode # "OVERLAP" =>
    /\ dispatches <= 1 + resumes
    /\ \A i \in Instances :
         Live(i) /\ session[i].ledger[session[i].deliveryId] = "ABSENT" => dispatches <= resumes

\* A transition of a job.
LEMMA DueTargets ==
  ASSUME TypeInv, NEW i \in Instances, NEW target \in WorkflowState, Advance(i, target)
  PROVE  target \in Tasks /\ session[i] \in Sessions /\ Head(todo[i]) = target
<1>1. todo[i] \in Seq(Tasks) /\ todo[i] # <<>> /\ Head(todo[i]) = target
  BY DEF Advance, Due, TypeInv, TypeOK
<1> QED
  BY <1>1, PerformerLives, HeadTailProperties

LEMMA AdvanceMoves ==
  ASSUME TypeInv, NEW i \in Instances, NEW target \in WorkflowState, Advance(i, target),
         session' # session
  PROVE  /\ CanTransition(session[i].workflow.state, target)
         /\ session'[i].workflow = Moved(session[i].workflow, target)
         /\ session'[i].workflow.state = target
<1>1. session[i] \in Sessions /\ session \in [Instances -> Sessions \union {None}]
  BY DueTargets DEF TypeInv, TypeOK
<1>2. CanTransition(session[i].workflow.state, target)
      /\ session' = [session EXCEPT ![i].workflow = Moved(session[i].workflow, target)]
  BY DEF Advance
<1>3. session[i].workflow \in Workflows /\ session'[i].workflow = Moved(session[i].workflow, target)
  BY <1>1, <1>2 DEF Sessions
<1> QED
  BY <1>2, <1>3, MovedTypes

\* What the steps of a job leave of a session.
LEMMA PerformKeeps ==
  ASSUME TypeInv, NEW i \in Instances, Perform(i)
  PROVE  /\ session'[i].ledger = session[i].ledger
         /\ session'[i].deliveryId = session[i].deliveryId
         /\ session'[i].sent = session[i].sent
         /\ session'[i].proof = session[i].proof
         /\ session'[i].snapshot.events = session[i].snapshot.events
         /\ session'[i].snapshot.evidence = session[i].snapshot.evidence
         /\ session'[i].snapshot.receipt = session[i].snapshot.receipt
<1>1. session[i] \in Sessions
  BY PerformerLives DEF Perform, Advance, ComposeDelta, ReturnFlushes, RecordWorkflow,
     RecordActions, RecordSession, RecordProof, WorkflowConflict, ProofConflict, StoreFails, Due, Live
<1>2. /\ session[i] = [workflow |-> session[i].workflow, ledger |-> session[i].ledger,
                       snapshot |-> session[i].snapshot, deliveryId |-> session[i].deliveryId,
                       sent |-> session[i].sent, proof |-> session[i].proof]
      /\ session[i].snapshot \in Snapshots /\ session \in [Instances -> Sessions \union {None}]
  BY <1>1 DEF Sessions, TypeInv, TypeOK
<1>3. ASSUME NEW target \in WorkflowState, Advance(i, target)
      PROVE  \/ session' = session
             \/ session'[i] = [session[i] EXCEPT !.workflow = Moved(session[i].workflow, target)]
  BY <1>2, <1>3 DEF Advance
<1>4. ASSUME ComposeDelta(i)
      PROVE  session'[i] = [session[i] EXCEPT !.snapshot.delta = TRUE]
  BY <1>2, <1>4 DEF ComposeDelta
<1>5. \/ session' = session
      \/ \E target \in WorkflowState : Advance(i, target)
      \/ ComposeDelta(i)
  BY DEF Perform, ReturnFlushes, RecordWorkflow, RecordActions, RecordSession, RecordProof,
     WorkflowConflict, ProofConflict, StoreFails
<1>6. \/ session' = session
      \/ \E target \in WorkflowState :
           session'[i] = [session[i] EXCEPT !.workflow = Moved(session[i].workflow, target)]
      \/ session'[i] = [session[i] EXCEPT !.snapshot.delta = TRUE]
  BY <1>3, <1>4, <1>5
<1>7. ASSUME NEW target \in WorkflowState,
             session'[i] = [session[i] EXCEPT !.workflow = Moved(session[i].workflow, target)]
      PROVE  /\ session'[i].ledger = session[i].ledger
             /\ session'[i].deliveryId = session[i].deliveryId
             /\ session'[i].sent = session[i].sent
             /\ session'[i].proof = session[i].proof
             /\ session'[i].snapshot = session[i].snapshot
  BY <1>1, <1>7 DEF Sessions
<1>8. ASSUME session'[i] = [session[i] EXCEPT !.snapshot.delta = TRUE]
      PROVE  /\ session'[i].ledger = session[i].ledger
             /\ session'[i].deliveryId = session[i].deliveryId
             /\ session'[i].sent = session[i].sent
             /\ session'[i].proof = session[i].proof
             /\ session'[i].snapshot = [session[i].snapshot EXCEPT !.delta = TRUE]
  BY <1>1, <1>8 DEF Sessions
<1>9. [session[i].snapshot EXCEPT !.delta = TRUE].events = session[i].snapshot.events
      /\ [session[i].snapshot EXCEPT !.delta = TRUE].evidence = session[i].snapshot.evidence
      /\ [session[i].snapshot EXCEPT !.delta = TRUE].receipt = session[i].snapshot.receipt
  BY <1>2 DEF Snapshots
<1> QED
  BY <1>6, <1>7, <1>8, <1>9

LEMMA RequestDelivers ==
  ASSUME TypeInv, NEW i \in Instances, Request(i)
  PROVE  /\ session'[i].deliveryId = session[i].deliveryId
         /\ \/ /\ dispatches' = dispatches
               /\ session'[i].ledger[session[i].deliveryId] = session[i].ledger[session[i].deliveryId]
            \/ /\ dispatches' = dispatches + 1
               /\ session[i].ledger[session[i].deliveryId] = "ABSENT"
               /\ session'[i].ledger[session[i].deliveryId] = "COMPLETED"
<1>0. Live(i)
  BY DEF Request, AnalysisFails, AnalysisFindsNoTarget, AnalysisQualifies, DeployChange,
     DeliverToFrontline, SubmitFieldEvidence, GenerateProof, RepeatProof, NothingToDo, UseCase, Idle
<1>1. session[i] \in Sessions /\ session \in [Instances -> Sessions \union {None}]
  BY <1>0 DEF TypeInv, TypeOK, Live
<1>2. session[i].deliveryId \in {"DELIVER", "DELIVER_RESUMED"} /\ session[i].ledger \in Ledgers
  BY <1>1 DEF Sessions
<1>3. CASE DeployChange(i)
  <2>1. session'[i] = [session[i] EXCEPT !.ledger["REMEDIATE"] = "COMPLETED",
                                         !.snapshot.evidence = TRUE]
        /\ dispatches' = dispatches
    BY <1>1, <1>3 DEF DeployChange, UseCase
  <2> QED
    BY <1>1, <1>2, <2>1 DEF Sessions, Ledgers, ActionIds
<1>4. CASE DeliverToFrontline(i)
  <2>1. session'[i] = [session[i] EXCEPT !.ledger[session[i].deliveryId] = "COMPLETED",
                                         !.sent = @ + 1, !.snapshot.receipt = session[i].sent + 1,
                                         !.workflow.delivered = TRUE]
        /\ dispatches' = dispatches + 1 /\ session[i].ledger[session[i].deliveryId] = "ABSENT"
    BY <1>1, <1>4 DEF DeliverToFrontline, UseCase
  <2> QED
    BY <1>1, <1>2, <2>1 DEF Sessions, Ledgers, ActionIds
<1>5. CASE AnalysisFails(i) \/ RepeatProof(i) \/ NothingToDo(i)
  BY <1>1, <1>5 DEF AnalysisFails, RepeatProof, NothingToDo, UseCase
<1>6. CASE AnalysisFindsNoTarget(i)
  BY <1>1, <1>6 DEF AnalysisFindsNoTarget, UseCase, Sessions
<1>7. CASE AnalysisQualifies(i)
  BY <1>1, <1>7 DEF AnalysisQualifies, UseCase, Sessions
<1>8. ASSUME NEW result \in Results, SubmitFieldEvidence(i, result)
      PROVE  session'[i].deliveryId = session[i].deliveryId /\ session'[i].ledger = session[i].ledger
             /\ dispatches' = dispatches
  BY <1>1, <1>8 DEF SubmitFieldEvidence, UseCase, Sessions
<1>9. CASE GenerateProof(i)
  BY <1>1, <1>9 DEF GenerateProof, UseCase, Sessions
<1> QED
  BY <1>3, <1>4, <1>5, <1>6, <1>7, <1>8, <1>9 DEF Request

LEMMA StaysAlone == TypeInv /\ AloneInv /\ [Next]_vars => AloneInv'
<1> SUFFICES ASSUME TypeInv, AloneInv, [Next]_vars, mode' # "OVERLAP",
                    NEW i \in Instances, NEW j \in Instances, Live(i)', Live(j)'
             PROVE  i = j
  BY DEF AloneInv
<1> USE DEF docs, counters
<1>0. session \in [Instances -> Sessions \union {None}] /\ mode' = mode
  BY DEF TypeInv, TypeOK, Next, Request, AnalysisFails, AnalysisFindsNoTarget, AnalysisQualifies,
     DeployChange, DeliverToFrontline, SubmitFieldEvidence, GenerateProof, RepeatProof, NothingToDo,
     UseCase, Perform, Advance, ComposeDelta, ReturnFlushes, RecordWorkflow, RecordActions,
     RecordSession, RecordProof, WorkflowConflict, ProofConflict, StoreFails, Crash, Resume, vars
<1>1. ASSUME NEW k \in Instances, Request(k) \/ Perform(k)
      PROVE  \A l \in Instances : Live(l)' => Live(l)
  <2>1. session[k] \in Sessions
    BY <1>1, PerformerLives, <1>0 DEF Request, AnalysisFails, AnalysisFindsNoTarget,
       AnalysisQualifies, DeployChange, DeliverToFrontline, SubmitFieldEvidence, GenerateProof,
       RepeatProof, NothingToDo, UseCase, Idle, Live, Perform, Advance, ComposeDelta, ReturnFlushes,
       RecordWorkflow, RecordActions, RecordSession, RecordProof, WorkflowConflict, ProofConflict,
       StoreFails, Due
  <2>2. \A l \in Instances : l # k => session'[l] = session[l]
    BY <1>0, <1>1, PerformTypes, RequestsRequested DEF SessionsKept, Requested
  <2> QED
    BY <2>1, <2>2, NoneIsNoSession DEF Live
<1>2. ASSUME NEW k \in Instances, Crash(k)
      PROVE  \A l \in Instances : Live(l)' => Live(l)
  BY <1>0, <1>2 DEF Crash, Live
<1>3. ASSUME NEW k \in Instances, Resume(k)
      PROVE  i = j
  <2>1. \A l \in Instances : ~Live(l)
    BY <1>0, <1>3 DEF Resume
  <2>2. \A l \in Instances : l # k => session'[l] = session[l]
    BY <1>0, <1>3 DEF Resume
  <2> QED
    BY <2>1, <2>2 DEF Live
<1>4. CASE UNCHANGED vars
  BY <1>0, <1>4 DEF vars, Live, AloneInv
<1> QED
  BY <1>0, <1>1, <1>2, <1>3, <1>4 DEF Next, AloneInv

LEMMA DeliveriesCounted ==
  TypeInv /\ AloneInv /\ DeliveriesInv /\ [Next]_vars => DeliveriesInv'
<1> SUFFICES ASSUME TypeInv, AloneInv, DeliveriesInv, [Next]_vars, mode' # "OVERLAP"
             PROVE  /\ dispatches' <= 1 + resumes'
                    /\ \A i \in Instances :
                         Live(i)' /\ session'[i].ledger[session'[i].deliveryId] = "ABSENT"
                           => dispatches' <= resumes'
  BY DEF DeliveriesInv
<1> USE DEF docs, counters
<1>0. session \in [Instances -> Sessions \union {None}] /\ dispatches \in Nat /\ resumes \in Nat
  BY DurableAssumption DEF TypeInv, TypeOK
<1>1. ASSUME NEW i \in Instances, Request(i)
      PROVE  /\ dispatches' <= 1 + resumes'
             /\ \A j \in Instances :
                  Live(j)' /\ session'[j].ledger[session'[j].deliveryId] = "ABSENT"
                    => dispatches' <= resumes'
  <2>1. Requested(i) /\ Live(i) /\ resumes' = resumes /\ mode # "OVERLAP"
    BY <1>1, RequestsRequested DEF Requested, Idle
  <2>2. \A j \in Instances : j # i => ~Live(j)'
    BY <1>0, <2>1 DEF AloneInv, Requested, Live
  <2> QED
    BY <1>0, <1>1, <2>1, <2>2, RequestDelivers DEF DeliveriesInv
<1>2. ASSUME NEW i \in Instances, Perform(i)
      PROVE  /\ dispatches' <= 1 + resumes'
             /\ \A j \in Instances :
                  Live(j)' /\ session'[j].ledger[session'[j].deliveryId] = "ABSENT"
                    => dispatches' <= resumes'
  <2>1. UNCHANGED <<mode, dispatches, resumes>> /\ Live(i)
    BY <1>2, PerformerLives DEF Perform, Advance, ComposeDelta, ReturnFlushes, RecordWorkflow,
       RecordActions, RecordSession, RecordProof, WorkflowConflict, ProofConflict, StoreFails, Due
  <2> QED
    BY <1>2, <2>1, PerformKeeps, PerformTypes DEF DeliveriesInv, SessionsKept, Live
<1>3. ASSUME NEW i \in Instances, Crash(i)
      PROVE  /\ dispatches' <= 1 + resumes'
             /\ \A j \in Instances :
                  Live(j)' /\ session'[j].ledger[session'[j].deliveryId] = "ABSENT"
                    => dispatches' <= resumes'
  BY <1>0, <1>3 DEF DeliveriesInv, Crash, Live
<1>4. ASSUME NEW i \in Instances, Resume(i)
      PROVE  /\ dispatches' <= 1 + resumes'
             /\ \A j \in Instances :
                  Live(j)' /\ session'[j].ledger[session'[j].deliveryId] = "ABSENT"
                    => dispatches' <= resumes'
  BY <1>0, <1>4 DEF DeliveriesInv, Resume
<1>5. CASE UNCHANGED vars
  BY <1>5 DEF vars, DeliveriesInv, Live
<1> QED
  BY <1>1, <1>2, <1>3, <1>4, <1>5 DEF Next

LEMMA InitDeliveries == Init => AloneInv /\ DeliveriesInv
BY DurableAssumption DEF Init, AloneInv, DeliveriesInv, Live

LEMMA AlwaysAlone == Spec => [](AloneInv /\ DeliveriesInv)
BY AlwaysTyped, InitDeliveries, StaysAlone, DeliveriesCounted, PTL DEF Spec

\* A resume costs at most one more delivery, whatever store calls fail: no instance
\* dispatches twice, as it asks the ledger in its own memory (decide_retry).
THEOREM DeliveriesAreBounded == Spec => []RedeliveryBounded
<1>1. DeliveriesInv => RedeliveryBounded
  BY DEF DeliveriesInv, RedeliveryBounded
<1> QED
  BY AlwaysAlone, <1>1, PTL

-----------------------------------------------------------------------------
(***************************************************************************)
(* A process issues one receipt at most, so each process issues the same   *)
(***************************************************************************)

Numbered(s) ==
  /\ s.snapshot.receipt \in {0, 1}
  /\ s.ledger[s.deliveryId] = "ABSENT" => s.sent = 0

NumberedInv ==
  /\ snapshotDoc.receipt \in {0, 1}
  /\ \A i \in Instances : Live(i) => Numbered(session[i])

LEMMA RequestNumbers ==
  ASSUME TypeInv, NEW i \in Instances, Request(i), Numbered(session[i])
  PROVE  Numbered(session'[i])
<1>0. Live(i)
  BY DEF Request, AnalysisFails, AnalysisFindsNoTarget, AnalysisQualifies, DeployChange,
     DeliverToFrontline, SubmitFieldEvidence, GenerateProof, RepeatProof, NothingToDo, UseCase, Idle
<1> DEFINE s == session[i]
<1>1. s \in Sessions /\ session \in [Instances -> Sessions \union {None}]
  BY <1>0 DEF TypeInv, TypeOK, Live
<1>2. /\ s.ledger \in Ledgers /\ s.snapshot \in Snapshots /\ s.workflow \in Workflows
      /\ s.deliveryId \in {"DELIVER", "DELIVER_RESUMED"} /\ s.sent \in Nat
  BY <1>1 DEF Sessions
<1>3. CASE DeployChange(i)
  <2>1. session'[i] = [s EXCEPT !.ledger["REMEDIATE"] = "COMPLETED", !.snapshot.evidence = TRUE]
    BY <1>1, <1>3 DEF DeployChange, UseCase
  <2> QED
    BY <1>1, <1>2, <2>1 DEF Sessions, Snapshots, Ledgers, ActionIds, Numbered
<1>4. CASE DeliverToFrontline(i)
  <2>1. /\ session'[i] = [s EXCEPT !.ledger[s.deliveryId] = "COMPLETED", !.sent = @ + 1,
                                   !.snapshot.receipt = s.sent + 1, !.workflow.delivered = TRUE]
        /\ s.ledger[s.deliveryId] = "ABSENT"
    BY <1>1, <1>4 DEF DeliverToFrontline, UseCase
  <2>2. /\ session'[i].snapshot.receipt = s.sent + 1 /\ session'[i].deliveryId = s.deliveryId
        /\ session'[i].ledger = [s.ledger EXCEPT ![s.deliveryId] = "COMPLETED"]
    BY <1>1, <1>2, <2>1 DEF Sessions, Snapshots
  <2> QED
    BY <1>2, <2>1, <2>2 DEF Ledgers, ActionIds, Numbered
<1>5. CASE AnalysisFails(i) \/ RepeatProof(i) \/ NothingToDo(i)
  BY <1>1, <1>5 DEF AnalysisFails, RepeatProof, NothingToDo, UseCase
<1>6. CASE AnalysisFindsNoTarget(i)
  <2>1. session'[i] = [s EXCEPT !.snapshot.impact = "NO_TARGET"]
    BY <1>1, <1>6 DEF AnalysisFindsNoTarget, UseCase
  <2> QED
    BY <1>1, <1>2, <2>1 DEF Sessions, Snapshots, Numbered
<1>7. CASE AnalysisQualifies(i)
  <2>1. session'[i] = [s EXCEPT !.snapshot.impact = "TARGET", !.workflow.affected = TRUE]
    BY <1>1, <1>7 DEF AnalysisQualifies, UseCase
  <2> QED
    BY <1>1, <1>2, <2>1 DEF Sessions, Snapshots, Workflows, Numbered
<1>8. ASSUME NEW result \in Results, SubmitFieldEvidence(i, result)
      PROVE  Numbered(session'[i])
  <2>1. session'[i] = [s EXCEPT !.workflow.state = VerdictState(result),
                                !.snapshot.events = Append(s.snapshot.events, result)]
    BY <1>1, <1>8 DEF SubmitFieldEvidence, UseCase
  <2> QED
    BY <1>1, <1>2, <2>1 DEF Sessions, Snapshots, Workflows, Numbered
<1>9. CASE GenerateProof(i)
  <2>1. session'[i] = [s EXCEPT !.proof = ProofOf(s)]
    BY <1>1, <1>9 DEF GenerateProof, UseCase
  <2> QED
    BY <1>1, <2>1 DEF Sessions, Numbered
<1> QED
  BY <1>3, <1>4, <1>5, <1>6, <1>7, <1>8, <1>9 DEF Request

LEMMA StaysNumbered == TypeInv /\ NumberedInv /\ [Next]_vars => NumberedInv'
<1> SUFFICES ASSUME TypeInv, NumberedInv, [Next]_vars PROVE NumberedInv'
  OBVIOUS
<1> USE DEF docs, counters
<1>0. session \in [Instances -> Sessions \union {None}]
  BY DEF TypeInv, TypeOK
<1>1. ASSUME NEW i \in Instances, Request(i) PROVE NumberedInv'
  <2>1. Requested(i) /\ Live(i)
    BY <1>1, RequestsRequested DEF Requested, Idle
  <2>2. Numbered(session'[i])
    BY <1>1, <2>1, RequestNumbers DEF NumberedInv
  <2> QED
    BY <1>0, <2>1, <2>2 DEF Requested, NumberedInv, Live
<1>2. ASSUME NEW i \in Instances, Perform(i) PROVE NumberedInv'
  <2>1. Live(i) /\ SessionsKept(i) /\ snapshotDoc' \in {snapshotDoc, session[i].snapshot}
    BY <1>2, PerformerLives, PerformTypes DEF Perform, Advance, ComposeDelta, ReturnFlushes,
       RecordWorkflow, RecordActions, RecordSession, RecordProof, WorkflowConflict, ProofConflict,
       StoreFails, Due
  <2>2. Numbered(session[i]) /\ Numbered(session'[i])
    BY <1>2, <2>1, PerformKeeps DEF NumberedInv, Numbered
  <2> QED
    BY <2>1, <2>2 DEF NumberedInv, SessionsKept, Live, Numbered
<1>3. ASSUME NEW i \in Instances, Crash(i) PROVE NumberedInv'
  BY <1>0, <1>3 DEF Crash, NumberedInv, Live
<1>4. ASSUME NEW i \in Instances, Resume(i) PROVE NumberedInv'
  <2>1. Numbered(Rehydrated)
    BY DEF NumberedInv, Numbered, Rehydrated
  <2> QED
    BY <1>0, <1>4, <2>1 DEF Resume, NumberedInv, Live
<1>5. CASE UNCHANGED vars
  BY <1>5 DEF vars, NumberedInv, Live
<1> QED
  BY <1>1, <1>2, <1>3, <1>4, <1>5 DEF Next

LEMMA AlwaysNumbered == Spec => []NumberedInv
<1>1. Init => NumberedInv
  BY DEF Init, Live, NumberedInv, Numbered, FreshSession, FreshSnapshot
<1> QED
  BY AlwaysTyped, <1>1, StaysNumbered, PTL DEF Spec

-----------------------------------------------------------------------------
(***************************************************************************)
(* What a session owes to the order in which the use cases run             *)
(***************************************************************************)

Done == {"VERIFICATION_PASSED", "PROOF_COMPLETE"}

EndsInPass(events) == events # <<>> /\ Last(events) = "PASS"

\* Evidence comes with its action, a receipt with its dispatch, a PASS with its state.
Ordered(s) ==
  /\ s.snapshot.evidence => s.ledger["REMEDIATE"] = "COMPLETED"
  /\ s.snapshot.receipt # 0 => dispatches > 0
  /\ EndsInPass(s.snapshot.events) => s.workflow.state \in Done

\* What a session never loses.
Grows(s, t) ==
  /\ s.ledger["REMEDIATE"] = "COMPLETED" => t.ledger["REMEDIATE"] = "COMPLETED"
  /\ s.snapshot.evidence => t.snapshot.evidence
  /\ s.snapshot.receipt # 0 => t.snapshot.receipt = s.snapshot.receipt
  /\ s.workflow.state \in Done =>
       t.workflow.state \in Done /\ t.snapshot.events = s.snapshot.events
  /\ s.workflow.state \in Done /\ t.workflow.state = "VERIFICATION_PASSED" =>
       /\ s.workflow.state = "VERIFICATION_PASSED"
       /\ t.workflow.history = s.workflow.history

\* A passed workflow is judged no more.
LEMMA DoneIsJudged ==
  ASSUME NEW state \in Done
  PROVE  ~Awaiting(state)
BY DEF Done, Awaiting, CanTransition, LegalTargets, TerminalStates, Progress, Abandoned

LEMMA DoneStays ==
  ASSUME NEW state \in Done, NEW target \in Tasks, CanTransition(state, target)
  PROVE  state = "VERIFICATION_PASSED" /\ target = "PROOF_COMPLETE"
BY DEF Done, CanTransition, LegalTargets, TerminalStates, Progress, Abandoned, Tasks

LEMMA RequestGrows ==
  ASSUME TypeInv, NEW i \in Instances, Request(i), Numbered(session[i])
  PROVE  Grows(session[i], session'[i]) /\ (Ordered(session[i]) => Ordered(session[i])')
<1>0. Live(i)
  BY DEF Request, AnalysisFails, AnalysisFindsNoTarget, AnalysisQualifies, DeployChange,
     DeliverToFrontline, SubmitFieldEvidence, GenerateProof, RepeatProof, NothingToDo, UseCase, Idle
<1> DEFINE s == session[i]
<1>1. s \in Sessions /\ session \in [Instances -> Sessions \union {None}] /\ dispatches \in Nat
  BY <1>0 DEF TypeInv, TypeOK, Live
<1>2. /\ s.ledger \in Ledgers /\ s.snapshot \in Snapshots /\ s.workflow \in Workflows
      /\ s.deliveryId \in ActionIds /\ "REMEDIATE" \in ActionIds
  BY <1>1 DEF Sessions, ActionIds
<1>3. CASE DeployChange(i)
  <2>1. session'[i] = [s EXCEPT !.ledger["REMEDIATE"] = "COMPLETED", !.snapshot.evidence = TRUE]
        /\ dispatches' = dispatches
    BY <1>1, <1>3 DEF DeployChange, UseCase
  <2> QED
    BY <1>1, <1>2, <2>1 DEF Sessions, Snapshots, Ledgers, Grows, Ordered
<1>4. CASE DeliverToFrontline(i)
  <2>1. session'[i] = [s EXCEPT !.ledger[s.deliveryId] = "COMPLETED", !.sent = @ + 1,
                                !.snapshot.receipt = s.sent + 1, !.workflow.delivered = TRUE]
        /\ dispatches' = dispatches + 1 /\ s.ledger[s.deliveryId] = "ABSENT"
    BY <1>1, <1>4 DEF DeliverToFrontline, UseCase
  <2>2. /\ session'[i].snapshot.receipt = s.sent + 1
        /\ session'[i].snapshot.events = s.snapshot.events
        /\ session'[i].snapshot.evidence = s.snapshot.evidence
        /\ session'[i].workflow.state = s.workflow.state
        /\ session'[i].workflow.history = s.workflow.history
        /\ session'[i].ledger = [s.ledger EXCEPT ![s.deliveryId] = "COMPLETED"]
    BY <1>1, <1>2, <2>1 DEF Sessions, Snapshots, Workflows
  <2>3. s.snapshot.receipt # 0 => session'[i].snapshot.receipt = s.snapshot.receipt
    BY <2>1, <2>2 DEF Numbered
  <2>4. s.ledger["REMEDIATE"] = "COMPLETED" => session'[i].ledger["REMEDIATE"] = "COMPLETED"
    BY <1>2, <2>2 DEF Ledgers
  <2>5. Grows(s, session'[i])
    BY <2>2, <2>3, <2>4 DEF Grows
  <2>6. Ordered(s) => Ordered(s)'
    BY <1>1, <2>1, <2>2, <2>4 DEF Ordered
  <2> QED
    BY <2>5, <2>6
<1>5. CASE AnalysisFails(i) \/ RepeatProof(i) \/ NothingToDo(i)
  <2>1. session'[i] = s /\ dispatches' = dispatches
    BY <1>1, <1>5 DEF AnalysisFails, RepeatProof, NothingToDo, UseCase
  <2> QED
    BY <2>1 DEF Grows, Ordered
<1>6. CASE AnalysisFindsNoTarget(i)
  <2>1. session'[i] = [s EXCEPT !.snapshot.impact = "NO_TARGET"] /\ dispatches' = dispatches
    BY <1>1, <1>6 DEF AnalysisFindsNoTarget, UseCase
  <2> QED
    BY <1>1, <1>2, <2>1 DEF Sessions, Snapshots, Grows, Ordered
<1>7. CASE AnalysisQualifies(i)
  <2>1. session'[i] = [s EXCEPT !.snapshot.impact = "TARGET", !.workflow.affected = TRUE]
        /\ dispatches' = dispatches
    BY <1>1, <1>7 DEF AnalysisQualifies, UseCase
  <2> QED
    BY <1>1, <1>2, <2>1 DEF Sessions, Snapshots, Workflows, Grows, Ordered
<1>8. ASSUME NEW result \in Results, SubmitFieldEvidence(i, result)
      PROVE  Grows(session[i], session'[i]) /\ (Ordered(session[i]) => Ordered(session[i])')
  <2>1. session'[i] = [s EXCEPT !.workflow.state = VerdictState(result),
                                !.snapshot.events = Append(s.snapshot.events, result)]
        /\ dispatches' = dispatches /\ Awaiting(s.workflow.state)
    BY <1>1, <1>8 DEF SubmitFieldEvidence, UseCase
  <2>2. s.workflow.state \notin Done
    BY <2>1, DoneIsJudged
  <2>3. Last(Append(s.snapshot.events, result)) = result
    BY <1>2, AppendProperties DEF Snapshots, Last
  <2>4. result = "PASS" => VerdictState(result) \in Done
    BY DEF VerdictState, Done
  <2>5. /\ session'[i].workflow.state = VerdictState(result)
        /\ session'[i].snapshot.events = Append(s.snapshot.events, result)
        /\ session'[i].ledger = s.ledger
        /\ session'[i].snapshot.evidence = s.snapshot.evidence
        /\ session'[i].snapshot.receipt = s.snapshot.receipt
    BY <1>1, <1>2, <2>1 DEF Sessions, Snapshots, Workflows
  <2> QED
    BY <2>1, <2>2, <2>3, <2>4, <2>5 DEF Grows, Ordered, EndsInPass
<1>9. CASE GenerateProof(i)
  <2>1. session'[i] = [s EXCEPT !.proof = ProofOf(s)] /\ dispatches' = dispatches
    BY <1>1, <1>9 DEF GenerateProof, UseCase
  <2> QED
    BY <1>1, <1>2, <2>1 DEF Sessions, Grows, Ordered
<1> QED
  BY <1>3, <1>4, <1>5, <1>6, <1>7, <1>8, <1>9 DEF Request

LEMMA PerformGrows ==
  ASSUME TypeInv, NEW i \in Instances, Perform(i)
  PROVE  Grows(session[i], session'[i]) /\ (Ordered(session[i]) => Ordered(session[i])')
<1> USE DEF docs, counters
<1>1. session[i].workflow.state \in Done =>
        \/ session'[i].workflow = session[i].workflow
        \/ session'[i].workflow.state = "PROOF_COMPLETE"
  <2>1. SUFFICES ASSUME NEW target \in WorkflowState, Advance(i, target), session # session',
                        session[i].workflow.state \in Done
                 PROVE  session'[i].workflow.state = "PROOF_COMPLETE"
    <3>1. ComposeDelta(i) => session'[i].workflow = session[i].workflow
      <4>1. ASSUME ComposeDelta(i) PROVE session[i] \in Sessions
        BY <4>1, PerformerLives DEF ComposeDelta, Due
      <4> QED
        BY <4>1 DEF ComposeDelta, Sessions, TypeInv, TypeOK
    <3> QED
      BY <3>1 DEF Perform, ReturnFlushes, RecordWorkflow, RecordActions, RecordSession, RecordProof,
         WorkflowConflict, ProofConflict, StoreFails
  <2>2. target \in Tasks
    BY <2>1, DueTargets
  <2>3. CanTransition(session[i].workflow.state, target)
    BY <2>1 DEF Advance
  <2>4. session'[i].workflow.state = target
    BY <2>1, AdvanceMoves
  <2> QED
    BY <2>1, <2>2, <2>3, <2>4, DoneStays
<1>2. dispatches' = dispatches
  BY DEF Perform, Advance, ComposeDelta, ReturnFlushes, RecordWorkflow,
     RecordActions, RecordSession, RecordProof, WorkflowConflict, ProofConflict, StoreFails
<1>3. session[i].workflow.state \in Done => session'[i].workflow.state \in Done
  BY <1>1 DEF Done
<1>4. Grows(session[i], session'[i])
  BY <1>1, <1>3, PerformKeeps DEF Grows
<1> QED
  BY <1>2, <1>3, <1>4, PerformKeeps DEF Ordered

-----------------------------------------------------------------------------
(***************************************************************************)
(* Memory and documents, when instances only crash                         *)
(***************************************************************************)

\* A flush has written the documents before the one it is at; between use cases
\* all of them are written.
Flushed(i) ==
  /\ basis[i] # "STALE"
  /\ writing[i] = "NONE" /\ todo[i] = <<>> =>
       /\ session[i].workflow = workflowDoc
       /\ session[i].ledger = actionDocs
       /\ session[i].snapshot = snapshotDoc
  /\ writing[i] \in {"ACTIONS", "SNAPSHOT"} => session[i].workflow = workflowDoc
  /\ writing[i] = "SNAPSHOT" => session[i].ledger = actionDocs

\* The documents are ordered like a session, and memory is not behind them.
DocumentsOrdered == Ordered(Rehydrated)

Ahead(i) ==
  /\ Ordered(session[i])
  /\ actionDocs["REMEDIATE"] = "COMPLETED" => session[i].ledger["REMEDIATE"] = "COMPLETED"
  /\ EndsInPass(snapshotDoc.events) => session[i].workflow.state \in Done

\* Session s agrees with a proof on what the proof was made from, as far as the
\* workflow has not moved on.
Agrees(s, proof) ==
  /\ s.snapshot.events = proof.events
  /\ s.snapshot.receipt = proof.receipt
  /\ s.workflow.state = "VERIFICATION_PASSED" => s.workflow.history = proof.history

\* Documents and memory bear out a proof.
Borne(proof) ==
  /\ EndsInPass(proof.events)
  /\ actionDocs["REMEDIATE"] = "COMPLETED" /\ snapshotDoc.evidence /\ proof.receipt # 0
  /\ dispatches > 0
  /\ Agrees(Rehydrated, proof)
  /\ \A i \in Instances : Live(i) => session[i].snapshot.evidence /\ Agrees(session[i], proof)

\* The tasks of a job that has no proof in hand.
Unproven == Tasks \ {"PROOF", "PROOF_COMPLETE"}

\* A proof in memory is the next document to be written, or is written; without
\* one the workflow is not complete.
ProofInHand(i) ==
  /\ session[i].proof = None => /\ todo[i] \in Seq(Unproven)
                                /\ session[i].workflow.state # "PROOF_COMPLETE"
  /\ session[i].proof # None =>
       /\ Borne(session[i].proof)
       /\ proofDoc # session[i].proof =>
            proofDoc = None /\ todo[i] # <<>> /\ Head(todo[i]) = "PROOF"

CrashInv ==
  mode = "CRASHES" =>
    /\ DocumentsOrdered
    /\ proofDoc # None => Borne(proofDoc)
    /\ \A i \in Instances : Live(i) => Flushed(i) /\ Ahead(i) /\ ProofInHand(i)
    /\ \A i \in Instances : ~Live(i) => basis[i] = "UNREAD"

LEMMA InitCrash == Init => CrashInv
<1> SUFFICES ASSUME Init PROVE CrashInv
  OBVIOUS
<1>1. <<>> \in Seq(Unproven)
  OBVIOUS
<1>2. \A i \in Instances : Live(i) => session[i] = FreshSession /\ basis[i] = "CURRENT"
  BY DEF Init, Live
<1>3. \A i \in Instances : ~Live(i) => basis[i] = "UNREAD"
  <2>1. FreshSession # None
    <3>0. <<>> \in Seq(Results) /\ <<>> \in Seq(WorkflowState)
      OBVIOUS
    <3>1. FreshSession \in Sessions
      BY <3>0 DEF FreshSession, FreshSnapshot, Sessions, Snapshots, Workflows, WorkflowState, Ledgers
    <3> QED
      BY <3>1, NoneIsNoSession
  <2> QED
    BY <2>1 DEF Init, Live
<1>4. Ordered(FreshSession) /\ Ordered(Rehydrated) /\ ~EndsInPass(snapshotDoc.events)
      /\ actionDocs["REMEDIATE"] = "ABSENT"
  BY DEF Init, Ordered, Rehydrated, FreshSession, FreshSnapshot, EndsInPass, ActionIds
<1>5. FreshSession.proof = None /\ FreshSession.workflow.state # "PROOF_COMPLETE"
  BY DEF FreshSession
<1> QED
  BY <1>1, <1>2, <1>3, <1>4, <1>5
     DEF Init, CrashInv, DocumentsOrdered, Flushed, Ahead, ProofInHand, FreshSession

\* What a request does to the proof in memory.
LEMMA RequestProofs ==
  ASSUME TypeInv, NEW i \in Instances, Request(i)
  PROVE  \/ /\ session'[i].proof = session[i].proof
            /\ session[i].proof = None =>
                 /\ todo'[i] \in Seq(Unproven)
                 /\ session[i].workflow.state # "PROOF_COMPLETE" =>
                      session'[i].workflow.state # "PROOF_COMPLETE"
         \/ /\ session[i].proof = None
            /\ session'[i].proof = ProofOf(session[i])
            /\ session'[i].snapshot = session[i].snapshot
            /\ session'[i].workflow = session[i].workflow
            /\ EndsInPass(session[i].snapshot.events)
            /\ session[i].snapshot.evidence /\ session[i].snapshot.receipt # 0
            /\ todo'[i] # <<>> /\ Head(todo'[i]) = "PROOF"
<1>0. Live(i) /\ todo \in [Instances -> Seq(Tasks)] /\ session[i] \in Sessions
      /\ session \in [Instances -> Sessions \union {None}]
  BY DEF Request, AnalysisFails, AnalysisFindsNoTarget, AnalysisQualifies, DeployChange,
     DeliverToFrontline, SubmitFieldEvidence, GenerateProof, RepeatProof, NothingToDo, UseCase, Idle,
     TypeInv, TypeOK, Live
<1>2. ASSUME NEW tasks \in Seq(Unproven)
      PROVE  tasks \o <<"RETURN">> \in Seq(Unproven)
  <2>1. <<"RETURN">> \in Seq(Unproven)
    BY DEF Tasks, Unproven
  <2> QED
    BY <2>1, ConcatProperties
<1>3. ASSUME NEW s, NEW tasks \in Seq(Unproven), UseCase(i, s, tasks)
      PROVE  todo'[i] \in Seq(Unproven)
  <2>1. todo'[i] = tasks \o <<"RETURN">>
    BY <1>0, <1>3 DEF UseCase
  <2> QED
    BY <1>2, <2>1
<1>4. /\ <<>> \in Seq(Unproven)
      /\ <<"IMPACT_DETERMINED">> \in Seq(Unproven)
      /\ <<"IMPACT_DETERMINED", "REVIEW_REQUIRED">> \in Seq(Unproven)
      /\ <<"IMPACT_DETERMINED", "REMEDIATION_PENDING", "REMEDIATION_COMPLETED", "COMPOSE">>
           \in Seq(Unproven)
      /\ <<"FRONTLINE_DELIVERY_COMPLETED", "AWAITING_FIELD_VERIFICATION">> \in Seq(Unproven)
  BY DEF Tasks, Unproven
<1>5. CASE ~ (GenerateProof(i) \/ RepeatProof(i))
  <2>1. todo'[i] \in Seq(Unproven)
    BY <1>3, <1>4, <1>5 DEF Request, AnalysisFails, AnalysisFindsNoTarget, AnalysisQualifies,
       DeployChange, DeliverToFrontline, SubmitFieldEvidence, NothingToDo
  <2>2. /\ session'[i].proof = session[i].proof
        /\ \/ session'[i].workflow.state = session[i].workflow.state
           \/ session'[i].workflow.state # "PROOF_COMPLETE"
    <3>0. session[i].workflow \in Workflows /\ session[i].snapshot \in Snapshots
      BY <1>0 DEF Sessions
    <3>1. CASE AnalysisFails(i) \/ NothingToDo(i)
      BY <1>0, <3>1 DEF AnalysisFails, NothingToDo, UseCase
    <3>2. CASE AnalysisFindsNoTarget(i)
      BY <1>0, <3>2 DEF AnalysisFindsNoTarget, UseCase, Sessions
    <3>3. CASE AnalysisQualifies(i)
      BY <1>0, <3>0, <3>3 DEF AnalysisQualifies, UseCase, Sessions, Workflows
    <3>4. CASE DeployChange(i)
      BY <1>0, <3>4 DEF DeployChange, UseCase, Sessions
    <3>5. CASE DeliverToFrontline(i)
      BY <1>0, <3>0, <3>5 DEF DeliverToFrontline, UseCase, Sessions, Workflows
    <3>6. ASSUME NEW result \in Results, SubmitFieldEvidence(i, result)
          PROVE  session'[i].proof = session[i].proof /\ session'[i].workflow.state # "PROOF_COMPLETE"
      <4>1. session'[i] = [session[i] EXCEPT !.workflow.state = VerdictState(result),
                                  !.snapshot.events = Append(session[i].snapshot.events, result)]
        BY <1>0, <3>6 DEF SubmitFieldEvidence, UseCase
      <4>2. VerdictState(result) # "PROOF_COMPLETE"
        BY DEF VerdictState
      <4> QED
        BY <1>0, <3>0, <4>1, <4>2 DEF Sessions, Workflows
    <3> QED
      BY <1>5, <3>1, <3>2, <3>3, <3>4, <3>5, <3>6 DEF Request
  <2> QED
    BY <2>1, <2>2
<1>6. CASE GenerateProof(i)
  <2>1. /\ session'[i] = [session[i] EXCEPT !.proof = ProofOf(session[i])]
        /\ todo'[i] = <<"PROOF", "PROOF_COMPLETE">> \o <<"RETURN">>
        /\ session[i].proof = None /\ ProofEligible(session[i])
    BY <1>0, <1>6 DEF GenerateProof, UseCase
  <2>2. <<"PROOF", "PROOF_COMPLETE">> \in Seq(Tasks) /\ <<"PROOF", "PROOF_COMPLETE">> # <<>>
        /\ Head(<<"PROOF", "PROOF_COMPLETE">>) = "PROOF"
    BY DEF Tasks
  <2>3. todo'[i] # <<>> /\ Head(todo'[i]) = "PROOF"
    BY <2>1, <2>2, NewJob
  <2> QED
    BY <1>0, <2>1, <2>3 DEF Sessions, ProofEligible, EndsInPass
<1>7. CASE RepeatProof(i)
  <2>1. session'[i] = session[i] /\ session[i].proof # None
    BY <1>0, <1>7 DEF RepeatProof, UseCase
  <2> QED
    BY <2>1
<1> QED
  BY <1>5, <1>6, <1>7

LEMMA JobGoesOn ==
  ASSUME NEW job \in Jobs, job # <<>>, Head(job) # "RETURN"
  PROVE  Tail(job) # <<>>
<1>1. job \in Seq(Tasks) /\ Last(job) = "RETURN" /\ Len(job) \in Nat /\ Len(job) >= 1
  BY EmptySeq, LenProperties DEF Jobs
<1>2. Len(job) # 1
  BY <1>1, HeadTailProperties DEF Last
<1>3. Len(Tail(job)) = Len(job) - 1
  BY <1>1, HeadTailProperties
<1> QED
  BY <1>1, <1>2, <1>3

\* A proof that was borne out stays so: its workflow is judged no more.
LEMMA BorneStays ==
  ASSUME TypeInv, AloneInv, mode = "CRASHES", NEW i \in Instances, Live(i), Ahead(i),
         \A j \in Instances : j # i => session'[j] = session[j],
         Grows(session[i], session'[i]),
         dispatches' \in {dispatches, dispatches + 1},
         workflowDoc' \in {workflowDoc, session[i].workflow},
         actionDocs' \in {actionDocs, session[i].ledger},
         snapshotDoc' \in {snapshotDoc, session[i].snapshot}
  PROVE  \A proof : Borne(proof) => Borne(proof)'
<1> SUFFICES ASSUME NEW proof, Borne(proof) PROVE Borne(proof)'
  OBVIOUS
<1>1. session[i].workflow.state \in Done /\ session[i].ledger["REMEDIATE"] = "COMPLETED"
  BY DEF Borne, Ahead, Agrees, Rehydrated
<1>2. \A j \in Instances : Live(j)' => j = i
  BY DEF AloneInv, Live
<1>3. /\ session[i].snapshot.evidence /\ Agrees(session[i], proof) /\ proof.receipt # 0
      /\ Agrees(Rehydrated, proof)
  BY DEF Borne
<1>4. dispatches' > 0
  BY DEF Borne, TypeInv, TypeOK
<1>5. Agrees(session'[i], proof) /\ session'[i].snapshot.evidence
  BY <1>1, <1>3 DEF Agrees, Grows
<1>6. Agrees(Rehydrated, proof)'
  BY <1>3 DEF Agrees, Rehydrated
<1>7. actionDocs'["REMEDIATE"] = "COMPLETED" /\ snapshotDoc'.evidence
  BY <1>1, <1>3 DEF Borne
<1>8. \A j \in Instances : Live(j)' => session'[j].snapshot.evidence /\ Agrees(session'[j], proof)
  BY <1>2, <1>5
<1> QED
  BY <1>3, <1>4, <1>6, <1>7, <1>8 DEF Borne, Agrees

LEMMA RequestCrash ==
  ASSUME TypeInv, AloneInv, NumberedInv, CrashInv, NEW i \in Instances, Request(i)
  PROVE  CrashInv'
<1> SUFFICES ASSUME mode' = "CRASHES" PROVE CrashInv'
  BY DEF CrashInv
<1>1. Requested(i) /\ dispatches' \in {dispatches, dispatches + 1}
  BY RequestsRequested
<1>2. /\ Live(i) /\ Live(i)' /\ mode = "CRASHES" /\ UNCHANGED <<docs, basis, writing>>
      /\ \A j \in Instances : j # i => session'[j] = session[j] /\ ~Live(j) /\ ~Live(j)'
  BY <1>1, NoneIsNoSession DEF Requested, Idle, AloneInv, Live, TypeInv, TypeOK
<1>3. Grows(session[i], session'[i]) /\ (Ordered(session[i]) => Ordered(session[i])')
  BY <1>2, RequestGrows DEF NumberedInv
<1>4. Flushed(i) /\ Ahead(i) /\ ProofInHand(i) /\ DocumentsOrdered
      /\ (proofDoc # None => Borne(proofDoc))
  BY <1>2 DEF CrashInv
<1>5. \A proof : Borne(proof) => Borne(proof)'
  BY <1>1, <1>2, <1>3, <1>4, BorneStays DEF docs
<1>6. /\ session[i].workflow = workflowDoc /\ session[i].ledger = actionDocs
      /\ session[i].snapshot = snapshotDoc
  BY <1>1, <1>4 DEF Requested, Idle, Flushed
<1>7. Flushed(i)' /\ Ahead(i)'
  BY <1>1, <1>2, <1>3, <1>4 DEF Requested, Idle, Flushed, Ahead, Grows, docs
<1>8. DocumentsOrdered'
  BY <1>1, <1>2, <1>4 DEF DocumentsOrdered, Ordered, Rehydrated, docs, TypeInv, TypeOK
<1>9. ProofInHand(i)'
  <2>1. session[i].proof # None => proofDoc = session[i].proof
    BY <1>1, <1>4 DEF ProofInHand, Requested, Idle
  <2>2. CASE /\ session'[i].proof = session[i].proof
             /\ session[i].proof = None =>
                  /\ todo'[i] \in Seq(Unproven)
                  /\ session[i].workflow.state # "PROOF_COMPLETE" =>
                       session'[i].workflow.state # "PROOF_COMPLETE"
    BY <1>2, <1>4, <1>5, <2>1, <2>2 DEF ProofInHand, docs
  <2>3. CASE /\ session[i].proof = None
             /\ session'[i].proof = ProofOf(session[i])
             /\ session'[i].snapshot = session[i].snapshot
             /\ session'[i].workflow = session[i].workflow
             /\ EndsInPass(session[i].snapshot.events)
             /\ session[i].snapshot.evidence /\ session[i].snapshot.receipt # 0
             /\ todo'[i] # <<>> /\ Head(todo'[i]) = "PROOF"
    <3>p. PICK p : p = ProofOf(session[i])
      OBVIOUS
    <3>0. session[i] \in Sessions
      BY <1>2 DEF Live, TypeInv, TypeOK
    <3>1. p \in Proofs /\ p # None
      <4>1. p \in Proofs
        BY <3>0, <3>p DEF ProofOf, Proofs, Sessions, Snapshots, Workflows
      <4> QED
        BY <4>1, NoneIsNoSession
    <3>2. actionDocs["REMEDIATE"] = "COMPLETED" /\ dispatches' > 0
      BY <1>1, <1>4, <1>6, <2>3 DEF Ahead, Ordered, TypeInv, TypeOK
    <3>3. Agrees(session[i], p) /\ Agrees(Rehydrated, p) /\ p.receipt # 0 /\ EndsInPass(p.events)
      BY <1>6, <2>3, <3>p DEF Agrees, ProofOf, Rehydrated
    <3>4. Agrees(session'[i], p)
      BY <2>3, <3>3 DEF Agrees
    <3>5. Agrees(Rehydrated, p)'
      BY <1>2, <3>3 DEF Agrees, Rehydrated, docs
    <3>6. Borne(p)'
      BY <1>2, <1>6, <2>3, <3>2, <3>3, <3>4, <3>5 DEF Borne, docs
    \* A proof that is stored already was made from the same.
    <3>7. proofDoc # None => proofDoc = p
      <4>1. SUFFICES ASSUME proofDoc # None PROVE proofDoc = p
        OBVIOUS
      <4>2. session[i].workflow.state = "VERIFICATION_PASSED"
        BY <1>4, <2>3 DEF Ahead, Ordered, ProofInHand, Done
      <4>3. Agrees(session[i], proofDoc)
        BY <1>2, <1>4, <4>1 DEF Borne
      <4>4. proofDoc \in Proofs
        BY <4>1 DEF TypeInv, TypeOK
      <4>5. /\ proofDoc.events = session[i].snapshot.events
            /\ proofDoc.receipt = session[i].snapshot.receipt
            /\ proofDoc.history = session[i].workflow.history
        BY <4>2, <4>3 DEF Agrees
      <4> QED
        BY <3>p, <4>4, <4>5 DEF Proofs, ProofOf
    <3>8. session'[i].proof = p /\ proofDoc' = proofDoc
      BY <1>2, <2>3, <3>p DEF docs
    <3> QED
      BY <2>3, <3>1, <3>6, <3>7, <3>8 DEF ProofInHand
  <2> QED
    BY <2>2, <2>3, RequestProofs
<1>10. (proofDoc # None => Borne(proofDoc))'
  BY <1>2, <1>4, <1>5 DEF docs
<1> QED
  BY <1>2, <1>7, <1>8, <1>9, <1>10 DEF CrashInv

LEMMA PerformCrash ==
  ASSUME TypeInv, AloneInv, CrashInv, NEW i \in Instances, Perform(i)
  PROVE  CrashInv'
<1> SUFFICES ASSUME mode' = "CRASHES" PROVE CrashInv'
  BY DEF CrashInv
<1> USE DEF docs, counters
<1>1. /\ Live(i) /\ mode = "CRASHES" /\ dispatches' = dispatches
      /\ session[i] \in Sessions /\ todo[i] \in Jobs /\ todo \in [Instances -> Jobs]
      /\ writing \in [Instances -> {"NONE", "WORKFLOW", "ACTIONS", "SNAPSHOT"}]
      /\ session \in [Instances -> Sessions \union {None}]
      /\ basis \in [Instances -> {"UNREAD", "CURRENT", "STALE"}]
  BY PerformerLives DEF Perform, Advance, ComposeDelta, ReturnFlushes, RecordWorkflow, RecordActions,
     RecordSession, RecordProof, WorkflowConflict, ProofConflict, StoreFails, Due, TypeInv, TypeOK
<1>2. /\ Live(i)' /\ SessionsKept(i)
      /\ \A j \in Instances : j # i => session'[j] = session[j] /\ ~Live(j) /\ ~Live(j)'
  BY <1>1, PerformTypes, NoneIsNoSession DEF SessionsKept, AloneInv, Live
<1>3. Flushed(i) /\ Ahead(i) /\ ProofInHand(i) /\ DocumentsOrdered
      /\ (proofDoc # None => Borne(proofDoc))
      /\ \A j \in Instances : ~Live(j) => basis[j] = "UNREAD"
  BY <1>1 DEF CrashInv
<1>4. Grows(session[i], session'[i]) /\ (Ordered(session[i]) => Ordered(session[i])')
  BY PerformGrows
<1>5. ASSUME workflowDoc' \in {workflowDoc, session[i].workflow},
             actionDocs' \in {actionDocs, session[i].ledger},
             snapshotDoc' \in {snapshotDoc, session[i].snapshot}
      PROVE  \A proof : Borne(proof) => Borne(proof)'
  BY <1>1, <1>2, <1>3, <1>4, <1>5, BorneStays
<1>6. session'[i].proof = session[i].proof
  BY PerformKeeps
<1>7. ~Raises
  BY <1>1 DEF Raises
\* A task that writes no document.
<1>8. ASSUME UNCHANGED <<basis, docs>>, Pop(i), writing[i] = "NONE", todo[i] # <<>>,
             Head(todo[i]) # "PROOF",
             session'[i].workflow.state = "PROOF_COMPLETE" =>
               session[i].workflow.state = "PROOF_COMPLETE" \/ Head(todo[i]) = "PROOF_COMPLETE",
             \/ writing' = [writing EXCEPT ![i] = "WORKFLOW"]
             \/ UNCHANGED writing /\ Head(todo[i]) # "RETURN"
      PROVE  CrashInv'
  <2>1. todo'[i] = Tail(todo[i]) /\ (Head(todo[i]) # "RETURN" => todo'[i] # <<>>)
    BY <1>1, <1>8, JobGoesOn DEF Pop
  <2>2. writing'[i] = "WORKFLOW" \/ (writing'[i] = "NONE" /\ todo'[i] # <<>>)
    BY <1>1, <1>8, <2>1
  <2>3. Flushed(i)' /\ Ahead(i)' /\ DocumentsOrdered'
    BY <1>1, <1>3, <1>4, <1>8, <2>2
       DEF Flushed, Ahead, Grows, DocumentsOrdered, Ordered, Rehydrated
  <2>4. session[i].proof = None =>
          todo'[i] \in Seq(Unproven) /\ session'[i].workflow.state # "PROOF_COMPLETE"
    <3>1. SUFFICES ASSUME session[i].proof = None
                   PROVE  todo'[i] \in Seq(Unproven) /\ session'[i].workflow.state # "PROOF_COMPLETE"
      OBVIOUS
    <3>2. todo[i] \in Seq(Unproven) /\ session[i].workflow.state # "PROOF_COMPLETE"
      BY <1>3, <3>1 DEF ProofInHand
    <3>3. Tail(todo[i]) \in Seq(Unproven) /\ Head(todo[i]) \in Unproven
      BY <1>8, <3>2, HeadTailProperties
    <3> QED
      BY <1>8, <2>1, <3>2, <3>3 DEF Unproven
  <2>5. ProofInHand(i)' /\ (proofDoc # None => Borne(proofDoc))'
    BY <1>3, <1>5, <1>6, <1>8, <2>4 DEF ProofInHand
  <2> QED
    BY <1>2, <1>3, <1>8, <2>3, <2>5 DEF CrashInv
<1>9. ASSUME NEW target \in WorkflowState, Advance(i, target) PROVE CrashInv'
  <2>1. target # "PROOF" /\ target # "RETURN"
    BY DEF WorkflowState
  <2>2. session'[i].workflow.state = "PROOF_COMPLETE" =>
          session[i].workflow.state = "PROOF_COMPLETE" \/ Head(todo[i]) = "PROOF_COMPLETE"
    BY <1>9, AdvanceMoves DEF Advance, Due
  <2> QED
    BY <1>8, <1>9, <2>1, <2>2 DEF Advance, Due, Write
<1>10. CASE ComposeDelta(i)
  <2>1. session'[i].workflow = session[i].workflow
    BY <1>1, <1>10 DEF ComposeDelta, Sessions
  <2> QED
    BY <1>8, <1>10, <2>1 DEF ComposeDelta, Due
<1>11. CASE ReturnFlushes(i)
  BY <1>8, <1>11 DEF ReturnFlushes, Due, Write
\* A document of a flush: session and jobs are untouched.
<1>12. ASSUME UNCHANGED <<session, todo, proofDoc>>, Flushed(i)', Ahead(i)', DocumentsOrdered',
              workflowDoc' \in {workflowDoc, session[i].workflow},
              actionDocs' \in {actionDocs, session[i].ledger},
              snapshotDoc' \in {snapshotDoc, session[i].snapshot},
              \A j \in Instances : ~Live(j) => basis'[j] = "UNREAD"
       PROVE  CrashInv'
  <2>1. ProofInHand(i)' /\ (proofDoc # None => Borne(proofDoc))'
    BY <1>3, <1>5, <1>12 DEF ProofInHand
  <2> QED
    BY <1>2, <1>12, <2>1 DEF CrashInv, Live
<1>13. ASSUME RecordWorkflow(i, TRUE) PROVE CrashInv'
  <2>1. /\ workflowDoc' = session[i].workflow /\ basis' = BasisAfter(i, TRUE)
        /\ writing'[i] = "ACTIONS" /\ UNCHANGED <<session, todo, actionDocs, snapshotDoc, proofDoc>>
    BY <1>1, <1>13 DEF RecordWorkflow, Answers, Write
  <2>2. basis'[i] = "CURRENT" /\ \A j \in Instances : ~Live(j) => basis'[j] = "UNREAD"
    BY <1>1, <1>3, <2>1 DEF BasisAfter
  <2>3. Flushed(i)'
    BY <2>1, <2>2 DEF Flushed
  <2>4. Ahead(i)' /\ DocumentsOrdered'
    BY <1>1, <1>3, <2>1 DEF Ahead, DocumentsOrdered, Ordered, Rehydrated
  <2> QED
    BY <1>12, <2>1, <2>2, <2>3, <2>4
<1>14. ASSUME RecordActions(i, TRUE) PROVE CrashInv'
  <2>1. /\ actionDocs' = session[i].ledger /\ writing'[i] = "SNAPSHOT" /\ writing[i] = "ACTIONS"
        /\ UNCHANGED <<session, todo, basis, workflowDoc, snapshotDoc, proofDoc>>
    BY <1>1, <1>14 DEF RecordActions, Answers, Write
  <2>2. Flushed(i)'
    BY <1>3, <2>1 DEF Flushed
  <2>3. Ahead(i)' /\ DocumentsOrdered'
    BY <1>1, <1>3, <2>1 DEF Ahead, DocumentsOrdered, Ordered, Rehydrated
  <2> QED
    BY <1>3, <1>12, <2>1, <2>2, <2>3
<1>15. ASSUME RecordSession(i, TRUE) PROVE CrashInv'
  <2>1. /\ snapshotDoc' = session[i].snapshot /\ writing'[i] = "NONE" /\ writing[i] = "SNAPSHOT"
        /\ UNCHANGED <<session, todo, basis, workflowDoc, actionDocs, proofDoc>>
    BY <1>1, <1>15 DEF RecordSession, Answers, Write
  <2>2. session[i].workflow = workflowDoc /\ session[i].ledger = actionDocs
    BY <1>3, <2>1 DEF Flushed
  <2>3. Flushed(i)'
    BY <1>3, <2>1, <2>2 DEF Flushed
  <2>4. Ahead(i)' /\ DocumentsOrdered'
    BY <1>1, <1>3, <2>1, <2>2 DEF Ahead, DocumentsOrdered, Ordered, Rehydrated
  <2> QED
    BY <1>3, <1>12, <2>1, <2>3, <2>4
\* The proof in hand is the one due.
<1>16. ASSUME Due(i, "PROOF") PROVE session[i].proof # None /\ Borne(session[i].proof)
  <2>1. session[i].proof # None
    <3>1. ASSUME todo[i] \in Seq(Unproven), todo[i] # <<>> PROVE Head(todo[i]) \in Unproven
      BY <3>1, HeadTailProperties
    <3> QED
      BY <1>3, <1>16, <3>1 DEF ProofInHand, Due, Unproven
  <2> QED
    BY <1>3, <2>1 DEF ProofInHand
<1>17. ASSUME RecordProof(i, TRUE) PROVE CrashInv'
  <2>1. /\ Due(i, "PROOF") /\ Pop(i) /\ proofDoc' = session[i].proof
        /\ UNCHANGED <<session, writing, basis, workflowDoc, actionDocs, snapshotDoc>>
    BY <1>17 DEF RecordProof
  <2>2. todo'[i] # <<>>
    BY <1>1, <2>1, JobGoesOn DEF Due, Pop
  <2>3. Flushed(i)' /\ Ahead(i)' /\ DocumentsOrdered'
    BY <1>1, <1>3, <2>1, <2>2
       DEF Flushed, Ahead, DocumentsOrdered, Ordered, Rehydrated, Due
  <2>4. Borne(session[i].proof)' /\ Borne(proofDoc)' /\ ProofInHand(i)'
    <3>1. Borne(session[i].proof)
      BY <1>16, <2>1
    <3> QED
      BY <1>1, <1>16, <2>1, <3>1 DEF Borne, Agrees, Rehydrated, ProofInHand, Live
  <2> QED
    BY <1>2, <1>3, <2>1, <2>3, <2>4 DEF CrashInv
<1>18. ~WorkflowConflict(i) /\ ~StoreFails(i)
  BY <1>3, <1>7 DEF WorkflowConflict, StoreFails, Flushed
<1>19. ~ProofConflict(i)
  <2>1. SUFFICES ASSUME Due(i, "PROOF"), proofDoc # None PROVE proofDoc = session[i].proof
    BY DEF ProofConflict
  <2> QED
    BY <1>3, <1>16, <2>1 DEF ProofInHand
<1>20. ASSUME NEW answered \in BOOLEAN,
              \/ RecordWorkflow(i, answered) \/ RecordActions(i, answered)
              \/ RecordSession(i, answered) \/ RecordProof(i, answered)
       PROVE  answered
  BY <1>7, <1>20 DEF RecordWorkflow, RecordActions, RecordSession, RecordProof, Answers
<1> QED
  BY <1>9, <1>10, <1>11, <1>13, <1>14, <1>15, <1>17, <1>18, <1>19, <1>20 DEF Perform

LEMMA NextCrash == TypeInv /\ AloneInv /\ NumberedInv /\ CrashInv /\ [Next]_vars => CrashInv'
<1> SUFFICES ASSUME TypeInv, AloneInv, NumberedInv, CrashInv, [Next]_vars PROVE CrashInv'
  OBVIOUS
<1> USE DEF docs, counters
<1>0. session \in [Instances -> Sessions \union {None}]
      /\ basis \in [Instances -> {"UNREAD", "CURRENT", "STALE"}]
  BY DEF TypeInv, TypeOK
<1>1. ASSUME NEW i \in Instances, Crash(i) PROVE CrashInv'
  <2>1. SUFFICES ASSUME mode = "CRASHES" PROVE CrashInv'
    BY <1>1 DEF CrashInv, Crash
  <2>2. \A j \in Instances : ~Live(j)' /\ basis'[j] = "UNREAD"
    BY <1>0, <1>1, <2>1 DEF Crash, AloneInv, CrashInv, Live
  <2>3. UNCHANGED <<docs, dispatches>>
    BY <1>1 DEF Crash
  <2> QED
    BY <2>1, <2>2, <2>3 DEF CrashInv, DocumentsOrdered, Ordered, Rehydrated, Borne, Agrees
<1>2. ASSUME NEW i \in Instances, Resume(i) PROVE CrashInv'
  <2>1. SUFFICES ASSUME mode = "CRASHES" PROVE CrashInv'
    BY <1>2 DEF CrashInv, Resume
  <2>2. /\ session'[i] = Rehydrated /\ basis[i] = "UNREAD"
        /\ todo[i] = <<>> /\ writing[i] = "NONE"
        /\ UNCHANGED <<todo, writing, basis, docs, mode, dispatches>>
    BY <1>0, <1>2, <2>1 DEF Resume, CrashInv, TypeInv, TypeOK
  <2>3. \A j \in Instances : j # i => ~Live(j)'
    BY <1>0, <1>2, <2>1 DEF Resume, Live
  <2>4. /\ Rehydrated.workflow = workflowDoc /\ Rehydrated.ledger = actionDocs
        /\ Rehydrated.snapshot = snapshotDoc /\ Rehydrated.proof = None
    BY DEF Rehydrated
  <2>5. <<>> \in Seq(Unproven) /\ workflowDoc.state # "PROOF_COMPLETE"
    BY <1>2 DEF Resume, Resumable, TerminalStates
  <2>6. DocumentsOrdered /\ (proofDoc # None => Borne(proofDoc))
        /\ \A j \in Instances : ~Live(j) => basis[j] = "UNREAD"
    BY <2>1 DEF CrashInv
  <2>7. Flushed(i)' /\ ProofInHand(i)'
    BY <2>2, <2>4, <2>5 DEF Flushed, ProofInHand
  <2>8. Ahead(i)' /\ DocumentsOrdered'
    BY <2>2, <2>4, <2>6 DEF Ahead, DocumentsOrdered, Ordered, Rehydrated
  <2>9. (proofDoc # None => Borne(proofDoc))'
    <3>1. Rehydrated' = Rehydrated
      BY <2>2 DEF Rehydrated, docs
    <3> QED
      BY <2>2, <2>3, <2>4, <2>6, <3>1 DEF Borne, Agrees, docs
  <2>10. \A j \in Instances : ~Live(j)' => ~Live(j)
    BY <1>0, <1>2 DEF Resume, Live
  <2> QED
    BY <2>2, <2>3, <2>6, <2>7, <2>8, <2>9, <2>10 DEF CrashInv
<1>3. CASE UNCHANGED vars
  <2>1. \A i \in Instances : /\ Flushed(i) => Flushed(i)'
                             /\ Ahead(i) => Ahead(i)'
                             /\ ProofInHand(i) => ProofInHand(i)'
    BY <1>3 DEF vars, Flushed, Ahead, Ordered, ProofInHand, Borne, Agrees, Rehydrated, Live
  <2> QED
    BY <1>3, <2>1 DEF vars, CrashInv, DocumentsOrdered, Ordered, Rehydrated, Borne, Agrees, Live
<1> QED
  BY <1>1, <1>2, <1>3, RequestCrash, PerformCrash DEF Next

LEMMA AlwaysCrash == Spec => []CrashInv
BY AlwaysTyped, AlwaysAlone, AlwaysNumbered, InitCrash, NextCrash, PTL DEF Spec

\* What a use case answered is durable: when an instance is between two of them,
\* memory is what the documents say, wherever its predecessors died.
THEOREM AnswersAreStored == Spec => []AnsweredIsStored
<1>1. CrashInv => AnsweredIsStored
  <2> SUFFICES ASSUME CrashInv, mode = "CRASHES", NEW i \in Instances, Idle(i)
               PROVE  /\ session[i].workflow = workflowDoc
                      /\ session[i].ledger = actionDocs
                      /\ session[i].snapshot = snapshotDoc
                      /\ session[i].proof \in {None, proofDoc}
    BY DEF AnsweredIsStored
  <2>1. Flushed(i) /\ ProofInHand(i) /\ (proofDoc # None => Borne(proofDoc))
    BY DEF CrashInv, Idle
  <2>2. session[i].proof # None => session[i].proof = proofDoc
    BY <2>1 DEF ProofInHand, Idle
  <2> QED
    BY <2>1, <2>2 DEF Flushed, Idle
<1> QED
  BY AlwaysCrash, <1>1, PTL

\* The stored Change Proof is borne out by the documents beside it, wherever an
\* instance died between two of them.
THEOREM StoredProofIsBacked == Spec => []ProofBacked
<1>1. CrashInv => ProofBacked
  BY DEF CrashInv, Borne, Agrees, Rehydrated, EndsInPass, ProofBacked
<1> QED
  BY AlwaysCrash, <1>1, PTL

-----------------------------------------------------------------------------
(***************************************************************************)
(* What is stored never goes back                                          *)
(***************************************************************************)

\* Session t is no earlier than s.
Onward(s, t) ==
  /\ Stage(t.workflow.state) >= Stage(s.workflow.state)
  /\ Stage(s.workflow.state) = 7 => t.workflow.state = s.workflow.state
  /\ IsPrefix(s.snapshot.events, t.snapshot.events)
  /\ \A a \in ActionIds : s.ledger[a] = "COMPLETED" => t.ledger[a] = "COMPLETED"

\* What an instance has in memory is no earlier than what the documents say.
ForwardInv ==
  mode # "OVERLAP" => \A i \in Instances : Live(i) => Onward(Rehydrated, session[i])

LEMMA PrefixReflexive == ASSUME NEW s \in Seq(Results) PROVE IsPrefix(s, s)
<1>1. Len(s) \in Nat
  BY LenProperties
<1> QED
  BY <1>1 DEF IsPrefix

LEMMA PrefixAppend ==
  ASSUME NEW s \in Seq(Results), NEW t \in Seq(Results), NEW r \in Results, IsPrefix(s, t)
  PROVE  IsPrefix(s, Append(t, r))
<1> DEFINE u == Append(t, r)
           n == Len(s)
<1>1. /\ n \in Nat /\ Len(t) \in Nat /\ n <= Len(t) /\ SubSeq(s, 1, n) = SubSeq(t, 1, n)
      /\ u \in Seq(Results) /\ Len(u) = Len(t) + 1 /\ \A k \in 1..Len(t) : u[k] = t[k]
  BY LenProperties, AppendProperties DEF IsPrefix
<1> HIDE DEF u
<1>2. \A k \in 1..n : t[k] \in Results /\ u[k] \in Results
  BY <1>1, ElementOfSeq
<1>3. SubSeq(t, 1, n) \in Seq(Results) /\ SubSeq(u, 1, n) \in Seq(Results)
      /\ Len(SubSeq(t, 1, n)) = n /\ Len(SubSeq(u, 1, n)) = n
  BY <1>1, <1>2, SubSeqProperties
<1>4. \A k \in 1..n : SubSeq(t, 1, n)[k] = t[k] /\ SubSeq(u, 1, n)[k] = u[k]
  BY <1>1, <1>2, SubSeqProperties
<1>5. SubSeq(t, 1, n) = SubSeq(u, 1, n)
  BY <1>1, <1>3, <1>4, SeqEqual
<1> QED
  BY <1>1, <1>5 DEF IsPrefix, u

LEMMA StagesOfTasks ==
  ASSUME NEW state \in WorkflowState, NEW target \in Tasks, CanTransition(state, target)
  PROVE  Stage(target) >= Stage(state) /\ Stage(state) # 7
BY DEF CanTransition, LegalTargets, TerminalStates, Progress, Abandoned, Stage, Tasks, WorkflowState

LEMMA StagesOfVerdicts ==
  ASSUME NEW state \in WorkflowState, Awaiting(state), NEW r \in Results
  PROVE  Stage(VerdictState(r)) >= Stage(state) /\ Stage(state) # 7
BY DEF Awaiting, CanTransition, LegalTargets, TerminalStates, Progress, Abandoned, Stage,
   VerdictState, Results, WorkflowState

\* What a step may do to what Onward compares.
Moves(s, t) ==
  /\ \/ t.workflow.state = s.workflow.state
     \/ \E target \in Tasks : CanTransition(s.workflow.state, target) /\ t.workflow.state = target
     \/ \E r \in Results : Awaiting(s.workflow.state) /\ t.workflow.state = VerdictState(r)
  /\ \/ t.snapshot.events = s.snapshot.events
     \/ \E r \in Results : t.snapshot.events = Append(s.snapshot.events, r)
  /\ \A a \in ActionIds : s.ledger[a] = "COMPLETED" => t.ledger[a] = "COMPLETED"

LEMMA MovesOnward ==
  ASSUME NEW d \in Sessions, NEW s \in Sessions, NEW t \in Sessions, Onward(d, s), Moves(s, t)
  PROVE  Onward(d, t)
<1>1. /\ s.workflow.state \in WorkflowState /\ d.workflow.state \in WorkflowState
      /\ s.snapshot.events \in Seq(Results) /\ d.snapshot.events \in Seq(Results)
  BY DEF Sessions, Workflows, Snapshots
<1>2. \A state \in WorkflowState : Stage(state) \in 0..7
  BY DEF Stage, WorkflowState
<1>3. \/ t.workflow.state = s.workflow.state
      \/ Stage(t.workflow.state) >= Stage(s.workflow.state) /\ Stage(s.workflow.state) # 7
  BY <1>1, StagesOfTasks, StagesOfVerdicts DEF Moves
<1>4. t.workflow.state \in WorkflowState
  BY DEF Sessions, Workflows
<1>5. /\ Stage(t.workflow.state) >= Stage(d.workflow.state)
      /\ Stage(d.workflow.state) = 7 => t.workflow.state = d.workflow.state
  BY <1>1, <1>2, <1>3, <1>4 DEF Onward
<1>6. IsPrefix(d.snapshot.events, t.snapshot.events)
  BY <1>1, PrefixAppend DEF Onward, Moves
<1> QED
  BY <1>5, <1>6 DEF Onward, Moves

LEMMA RequestMoves ==
  ASSUME TypeInv, NEW i \in Instances, Request(i)
  PROVE  Moves(session[i], session'[i])
<1>0. Live(i)
  BY DEF Request, AnalysisFails, AnalysisFindsNoTarget, AnalysisQualifies, DeployChange,
     DeliverToFrontline, SubmitFieldEvidence, GenerateProof, RepeatProof, NothingToDo, UseCase, Idle
<1> DEFINE s == session[i]
<1>1. s \in Sessions /\ session \in [Instances -> Sessions \union {None}]
  BY <1>0 DEF TypeInv, TypeOK, Live
<1>2. /\ s.ledger \in Ledgers /\ s.snapshot \in Snapshots /\ s.workflow \in Workflows
      /\ s.deliveryId \in ActionIds /\ "REMEDIATE" \in ActionIds
  BY <1>1 DEF Sessions, ActionIds
<1>3. CASE DeployChange(i)
  <2>1. session'[i] = [s EXCEPT !.ledger["REMEDIATE"] = "COMPLETED", !.snapshot.evidence = TRUE]
    BY <1>1, <1>3 DEF DeployChange, UseCase
  <2>2. /\ session'[i].workflow = s.workflow /\ session'[i].snapshot.events = s.snapshot.events
        /\ session'[i].ledger = [s.ledger EXCEPT !["REMEDIATE"] = "COMPLETED"]
    BY <1>1, <1>2, <2>1 DEF Sessions, Snapshots
  <2> QED
    BY <1>2, <2>2 DEF Ledgers, Moves
<1>4. CASE DeliverToFrontline(i)
  <2>1. session'[i] = [s EXCEPT !.ledger[s.deliveryId] = "COMPLETED", !.sent = @ + 1,
                                !.snapshot.receipt = s.sent + 1, !.workflow.delivered = TRUE]
    BY <1>1, <1>4 DEF DeliverToFrontline, UseCase
  <2>2. /\ session'[i].workflow.state = s.workflow.state
        /\ session'[i].snapshot.events = s.snapshot.events
        /\ session'[i].ledger = [s.ledger EXCEPT ![s.deliveryId] = "COMPLETED"]
    BY <1>1, <1>2, <2>1 DEF Sessions, Snapshots, Workflows
  <2> QED
    BY <1>2, <2>2 DEF Ledgers, Moves
<1>5. CASE AnalysisFails(i) \/ RepeatProof(i) \/ NothingToDo(i)
  BY <1>1, <1>5 DEF AnalysisFails, RepeatProof, NothingToDo, UseCase, Moves
<1>6. CASE AnalysisFindsNoTarget(i)
  <2>1. session'[i] = [s EXCEPT !.snapshot.impact = "NO_TARGET"]
    BY <1>1, <1>6 DEF AnalysisFindsNoTarget, UseCase
  <2>2. /\ session'[i].workflow = s.workflow /\ session'[i].snapshot.events = s.snapshot.events
        /\ session'[i].ledger = s.ledger
    BY <1>1, <1>2, <2>1 DEF Sessions, Snapshots
  <2> QED
    BY <2>2 DEF Moves
<1>7. CASE AnalysisQualifies(i)
  <2>1. session'[i] = [s EXCEPT !.snapshot.impact = "TARGET", !.workflow.affected = TRUE]
    BY <1>1, <1>7 DEF AnalysisQualifies, UseCase
  <2>2. /\ session'[i].workflow.state = s.workflow.state
        /\ session'[i].snapshot.events = s.snapshot.events /\ session'[i].ledger = s.ledger
    BY <1>1, <1>2, <2>1 DEF Sessions, Snapshots, Workflows
  <2> QED
    BY <2>2 DEF Moves
<1>8. ASSUME NEW result \in Results, SubmitFieldEvidence(i, result)
      PROVE  Moves(session[i], session'[i])
  <2>1. session'[i] = [s EXCEPT !.workflow.state = VerdictState(result),
                                !.snapshot.events = Append(s.snapshot.events, result)]
        /\ Awaiting(s.workflow.state)
    BY <1>1, <1>8 DEF SubmitFieldEvidence, UseCase
  <2>2. /\ session'[i].workflow.state = VerdictState(result)
        /\ session'[i].snapshot.events = Append(s.snapshot.events, result)
        /\ session'[i].ledger = s.ledger
    BY <1>1, <1>2, <2>1 DEF Sessions, Snapshots, Workflows
  <2> QED
    BY <2>1, <2>2 DEF Moves
<1>9. CASE GenerateProof(i)
  <2>1. session'[i] = [s EXCEPT !.proof = ProofOf(s)]
    BY <1>1, <1>9 DEF GenerateProof, UseCase
  <2> QED
    BY <1>1, <2>1 DEF Sessions, Moves
<1> QED
  BY <1>3, <1>4, <1>5, <1>6, <1>7, <1>8, <1>9 DEF Request

LEMMA PerformMoves ==
  ASSUME TypeInv, NEW i \in Instances, Perform(i)
  PROVE  Moves(session[i], session'[i])
<1> USE DEF docs, counters
<1>1. SUFFICES ASSUME session'[i].workflow.state # session[i].workflow.state
               PROVE  \E target \in Tasks : /\ CanTransition(session[i].workflow.state, target)
                                            /\ session'[i].workflow.state = target
  BY PerformKeeps DEF Moves
<1>2. PICK target \in WorkflowState : Advance(i, target)
  <2>1. ComposeDelta(i) => session'[i].workflow = session[i].workflow
    <3>1. ASSUME ComposeDelta(i) PROVE session[i] \in Sessions
      BY <3>1, PerformerLives DEF ComposeDelta, Due
    <3> QED
      BY <3>1 DEF ComposeDelta, Sessions, TypeInv, TypeOK
  <2> QED
    BY <1>1, <2>1 DEF Perform, ReturnFlushes, RecordWorkflow, RecordActions, RecordSession,
       RecordProof, WorkflowConflict, ProofConflict, StoreFails
<1> QED
  BY <1>1, <1>2, DueTargets, AdvanceMoves

LEMMA MixOnward ==
  ASSUME NEW d \in Sessions, NEW s \in Sessions, Onward(d, s), NEW e \in Sessions,
         e.workflow \in {d.workflow, s.workflow}, e.ledger \in {d.ledger, s.ledger},
         e.snapshot \in {d.snapshot, s.snapshot}
  PROVE  Onward(d, e) /\ Onward(e, s)
<1>1. /\ s.workflow.state \in WorkflowState /\ d.workflow.state \in WorkflowState
      /\ s.snapshot.events \in Seq(Results) /\ d.snapshot.events \in Seq(Results)
  BY DEF Sessions, Workflows, Snapshots
<1>2. \A state \in WorkflowState : Stage(state) \in 0..7
  BY DEF Stage, WorkflowState
<1>3. /\ Stage(e.workflow.state) >= Stage(d.workflow.state)
      /\ Stage(d.workflow.state) = 7 => e.workflow.state = d.workflow.state
      /\ Stage(s.workflow.state) >= Stage(e.workflow.state)
      /\ Stage(e.workflow.state) = 7 => s.workflow.state = e.workflow.state
  BY <1>1, <1>2 DEF Onward
<1>4. IsPrefix(d.snapshot.events, e.snapshot.events) /\ IsPrefix(e.snapshot.events, s.snapshot.events)
  BY <1>1, PrefixReflexive DEF Onward
<1> QED
  BY <1>3, <1>4 DEF Onward

\* One step neither takes the documents back nor lets memory fall behind them.
LEMMA StepForward ==
  ASSUME TypeInv, AloneInv, ForwardInv, [Next]_vars, mode # "OVERLAP"
  PROVE  /\ ForwardInv'
         /\ Onward(Rehydrated, Rehydrated') /\ (proofDoc # None => proofDoc' = proofDoc)
<1> USE DEF docs, counters
<1>0. /\ session \in [Instances -> Sessions \union {None}]
      /\ Rehydrated \in Sessions
      /\ Rehydrated.workflow = workflowDoc /\ Rehydrated.ledger = actionDocs
      /\ Rehydrated.snapshot = snapshotDoc
  BY DEF TypeInv, TypeOK, Rehydrated, Sessions
<1>s. ASSUME UNCHANGED docs PROVE Onward(Rehydrated, Rehydrated') /\ Rehydrated' = Rehydrated
  <2>1. Rehydrated.snapshot.events \in Seq(Results) /\ Stage(Rehydrated.workflow.state) \in 0..7
    BY <1>0 DEF Sessions, Snapshots, Workflows, Stage, WorkflowState
  <2>2. Rehydrated' = Rehydrated
    BY <1>s DEF Rehydrated
  <2> QED
    BY <2>1, <2>2, PrefixReflexive DEF Onward
<1>1. ASSUME NEW i \in Instances, Request(i)
      PROVE  ForwardInv' /\ UNCHANGED docs
  <2>1. Requested(i)
    BY <1>1, RequestsRequested
  <2>2. /\ Live(i) /\ session[i] \in Sessions /\ session'[i] \in Sessions /\ UNCHANGED docs
        /\ \A j \in Instances : j # i => ~Live(j)'
    BY <1>0, <2>1 DEF Requested, Idle, AloneInv, Live
  <2>3. Onward(Rehydrated, session'[i])
    BY <1>0, <1>1, <2>2, RequestMoves, MovesOnward DEF ForwardInv
  <2> QED
    BY <1>s, <2>2, <2>3 DEF ForwardInv
<1>2. ASSUME NEW i \in Instances, Perform(i)
      PROVE  /\ ForwardInv'
             /\ Onward(Rehydrated, Rehydrated') /\ (proofDoc # None => proofDoc' = proofDoc)
  <2>1. /\ Live(i) /\ session[i] \in Sessions /\ session'[i] \in Sessions /\ SessionsKept(i) /\ TypeInv'
        /\ \A j \in Instances : j # i => ~Live(j)'
    <3>1. Live(i) /\ session[i] \in Sessions
      BY <1>2, PerformerLives DEF Perform, Advance, ComposeDelta, ReturnFlushes, RecordWorkflow,
         RecordActions, RecordSession, RecordProof, WorkflowConflict, ProofConflict, StoreFails, Due
    <3> QED
      BY <1>2, <3>1, PerformTypes DEF SessionsKept, AloneInv, Live
  <2>2. Onward(Rehydrated, session[i]) /\ Onward(Rehydrated, session'[i])
    BY <1>0, <1>2, <2>1, PerformMoves, MovesOnward DEF ForwardInv
  <2>3. CASE UNCHANGED docs
    BY <1>s, <2>1, <2>2, <2>3 DEF ForwardInv
  <2>4. CASE UNCHANGED session
    <3>1. /\ workflowDoc' \in {workflowDoc, session[i].workflow}
          /\ actionDocs' \in {actionDocs, session[i].ledger}
          /\ snapshotDoc' \in {snapshotDoc, session[i].snapshot}
          /\ proofDoc # None => proofDoc' = proofDoc
      BY <1>2 DEF Perform, Advance, ComposeDelta, ReturnFlushes, RecordWorkflow, RecordActions,
         RecordSession, RecordProof, WorkflowConflict, ProofConflict, StoreFails
    <3>2. /\ Rehydrated' \in Sessions
          /\ Rehydrated'.workflow = workflowDoc' /\ Rehydrated'.ledger = actionDocs'
          /\ Rehydrated'.snapshot = snapshotDoc'
      BY <2>1 DEF TypeInv, TypeOK, Rehydrated, Sessions
    <3>3. Onward(Rehydrated, Rehydrated') /\ Onward(Rehydrated', session[i])
      BY <1>0, <2>1, <2>2, <3>1, <3>2, MixOnward
    <3> QED
      BY <2>1, <2>4, <3>1, <3>3 DEF ForwardInv
  <2> QED
    BY <1>2, <2>3, <2>4 DEF Perform, Advance, ComposeDelta, ReturnFlushes, RecordWorkflow, RecordActions,
       RecordSession, RecordProof, WorkflowConflict, ProofConflict, StoreFails
<1>3. ASSUME NEW i \in Instances, Crash(i)
      PROVE  ForwardInv' /\ UNCHANGED docs
  <2>1. UNCHANGED docs /\ \A j \in Instances : Live(j)' => Live(j) /\ session'[j] = session[j]
    BY <1>0, <1>3 DEF Crash, Live
  <2>2. Rehydrated' = Rehydrated
    BY <1>s, <2>1
  <2> QED
    BY <2>1, <2>2 DEF ForwardInv
<1>4. ASSUME NEW i \in Instances, Resume(i)
      PROVE  ForwardInv' /\ UNCHANGED docs
  <2>1. UNCHANGED docs /\ session'[i] = Rehydrated /\ \A j \in Instances : j # i => ~Live(j)'
    BY <1>0, <1>4 DEF Resume, Live
  <2>2. Rehydrated' = Rehydrated /\ Onward(Rehydrated, Rehydrated)
    BY <1>s, <2>1
  <2> QED
    BY <2>1, <2>2 DEF ForwardInv
<1>5. CASE UNCHANGED vars
  <2>1. UNCHANGED docs /\ UNCHANGED session
    BY <1>5 DEF vars
  <2>2. Rehydrated' = Rehydrated
    BY <1>s, <2>1
  <2> QED
    BY <1>s, <1>5, <2>1, <2>2 DEF vars, ForwardInv, Live
<1> QED
  BY <1>s, <1>1, <1>2, <1>3, <1>4, <1>5 DEF Next

LEMMA ModeIsFixed == [Next]_vars => mode' = mode
BY DEF docs, counters, Next, Request, AnalysisFails, AnalysisFindsNoTarget, AnalysisQualifies,
   DeployChange, DeliverToFrontline, SubmitFieldEvidence, GenerateProof, RepeatProof, NothingToDo,
   UseCase, Perform, Advance, ComposeDelta, ReturnFlushes, RecordWorkflow, RecordActions,
   RecordSession, RecordProof, WorkflowConflict, ProofConflict, StoreFails, Crash, Resume, vars

LEMMA AlwaysForward == Spec => []ForwardInv
<1>1. Init => ForwardInv
  <2> SUFFICES ASSUME Init, NEW i \in Instances, Live(i) PROVE Onward(Rehydrated, session[i])
    BY DEF ForwardInv
  <2>1. session[i] = FreshSession /\ workflowDoc = FreshSession.workflow
        /\ actionDocs = FreshSession.ledger /\ snapshotDoc = FreshSession.snapshot
    BY DEF Init, Live, FreshSession
  <2>2. IsPrefix(FreshSession.snapshot.events, FreshSession.snapshot.events)
    BY PrefixReflexive, EmptySeq DEF FreshSession, FreshSnapshot
  <2>3. Stage(FreshSession.workflow.state) = 0
    BY DEF FreshSession, Stage
  <2> QED
    BY <2>1, <2>2, <2>3 DEF Rehydrated, Onward
<1>2. TypeInv /\ AloneInv /\ ForwardInv /\ [Next]_vars => ForwardInv'
  BY StepForward, ModeIsFixed DEF ForwardInv
<1> QED
  BY AlwaysTyped, AlwaysAlone, <1>1, <1>2, PTL DEF Spec

\* What is stored never goes back: stage, verification events, completed actions
\* and proof of the documents only grow, whatever crashes, failing store calls and
\* resumes come between two writes of a flush.
THEOREM StoreMovesForward == Spec => NeverRegresses
<1> DEFINE Step == mode # "OVERLAP" =>
       /\ Stage(workflowDoc'.state) >= Stage(workflowDoc.state)
       /\ Stage(workflowDoc.state) = 7 => workflowDoc'.state = workflowDoc.state
       /\ IsPrefix(snapshotDoc.events, snapshotDoc'.events)
       /\ \A a \in ActionIds : actionDocs[a] = "COMPLETED" => actionDocs'[a] = "COMPLETED"
       /\ proofDoc # None => proofDoc' = proofDoc
<1>1. TypeInv /\ AloneInv /\ ForwardInv /\ [Next]_vars => Step
  BY StepForward DEF Onward, Rehydrated
<1>2. TypeInv /\ AloneInv /\ ForwardInv /\ [Next]_vars => [Step]_vars
  BY <1>1
<1> QED
  BY AlwaysTyped, AlwaysAlone, AlwaysForward, <1>2, PTL DEF Spec, NeverRegresses

-----------------------------------------------------------------------------
(***************************************************************************)
(* The lease of a resume.                                                  *)
(***************************************************************************)

\* A new workflow has no lease and nobody wants one.
LEMMA LeaseInitTypes == LeaseInit => LeaseTypeOK
  BY DEF LeaseInit, LeaseTypeOK, Acquiring, Holding

\* Every call and crash, and time, keep the variables in their kinds.
LEMMA LeaseNextTypes ==
  ASSUME LeaseTypeOK, [LeaseNext]_leaseVars
  PROVE  LeaseTypeOK'
<1>0. calm' = calm
  BY DEF LeaseNext, leaseVars
<1> USE <1>0 DEF LeaseTypeOK, Acquiring, Holding
<1>1. ASSUME NEW p \in Procs, Begin(p) PROVE LeaseTypeOK'
  BY <1>1, LeaseAssumption DEF Begin, Goto, Fresh, InUse
<1>2. ASSUME NEW p \in Procs, AcquireStep(p) PROVE LeaseTypeOK'
  <2>1. CASE Create(p) BY <2>1 DEF Create, Goto
  <2>2. CASE Read(p) BY <2>2 DEF Read, Goto, Leave
  <2>3. CASE TakeOver(p) BY <2>3 DEF TakeOver, Goto
  <2> QED BY <1>2, <2>1, <2>2, <2>3 DEF AcquireStep
<1>3. ASSUME NEW p \in Procs, ReleaseCheck(p) PROVE LeaseTypeOK'
  BY <1>3 DEF ReleaseCheck, Goto, Leave
<1>4. ASSUME NEW p \in Procs, Delete(p) PROVE LeaseTypeOK'
  BY <1>4 DEF Delete, Leave
<1>5. ASSUME NEW p \in Procs, HolderCrash(p) PROVE LeaseTypeOK'
  BY <1>5 DEF HolderCrash, Leave
<1>6. ASSUME NEW t \in Tokens, Expire(t) PROVE LeaseTypeOK'
  BY <1>6 DEF Expire
<1>7. CASE UNCHANGED leaseVars
  BY <1>7 DEF leaseVars
<1> QED BY <1>1, <1>2, <1>3, <1>4, <1>5, <1>6, <1>7 DEF LeaseNext

\* Every reachable state is well typed.
THEOREM LeaseTypeCorrect == LeaseSpec => []LeaseTypeOK
<1> QED BY LeaseInitTypes, LeaseNextTypes, PTL DEF LeaseSpec

-----------------------------------------------------------------------------
(***************************************************************************)
(* While no lease expires and no resume fails, the document, once created, *)
(* stays, and names the only holder there is.                              *)
(***************************************************************************)
Calm ==
  /\ expired = {}
  /\ \A p \in Procs :
       /\ asOf[p] = {}
       /\ step[p] \notin {"takeover", "delete"}
       /\ step[p] = "read" => lease # NoLease
       /\ step[p] = "held" => lease = token[p]
  /\ \A p, q \in Procs : token[p] = token[q] /\ token[p] # NoLease => p = q

HolderInv == LeaseTypeOK /\ (calm => Calm)

\* Every step keeps the one holder on record.
LEMMA NextHolderInv ==
  ASSUME HolderInv, [LeaseNext]_leaseVars
  PROVE  HolderInv'
<1>1. LeaseTypeOK'
  BY LeaseNextTypes DEF HolderInv
<1>0. calm' = calm
  BY DEF LeaseNext, leaseVars
<1> SUFFICES ASSUME calm PROVE Calm'
  BY <1>0, <1>1 DEF HolderInv
<1> USE <1>0, <1>1 DEF HolderInv, Calm, LeaseTypeOK, Acquiring, Holding
<1>2. ASSUME NEW p \in Procs, Begin(p) PROVE Calm'
  <2>1. PICK t \in Fresh : /\ token' = [token EXCEPT ![p] = t]
                           /\ expired' = expired \ {t}
                           /\ asOf' = [q \in Procs |-> (IF q = p THEN expired \intersect InUse
                                                                 ELSE asOf[q]) \ {t}]
    BY <1>2 DEF Begin
  <2>2. t # NoLease /\ t # lease /\ \A q \in Procs : token[q] # t
    BY <2>1, LeaseAssumption DEF Fresh, InUse
  <2>3. expired' = {} /\ \A q \in Procs : asOf'[q] = {}
    BY <2>1
  <2>4. step' = [step EXCEPT ![p] = "create"] /\ step[p] = "idle" /\ lease' = lease
    BY <1>2 DEF Begin, Goto
  <2> QED BY <2>1, <2>2, <2>3, <2>4
<1>3. ASSUME NEW p \in Procs, AcquireStep(p) PROVE Calm'
  <2>1. CASE Create(p)
    <3>1. CASE lease = NoLease
      <4>1. \A q \in Procs : step[q] # "held"
        BY <3>1
      <4> QED BY <2>1, <3>1, <4>1 DEF Create, Goto
    <3>2. CASE lease # NoLease
      BY <2>1, <3>2 DEF Create, Goto
    <3> QED BY <3>1, <3>2
  <2>2. CASE Read(p)
    BY <2>2 DEF Read, Goto, Leave
  <2>3. CASE TakeOver(p)
    BY <2>3 DEF TakeOver, Goto
  <2> QED BY <1>3, <2>1, <2>2, <2>3 DEF AcquireStep
<1>4. ASSUME NEW p \in Procs, ReleaseCheck(p) PROVE Calm'
  BY <1>4 DEF ReleaseCheck
<1>5. ASSUME NEW p \in Procs, Delete(p) PROVE Calm'
  BY <1>5 DEF Delete
<1>6. ASSUME NEW p \in Procs, HolderCrash(p) PROVE Calm'
  BY <1>6 DEF HolderCrash, Leave
<1>7. ASSUME NEW t \in Tokens, Expire(t) PROVE Calm'
  BY <1>7 DEF Expire
<1>8. CASE UNCHANGED leaseVars
  BY <1>8 DEF leaseVars
<1> QED BY <1>2, <1>3, <1>4, <1>5, <1>6, <1>7, <1>8 DEF LeaseNext

\* However many instances contend and crash, one of them holds the lease while
\* it lives: the create call decides.
THEOREM SingleHolder == LeaseSpec => []OneLiveHolder
<1>1. LeaseInit => HolderInv
  BY LeaseInitTypes DEF LeaseInit, HolderInv, Calm
<1>2. HolderInv /\ [LeaseNext]_leaseVars => HolderInv'
  BY NextHolderInv
<1>3. HolderInv => OneLiveHolder
  BY LeaseAssumption DEF HolderInv, Calm, LeaseTypeOK, OneLiveHolder, HoldsLive, Holding
<1> QED BY <1>1, <1>2, <1>3, PTL DEF LeaseSpec

=============================================================================
