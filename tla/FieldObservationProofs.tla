----------------------- MODULE FieldObservationProofs -----------------------
(***************************************************************************)
(* Proofs about FieldObservation: for any images, any answers of the model *)
(* endpoint, and any number of submissions, failed writes, crashes and     *)
(* resumes.                                                                *)
(***************************************************************************)
EXTENDS FieldObservation, SequenceTheorems, FiniteSetTheorems, TLAPS

\* What these name is plain everywhere below.
USE DEF Crossings, EvidenceOf, ConfiguredProviders

-----------------------------------------------------------------------------
(***************************************************************************)
(* Type correctness                                                        *)
(***************************************************************************)

\* An attempt that ends, however, leaves a call.
LEMMA CallTypes ==
  ASSUME CallTypeOK, \/ \E failure \in FailureClass : AttemptFails(failure)
                     \/ AttemptSucceeds
                     \/ attempts' = <<>> /\ repairUsed' = FALSE /\ outcome' = "PENDING"
                     \/ UNCHANGED callVars
  PROVE  CallTypeOK'
<1>1. ASSUME NEW failure \in FailureClass, AttemptFails(failure) PROVE CallTypeOK'
  <2>1. attempts' \in Seq(FailureClass \union {"OK"})
    BY <1>1, AppendProperties DEF AttemptFails, CallTypeOK
  <2>2. OutcomeOf(failure) \in RetryOutcome \union {"PENDING"} /\ repairUsed' \in BOOLEAN
    BY <1>1 DEF AttemptFails, OutcomeOf, RetryOutcome, CallTypeOK
  <2> QED
    BY <1>1, <2>1, <2>2 DEF AttemptFails, CallTypeOK
<1>2. CASE AttemptSucceeds
  <2>1. attempts' \in Seq(FailureClass \union {"OK"})
    BY <1>2, AppendProperties DEF AttemptSucceeds, CallTypeOK
  <2> QED
    BY <1>2, <2>1 DEF AttemptSucceeds, CallTypeOK, RetryOutcome
<1>3. CASE attempts' = <<>> /\ repairUsed' = FALSE /\ outcome' = "PENDING"
  BY <1>3, EmptySeq DEF CallTypeOK
<1>4. CASE UNCHANGED callVars
  BY <1>4 DEF callVars, CallTypeOK
<1> QED
  BY <1>1, <1>2, <1>3, <1>4

LEMMA Failures ==
  ASSUME NEW answer \in Answers, AnswersWith(answer) # "TEXT"
  PROVE  AnswersWith(answer) \in FailureClass
BY DEF AnswersWith, Unreadable, FailureClass

LEMMA EventTypes ==
  ASSUME TypeOK, NEW i \in Images, NEW observed \in Observations
  PROVE  EventOf(i, observed) \in Events
<1>1. ExistingEvents \in Seq(Events)
  BY DEF ExistingEvents, TypeOK
<1>2. ExistingEvents # <<>> => ExistingEvents[Len(ExistingEvents)] \in Events
  BY <1>1, EmptySeq, LenProperties, ElementOfSeq
<1>3. NextEventSequence \in Nat
  BY <1>1, <1>2 DEF NextEventSequence, Events
<1>4. CompareObservation(observed) \in Results
  BY DEF CompareObservation, Results
<1> QED
  BY <1>3, <1>4 DEF EventOf, Events, Results

\* What a judgement may do to the workflow: leave it, reopen it, or append.
Appends(i, observed) ==
  /\ Reopened(state) = "AWAITING_FIELD_VERIFICATION" /\ ~IsDuplicate(i)
  /\ state' = VerdictState(EventOf(i, observed).result)
  /\ history' = Append(history, EventOf(i, observed))
  /\ events' = Append(events, EventOf(i, observed))

LEMMA Adjudications ==
  ASSUME NEW i, NEW observed, Adjudicate(i, observed)
  PROVE  \/ Appends(i, observed)
         \/ /\ Reopened(state) # "AWAITING_FIELD_VERIFICATION" \/ IsDuplicate(i)
            /\ state' = Reopened(state) /\ UNCHANGED <<history, events>>
BY DEF Adjudicate, Appends, ChronologyWith

\* A submission that reaches the session, with what it observed if anything.
Judged(text) ==
  /\ pc = "calling" /\ image \in Images /\ text \in Observations
  /\ answered' = [answered EXCEPT ![image] = @ \union {text}]
  /\ known' = known \union {image}
  /\ store' = [store EXCEPT ![image] = [status |-> "OBSERVED", observation |-> text]]
  /\ \/ image \notin known /\ Adjudicate(image, text)
     \/ UNCHANGED <<workflow, events>>

Unjudged ==
  /\ pc = "calling" /\ image \in Images
  /\ UNCHANGED <<workflow, events>>
  /\ known' \in {known, known \union {image}}
  /\ store' = store \/ \E status \in {"PROVIDER_FAILED", "OUT_OF_DOMAIN"} :
       store' = [store EXCEPT ![image] = [status |-> status, observation |-> None]]
  /\ answered' = answered \/ \E texts \in SUBSET Observations :
       answered' = [answered EXCEPT ![image] = @ \union texts]

\* The rest of a step that ends the call.
Ended ==
  /\ pc' \in {"idle", "write_workflow"} /\ image' = None
  /\ validations' \in [Images -> Crossings]
  /\ view'.image \in Images \union {None} /\ view'.crossing \in Crossings
  /\ UNCHANGED <<provider, durable, bounds>>

LEMMA AnswersJudged ==
  ASSUME TypeOK, NEW text \in Answers, ModelAnswers(text)
  PROVE  Ended /\ (Unjudged \/ Judged(text))
<1> USE DEF workflow, session
<1>1. pc = "calling" /\ image \in Images /\ UNCHANGED <<provider, durable, bounds>>
  BY DEF ModelAnswers, TypeOK
<1>2. answered' = [answered EXCEPT ![image] = @ \union ({text} \intersect Observations)]
  BY DEF ModelAnswers
<1>3. CASE RequestRaises
  BY <1>1, <1>2, <1>3 DEF RequestRaises, Ended, Unjudged, TypeOK
<1>4. CASE NothingObserved("OUT_OF_DOMAIN")
  BY <1>1, <1>2, <1>4 DEF NothingObserved, Conclude, RecordEvidence, Shown, Ended, Unjudged, TypeOK
<1>5. ASSUME NormalizeObservation(text) # None,
             Accept(NormalizeObservation(text)) \/ Reject(NormalizeObservation(text))
      PROVE  Ended /\ Judged(text)
  <2>1. text \in Observations /\ NormalizeObservation(text) = text
    BY <1>5 DEF NormalizeObservation
  <2>2. answered' = [answered EXCEPT ![image] = @ \union {text}]
    BY <1>2, <2>1
  <2>3. validations' \in [Images -> Crossings]
    BY <1>5 DEF Accept, Reject, TypeOK
  <2>4. \/ image \notin known /\ Adjudicate(image, text)
        \/ UNCHANGED <<workflow, events>>
    BY <1>5, <2>1 DEF Accept, Reject, Crosses, ProvenanceHolds
  <2>5. \E crossing \in {"ACCEPTED", "REJECTED"} : Conclude("OBSERVED", text, crossing)
    BY <1>5, <2>1 DEF Accept, Reject
  <2> QED
    BY <1>1, <2>1, <2>2, <2>3, <2>4, <2>5 DEF Conclude, RecordEvidence, Shown, Ended, Judged
<1> QED
  BY <1>3, <1>4, <1>5 DEF ModelAnswers

LEMMA FailureUnjudged ==
  ASSUME TypeOK, ProviderFails
  PROVE  Ended /\ Unjudged
<1> USE DEF workflow, session
<1>1. pc = "calling" /\ image \in Images /\ UNCHANGED <<provider, durable, bounds, answered>>
  BY DEF ProviderFails, TypeOK
<1>2. CASE RequestRaises
  BY <1>1, <1>2 DEF RequestRaises, Ended, Unjudged, TypeOK
<1>3. CASE NothingObserved("PROVIDER_FAILED")
  BY <1>1, <1>3 DEF NothingObserved, Conclude, RecordEvidence, Shown, Ended, Unjudged, TypeOK
<1> QED
  BY <1>2, <1>3 DEF ProviderFails

\* A request that is answered without a call.
Answered ==
  /\ pc = "idle" /\ pc' = "write_workflow"
  /\ submissions' = submissions + 1
  /\ view'.image \in Images \union {None} /\ view'.crossing \in Crossings
  /\ UNCHANGED <<state, history, events, known, store, validations, provider, image, durable,
                 answered, resumes, faults, tears, callVars>>

LEMMA AnsweredAtOnce ==
  ASSUME TypeOK, \/ \E size \in Sizes, container \in Containers : RejectImage(size, container)
                 \/ \E i \in Images : Replay(i) \/ NoProvider(i)
  PROVE  Answered
<1> USE DEF workflow, Shown, AnswerAtOnce, Submit, Answered, TypeOK
<1>1. ASSUME NEW size \in Sizes, NEW container \in Containers, RejectImage(size, container)
      PROVE  Answered
  BY <1>1 DEF RejectImage
<1>2. ASSUME NEW i \in Images, Replay(i) PROVE Answered
  BY <1>2 DEF Replay
<1>3. ASSUME NEW i \in Images, NoProvider(i) PROVE Answered
  BY <1>3 DEF NoProvider
<1> QED
  BY <1>1, <1>2, <1>3

LEMMA InitTypes == Init => TypeOK
<1> SUFFICES ASSUME Init PROVE TypeOK
  OBVIOUS
<1>1. <<>> \in Seq(Events) /\ <<>> \in Seq(FailureClass \union {"OK"})
  OBVIOUS
<1>2. workflowDoc \in [state : States, history : Seq(Events)]
      /\ snapshotDoc \in [events : Seq(Events), known : SUBSET Images]
  BY <1>1 DEF Init, States
<1> QED
  BY <1>1, <1>2, FieldAssumption
     DEF Init, TypeOK, States, FreshStore, FreshValidations, NoView, Shown, CallInit, CallTypeOK

LEMMA NextTypes == TypeOK /\ [Next]_vars => TypeOK'
<1> SUFFICES ASSUME TypeOK, [Next]_vars PROVE TypeOK'
  OBVIOUS
<1> USE DEF workflow, session, durable, bounds, callVars
<1>0. None \notin Images
  BY FieldAssumption
<1>1. ASSUME Answered PROVE TypeOK'
  <2>1. CallTypeOK'
    BY <1>1, CallTypes DEF Answered, TypeOK
  <2> QED
    BY <1>0, <1>1, <2>1 DEF Answered, TypeOK
<1>2. ASSUME NEW i \in Images, StartObservation(i) PROVE TypeOK'
  <2>1. CallTypeOK'
    BY <1>2, CallTypes DEF StartObservation, TypeOK
  <2> QED
    BY <1>0, <1>2, <2>1 DEF StartObservation, Submit, TypeOK
<1>3. ASSUME NEW answer \in Answers, AttemptFailed(answer) PROVE TypeOK'
  <2>1. CallTypeOK'
    BY <1>3, CallTypes, Failures DEF AttemptFailed, TypeOK
  <2> QED
    BY <1>3, <2>1 DEF AttemptFailed, TypeOK
<1>4. ASSUME Ended, Unjudged, CallTypeOK' PROVE TypeOK'
  <2>1. store' \in [Images -> Records \union {None}]
    BY <1>4 DEF Unjudged, Records, TypeOK
  <2>2. answered' \in [Images -> SUBSET Observations]
    BY <1>4 DEF Unjudged, TypeOK
  <2>3. known' \subseteq Images
    BY <1>4 DEF Unjudged, TypeOK
  <2> QED
    BY <1>0, <1>4, <2>1, <2>2, <2>3 DEF Ended, Unjudged, TypeOK
<1>5. ASSUME NEW text, Ended, Judged(text), CallTypeOK' PROVE TypeOK'
  <2>1. store' \in [Images -> Records \union {None}]
    BY <1>5 DEF Judged, Records, TypeOK
  <2>2. answered' \in [Images -> SUBSET Observations] /\ known' \subseteq Images
    BY <1>5 DEF Judged, TypeOK
  <2>3. state' \in States /\ history' \in Seq(Events) /\ events' \in Seq(Events)
    <3>1. CASE UNCHANGED <<workflow, events>>
      BY <3>1 DEF TypeOK
    <3>2. CASE Appends(image, text)
      <4>1. EventOf(image, text) \in Events
        BY <1>5, EventTypes DEF Judged
      <4>2. VerdictState(EventOf(image, text).result) \in States
        BY DEF VerdictState, States, VerdictStates
      <4> QED
        BY <3>2, <4>1, <4>2, AppendProperties DEF Appends, TypeOK
    <3>3. CASE state' = Reopened(state) /\ UNCHANGED <<history, events>>
      BY <3>3 DEF Reopened, States, TypeOK
    <3> QED
      BY <1>5, <3>1, <3>2, <3>3, Adjudications DEF Judged
  <2> QED
    BY <1>0, <1>5, <2>1, <2>2, <2>3 DEF Ended, TypeOK
<1>6. ASSUME NEW text \in Answers, ModelAnswers(text) PROVE TypeOK'
  <2>1. CallTypeOK'
    BY <1>6, CallTypes DEF ModelAnswers, TypeOK
  <2> QED
    BY <1>4, <1>5, <1>6, <2>1, AnswersJudged
<1>7. CASE ProviderFails
  <2>1. CallTypeOK'
    BY <1>7, CallTypes DEF ProviderFails, TypeOK
  <2> QED
    BY <1>4, <1>7, <2>1, FailureUnjudged
<1>8. CASE WriteWorkflow \/ WriteSnapshot \/ WriteFails \/ Deliver \/ Crash \/ Resume
  <2>1. CallTypeOK'
    BY <1>8, CallTypes DEF WriteWorkflow, WriteSnapshot, WriteFails, Deliver, Crash, Resume, TypeOK
  <2>2. CASE WriteWorkflow
    BY <1>0, <2>1, <2>2 DEF WriteWorkflow, TypeOK
  <2>3. CASE WriteSnapshot
    BY <1>0, <2>1, <2>3 DEF WriteSnapshot, TypeOK
  <2>4. CASE WriteFails
    BY <1>0, <2>1, <2>4 DEF WriteFails, TypeOK
  <2>5. CASE Deliver
    BY <1>0, <2>1, <2>5 DEF Deliver, TypeOK, States
  <2>6. CASE Crash
    BY <1>0, <2>1, <2>6 DEF Crash, TypeOK
  <2>7. CASE Resume
    <3>1. store' \in [Images -> Records \union {None}]
          /\ validations' \in [Images -> Crossings]
          /\ view'.image \in Images \union {None} /\ view'.crossing \in Crossings
          /\ provider' \in ConfiguredProviders
      BY <2>7, FieldAssumption DEF Resume, FreshStore, FreshValidations, NoView, Shown
    <3>2. state' \in States /\ history' \in Seq(Events) /\ events' \in Seq(Events)
          /\ known' \subseteq Images
      BY <2>7 DEF Resume, ApplySnapshot, TypeOK
    <3>3. pc' = "idle" /\ image' = None /\ resumes' \in Nat
      BY <2>7 DEF Resume, TypeOK
    <3>4. UNCHANGED <<workflowDoc, snapshotDoc, answered, submissions, faults, tears>>
          /\ torn' \in BOOLEAN
      BY <2>7 DEF Resume
    <3> QED
      BY <1>0, <2>1, <3>1, <3>2, <3>3, <3>4 DEF TypeOK
  <2> QED
    BY <1>8, <2>2, <2>3, <2>4, <2>5, <2>6, <2>7
<1>9. CASE UNCHANGED vars
  BY <1>9 DEF vars, TypeOK, CallTypeOK
<1> QED
  BY <1>1, <1>2, <1>3, <1>6, <1>7, <1>8, <1>9, AnsweredAtOnce
     DEF Next

\* Every variable holds a value of its kind, and an image is held exactly while
\* the model is asked about it.
THEOREM TypeCorrect == Spec => []TypeOK
BY InitTypes, NextTypes, PTL DEF Spec

-----------------------------------------------------------------------------
(***************************************************************************)
(* What a step does to the chronologies                                    *)
(***************************************************************************)

\* A step that judges nothing and writes nothing.
Quiet ==
  /\ UNCHANGED <<state, history, events, known, torn, workflowDoc, snapshotDoc, answered, tears>>
  /\ pc' = pc \/ (pc # "down" /\ pc' \notin {"down", "write_snapshot"})

LEMMA StepKinds ==
  ASSUME TypeOK, [Next]_vars
  PROVE  \/ Quiet
         \/ Ended /\ Unjudged
         \/ \E text \in Observations : Ended /\ Judged(text)
         \/ WriteWorkflow \/ WriteSnapshot \/ Deliver \/ Crash \/ Resume
<1> USE DEF workflow, session, durable, bounds
<1>1. Answered => Quiet
  BY DEF Answered, Quiet
<1>2. ASSUME NEW i \in Images, StartObservation(i) PROVE Quiet
  BY <1>2 DEF StartObservation, Submit, Quiet
<1>3. ASSUME NEW answer \in Answers, AttemptFailed(answer) PROVE Quiet
  BY <1>3 DEF AttemptFailed, Quiet
<1>4. ASSUME NEW text \in Answers, ModelAnswers(text)
      PROVE  Ended /\ (Unjudged \/ \E t \in Observations : Judged(t))
  BY <1>4, AnswersJudged DEF Judged
<1>5. WriteFails => Quiet
  BY DEF WriteFails, Quiet
<1>6. UNCHANGED vars => Quiet
  BY DEF vars, Quiet
<1> QED
  BY <1>1, <1>2, <1>3, <1>4, <1>5, <1>6, AnsweredAtOnce, FailureUnjudged DEF Next

LEMMA PrefixReflexive == ASSUME NEW s \in Seq(Events) PROVE IsPrefix(s, s)
<1>1. Len(s) \in Nat
  BY LenProperties
<1> QED
  BY <1>1 DEF IsPrefix

LEMMA PrefixAppend ==
  ASSUME NEW s \in Seq(Events), NEW t \in Seq(Events), NEW e \in Events, IsPrefix(s, t)
  PROVE  IsPrefix(s, Append(t, e))
<1> DEFINE u == Append(t, e)
           n == Len(s)
<1>1. /\ n \in Nat /\ Len(t) \in Nat /\ n <= Len(t) /\ SubSeq(s, 1, n) = SubSeq(t, 1, n)
      /\ u \in Seq(Events) /\ Len(u) = Len(t) + 1 /\ \A k \in 1..Len(t) : u[k] = t[k]
  BY LenProperties, AppendProperties DEF IsPrefix
<1> HIDE DEF u
<1>2. \A k \in 1..n : t[k] \in Events /\ u[k] \in Events
  BY <1>1, ElementOfSeq
<1>3. SubSeq(t, 1, n) \in Seq(Events) /\ SubSeq(u, 1, n) \in Seq(Events)
      /\ Len(SubSeq(t, 1, n)) = n /\ Len(SubSeq(u, 1, n)) = n
  BY <1>1, <1>2, SubSeqProperties
<1>4. \A k \in 1..n : SubSeq(t, 1, n)[k] = t[k] /\ SubSeq(u, 1, n)[k] = u[k]
  BY <1>1, <1>2, SubSeqProperties
<1>5. SubSeq(t, 1, n) = SubSeq(u, 1, n)
  BY <1>1, <1>3, <1>4, SeqEqual
<1> QED
  BY <1>1, <1>5 DEF IsPrefix, u

-----------------------------------------------------------------------------
(***************************************************************************)
(* The verdicts rest on answers, and what is stored of them is not erased  *)
(***************************************************************************)

\* The answers account for every event of s.
Accounted(s, answers) ==
  \A k \in 1..Len(s) : /\ s[k].observation \in answers[s[k].image]
                       /\ s[k].result = CompareObservation(s[k].observation)

ObservedInv == Accounted(history, answered) /\ Accounted(workflowDoc.history, answered)

\* Answers are kept, so events that were accounted for stay so.
LEMMA AnswersKept ==
  ASSUME NEW s \in Seq(Events), NEW before, NEW after, Accounted(s, before),
         \A i \in Images : before[i] \subseteq after[i]
  PROVE  Accounted(s, after)
<1> SUFFICES ASSUME NEW k \in 1..Len(s)
             PROVE  /\ s[k].observation \in after[s[k].image]
                    /\ s[k].result = CompareObservation(s[k].observation)
  BY DEF Accounted
<1>1. s[k] \in Events
  BY ElementOfSeq
<1> QED
  BY <1>1 DEF Accounted, Events

LEMMA AnswerAdded ==
  ASSUME NEW s \in Seq(Events), NEW e \in Events, NEW answers, Accounted(s, answers),
         e.observation \in answers[e.image], e.result = CompareObservation(e.observation)
  PROVE  Accounted(Append(s, e), answers)
BY AppendProperties, LenProperties DEF Accounted

LEMMA ObservedStep == ObservedInv /\ TypeOK /\ [Next]_vars => ObservedInv'
<1> SUFFICES ASSUME ObservedInv, TypeOK, [Next]_vars PROVE ObservedInv'
  OBVIOUS
<1> USE DEF workflow, session, durable, bounds
<1>0. history \in Seq(Events) /\ workflowDoc.history \in Seq(Events)
  BY DEF TypeOK
<1>1. \A i \in Images : answered[i] \subseteq answered'[i]
  <2>1. ASSUME NEW text, Judged(text) PROVE \A i \in Images : answered[i] \subseteq answered'[i]
    BY <2>1 DEF Judged, TypeOK
  <2>2. Unjudged => \A i \in Images : answered[i] \subseteq answered'[i]
    BY DEF Unjudged, TypeOK
  <2> QED
    BY <2>1, <2>2, StepKinds
       DEF Quiet, WriteWorkflow, WriteSnapshot, Deliver, Crash, Resume
<1>2. Accounted(history, answered') /\ Accounted(workflowDoc.history, answered')
  BY <1>0, <1>1, AnswersKept DEF ObservedInv
<1>3. ASSUME NEW text \in Observations, Ended, Judged(text) PROVE ObservedInv'
  <2>1. CASE history' = history
    BY <1>2, <1>3, <2>1 DEF Ended, ObservedInv
  <2>2. CASE Appends(image, text)
    <3>1. EventOf(image, text) \in Events /\ image \in Images
      BY <1>3, EventTypes DEF Judged
    <3>2. /\ EventOf(image, text).observation \in answered'[EventOf(image, text).image]
          /\ EventOf(image, text).result = CompareObservation(EventOf(image, text).observation)
      BY <1>3, <3>1 DEF Judged, EventOf, TypeOK
    <3>3. Accounted(Append(history, EventOf(image, text)), answered')
      BY <1>0, <1>2, <3>1, <3>2, AnswerAdded
    <3> QED
      BY <1>2, <1>3, <2>2, <3>3 DEF Appends, Ended, ObservedInv
  <2> QED
    BY <1>3, <2>1, <2>2, Adjudications DEF Judged
<1>4. CASE Quiet \/ (Ended /\ Unjudged) \/ WriteSnapshot \/ Crash
  BY <1>2, <1>4 DEF Quiet, Ended, Unjudged, WriteSnapshot, Crash, ObservedInv
<1>5. CASE WriteWorkflow \/ Deliver
  BY <1>2, <1>5 DEF WriteWorkflow, Deliver, ObservedInv
<1>6. CASE Resume
  BY <1>2, <1>6 DEF Resume, ObservedInv
<1> QED
  BY <1>3, <1>4, <1>5, <1>6, StepKinds

\* A verdict rests on an answer of the model for that image, in time and in the
\* closed domain, and its result is what that answer is worth.
THEOREM VerdictsAreObserved == Spec => []VerdictIsObserved
<1>1. Init => ObservedInv
  BY DEF Init, ObservedInv, Accounted
<1>2. ObservedInv => VerdictIsObserved
  BY DEF ObservedInv, Accounted, CompareObservation, VerdictIsObserved
<1> QED
  BY <1>1, <1>2, TypeCorrect, ObservedStep, PTL DEF Spec

\* The session's workflow is never behind its document.
AheadInv == IsPrefix(workflowDoc.history, history)

LEMMA AheadStep == AheadInv /\ TypeOK /\ [Next]_vars
                     => AheadInv' /\ IsPrefix(workflowDoc.history, workflowDoc'.history)
<1> SUFFICES ASSUME AheadInv, TypeOK, [Next]_vars
             PROVE  AheadInv' /\ IsPrefix(workflowDoc.history, workflowDoc'.history)
  OBVIOUS
<1> USE DEF workflow, session, durable, bounds
<1>0. /\ history \in Seq(Events) /\ workflowDoc.history \in Seq(Events)
      /\ IsPrefix(history, history) /\ IsPrefix(workflowDoc.history, workflowDoc.history)
  BY PrefixReflexive DEF TypeOK
<1>1. ASSUME NEW text \in Observations, Ended, Judged(text)
      PROVE  IsPrefix(workflowDoc.history, history')
  <2>1. CASE history' = history
    BY <2>1 DEF AheadInv
  <2>2. CASE Appends(image, text)
    <3>1. EventOf(image, text) \in Events
      BY <1>1, EventTypes DEF Judged
    <3> QED
      BY <1>0, <2>2, <3>1, PrefixAppend DEF Appends, AheadInv
  <2> QED
    BY <1>1, <2>1, <2>2, Adjudications DEF Judged
<1>2. CASE Quiet \/ (Ended /\ Unjudged) \/ WriteSnapshot \/ Crash
  BY <1>0, <1>2 DEF Quiet, Ended, Unjudged, WriteSnapshot, Crash, AheadInv
<1>3. CASE WriteWorkflow \/ Deliver
  BY <1>0, <1>3 DEF WriteWorkflow, Deliver, AheadInv
<1>4. CASE Resume
  BY <1>0, <1>4 DEF Resume, AheadInv
<1> QED
  BY <1>0, <1>1, <1>2, <1>3, <1>4, StepKinds DEF Ended, AheadInv

\* What the workflow document says was judged is never erased or rewritten.
THEOREM HistoryIsAppendOnly == Spec => DurableHistoryIsAppendOnly
<1>1. Init => AheadInv
  <2>1. IsPrefix(<<>>, <<>>)
    BY PrefixReflexive, EmptySeq
  <2>2. Init => history = <<>> /\ workflowDoc.history = <<>>
    BY DEF Init
  <2> QED
    BY <2>1, <2>2 DEF AheadInv
<1> QED
  BY <1>1, TypeCorrect, AheadStep, PTL DEF Spec, DurableHistoryIsAppendOnly

-----------------------------------------------------------------------------
(***************************************************************************)
(* Without a torn flush the chronologies agree                             *)
(***************************************************************************)

\* The state of a workflow tells the last of its events.
Tells(s, h) ==
  IF h = <<>> THEN s \notin VerdictStates ELSE s = VerdictState(h[Len(h)].result)

Numbered(h) == \A k \in 1..Len(h) : h[k].seq = k

KnownInv ==
  /\ \A k \in 1..Len(events) : events[k].image \in known
  /\ \A k \in 1..Len(snapshotDoc.events) : snapshotDoc.events[k].image \in snapshotDoc.known

LEMMA KnownStep == KnownInv /\ TypeOK /\ [Next]_vars => KnownInv'
<1> SUFFICES ASSUME KnownInv, TypeOK, [Next]_vars PROVE KnownInv'
  OBVIOUS
<1> USE DEF workflow, session, durable, bounds
<1>1. ASSUME NEW text \in Observations, Ended, Judged(text) PROVE KnownInv'
  <2>1. CASE events' = events
    BY <1>1, <2>1 DEF Judged, Ended, KnownInv
  <2>2. CASE Appends(image, text)
    <3>1. EventOf(image, text) \in Events /\ EventOf(image, text).image = image
      BY <1>1, EventTypes DEF Judged, EventOf
    <3>2. events \in Seq(Events)
      BY DEF TypeOK
    <3>3. \A k \in 1..Len(events') : events'[k].image \in known'
      BY <1>1, <2>2, <3>1, <3>2, AppendProperties, LenProperties DEF Appends, Judged, KnownInv
    <3> QED
      BY <1>1, <3>3 DEF Ended, KnownInv
  <2> QED
    BY <1>1, <2>1, <2>2, Adjudications DEF Judged
<1>2. CASE Ended /\ Unjudged
  BY <1>2 DEF Ended, Unjudged, KnownInv
<1>3. CASE Quiet \/ WriteWorkflow \/ Crash
  BY <1>3 DEF Quiet, WriteWorkflow, Crash, KnownInv
<1>4. CASE WriteSnapshot \/ Deliver
  BY <1>4 DEF WriteSnapshot, Deliver, KnownInv
<1>5. CASE Resume
  BY <1>5 DEF Resume, ApplySnapshot, KnownInv
<1> QED
  BY <1>1, <1>2, <1>3, <1>4, <1>5, StepKinds

\* The chronologies of an untorn run: what is in memory, and what a resume will
\* find.  A process that is down was not torn.
AgreeInv ==
  /\ pc = "write_snapshot" => workflowDoc.history = history
  /\ tears = 0 =>
       /\ events = history
       /\ Numbered(history) /\ Tells(state, history)
       /\ Numbered(workflowDoc.history) /\ Tells(workflowDoc.state, workflowDoc.history)
       /\ ~torn => workflowDoc.history = snapshotDoc.events
       /\ pc = "down" => ~torn

\* Judging an image that is not known, when the chronologies agree.
LEMMA AgreeingJudgement ==
  ASSUME TypeOK, KnownInv, events = history, Numbered(history), Tells(state, history),
         NEW text \in Observations, image \in Images, image \notin known, Adjudicate(image, text)
  PROVE  events' = history' /\ Numbered(history') /\ Tells(state', history')
<1>0. history \in Seq(Events) /\ ExistingEvents = history
  BY DEF TypeOK, ExistingEvents
<1>1. ~IsDuplicate(image)
  BY <1>0 DEF IsDuplicate, KnownInv
<1>2. CASE Appends(image, text)
  <2> DEFINE event == EventOf(image, text)
  <2>1. event \in Events
    BY EventTypes
  <2>2. event.seq = Len(history) + 1
    <3>1. CASE history = <<>>
      BY <1>0, <3>1 DEF EventOf, NextEventSequence
    <3>2. CASE history # <<>>
      <4>1. Len(history) \in 1..Len(history)
        BY <1>0, <3>2, EmptySeq, LenProperties
      <4> QED
        BY <1>0, <3>2, <4>1 DEF EventOf, NextEventSequence, Numbered
    <3> QED
      BY <3>1, <3>2
  <2> HIDE DEF event
  <2>3. history' = Append(history, event) /\ events' = history' /\ state' = VerdictState(event.result)
    BY <1>2 DEF Appends, event
  <2>4. /\ Len(history') = Len(history) + 1 /\ Len(history) \in Nat
        /\ history'[Len(history) + 1] = event
        /\ \A k \in 1..Len(history) : history'[k] = history[k]
        /\ history' # <<>>
    BY <1>0, <2>1, <2>3, AppendProperties, LenProperties
  <2>5. Numbered(history')
    BY <2>2, <2>4 DEF Numbered
  <2> QED
    BY <2>3, <2>4, <2>5 DEF Tells
<1>3. CASE /\ Reopened(state) # "AWAITING_FIELD_VERIFICATION"
           /\ state' = Reopened(state) /\ UNCHANGED <<history, events>>
  BY <1>3 DEF Reopened
<1> QED
  BY <1>1, <1>2, <1>3, Adjudications

LEMMA AgreeStep == AgreeInv /\ KnownInv /\ TypeOK /\ [Next]_vars => AgreeInv'
<1> SUFFICES ASSUME AgreeInv, KnownInv, TypeOK, [Next]_vars PROVE AgreeInv'
  OBVIOUS
<1> USE DEF workflow, session, durable, bounds
<1>1. ASSUME NEW text \in Observations, Ended, Judged(text) PROVE AgreeInv'
  <2>1. CASE UNCHANGED <<workflow, events>>
    BY <1>1, <2>1 DEF Ended, AgreeInv
  <2>2. CASE image \notin known /\ Adjudicate(image, text)
    <3>1. tears = 0 => events' = history' /\ Numbered(history') /\ Tells(state', history')
      BY <1>1, <2>2, AgreeingJudgement DEF Judged, AgreeInv
    <3> QED
      BY <1>1, <3>1 DEF Ended, AgreeInv
  <2> QED
    BY <1>1, <2>1, <2>2 DEF Judged
<1>2. CASE Ended /\ Unjudged
  BY <1>2 DEF Ended, Unjudged, AgreeInv
<1>3. CASE Quiet
  BY <1>3 DEF Quiet, AgreeInv
<1>4. CASE WriteWorkflow
  BY <1>4 DEF WriteWorkflow, AgreeInv
<1>5. CASE WriteSnapshot
  BY <1>5 DEF WriteSnapshot, AgreeInv
<1>6. CASE Deliver
  <2>1. tears = 0 => history = <<>>
    BY <1>6 DEF Deliver, AgreeInv, Tells, VerdictState
  <2>2. tears = 0 => Tells(state', history)
    BY <1>6, <2>1 DEF Deliver, Tells, VerdictStates
  <2> QED
    BY <1>6, <2>2 DEF Deliver, AgreeInv
<1>7. CASE Crash
  <2>1. tears' = 0 => tears = 0 /\ ~torn
    BY <1>7 DEF Crash, TypeOK
  <2> QED
    BY <1>7, <2>1 DEF Crash, AgreeInv
<1>8. CASE Resume
  BY <1>8 DEF Resume, ApplySnapshot, AgreeInv
<1> QED
  BY <1>1, <1>2, <1>3, <1>4, <1>5, <1>6, <1>7, <1>8, StepKinds

\* As long as no flush was torn by a crash, the session's events are the
\* workflow's, numbered from 1, and the state tells the latest.
THEOREM ChronologiesAgree == Spec => []ChronologyAgrees
<1>1. Init => AgreeInv /\ KnownInv
  <2> SUFFICES ASSUME Init PROVE AgreeInv /\ KnownInv
    OBVIOUS
  <2>1. /\ history = <<>> /\ events = <<>> /\ workflowDoc.history = <<>>
        /\ snapshotDoc.events = <<>> /\ workflowDoc.state = state /\ pc = "idle"
        /\ state \notin VerdictStates
    BY DEF Init, VerdictStates
  <2> QED
    BY <2>1 DEF AgreeInv, KnownInv, Numbered, Tells
<1>2. AgreeInv => ChronologyAgrees
  BY DEF AgreeInv, Numbered, Tells, ChronologyAgrees, Last
<1> QED
  BY <1>1, <1>2, TypeCorrect, KnownStep, AgreeStep, PTL DEF Spec

-----------------------------------------------------------------------------
(***************************************************************************)
(* An image is judged once, and once more for every torn flush             *)
(***************************************************************************)

Positions(h, i) == {k \in 1..Len(h) : h[k].image = i}
TimesJudged(h, i) == Cardinality(Positions(h, i))
Heard(s, i) == \E k \in 1..Len(s) : s[k].image = i
Bit(holds) == IF holds THEN 1 ELSE 0

LEMMA PositionsFinite ==
  ASSUME NEW h \in Seq(Events), NEW i
  PROVE  IsFiniteSet(Positions(h, i)) /\ TimesJudged(h, i) \in Nat
<1>1. IsFiniteSet(1..Len(h))
  BY FS_Interval, LenProperties
<1>2. Positions(h, i) \in SUBSET (1..Len(h))
  BY DEF Positions
<1> QED
  BY <1>1, <1>2, FS_Subset, FS_CardinalityType DEF TimesJudged

LEMMA NothingJudged == ASSUME NEW i PROVE TimesJudged(<<>>, i) = 0
<1>1. Positions(<<>>, i) = {}
  BY DEF Positions
<1> QED
  BY <1>1, FS_EmptySet DEF TimesJudged

LEMMA OneMoreJudged ==
  ASSUME NEW h \in Seq(Events), NEW e \in Events, NEW i
  PROVE  TimesJudged(Append(h, e), i) = TimesJudged(h, i) + Bit(e.image = i)
<1> DEFINE u == Append(h, e)
<1>1. /\ Len(h) \in Nat /\ Len(u) = Len(h) + 1 /\ u[Len(h) + 1] = e
      /\ \A k \in 1..Len(h) : u[k] = h[k]
  BY LenProperties, AppendProperties
<1> HIDE DEF u
<1>2. CASE e.image = i
  <2>1. Positions(u, i) = Positions(h, i) \union {Len(h) + 1} /\ Len(h) + 1 \notin Positions(h, i)
    BY <1>1, <1>2 DEF Positions
  <2> QED
    BY <1>2, <2>1, PositionsFinite, FS_AddElement DEF TimesJudged, Bit, u
<1>3. CASE e.image # i
  <2>1. Positions(u, i) = Positions(h, i)
    BY <1>1, <1>3 DEF Positions
  <2> QED
    BY <1>3, <2>1, PositionsFinite DEF TimesJudged, Bit, u
<1> QED
  BY <1>2, <1>3

LEMMA HeardMore ==
  ASSUME NEW s \in Seq(Events), NEW e \in Events, NEW i
  PROVE  Heard(Append(s, e), i) <=> Heard(s, i) \/ e.image = i
BY AppendProperties, LenProperties DEF Heard

\* Judgements are backed by what the session has heard of, those of the workflow
\* document by what a resume will have heard of, and the rest by torn flushes.
OnceInv ==
  \A i \in Images :
    /\ TimesJudged(history, i) <= tears + Bit(Heard(events, i))
    /\ TimesJudged(workflowDoc.history, i)
         <= tears + Bit(Heard(snapshotDoc.events, i) \/ (torn /\ pc # "down"))

LEMMA OnceStep == OnceInv /\ AgreeInv /\ KnownInv /\ TypeOK /\ [Next]_vars => OnceInv'
<1> SUFFICES ASSUME OnceInv, AgreeInv, KnownInv, TypeOK, [Next]_vars, NEW i \in Images
             PROVE  /\ TimesJudged(history', i) <= tears' + Bit(Heard(events', i))
                    /\ TimesJudged(workflowDoc'.history, i)
                         <= tears' + Bit(Heard(snapshotDoc'.events, i) \/ (torn' /\ pc' # "down"))
  BY DEF OnceInv
<1> USE DEF workflow, session, durable, bounds
<1>0. /\ history \in Seq(Events) /\ workflowDoc.history \in Seq(Events) /\ events \in Seq(Events)
      /\ tears \in Nat /\ torn \in BOOLEAN
      /\ TimesJudged(history, i) \in Nat /\ TimesJudged(workflowDoc.history, i) \in Nat
  BY PositionsFinite DEF TypeOK
<1>h. TimesJudged(history, i) <= tears + Bit(Heard(events, i))
  BY DEF OnceInv
<1>d. TimesJudged(workflowDoc.history, i)
        <= tears + Bit(Heard(snapshotDoc.events, i) \/ (torn /\ pc # "down"))
  BY DEF OnceInv
<1>1. ASSUME NEW text \in Observations, Ended, Judged(text)
      PROVE  TimesJudged(history', i) <= tears + Bit(Heard(events', i))
  <2>1. CASE UNCHANGED <<history, events>>
    BY <1>h, <2>1
  <2>2. CASE image \notin known /\ Appends(image, text)
    <3>1. EventOf(image, text) \in Events /\ EventOf(image, text).image = image
      BY <1>1, EventTypes DEF Judged, EventOf
    <3>2. ~Heard(events, image)
      BY <2>2 DEF Heard, KnownInv
    <3>3. TimesJudged(history', i) = TimesJudged(history, i) + Bit(image = i)
      BY <1>0, <2>2, <3>1, OneMoreJudged DEF Appends
    <3>4. Heard(events', i) <=> Heard(events, i) \/ image = i
      BY <1>0, <2>2, <3>1, HeardMore DEF Appends
    <3> QED
      BY <1>0, <1>h, <3>2, <3>3, <3>4 DEF Bit
  <2> QED
    BY <1>1, <2>1, <2>2, Adjudications DEF Judged
<1>2. ASSUME NEW text \in Observations, Ended, Judged(text)
      PROVE  /\ TimesJudged(history', i) <= tears' + Bit(Heard(events', i))
             /\ TimesJudged(workflowDoc'.history, i)
                  <= tears' + Bit(Heard(snapshotDoc'.events, i) \/ (torn' /\ pc' # "down"))
  <2>1. pc = "calling" /\ pc' # "down" /\ UNCHANGED <<workflowDoc, snapshotDoc, torn, tears>>
    BY <1>2 DEF Ended, Judged
  <2> QED
    BY <1>1, <1>2, <1>d, <2>1
<1>3. CASE Ended /\ Unjudged
  BY <1>0, <1>3, <1>h, <1>d DEF Ended, Unjudged, Bit
<1>4. CASE Quiet
  BY <1>0, <1>4, <1>h, <1>d DEF Quiet, Bit
<1>5. CASE WriteWorkflow
  <2>1. torn' = (events # snapshotDoc.events) /\ pc' = "write_snapshot"
        /\ workflowDoc'.history = history
        /\ UNCHANGED <<history, events, snapshotDoc, tears>>
    BY <1>5 DEF WriteWorkflow
  <2>2. CASE events = snapshotDoc.events
    BY <1>0, <1>h, <2>1, <2>2 DEF Bit
  <2>3. CASE torn' = TRUE
    BY <1>0, <1>h, <2>1, <2>3 DEF Bit
  <2> QED
    BY <2>1, <2>2, <2>3
<1>6. CASE WriteSnapshot
  <2>1. workflowDoc'.history = history /\ snapshotDoc'.events = events /\ torn' = FALSE
        /\ UNCHANGED <<history, events, tears>>
    BY <1>6 DEF WriteSnapshot, AgreeInv
  <2> QED
    BY <1>0, <1>h, <2>1 DEF Bit
<1>7. CASE Deliver
  <2>1. workflowDoc'.history = history /\ snapshotDoc'.events = events /\ torn' = FALSE
        /\ UNCHANGED <<history, events, tears>>
    BY <1>7 DEF Deliver
  <2> QED
    BY <1>0, <1>h, <2>1 DEF Bit
<1>8. CASE Crash
  <2>1. tears' = tears + Bit(torn) /\ pc' = "down" /\ pc # "down"
        /\ UNCHANGED <<history, events, workflowDoc, snapshotDoc, torn>>
    BY <1>8 DEF Crash, Bit
  <2> QED
    BY <1>0, <1>h, <1>d, <2>1 DEF Bit
<1>9. CASE Resume
  <2>1. history' = workflowDoc.history /\ events' = snapshotDoc.events
        /\ pc = "down" /\ UNCHANGED <<workflowDoc, snapshotDoc, tears>>
    BY <1>9 DEF Resume, ApplySnapshot
  <2> QED
    BY <1>0, <1>d, <2>1 DEF Bit
<1> QED
  BY <1>2, <1>3, <1>4, <1>5, <1>6, <1>7, <1>8, <1>9, StepKinds

\* However often an image is submitted and the workflow resumed, it is judged at
\* most once, and once more for every flush that a crash tore.
THEOREM JudgedOnce == Spec => []JudgedOncePerTear
<1>1. Init => OnceInv /\ AgreeInv /\ KnownInv
  <2> SUFFICES ASSUME Init PROVE OnceInv /\ AgreeInv /\ KnownInv
    OBVIOUS
  <2>1. /\ history = <<>> /\ events = <<>> /\ workflowDoc.history = <<>> /\ tears = 0
        /\ snapshotDoc.events = <<>> /\ workflowDoc.state = state /\ pc = "idle"
        /\ state \notin VerdictStates
    BY DEF Init, VerdictStates
  <2>2. OnceInv
    BY <2>1, NothingJudged DEF OnceInv, Bit
  <2> QED
    BY <2>1, <2>2 DEF AgreeInv, KnownInv, Numbered, Tells
<1>2. OnceInv /\ TypeOK => JudgedOncePerTear
  <2> SUFFICES ASSUME OnceInv, TypeOK, NEW i \in Images PROVE Judgements(i) <= 1 + tears
    BY DEF JudgedOncePerTear
  <2>1. TimesJudged(history, i) \in Nat /\ Judgements(i) = TimesJudged(history, i) /\ tears \in Nat
    BY PositionsFinite DEF TypeOK, Judgements, TimesJudged, Positions
  <2> QED
    BY <2>1 DEF OnceInv, Bit
<1> QED
  BY <1>1, <1>2, TypeCorrect, KnownStep, AgreeStep, OnceStep, PTL DEF Spec

=============================================================================
