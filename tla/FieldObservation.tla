--------------------------- MODULE FieldObservation ---------------------------
(***************************************************************************)
(* From the bytes of a field image to a verdict: acceptance of the image,  *)
(* the replay guard, the bounded call of the vision model, normalisation,  *)
(* the append-only evidence store, Crossing 4, adjudication, and the two   *)
(* documents a submission is flushed to, for one workflow whose process    *)
(* may die anywhere and be resumed.                                        *)
(*                                                                         *)
(* HeroService has submit_field_evidence as one step; here the attempts of *)
(* the call and the writes of the flush are steps.  The verify routes are  *)
(* coroutines that never yield during a submission, so a process has one   *)
(* submission at a time.  An image stands for its bytes: the submission,   *)
(* operation and evidence ids are functions of them.  The grant is issued  *)
(* and verified in the same breath, and nothing revokes one.               *)
(***************************************************************************)
EXTENDS SemanticCall, SequencesExt

CONSTANTS
  Images,          \* acceptable images, told apart by content hash
  Answers,         \* what the model endpoint may come back with, see Endpoint
  ProviderStates,  \* how the provider of a process may be configured
  ExpectedValue,   \* ApprovedChange.current_value
  MaxSubmissions,  \* bound on the submissions
  MaxResumes,      \* bound on the resumes
  MaxFaults,       \* bound on the store writes that raise
  None

Observations == {"LEFT", "TOP_RIGHT", "INCONCLUSIVE"}
Results == {"PASS", "FAIL", "INCONCLUSIVE"}

\* An HTTP exchange that failed, a body without content, any text, or an answer
\* that arrived after the deadline.
Endpoint == {"NO_TOKEN", "TIMED_OUT", "TRANSPORT_ERROR", "RETRY_STATUS", "OTHER_STATUS",
             "NOT_JSON", "NO_CONTENT", "LATE", "OTHER_TEXT"} \union Observations

\* configure_field_provider: a live one, none wanted, or settings or package missing.
ConfiguredProviders == {"LIVE", "DISABLED", "BROKEN"}

ASSUME FieldAssumption ==
  /\ Answers \subseteq Endpoint
  /\ ProviderStates \subseteq ConfiguredProviders
  /\ ExpectedValue \in Observations
  /\ MaxSubmissions \in Nat /\ MaxResumes \in Nat /\ MaxFaults \in Nat
  /\ None \notin Observations \union Images

VARIABLES
  state, history,    \* workflow.state and workflow.verification_events
  events, known,     \* session.verification_events and known_submission_ids
  store,             \* session.field_store: the record of each image's operation
  validations,       \* session.evidence: how Crossing 4 ended for each image
  view,              \* session.field_verification
  provider,          \* how this process's provider is configured
  pc, image,         \* the submission under way: its step and its image
  workflowDoc,       \* the workflow document
  snapshotDoc,       \* the resume snapshot
  torn,              \* whether the workflow document is ahead of the snapshot
  answered,          \* the usable answers the model gave for each image
  submissions, resumes, faults, tears

workflow == <<state, history>>
session == <<events, known, store, validations, view>>
durable == <<workflowDoc, snapshotDoc, torn>>
bounds == <<submissions, resumes, faults, tears>>
vars == <<workflow, session, provider, pc, image, durable, answered, bounds, callVars>>

Events == [image : Images, seq : Nat, observation : Observations, result : Results]
VerdictStates == {"VERIFICATION_PASSED", "VERIFICATION_FAILED", "VERIFICATION_INCONCLUSIVE"}
States == VerdictStates \union {"FRONTLINE_DELIVERY_COMPLETED", "AWAITING_FIELD_VERIFICATION"}
Records == [status : {"OBSERVED"}, observation : Observations]
           \union [status : {"PROVIDER_FAILED", "OUT_OF_DOMAIN"}, observation : {None}]
Crossings == {"NONE", "ACCEPTED", "REJECTED"}  \* how Crossing 4 ended for an image
Shown(status, i, crossing) == [status |-> status, image |-> i, crossing |-> crossing]

\* What session.field_verification.observation shows: the record's observation
\* if the crossing the view carries was accepted.
ShownObservation(v) ==
  IF v.image \in Images /\ v.crossing = "ACCEPTED" THEN store[v.image].observation ELSE None

FreshStore == [i \in Images |-> None]
FreshValidations == [i \in Images |-> "NONE"]
NoView == Shown("NONE", None, "NONE")

Init ==
  /\ state \in {"FRONTLINE_DELIVERY_COMPLETED", "AWAITING_FIELD_VERIFICATION"}
  /\ history = <<>>
  /\ events = <<>>
  /\ known = {}
  /\ store = FreshStore
  /\ validations = FreshValidations
  /\ view = NoView
  /\ provider \in ProviderStates
  /\ pc = "idle"
  /\ image = None
  /\ workflowDoc = [state |-> state, history |-> <<>>]
  /\ snapshotDoc = [events |-> <<>>, known |-> {}]
  /\ torn = FALSE
  /\ answered = [i \in Images |-> {}]
  /\ submissions = 0 /\ resumes = 0 /\ faults = 0 /\ tears = 0
  /\ CallInit

-----------------------------------------------------------------------------
(***************************************************************************)
(* Accepting the bytes                                                     *)
(***************************************************************************)

Sizes == {"EMPTY", "TOO_SMALL", "TOO_LARGE", "FITS"}
Containers == {"JPEG", "PNG", "HEIC", "HEIF", "AVIF", "UNKNOWN"}
AcceptedContainers == {"JPEG", "PNG", "HEIC", "HEIF"}

\* Why accept_field_image refuses bytes of this size and container, or None.
Rejection(size, container) ==
  IF size # "FITS"                            THEN size
  ELSE IF container = "UNKNOWN"               THEN "UNRECOGNIZED_CONTAINER"
  ELSE IF container \notin AcceptedContainers THEN "UNSUPPORTED_CONTAINER"
  ELSE None

Submit ==
  /\ pc = "idle"
  /\ submissions < MaxSubmissions
  /\ submissions' = submissions + 1
  /\ UNCHANGED <<resumes, faults, tears>>

\* The request is answered without a call; the use case still flushes.
AnswerAtOnce(shown) ==
  /\ Submit
  /\ view' = shown
  /\ pc' = "write_workflow"
  /\ UNCHANGED <<workflow, events, known, store, validations, provider, image, durable,
                 answered, callVars>>

RejectImage(size, container) ==
  /\ Rejection(size, container) # None
  /\ AnswerAtOnce(Shown(Rejection(size, container), None, "NONE"))

\* evidence_is_replayable
Replayable(i) == store[i] # None /\ store[i].observation # None

\* The view of a replay carries on the crossing of whatever was shown before.
Replay(i) ==
  /\ Replayable(i)
  /\ AnswerAtOnce(Shown("REPLAYED", i, view.crossing))

NoProvider(i) ==
  /\ ~Replayable(i)
  /\ provider # "LIVE"
  /\ AnswerAtOnce(Shown(IF provider = "DISABLED" THEN "PROVIDER_DISABLED"
                                                 ELSE "PROVIDER_UNAVAILABLE", None, "NONE"))

StartObservation(i) ==
  /\ ~Replayable(i)
  /\ provider = "LIVE"
  /\ Submit
  /\ pc' = "calling"
  /\ image' = i
  /\ attempts' = <<>> /\ repairUsed' = FALSE /\ outcome' = "PENDING"
  /\ UNCHANGED <<workflow, session, provider, durable, answered>>

-----------------------------------------------------------------------------
(***************************************************************************)
(* The call: one exchange per attempt, classified by the provider          *)
(***************************************************************************)

\* A body that cannot be made an observation, because it has no text.
Unreadable == {"NOT_JSON", "NO_CONTENT"}

AnswersWith(answer) ==
  CASE answer \in {"TIMED_OUT", "TRANSPORT_ERROR", "RETRY_STATUS"} -> "TRANSIENT"
    [] answer \in {"NO_TOKEN", "OTHER_STATUS"} \union Unreadable -> "NON_TRANSIENT"
    [] answer = "LATE" -> "TIMEOUT"
    [] OTHER -> "TEXT"

\* MUTANT: an answer outside the domain is taken for an inconclusive one.
NormalizeLeniently(text) == IF text \in Observations THEN text ELSE "INCONCLUSIVE"

\* normalize_observation: the closed domain or nothing.
NormalizeObservation(text) == IF text \in Observations THEN text ELSE None

AttemptFailed(answer) ==
  /\ pc = "calling"
  /\ AnswersWith(answer) # "TEXT"
  /\ AttemptFails(AnswersWith(answer))
  /\ UNCHANGED <<workflow, session, provider, pc, image, durable, answered, bounds>>

\* The evidence of the attempt is recorded, whatever it came to.
EvidenceOf(status, observation) == [status |-> status, observation |-> observation]
RecordEvidence(status, observation) ==
  store' = [store EXCEPT ![image] = EvidenceOf(status, observation)]

-----------------------------------------------------------------------------
(***************************************************************************)
(* Crossing 4 and adjudication                                             *)
(***************************************************************************)

\* validate_field_observation: the observation is normalised and its evidence was
\* stored by the same request, so what can fail is the provenance layer.
ProvenanceHolds(i) == i \notin known

\* accept_field_observation: likewise, the evidence agrees with the observation.
Crosses(i) == ProvenanceHolds(i)

CompareObservation(observed) ==
  IF observed = "INCONCLUSIVE"     THEN "INCONCLUSIVE"
  ELSE IF observed = ExpectedValue THEN "PASS"
  ELSE "FAIL"

VerdictState(result) ==
  CASE result = "PASS" -> "VERIFICATION_PASSED"
    [] result = "FAIL" -> "VERIFICATION_FAILED"
    [] OTHER           -> "VERIFICATION_INCONCLUSIVE"

\* reopen_for_new_evidence
Reopened(s) ==
  IF s \in {"VERIFICATION_FAILED", "VERIFICATION_INCONCLUSIVE"}
    THEN "AWAITING_FIELD_VERIFICATION" ELSE s

\* existing_events = session.verification_events or workflow.verification_events
ExistingEvents == IF events # <<>> THEN events ELSE history

IsDuplicate(i) == \E k \in 1..Len(ExistingEvents) : ExistingEvents[k].image = i

\* next_event_sequence: positions are increasing, so the last is the maximum.
NextEventSequence ==
  IF ExistingEvents = <<>> THEN 1 ELSE ExistingEvents[Len(ExistingEvents)].seq + 1

\* MUTANT: the workflow takes over the session's events instead of appending.
ChronologyOfSession(event) == Append(events, event)
\* The workflow's chronology is append-only.
ChronologyWith(event) == Append(history, event)

\* ingest_observation: the event of a submission that is no duplicate.
EventOf(i, observed) ==
  [image |-> i, seq |-> NextEventSequence, observation |-> observed,
   result |-> CompareObservation(observed)]

Adjudicate(i, observed) ==
  LET reopened == Reopened(state)
      event == EventOf(i, observed)
  IN IF reopened # "AWAITING_FIELD_VERIFICATION" \/ IsDuplicate(i)
       THEN /\ state' = reopened
            /\ UNCHANGED <<history, events>>
       ELSE /\ state' = VerdictState(event.result)
            /\ history' = ChronologyWith(event)
            /\ events' = Append(events, event)

\* FieldEvidenceStore.record refuses a second record of an image, after the model
\* was called: the request raises, and a use case that raises does not flush.
RequestRaises ==
  /\ store[image] # None
  /\ pc' = "idle"
  /\ image' = None
  /\ UNCHANGED <<workflow, session>>

\* Whatever the attempt came to, it is recorded and the submission is known.
Conclude(status, observation, crossing) ==
  /\ store[image] = None
  /\ RecordEvidence(status, observation)
  /\ known' = known \union {image}
  /\ view' = Shown(status, image, crossing)
  /\ pc' = "write_workflow"
  /\ image' = None

Accept(observed) ==
  /\ Crosses(image)
  /\ validations' = [validations EXCEPT ![image] = "ACCEPTED"]
  /\ Adjudicate(image, observed)
  /\ Conclude("OBSERVED", observed, "ACCEPTED")

Reject(observed) ==
  /\ ~Crosses(image)
  /\ validations' = [validations EXCEPT ![image] = "REJECTED"]
  /\ Conclude("OBSERVED", observed, "REJECTED")
  /\ UNCHANGED <<workflow, events>>

NothingObserved(status) ==
  /\ Conclude(status, None, "NONE")
  /\ UNCHANGED <<workflow, events, validations>>

\* A text in time ends the call.
ModelAnswers(text) ==
  /\ pc = "calling"
  /\ AnswersWith(text) = "TEXT"
  /\ AttemptSucceeds
  /\ answered' = [answered EXCEPT ![image] = @ \union ({text} \intersect Observations)]
  /\ \/ RequestRaises
     \/ NormalizeObservation(text) = None /\ NothingObserved("OUT_OF_DOMAIN")
     \/ /\ NormalizeObservation(text) # None
        /\ Accept(NormalizeObservation(text)) \/ Reject(NormalizeObservation(text))
  /\ UNCHANGED <<provider, durable, bounds>>

\* The policy gave up.
ProviderFails ==
  /\ pc = "calling"
  /\ outcome \in {"EXHAUSTED", "NON_TRANSIENT"}
  /\ RequestRaises \/ NothingObserved("PROVIDER_FAILED")
  /\ UNCHANGED <<provider, answered, durable, bounds, callVars>>

-----------------------------------------------------------------------------
(***************************************************************************)
(* The flush, crashes and resumes                                          *)
(***************************************************************************)

WriteWorkflow ==
  /\ pc = "write_workflow"
  /\ workflowDoc' = [state |-> state, history |-> history]
  /\ torn' = (events # snapshotDoc.events)
  /\ pc' = "write_snapshot"
  /\ UNCHANGED <<workflow, session, provider, image, snapshotDoc, answered, bounds, callVars>>

WriteSnapshot ==
  /\ pc = "write_snapshot"
  /\ snapshotDoc' = [events |-> events, known |-> known]
  /\ torn' = FALSE
  /\ pc' = "idle"
  /\ UNCHANGED <<workflow, session, provider, image, workflowDoc, answered, bounds, callVars>>

\* A store call raises: the request fails, the session keeps what it has.
WriteFails ==
  /\ pc \in {"write_workflow", "write_snapshot"}
  /\ faults < MaxFaults
  /\ faults' = faults + 1
  /\ pc' = "idle"
  /\ UNCHANGED <<workflow, session, provider, image, durable, answered, submissions, resumes,
                 tears, callVars>>

\* The delivery of the change, on a thread of its own, opens the workflow for
\* evidence; it flushes both documents.  It is one step: an upload that falls into
\* it finds the workflow not yet open, or open.
Deliver ==
  /\ pc # "down"
  /\ state = "FRONTLINE_DELIVERY_COMPLETED"
  /\ state' = "AWAITING_FIELD_VERIFICATION"
  /\ workflowDoc' = [state |-> state', history |-> history]
  /\ snapshotDoc' = [events |-> events, known |-> known]
  /\ torn' = FALSE
  /\ UNCHANGED <<history, session, provider, pc, image, answered, bounds, callVars>>

Crash ==
  /\ pc # "down"
  /\ resumes < MaxResumes
  /\ pc' = "down"
  /\ image' = None
  /\ tears' = tears + (IF torn THEN 1 ELSE 0)
  /\ UNCHANGED <<workflow, session, provider, durable, answered, submissions, resumes, faults,
                 callVars>>

\* MUTANT: the snapshot is read and not applied.
SnapshotIgnored == events' = <<>> /\ known' = {}
ApplySnapshot == events' = snapshotDoc.events /\ known' = snapshotDoc.known

\* The workflow comes from its document, the rest from the snapshot, and the
\* image evidence from nowhere: its store and the views start empty.
Resume ==
  /\ pc = "down"
  /\ pc' = "idle"
  /\ state' = workflowDoc.state
  /\ history' = workflowDoc.history
  /\ ApplySnapshot
  /\ store' = FreshStore
  /\ validations' = FreshValidations
  /\ view' = NoView
  /\ provider' \in ProviderStates
  /\ torn' = FALSE
  /\ resumes' = resumes + 1
  /\ UNCHANGED <<image, workflowDoc, snapshotDoc, answered, submissions, faults, tears, callVars>>

Next ==
  \/ \E size \in Sizes, container \in Containers : RejectImage(size, container)
  \/ \E i \in Images : Replay(i) \/ NoProvider(i) \/ StartObservation(i)
  \/ \E answer \in Answers : AttemptFailed(answer) \/ ModelAnswers(answer)
  \/ ProviderFails
  \/ WriteWorkflow \/ WriteSnapshot \/ WriteFails
  \/ Deliver \/ Crash \/ Resume

Spec == Init /\ [][Next]_vars

-----------------------------------------------------------------------------
TypeOK ==
  /\ state \in States
  /\ history \in Seq(Events) /\ events \in Seq(Events)
  /\ known \subseteq Images
  /\ store \in [Images -> Records \union {None}]
  /\ validations \in [Images -> Crossings]
  /\ view.image \in Images \union {None}
  /\ view.crossing \in Crossings
  /\ provider \in ConfiguredProviders
  /\ pc \in {"idle", "calling", "write_workflow", "write_snapshot", "down"}
  /\ image \in Images \union {None} /\ (pc = "calling" <=> image # None)
  /\ workflowDoc \in [state : States, history : Seq(Events)]
  /\ snapshotDoc \in [events : Seq(Events), known : SUBSET Images]
  /\ torn \in BOOLEAN
  /\ answered \in [Images -> SUBSET Observations]
  /\ submissions \in Nat /\ resumes \in Nat /\ faults \in Nat /\ tears \in Nat
  /\ CallTypeOK

\* A verdict rests on what the model said: every event of the workflow has an
\* observation the model gave for that image, in time and in the closed domain,
\* and the result that observation has against the approved value.  Failures,
\* late and free-form answers never become events (normalize_observation,
\* adjudicate_field_verification).
VerdictIsObserved ==
  \A k \in 1..Len(history) :
    LET event == history[k]
    IN /\ event.observation \in answered[event.image]
       /\ event.result = "INCONCLUSIVE" <=> event.observation = "INCONCLUSIVE"
       /\ event.result = "PASS" =>
            event.observation = ExpectedValue /\ ExpectedValue # "INCONCLUSIVE"

Judgements(i) == Cardinality({k \in 1..Len(history) : history[k].image = i})

\* An image is judged at most once however often it is submitted and the workflow
\* resumed, and again only when a flush was torn between the workflow document and
\* the snapshot (Crossing 4, classify_submission, apply_snapshot).
JudgedOncePerTear == \A i \in Images : Judgements(i) <= 1 + tears

\* As long as no flush was torn, the session's events, which the proof is made
\* from, are the workflow's, which the API reports, in positions 1, 2, ..., and
\* the state tells the result of the latest: a submission that reopens the
\* workflow is judged, and none reopens it to be found a duplicate
\* (submit_field_evidence, apply_snapshot, reopen_for_new_evidence).  Requests on
\* other threads, which may put back an older session.workflow, are not in this
\* module; ChangeProof has them.
ChronologyAgrees ==
  tears = 0 =>
    /\ events = history /\ \A k \in 1..Len(history) : history[k].seq = k
    /\ IF history = <<>> THEN state \notin VerdictStates
                         ELSE state = VerdictState(Last(history).result)

\* What the workflow document says was judged is never erased or rewritten, by
\* whatever sequence of submissions, failed writes, crashes and resumes
\* (verification_events is append-only), no other request being under way.
DurableHistoryIsAppendOnly ==
  [][IsPrefix(workflowDoc.history, workflowDoc'.history)]_vars

-----------------------------------------------------------------------------
\* "observation is populated only once Crossing 4 accepted it", says _field_view:
\* the observation shown for an image is one this session's Crossing 4 accepted.
ShownWasAccepted ==
  ShownObservation(view) # None => validations[view.image] = "ACCEPTED"

=============================================================================
