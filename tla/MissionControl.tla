---------------------------- MODULE MissionControl ----------------------------
(***************************************************************************)
(* What the two web surfaces of the console show of a session: Mission     *)
(* Control (get_state and app.js) and the worker's page (get_frontline).   *)
(* The session keeps, beside the authoritative state of HeroService, the   *)
(* projection that each use case left (session.intel, .delivery, .verdict, *)
(* .field_verification, .proof).  A page mixes these with what it reads    *)
(* live, so that a panel can be older than its neighbour.                  *)
(*                                                                         *)
(* One action is one request, refused and repeated ones included, as they  *)
(* change what is shown.  The worker's upload is two steps: its route      *)
(* awaits the body between its check and the use case, and a new session   *)
(* may begin meanwhile.  Requests that run at the same time on threads are *)
(* the subject of FrontlineDelivery and ChangeProof.                       *)
(***************************************************************************)
EXTENDS HeroService

CONSTANT MaxSessions   \* bound on the sessions of the process

VARIABLES
  session,       \* the number of the current session
  intel,         \* status of the latest analysis
  delivery,      \* the delivery panel, None before a channel answered
  acknowledged,  \* the worker confirmed reading the delta
  field,         \* the field panel, None before a submission
  verdict,       \* the verdict panel, None before an adjudication
  proofPanel,    \* the proof panel, None before a request for the proof
  upload         \* the image of the worker's upload under way, or None

panelVars == <<intel, delivery, acknowledged, field, verdict, proofPanel>>
pageVars == <<vars, panelVars, session, upload>>

-----------------------------------------------------------------------------
(***************************************************************************)
(* The projections a use case stores                                       *)
(***************************************************************************)

\* PROOF_COMPLETE is the only state of the category TERMINAL_SUCCESS.
ChangeIsDeployed(w) == w.state = "PROOF_COMPLETE"

\* One adjudication, a refused one (result None) included.
VerdictView(result) ==
  [status |-> IF result = None THEN "NOT_AWAITING_VERIFICATION" ELSE "ADJUDICATED",
   result |-> result, verified |-> result = "PASS"]

\* MUTANT: the panel is built before the photograph is adjudicated.
FactsBeforeVerdict(v, w) ==
  [result |-> IF verdict = None THEN None ELSE verdict.result,
   verified |-> verdict # None /\ verdict.verified,
   deployed |-> ChangeIsDeployed(w)]

\* The facts on every field panel, as they are when it is built.
FieldStaticView(v, w) ==
  [result |-> IF v = None THEN None ELSE v.result,
   verified |-> v # None /\ v.verified,
   deployed |-> ChangeIsDeployed(w)]

\* observation: whether one is shown, which takes an accepted Crossing 4.
FieldView(status, crossing, observed, v, w) ==
  [status |-> status, crossing |-> crossing, observation |-> crossing = "ACCEPTED" /\ observed,
   facts |-> FieldStaticView(v, w)]

ProofView(status, eligible, w) ==
  [status |-> status, eligible |-> eligible, deployed |-> ChangeIsDeployed(w)]

\* The inputs of a proof context exist; otherwise the panel says what is missing.
ProofContextExists == impact # None /\ evidence # None /\ receiptRef # 0

ProofUnavailableView == [status |-> "BLOCKED", eligible |-> FALSE, deployed |-> FALSE]

\* What the session keeps of each; None is none of them, nor a value they show.
DeliveryPanels == [established : BOOLEAN, request : {"DELIVERED", "REJECTED", "ALREADY_DELIVERED"}]
VerdictPanels == {VerdictView(r) : r \in Results \union {None}}
ProofPanels == [status : {"BLOCKED", "PROOF_COMPLETE"}, eligible : BOOLEAN, deployed : BOOLEAN]

ASSUME PageAssumption ==
  /\ MaxSessions \in Nat
  /\ None \notin Results \union {"NO_TARGET", "MUTATED", "ALREADY_COMPLETED", "ACCEPTED"}
  /\ None \notin DeliveryPanels \union VerdictPanels \union ProofPanels

-----------------------------------------------------------------------------
(***************************************************************************)
(* What get_state and the pages derive from them                           *)
(***************************************************************************)

DeliveryEstablished == delivery # None /\ delivery.established

\* The worker's page opens on a validated delivery.
FrontlineAvailable == delta # None /\ DeliveryEstablished

\* The verdict panel; state and deployment are read live.
VerdictStateView ==
  IF verdict # None
    THEN [status |-> verdict.status, result |-> verdict.result, verified |-> verdict.verified,
          deployed |-> ChangeIsDeployed(wf)]
    ELSE [status |-> IF field # None /\ field.observation THEN "EVALUATING"
                                                          ELSE "AWAITING_EVIDENCE",
          result |-> None, verified |-> FALSE, deployed |-> ChangeIsDeployed(wf)]

RemediationView ==
  IF outcome # None THEN outcome
    ELSE IF Qualified # None THEN "AWAITING_REMEDIATION" ELSE "AWAITING_IMPACT_QUALIFICATION"

\* The proof panel: the latest request's answer, else the conditions as they are.
ProofStateView ==
  IF proofPanel # None THEN proofPanel
    ELSE IF ProofContextExists
           THEN ProofView(IF ProofEligible THEN "ELIGIBLE" ELSE "BLOCKED", ProofEligible, wf)
           ELSE ProofUnavailableView

\* The operation each capability reports.
CapabilityStatus ==
  [change_intelligence |-> IF intel = "PENDING" THEN "AWAITING_ANALYSIS" ELSE intel,
   impact_gate |-> IF impact = None THEN "AWAITING_PROPOSAL"
                     ELSE IF Qualified # None THEN "SINGLE_QUALIFIED_TARGET" ELSE "NO_TARGET",
   field_observation |-> IF field = None THEN "AWAITING_EVIDENCE" ELSE field.status,
   deterministic_verdict |-> IF verdict # None /\ verdict.result # None
                               THEN verdict.result ELSE "AWAITING_FIELD_OBSERVATION",
   change_proof |-> IF proofPanel = None THEN "AWAITING_CONDITIONS" ELSE proofPanel.status]

\* The controls app.js leaves enabled.
ProofOffered == ProofStateView.status # "PROOF_COMPLETE" /\ ProofStateView.eligible
DownloadOffered == ProofStateView.status = "PROOF_COMPLETE"

\* The headline over the whole change (changeStatus in app.js), first match first.
\* A status that is neither PENDING nor a success counts as a need for review.
Headline ==
  LET v == VerdictStateView
  IN  CASE DownloadOffered -> "DEPLOYED AND VERIFIED"
        [] ProofOffered -> "AWAITING CHANGE PROOF"
        [] OTHER ->
             IF v.deployed THEN "CHANGE DEPLOYED"
             ELSE IF v.result # None THEN VerdictState(v.result)
             ELSE IF v.status = "EVALUATING" THEN "EVALUATING"
             ELSE IF DeliveryEstablished THEN "AWAITING FIELD EVIDENCE"
             ELSE IF delta # None THEN "AWAITING DELIVERY"
             ELSE IF impact = "NO_TARGET" THEN "IMPACT REVIEW REQUIRED"
             ELSE IF impact # None THEN "IMPACT QUALIFIED"
             ELSE IF intel \in {"PROVIDER_DISABLED", "FAILED"} THEN "IMPACT REVIEW REQUIRED"
             ELSE "SOURCE CHANGE RECEIVED"

-----------------------------------------------------------------------------
(***************************************************************************)
(* The requests                                                            *)
(***************************************************************************)

FreshPanels ==
  /\ intel = "PENDING"
  /\ delivery = None /\ acknowledged = FALSE
  /\ field = None /\ verdict = None /\ proofPanel = None

PageInit == Init /\ FreshPanels /\ session = 1 /\ upload = None

\* A new session has its own workflow, ledger, repository, channel and stores; a
\* worker's upload under way belongs to the process.
StartNewSession ==
  /\ session < MaxSessions
  /\ session' = session + 1
  /\ wf' = [state |-> "CHANGE_RECEIVED", history |-> {}]
  /\ affected' = None /\ impact' = None
  /\ remediation' = [a \in Artifacts |-> "ABSENT"]
  /\ content' = CatalogValue /\ revision' = [a \in Artifacts |-> 0]
  /\ outcome' = None /\ evidence' = None /\ delta' = None
  /\ deliveryAction' = "ABSENT" /\ dispatches' = 0 /\ receiptRef' = 0
  /\ fieldStore' = [i \in Images |-> "NONE"] /\ calls' = [i \in Images |-> 0]
  /\ events' = <<>> /\ proof' = None
  /\ intel' = "PENDING"
  /\ delivery' = None /\ acknowledged' = FALSE
  /\ field' = None /\ verdict' = None /\ proofPanel' = None
  /\ UNCHANGED upload

\* analyze_change: no provider, an agent that gave up, a proposal that Crossing 1
\* rejected, or one that is qualified.  The impact panel is replaced by the last only.
Analyze ==
  /\ \/ intel' = "PROVIDER_DISABLED" /\ UNCHANGED vars
     \/ intel' \in {"FAILED", "SUCCEEDED"} /\ AnalysisFails
     \/ intel' = "SUCCEEDED" /\ \E candidates \in SUBSET Artifacts : AnalysisQualifies(candidates)
  /\ UNCHANGED <<delivery, acknowledged, field, verdict, proofPanel, session, upload>>

\* deploy_change without a target only adds to the history of requests.
Deploy ==
  /\ DeployChange \/ DeployReplayed \/ DeployRejected
  /\ UNCHANGED <<panelVars, session, upload>>

\* deliver_to_frontline on a delivered delta keeps the panel and notes the request.
DeliverReplayed ==
  /\ delta # None /\ DecideRetry(deliveryAction) = "ALREADY_COMPLETED"
  /\ delivery' = [delivery EXCEPT !.request = "ALREADY_DELIVERED"]
  /\ UNCHANGED vars

\* A result that Crossing 3 judged becomes the panel.  An exception leaves it.
Deliver ==
  /\ \/ DeliverConfirmed /\ delivery' = [established |-> TRUE, request |-> "DELIVERED"]
     \/ DeliverUncertain /\ \/ UNCHANGED delivery
                            \/ /\ dispatches' # dispatches
                               /\ delivery' = [established |-> FALSE, request |-> "REJECTED"]
     \/ DeliverRefused /\ UNCHANGED delivery
     \/ DeliveryUnreconciled /\ UNCHANGED delivery
     \/ DeliverReplayed
  /\ UNCHANGED <<intel, acknowledged, field, verdict, proofPanel, session, upload>>

\* The worker confirms reading the delta.
Acknowledge ==
  /\ FrontlineAvailable
  /\ acknowledged' = TRUE
  /\ UNCHANGED <<vars, intel, delivery, field, verdict, proofPanel, session, upload>>

\* The worker's route found the delivered delta; its body is awaited.
WorkerUploadBegins(i) ==
  /\ FrontlineAvailable
  /\ upload = None
  /\ upload' = i
  /\ UNCHANGED <<vars, panelVars, session>>

\* The verdict panel after a call that observed: the adjudication's outcome, also
\* when the workflow did not await a verification.
VerdictAfter(observed, judged) ==
  VerdictView(IF judged THEN CompareObservation(observed) ELSE None)

\* submit_field_evidence: bytes that are no image, no provider, a replay, a failed
\* call, one that the store refuses (which raises before the panel is built), or an
\* observation.
Submit(i) ==
  \/ /\ field' = FieldView("REJECTED", None, FALSE, verdict, wf)
     /\ UNCHANGED <<vars, verdict>>
  \/ /\ ~Replayable(i)
     /\ field' = FieldView("PROVIDER_DISABLED", None, FALSE, verdict, wf)
     /\ UNCHANGED <<vars, verdict>>
  \/ /\ Replayable(i)
     /\ field' = FieldView("REPLAYED", IF field = None THEN None ELSE field.crossing,
                           TRUE, verdict, wf)
     /\ UNCHANGED <<vars, verdict>>
  \/ /\ SubmitUnusable(i)
     /\ field' = FieldView("FAILED", None, FALSE, verdict, wf)
     /\ UNCHANGED verdict
  \/ /\ SubmitRefusedByStore(i)
     /\ UNCHANGED <<field, verdict>>
  \/ \E observed \in {"EXPECTED", "DIFFERENT", "INCONCLUSIVE"} :
       /\ SubmitObserved(i, observed)
       /\ verdict' = VerdictAfter(observed, events' # events)
       /\ field' = FieldView("OBSERVED", "ACCEPTED", TRUE, verdict', wf')

\* An image arrives from Mission Control, or the worker's upload has its body.
SubmitFieldEvidence(i) ==
  /\ Submit(i)
  /\ \/ UNCHANGED upload
     \/ upload = i /\ upload' = None
  /\ UNCHANGED <<intel, delivery, acknowledged, proofPanel, session>>

\* MUTANT: a repeated request evaluates the conditions before it looks for the proof.
ProofAgainBlocked ==
  /\ proof # None
  /\ proofPanel' = ProofView("BLOCKED", ProofEligible, wf)
  /\ UNCHANGED vars

\* generate_proof for a workflow that has one returns it, whatever holds by now.
ProofReplayed ==
  /\ proof # None
  /\ proofPanel' = ProofView("PROOF_COMPLETE", ProofEligible, wf)
  /\ UNCHANGED vars

RequestProof ==
  /\ \/ ~ProofContextExists /\ proofPanel' = ProofUnavailableView /\ UNCHANGED vars
     \/ /\ ProofContextExists /\ proof = None /\ ~ProofEligible
        /\ proofPanel' = ProofView("BLOCKED", FALSE, wf)
        /\ UNCHANGED vars
     \/ GenerateProof /\ proofPanel' = ProofView("PROOF_COMPLETE", TRUE, wf')
     \/ ProofReplayed
  /\ UNCHANGED <<intel, delivery, acknowledged, field, verdict, session, upload>>

PageNext ==
  \/ StartNewSession
  \/ Analyze
  \/ Deploy
  \/ Deliver
  \/ Acknowledge
  \/ \E i \in Images : WorkerUploadBegins(i) \/ SubmitFieldEvidence(i)
  \/ RequestProof

PageSpec == PageInit /\ [][PageNext]_pageVars

-----------------------------------------------------------------------------
(***************************************************************************)
(* Properties                                                              *)
(***************************************************************************)

\* The headline never says more than the session has established, although it
\* is put together from panels of different moments: a change that has its proof,
\* and no other, is shown complete whatever is requested afterwards; the proof is
\* awaited only when all seven conditions hold; a verdict on show is the latest
\* event's; each waiting line names a step that was reached and a next one that
\* was not (get_state, changeStatus, generate_proof).
HeadlineTellsTruth ==
  /\ proof # None <=> Headline = "DEPLOYED AND VERIFIED"
  /\ CASE Headline = "DEPLOYED AND VERIFIED" -> wf.state = "PROOF_COMPLETE"
       [] Headline = "AWAITING CHANGE PROOF" -> ProofEligible
       [] Headline \in {VerdictState(r) : r \in Results} -> Headline = VerdictState(LatestResult)
       [] Headline = "AWAITING FIELD EVIDENCE" -> receiptRef # 0
       [] Headline = "AWAITING DELIVERY" -> delta # None /\ receiptRef = 0
       [] Headline = "IMPACT QUALIFIED" -> Qualified # None /\ delta = None
       [] Headline = "SOURCE CHANGE RECEIVED" -> impact = None /\ delta = None /\ events = <<>>
       [] Headline = "IMPACT REVIEW REQUIRED" -> delta = None
       [] OTHER -> FALSE

\* The panels, which different calls stored, agree with each other and with the
\* records.  The field panel shows the verdict panel's result, and a result on show
\* is the latest event's; a reported remediation is in the ledger, a single target
\* is the workflow's, a proof on show exists.  The worker's page is open exactly on
\* a completed delivery whose receipt the channel holds, and never closes on a
\* worker who confirmed the delta (_field_static_view, _capability_status,
\* _remediation_view, _frontline_view, acknowledge).
PanelsAgree ==
  /\ field # None => field.facts.result = VerdictStateView.result
                     /\ field.facts.verified = VerdictStateView.verified
  /\ VerdictStateView.result # None =>
       {VerdictStateView.result, CapabilityStatus.deterministic_verdict} = {LatestResult}
  /\ VerdictStateView.deployed <=> CapabilityStatus.change_proof = "PROOF_COMPLETE"
  /\ RemediationView \in {"MUTATED", "ALREADY_COMPLETED"} =>
       evidence # None /\ remediation[evidence] = "COMPLETED"
  /\ CapabilityStatus.impact_gate = "SINGLE_QUALIFIED_TARGET" => affected = impact
  /\ FrontlineAvailable <=> deliveryAction = "COMPLETED" /\ receiptRef \in 1..dispatches
  /\ acknowledged => FrontlineAvailable

-----------------------------------------------------------------------------
(***************************************************************************)
(* What the documents say and the code does not keep.                      *)
(***************************************************************************)

\* "The Change Proof panel: eligibility whenever it can honestly be computed"
\* (the docstring of _proof_state_view): conditions that hold are shown to hold.
\* They are not: a request that was refused before stays on the panel.
EligibilityIsShown == ProofEligible /\ proof = None => ProofStateView.eligible

\* "delivery cannot be undone mid-request" (submit_frontline_field_evidence):
\* while a worker's upload is under way its session has a delivered delta.  The
\* route awaits the body, and the session may be another one by then.
DeliveryStandsForUpload == upload # None => FrontlineAvailable

=============================================================================
