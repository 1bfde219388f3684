------------------------- MODULE FrontlineDelivery -------------------------
(***************************************************************************)
(* The way of a change to the frontline, under concurrency: the mutation   *)
(* tool, Crossing 2 (remediation evidence), composition of the delta, the  *)
(* delivery channel and Crossing 3 (delivery).                             *)
(*                                                                         *)
(* The advance route of the API is served from a thread pool, it runs      *)
(* deploy_change and deliver_to_frontline, and nothing locks the service,  *)
(* its session or its ledger.  Each request is a thread here, and its steps*)
(* are the points where it reads or writes what the threads share: the     *)
(* session, the ledger, the repository and the channel.  What the code     *)
(* checks and then sets is two steps.  ArtifactMutation has the tool by    *)
(* itself, with callers that die in it.                                    *)
(*                                                                         *)
(* The repository and the channel are injected, so the model has the ways  *)
(* their protocols let them answer, and other writers of the artifact.     *)
(* The session has analysed its change; it has one qualified target, which *)
(* its change authorises.  The broker's grants are bound to the session's  *)
(* change and live as long as the session: nothing in the service revokes  *)
(* one or asks for one the policy denies, but run_security_test, which     *)
(* only records the denial.                                                *)
(***************************************************************************)
EXTENDS Naturals, Sequences

CONSTANTS
  Threads,          \* request threads
  WriteFaults,      \* how the repository's write may go wrong
  ChannelOutcomes,  \* how the channel may answer a dispatch
  DriftValues,      \* what other writers may set the requirement to
  MaxRequests,      \* bound on the requests made
  MaxReceipts,      \* bound on the receipts the channel issues
  MaxDrifts,        \* bound on the other writers' changes
  None

Values == {"BEFORE", "AFTER", "OTHER"}
Faults == {"FAILED", "UNCERTAIN_LANDED", "UNCERTAIN_LOST"}
\* A receipt, a receipt that does not say DELIVERED, an UncertainDeliveryError
\* with the delta delivered or lost, and any other exception.
Outcomes == {"RECEIPT", "UNCONFIRMED", "LANDED_UNCERTAIN", "LOST_UNCERTAIN", "REFUSED"}
ActionStatus == {"ABSENT", "PLANNED", "ATTEMPTED", "COMPLETED", "FAILED_OR_UNCERTAIN"}

ASSUME DeliveryAssumption ==
  /\ WriteFaults \subseteq Faults
  /\ ChannelOutcomes \subseteq Outcomes
  /\ DriftValues \subseteq Values
  /\ MaxRequests \in Nat
  /\ MaxReceipts \in Nat
  /\ MaxDrifts \in Nat
  /\ None \notin {"ACCEPTED", "REJECTED", "ESTABLISHED"}
  /\ None \notin [payload : Nat, composedAt : Nat]
  /\ None \notin [value : Values, rest : Nat]

\* A thread is past the tool's retry decision, up to the end of the composition.
Deploying == {"read", "noop", "plan", "planning", "attempt", "apply", "write", "complete", "fail",
              "reread", "judge", "reconciled", "cross2", "measure", "first", "compose", "stamp"}

VARIABLES
  content,      \* the target: the requirement's value and a revision of the rest of it
  action,       \* the ledger's record of the remediation
  crossing,     \* verdict of the last Crossing 2 (session.crossing)
  accepted,     \* the evidence Crossing 2 accepted last
  validated,    \* session.validated_execution, as the verdict it keeps
  delta,        \* the composed delta: its payload and delta_composed_at
  delivery,     \* the ledger's record of DELIVER_DELTA
  receipts,     \* the receipts the channel holds
  view,         \* session.delivery, as its status
  delivered,    \* workflow.delivery_ref: the receipt delivery rests on, or 0
  acknowledged, \* whether a worker's acknowledgment is recorded
  pc, claim,    \* each thread: where it is, and what it has in hand
  known,        \* whether the ledger had the record when the tool looked it up
  overlapped,   \* two threads have been Deploying at once (for the properties)
  clock,        \* orders compositions and dispatches
  requests, drifts

session == <<crossing, accepted, validated, delta, view, delivered, acknowledged>>
bounds == <<requests, drifts>>
threads == <<pc, claim, known, overlapped>>
vars == <<content, action, session, delivery, receipts, threads, clock, bounds>>

Contents == [value : Values, rest : Nat]
MutationClaims == [kind : {"MUTATION"}, before : Contents, after : Contents, reconciled : BOOLEAN]
NoOpClaims == [kind : {"NO_OP"}, after : Contents]

Init ==
  /\ content = [value |-> "BEFORE", rest |-> 0]
  /\ action = [status |-> "ABSENT", before |-> None, reconciled |-> FALSE]
  /\ crossing = None
  /\ accepted = None
  /\ validated = None
  /\ delta = None
  /\ delivery = [status |-> "ABSENT", receipt |-> 0]
  /\ receipts = <<>>
  /\ view = None
  /\ delivered = 0
  /\ acknowledged = FALSE
  /\ pc = [t \in Threads |-> "idle"]
  /\ claim = [t \in Threads |-> None]
  /\ known = [t \in Threads |-> FALSE]
  /\ overlapped = FALSE
  /\ clock = 0
  /\ requests = 0
  /\ drifts = 0

Goto(t, from, to) ==
  /\ pc[t] = from
  /\ pc' = [pc EXCEPT ![t] = to]

\* A new request begins on an idle thread.
Begin(t, to) ==
  /\ requests < MaxRequests
  /\ requests' = requests + 1
  /\ Goto(t, "idle", to)
  /\ UNCHANGED drifts

DecideRetry(status) ==
  CASE status \in {"ABSENT", "PLANNED"} -> "SAFE_TO_EXECUTE"
    [] status = "COMPLETED"             -> "ALREADY_COMPLETED"
    [] OTHER                            -> "RECONCILIATION_REQUIRED"

\* What a step of the mutation tool leaves alone.
ToolUnchanged == UNCHANGED <<session, delivery, receipts, clock, bounds>>

\* Thread t takes another thing in hand.
Hold(t, thing) == claim' = [claim EXCEPT ![t] = thing]

-----------------------------------------------------------------------------
(***************************************************************************)
(* deploy_change: the mutation tool                                        *)
(***************************************************************************)

\* The target is read for the intent, whose hash the tool will ask for again.
RequestDeployment(t) ==
  /\ Begin(t, "decide")
  /\ Hold(t, content)
  /\ UNCHANGED <<content, action, session, delivery, receipts, known, overlapped, clock>>

\* The ledger is looked up and asked what may be done.
Decide(t, decision, to) ==
  /\ DecideRetry(action.status) = decision
  /\ Goto(t, "decide", to)
  /\ overlapped' = (overlapped \/ \E u \in Threads \ {t} : pc[u] \in Deploying)
  /\ UNCHANGED <<content, action>>
  /\ ToolUnchanged

\* A completed action is only reported.
ReplayCompleted(t) ==
  /\ DecideRetry(action.status) = "ALREADY_COMPLETED"
  /\ Goto(t, "decide", "idle")
  /\ Hold(t, None)
  /\ UNCHANGED <<content, action, known, overlapped>>
  /\ ToolUnchanged

DecideToExecute(t) ==
  /\ Decide(t, "SAFE_TO_EXECUTE", "read")
  /\ known' = [known EXCEPT ![t] = action.status # "ABSENT"]
  /\ UNCHANGED claim

\* A dispatched action is not dispatched again.
DecideToReconcile(t) ==
  /\ Decide(t, "RECONCILIATION_REQUIRED", "reread")
  /\ Hold(t, None)
  /\ UNCHANGED known

\* The target holds the approved value already: what was read is the evidence.
ReadApproved(t) ==
  /\ content.value = "AFTER"
  /\ Goto(t, "read", "noop")
  /\ Hold(t, [kind |-> "NO_OP", after |-> content])
  /\ UNCHANGED <<content, action, known, overlapped>>
  /\ ToolUnchanged

\* It holds the value the change replaces, and the content the request hashed.
ReadExpected(t) ==
  /\ Goto(t, "read", IF known[t] THEN "attempt" ELSE "plan")
  /\ content.value = "BEFORE" /\ content = claim[t]
  /\ UNCHANGED <<content, action, claim, known, overlapped>>
  /\ ToolUnchanged

\* It holds something else: the request ends.
ReadDrifted(t) ==
  /\ Goto(t, "read", "idle")
  /\ content.value # "AFTER" /\ (content.value = "OTHER" \/ content # claim[t])
  /\ Hold(t, None)
  /\ UNCHANGED <<content, action, known, overlapped>>
  /\ ToolUnchanged

\* A no-op takes an action that is not on record as dispatched.
NoOp(t) ==
  LET admissible == DecideRetry(action.status) = "SAFE_TO_EXECUTE"
  IN  /\ Goto(t, "noop", IF admissible THEN "cross2" ELSE "idle")
      /\ Hold(t, IF admissible THEN claim[t] ELSE None)
      /\ UNCHANGED <<content, action, known, overlapped>>
      /\ ToolUnchanged

\* plan refuses an action somebody has planned since the lookup, and creates the
\* record in another step.
PlanCheck(t) ==
  /\ \/ action.status = "ABSENT" /\ Goto(t, "plan", "planning") /\ UNCHANGED claim
     \/ action.status # "ABSENT" /\ Goto(t, "plan", "idle") /\ Hold(t, None)
  /\ UNCHANGED <<content, action, known, overlapped>>
  /\ ToolUnchanged

\* The record is created over whatever is there by now; the intent names the
\* content read.
PlanSet(t) ==
  /\ Goto(t, "planning", "attempt")
  /\ action' = [status |-> "PLANNED", before |-> claim[t], reconciled |-> FALSE]
  /\ UNCHANGED <<content, claim, known, overlapped>>
  /\ ToolUnchanged

MarkAttempted(t) ==
  /\ Goto(t, "attempt", "apply")
  /\ action' = [action EXCEPT !.status = "ATTEMPTED"]
  /\ UNCHANGED <<content, claim, known, overlapped>>
  /\ ToolUnchanged

\* The repository reads the artifact and compares the requirement's value; what
\* it read is what the new artifact is made from.
CompareHolds(t) ==
  /\ content.value = "BEFORE"
  /\ Goto(t, "apply", "write")
  /\ Hold(t, [kind |-> "MUTATION", before |-> claim[t],
              after |-> [content EXCEPT !.value = "AFTER"], reconciled |-> FALSE])
  /\ UNCHANGED <<content, action, known, overlapped>>
  /\ ToolUnchanged

\* The value changed under the write, or the write fails without effect.
CompareFails(t) ==
  /\ content.value # "BEFORE" \/ WriteFaults \intersect {"FAILED", "UNCERTAIN_LOST"} # {}
  /\ Goto(t, "apply", "fail")
  /\ Hold(t, None)
  /\ UNCHANGED <<content, action, known, overlapped>>
  /\ ToolUnchanged

\* The artifact is replaced by the one made, over what others have done since.
WriteLands(t) ==
  /\ \/ Goto(t, "write", "complete") /\ UNCHANGED claim
     \/ "UNCERTAIN_LANDED" \in WriteFaults /\ Goto(t, "write", "fail") /\ Hold(t, None)
  /\ content' = claim[t].after
  /\ UNCHANGED <<action, known, overlapped>>
  /\ ToolUnchanged

\* A write that was not alone may find its snapshot's reference taken.
WriteCollides(t) ==
  /\ overlapped
  /\ Goto(t, "write", "fail")
  /\ Hold(t, None)
  /\ UNCHANGED <<content, action, known, overlapped>>
  /\ ToolUnchanged

\* The record is marked, whatever another thread has made of it since; the
\* evidence goes to Crossing 2.
MarkCompleted(t) ==
  /\ Goto(t, "complete", "cross2")
  /\ action' = [action EXCEPT !.status = "COMPLETED", !.reconciled = FALSE]
  /\ UNCHANGED <<content, claim, known, overlapped>>
  /\ ToolUnchanged

MarkFailedOrUncertain(t) ==
  /\ Goto(t, "fail", "idle")
  /\ action' = [action EXCEPT !.status = "FAILED_OR_UNCERTAIN"]
  /\ UNCHANGED <<content, claim, known, overlapped>>
  /\ ToolUnchanged

ReconcileRead(t) ==
  /\ Goto(t, "reread", "judge")
  /\ Hold(t, content)
  /\ UNCHANGED <<content, action, known, overlapped>>
  /\ ToolUnchanged

\* The target in the approved state and the recorded intent of a dispatched
\* action make it a reconciled mutation.
ReconcileMutation(t) ==
  /\ pc[t] = "judge"
  /\ \/ /\ action.status \in {"ATTEMPTED", "FAILED_OR_UNCERTAIN"} /\ claim[t].value = "AFTER"
        /\ Goto(t, "judge", "reconciled")
        /\ Hold(t, [kind |-> "MUTATION", before |-> action.before, after |-> claim[t],
                    reconciled |-> TRUE])
     \/ /\ action.status # "COMPLETED" /\ (action.status = "PLANNED" \/ claim[t].value # "AFTER")
        /\ Goto(t, "judge", "fail")
        /\ Hold(t, None)
     \/ /\ action.status = "COMPLETED"
        /\ Goto(t, "judge", "idle")
        /\ Hold(t, None)
  /\ UNCHANGED <<content, action, known, overlapped>>
  /\ ToolUnchanged

MarkReconciled(t) ==
  /\ Goto(t, "reconciled", "cross2")
  /\ action' = [action EXCEPT !.status = "COMPLETED", !.reconciled = TRUE]
  /\ UNCHANGED <<content, claim, known, overlapped>>
  /\ ToolUnchanged

-----------------------------------------------------------------------------
(***************************************************************************)
(* deploy_change: Crossing 2 and composition                               *)
(***************************************************************************)

\* MUTANT: a no-op needs no record in the ledger.
RecordBacksMutation(e) ==
  e.kind = "MUTATION" =>
    /\ action.status = "COMPLETED"
    /\ e.before = action.before
    /\ e.reconciled = action.reconciled
\* Crossing 2 reads the ledger first: evidence needs a record, and a mutation a
\* completed one with the recorded intent.
RecordBacks(e) ==
  /\ action.status # "ABSENT"
  /\ e.kind = "MUTATION" =>
       /\ action.status = "COMPLETED"
       /\ e.before = action.before
       /\ e.reconciled = action.reconciled

\* MUTANT: the committed artifact is not read again.
ArtifactHeldOnce(e) == e.kind = "MUTATION" => e.before # e.after
\* Then it reads the artifact: it must be what the evidence says it was left as,
\* with the approved value.  Artifact, action and requirement are the session's.
ArtifactHolds(e) ==
  /\ e.after = content
  /\ content.value = "AFTER"
  /\ e.kind = "MUTATION" => e.before # e.after
  /\ e.kind = "NO_OP" => DecideRetry(action.status) = "SAFE_TO_EXECUTE"

CrossRecord(t) ==
  /\ pc[t] = "cross2"
  /\ \/ RecordBacks(claim[t]) /\ Goto(t, "cross2", "measure") /\ UNCHANGED <<crossing, claim>>
     \/ /\ ~RecordBacks(claim[t])
        /\ Goto(t, "cross2", "first")
        /\ crossing' = "REJECTED"
        /\ Hold(t, None)
  /\ UNCHANGED <<content, action, accepted, validated, delta, view, delivered, acknowledged,
                 delivery, receipts, known, overlapped, clock, bounds>>

RemediationBoundaryResult(e) == IF ArtifactHolds(e) THEN "ACCEPTED" ELSE "REJECTED"

CrossArtifact(t) ==
  /\ Goto(t, "measure", "first")
  /\ crossing' = RemediationBoundaryResult(claim[t])
  /\ accepted' = IF ArtifactHolds(claim[t]) THEN claim[t] ELSE accepted
  /\ Hold(t, None)
  /\ UNCHANGED <<content, action, validated, delta, view, delivered, acknowledged, delivery,
                 receipts, known, overlapped, clock, bounds>>

\* MUTANT: every execution with evidence composes the delta.
IsAny(t) ==
  /\ Goto(t, "first", "compose")
  /\ UNCHANGED <<content, action, claim, known, overlapped>>
  /\ ToolUnchanged
\* Only the first execution goes on, and it goes on whatever the verdict was.
IsFirst(t) ==
  /\ Goto(t, "first", IF validated = None THEN "compose" ELSE "idle")
  /\ UNCHANGED <<content, action, claim, known, overlapped>>
  /\ ToolUnchanged

\* The execution is captured with the verdict the session holds by now, and the
\* delta composed from the artifact as it is by now: its payload is the change,
\* which is fixed, and the rest of the artifact as unchanged context.
Compose(t) ==
  /\ Goto(t, "compose", "stamp")
  /\ validated' = crossing
  /\ delta' = [payload |-> content.rest, composedAt |-> IF delta = None THEN 0
                                                        ELSE delta.composedAt]
  /\ UNCHANGED <<content, action, crossing, accepted, view, delivered, acknowledged, delivery,
                 receipts, claim, known, overlapped, clock, bounds>>

\* delta_composed_at is assigned after the delta.
Stamp(t) ==
  /\ Goto(t, "stamp", "idle")
  /\ clock' = clock + 1
  /\ delta' = [delta EXCEPT !.composedAt = clock + 1]
  /\ UNCHANGED <<content, action, crossing, accepted, validated, view, delivered, acknowledged,
                 delivery, receipts, claim, known, overlapped, bounds>>

-----------------------------------------------------------------------------
(***************************************************************************)
(* deliver_to_frontline: ledger, dispatch, Crossing 3                      *)
(***************************************************************************)

\* Without a delta there is nothing to deliver, and a completed delivery is
\* only reported: neither request changes anything.
RequestDelivery(t) ==
  /\ delta # None
  /\ \/ DecideRetry(delivery.status) = "SAFE_TO_EXECUTE" /\ Begin(t, "lookup")
     \/ DecideRetry(delivery.status) = "RECONCILIATION_REQUIRED" /\ Begin(t, "reconcile")
  /\ UNCHANGED <<content, action, session, delivery, receipts, claim, known, overlapped, clock>>

RecoverableReceipts == {r \in 1..Len(receipts) : receipts[r].status = "DELIVERED"}

\* A dispatched delivery is resolved by the first receipt the channel can still
\* produce; the thread has it in hand, or 0.
ReconcileDelivery(t) ==
  LET done == delivery.status = "COMPLETED" /\ delivery.receipt # 0
  IN  /\ Goto(t, "reconcile", IF done THEN "lookup" ELSE "resolve")
      /\ \/ done /\ UNCHANGED claim
         \/ ~done /\ RecoverableReceipts = {} /\ Hold(t, 0)
         \/ ~done /\ \E r \in RecoverableReceipts :
                       (\A q \in RecoverableReceipts : r <= q) /\ Hold(t, r)
      /\ UNCHANGED <<content, action, session, delivery, receipts, known, overlapped, clock, bounds>>

\* The ledger is marked, whatever it says by now: with a receipt the request goes
\* on to dispatch again, without one the delivery stays uncertain.
ResolveDelivery(t) ==
  /\ Goto(t, "resolve", IF claim[t] # 0 THEN "lookup" ELSE "idle")
  /\ delivery' = IF claim[t] # 0 THEN [status |-> "COMPLETED", receipt |-> claim[t]]
                                 ELSE [delivery EXCEPT !.status = "FAILED_OR_UNCERTAIN"]
  /\ Hold(t, None)
  /\ UNCHANGED <<content, action, session, receipts, known, overlapped, clock, bounds>>

\* The service looks for the record, and plan looks again: one that came in
\* between is a DuplicateActionError, which ends the request.
LookUpDelivery(t) ==
  /\ \/ delivery.status = "ABSENT" /\ Goto(t, "lookup", "intend")
     \/ delivery.status # "ABSENT" /\ Goto(t, "lookup", "mark")
  /\ UNCHANGED <<content, action, session, delivery, receipts, claim, known, overlapped, clock,
                 bounds>>

PlanDeliveryCheck(t) ==
  /\ Goto(t, "intend", IF delivery.status = "ABSENT" THEN "intending" ELSE "idle")
  /\ UNCHANGED <<content, action, session, delivery, receipts, claim, known, overlapped, clock,
                 bounds>>

\* The record is created, over one that came since the check.
PlanDeliverySet(t) ==
  /\ Goto(t, "intending", "mark")
  /\ delivery' = [status |-> "PLANNED", receipt |-> 0]
  /\ UNCHANGED <<content, action, session, receipts, claim, known, overlapped, clock, bounds>>

\* The record is marked attempted whatever another thread has made of it since.
AttemptDelivery(t) ==
  /\ Goto(t, "mark", "dispatch")
  /\ delivery' = [delivery EXCEPT !.status = "ATTEMPTED"]
  /\ UNCHANGED <<content, action, session, receipts, claim, known, overlapped, clock, bounds>>

\* The dispatch is over: what the thread has in hand is the receipt, if any.
DispatchEnds(t, to, receipt) ==
  /\ Goto(t, "dispatch", to)
  /\ Hold(t, receipt)

\* The channel raises before it sends: the exception ends the request and the
\* action stays attempted.
DispatchRefused(t) ==
  /\ "REFUSED" \in ChannelOutcomes
  /\ DispatchEnds(t, "idle", None)
  /\ UNCHANGED <<content, action, session, delivery, receipts, known, overlapped, clock, bounds>>

\* The channel sends the delta the session holds by now, and appends a receipt
\* bound to its payload.
Sent(status) ==
  /\ Len(receipts) < MaxReceipts
  /\ receipts' = Append(receipts, [payload |-> delta.payload, status |-> status,
                                   issuedAt |-> clock])

Dispatched(t) ==
  /\ DispatchEnds(t, "cross3", Len(receipts) + 1)
  /\ \/ "RECEIPT" \in ChannelOutcomes /\ Sent("DELIVERED")
     \/ "UNCONFIRMED" \in ChannelOutcomes /\ Sent("UNCERTAIN")
  /\ UNCHANGED <<content, action, session, delivery, known, overlapped, clock, bounds>>

\* UncertainDeliveryError: sent or not, there is no answer.
DispatchUncertain(t) ==
  /\ DispatchEnds(t, "idle", None)
  /\ \/ "LANDED_UNCERTAIN" \in ChannelOutcomes /\ Sent("DELIVERED")
     \/ "LOST_UNCERTAIN" \in ChannelOutcomes /\ UNCHANGED receipts
  /\ delivery' = [delivery EXCEPT !.status = "FAILED_OR_UNCERTAIN"]
  /\ UNCHANGED <<content, action, session, known, overlapped, clock, bounds>>

\* MUTANT: a receipt for the delta is enough, whatever the channel says in it.
AcceptAnyReceipt(r) == r.payload = delta.payload /\ r.issuedAt >= delta.composedAt
\* Crossing 3 reads the session's delta again and measures the receipt with it.
\* Instruction, change, worker and mechanism are the session's own.
AcceptDeliveryResult(r) ==
  /\ r.payload = delta.payload
  /\ r.status = "DELIVERED"
  /\ r.issuedAt >= delta.composedAt

\* Only an accepted result establishes the delivery.
DeliveryBoundaryResult(r) == IF AcceptDeliveryResult(r) THEN "establish" ELSE "reject"

CrossDelivery(t) ==
  /\ Goto(t, "cross3", DeliveryBoundaryResult(receipts[claim[t]]))
  /\ UNCHANGED <<content, action, session, delivery, receipts, claim, known, overlapped, clock,
                 bounds>>

EstablishDelivery(t) ==
  /\ Goto(t, "establish", "idle")
  /\ view' = "ESTABLISHED"
  /\ delivery' = [status |-> "COMPLETED", receipt |-> claim[t]]
  /\ delivered' = claim[t]
  /\ Hold(t, None)
  /\ UNCHANGED <<content, action, crossing, accepted, validated, delta, acknowledged, receipts,
                 known, overlapped, clock, bounds>>

RejectDelivery(t) ==
  /\ Goto(t, "reject", "idle")
  /\ view' = "REJECTED"
  /\ delivery' = [delivery EXCEPT !.status = "FAILED_OR_UNCERTAIN"]
  /\ Hold(t, None)
  /\ UNCHANGED <<content, action, crossing, accepted, validated, delta, delivered, acknowledged,
                 receipts, known, overlapped, clock, bounds>>

FrontlineAvailable == delta # None /\ view = "ESTABLISHED"

Acknowledge ==
  /\ FrontlineAvailable
  /\ acknowledged' = TRUE
  /\ UNCHANGED <<content, action, crossing, accepted, validated, delta, view, delivered,
                 delivery, receipts, threads, clock, bounds>>

-----------------------------------------------------------------------------

\* Another writer changes the requirement, or the rest of the artifact.
Drift ==
  /\ drifts < MaxDrifts
  /\ drifts' = drifts + 1
  /\ content' \in {[content EXCEPT !.value = v] : v \in DriftValues}
                   \union {[content EXCEPT !.rest = @ + 1]}
  /\ UNCHANGED <<action, session, delivery, receipts, threads, clock, requests>>

ToolStep(t) ==
  \/ ReplayCompleted(t) \/ DecideToExecute(t) \/ DecideToReconcile(t)
  \/ ReadApproved(t) \/ ReadExpected(t) \/ ReadDrifted(t)
  \/ NoOp(t)
  \/ PlanCheck(t) \/ PlanSet(t) \/ MarkAttempted(t)
  \/ CompareHolds(t) \/ CompareFails(t) \/ WriteLands(t) \/ WriteCollides(t)
  \/ MarkCompleted(t) \/ MarkFailedOrUncertain(t)
  \/ ReconcileRead(t) \/ ReconcileMutation(t) \/ MarkReconciled(t)

DeliveryStep(t) ==
  \/ ReconcileDelivery(t) \/ ResolveDelivery(t)
  \/ LookUpDelivery(t) \/ PlanDeliveryCheck(t) \/ PlanDeliverySet(t) \/ AttemptDelivery(t)
  \/ DispatchRefused(t) \/ Dispatched(t) \/ DispatchUncertain(t)
  \/ CrossDelivery(t) \/ EstablishDelivery(t) \/ RejectDelivery(t)

ThreadStep(t) ==
  \/ RequestDeployment(t) \/ RequestDelivery(t)
  \/ ToolStep(t)
  \/ CrossRecord(t) \/ CrossArtifact(t)
  \/ IsFirst(t) \/ Compose(t) \/ Stamp(t)
  \/ DeliveryStep(t)

Next ==
  \/ \E t \in Threads : ThreadStep(t)
  \/ Acknowledge
  \/ Drift

Spec == Init /\ [][Next]_vars

-----------------------------------------------------------------------------
(***************************************************************************)
(* Properties                                                              *)
(***************************************************************************)

Receipts == [payload : Nat, status : {"DELIVERED", "UNCERTAIN"}, issuedAt : Nat]
Actions == [status : ActionStatus, before : Contents \union {None}, reconciled : BOOLEAN]
Deltas == [payload : Nat, composedAt : Nat]

\* What a thread has in hand at each of its steps.
ClaimOK(t) ==
  /\ pc[t] \in {"idle", "fail", "reread", "first", "compose", "stamp", "reconcile", "lookup",
                "intend", "intending", "mark", "dispatch"} => claim[t] = None
  /\ pc[t] \in {"decide", "read", "plan", "planning", "attempt", "apply", "judge"}
       => claim[t] \in Contents
  /\ pc[t] = "noop" => claim[t] \in NoOpClaims
  /\ pc[t] \in {"write", "complete", "reconciled"} => claim[t] \in MutationClaims
  /\ pc[t] \in {"cross2", "measure"} => claim[t] \in MutationClaims \union NoOpClaims
  /\ pc[t] = "resolve" => claim[t] \in 0..Len(receipts)
  /\ pc[t] \in {"cross3", "establish", "reject"} => claim[t] \in 1..Len(receipts)
  /\ pc[t] \in {"stamp", "reconcile", "resolve", "lookup", "intend", "intending", "mark",
                "dispatch", "cross3", "establish", "reject"} => delta # None
  /\ known[t] \/ pc[t] \in {"attempt", "apply", "write", "complete", "fail", "reread", "judge",
                            "reconciled"} => action.status # "ABSENT"

\* Every variable keeps its kind, and what the session, the ledger and the
\* threads refer to exists.
TypeOK ==
  /\ content \in Contents
  /\ action \in Actions
  /\ action.status # "ABSENT" => action.before # None
  /\ crossing \in {"ACCEPTED", "REJECTED", None}
  /\ validated \in {"ACCEPTED", "REJECTED", None}
  /\ accepted \in MutationClaims \union NoOpClaims \union {None}
  /\ delta \in Deltas \union {None}
  /\ receipts \in Seq(Receipts)
  /\ delivery \in [status : ActionStatus, receipt : 0..Len(receipts)]
  /\ view \in {"ESTABLISHED", "REJECTED", None}
  /\ delivered \in 0..Len(receipts)
  /\ acknowledged \in BOOLEAN
  /\ pc \in [Threads -> Deploying \union
                          {"idle", "decide", "reconcile", "resolve", "lookup", "intend", "intending",
                           "mark", "dispatch", "cross3", "establish", "reject"}]
  /\ known \in [Threads -> BOOLEAN]
  /\ overlapped \in BOOLEAN
  /\ DOMAIN claim = Threads
  /\ \A t \in Threads : ClaimOK(t)
  /\ clock \in Nat /\ requests \in Nat /\ drifts \in Nat

\* What counts as delivered rests on a receipt in which the channel says
\* DELIVERED: workflow.delivery_ref and a completed delivery action name such a
\* receipt, whether a dispatch or a reconciliation completed it, and also after
\* another thread has marked the action attempted and failed again
\* (deliver_to_frontline, reconcile_delivery, mark_completed).
DeliveryIsReceipted ==
  /\ delivered # 0 => receipts[delivered].status = "DELIVERED"
  /\ delivery.status = "COMPLETED" =>
       /\ delivery.receipt # 0
       /\ receipts[delivery.receipt].status = "DELIVERED"

\* The evidence Crossing 2 accepted is and stays what the ledger has on record
\* of a completed mutation, and what the agent reports without a record, a no-op
\* included, is not accepted (accept_remediation_evidence), whatever is written,
\* reconciled and retried, unless two deployments were past the retry decision at
\* once: then one may mark the record the other completed, or plan it anew.
AcceptedIsRecorded ==
  ~overlapped /\ accepted # None =>
    /\ accepted.kind = "MUTATION"
    /\ action = [status |-> "COMPLETED", before |-> accepted.before,
                 reconciled |-> accepted.reconciled]

\* Evidence is accepted only while the artifact is what the evidence says it
\* was left as, with the approved value: what another writer did after the tool
\* returned is noticed (accept_remediation_evidence reads the artifact again).
AcceptedHolds ==
  [][accepted' # accepted => content = accepted'.after /\ content.value = "AFTER"]_vars

\* The receipt delivery rests on is for the delta the session holds and shows to
\* the frontline, over retries, reconciliations and other writers, unless two
\* deployments were past the retry decision at once: the second may compose the
\* delta anew between Crossing 3 and the record of its verdict, or later
\* (deploy_change composes once, accept_delivery_result).
DeliveredIsTheDelta ==
  ~overlapped /\ delivered # 0 => receipts[delivered].payload = delta.payload

\* The delta is composed only for a remediation Crossing 2 accepted, as the
\* docstring of _compose_delta says.  The verdict is recorded and not consulted.
ComposedWhenAccepted ==
  delta # None => validated = "ACCEPTED"

=============================================================================
