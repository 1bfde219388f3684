--------------------------- MODULE ChangeIngestion ---------------------------
(***************************************************************************)
(* Acceptance of approved changes by several instances of the API          *)
(* (driftzero_api/runtime.py, pubsub.py, routes.py) over one Firestore:    *)
(* Pub/Sub delivers at least once and gives up after its delivery budget,  *)
(* HTTP callers submit too, store calls fail, instances die.               *)
(*                                                                         *)
(* Both endpoints are coroutines that call accept_change without awaiting, *)
(* so an instance handles one request at a time; instances interleave      *)
(* between any two store calls, each of which is one action.               *)
(***************************************************************************)
EXTENDS Naturals

CONSTANTS
  Instances,
  Changes,        \* approved changes, by change_id
  Rejected,       \* changes whose message is refused, as an envelope or as a fixture
  Workflows,      \* workflow ids
  None,
  MaxDeliveries,  \* delivery attempts before a message is dead-lettered
  MaxSubmissions, \* bound on HTTP submissions per change
  MaxFailures     \* bound on failing store calls and crashes together

ASSUME IngestionAssumption ==
  /\ Rejected \subseteq Changes
  /\ None \notin Changes /\ None \notin Workflows
  /\ MaxDeliveries \in Nat /\ MaxSubmissions \in Nat /\ MaxFailures \in Nat

VARIABLES
  claim,      \* durable: change -> the workflow that owns it
  docs,       \* durable: workflows with a workflow document
  inputs,     \* durable: workflows with an input document
  minted,     \* workflow -> the change it was built for
  live,       \* per instance: workflows in its registry
  known,      \* per instance: _known_changes
  request,    \* per instance: the request it handles
  attempts,   \* change -> deliveries of its message so far
  submitted,  \* change -> HTTP submissions so far
  fate,       \* change -> what became of its message
  answers,    \* change -> workflows named in successful responses
  failures,
  unclaimed   \* history: changes an instance came to know while the claim call
              \* raised and left no claim

durable == <<claim, docs, inputs>>
local == <<minted, live, known>>
transport == <<attempts, submitted, fate, answers>>
history == <<failures, unclaimed>>
vars == <<durable, local, request, transport, history>>

Steps == {"idle", "classify", "record", "input", "claim"}
Requests == [step : Steps, change : Changes \union {None}, push : BOOLEAN,
             workflow : Workflows \union {None}]
NoRequest == [step |-> "idle", change |-> None, push |-> FALSE, workflow |-> None]

Init ==
  /\ claim = [c \in Changes |-> None]
  /\ docs = {} /\ inputs = {}
  /\ minted = [w \in Workflows |-> None]
  /\ live = [i \in Instances |-> {}]
  /\ known = [i \in Instances |-> [c \in Changes |-> None]]
  /\ request = [i \in Instances |-> NoRequest]
  /\ attempts = [c \in Changes |-> 0]
  /\ submitted = [c \in Changes |-> 0]
  /\ fate = [c \in Changes |-> "pending"]
  /\ answers = [c \in Changes |-> {}]
  /\ failures = 0
  /\ unclaimed = {}

At(i, step) == request[i].step = step
Goto(i, step) == request' = [request EXCEPT ![i].step = step]
InFlight(c) == \E i \in Instances : request[i].push /\ request[i].change = c

Receive(i, c, push) ==
  /\ At(i, "idle")
  /\ request' = [request EXCEPT ![i] =
       [step |-> "classify", change |-> c, push |-> push, workflow |-> None]]

\* Pub/Sub pushes a message, also one whose delivery is under way or acked.
Deliver(i, c) ==
  /\ fate[c] # "dead"
  /\ attempts[c] < MaxDeliveries
  /\ Receive(i, c, TRUE)
  /\ attempts' = [attempts EXCEPT ![c] = @ + 1]
  /\ UNCHANGED <<durable, local, submitted, fate, answers, history>>

\* The budget is used up and no delivery is under way any more.
DeadLetter(c) ==
  /\ fate[c] = "pending"
  /\ attempts[c] = MaxDeliveries
  /\ ~InFlight(c)
  /\ fate' = [fate EXCEPT ![c] = "dead"]
  /\ UNCHANGED <<durable, local, request, attempts, submitted, answers, history>>

Submit(i, c) ==
  /\ submitted[c] < MaxSubmissions
  /\ Receive(i, c, FALSE)
  /\ submitted' = [submitted EXCEPT ![c] = @ + 1]
  /\ UNCHANGED <<durable, local, attempts, fate, answers, history>>

Respond(i) == request' = [request EXCEPT ![i] = NoRequest]

\* 200 or 201: the answer names the workflow and a pushed message is acked.
Succeed(i, w) ==
  LET c == request[i].change IN
  /\ Respond(i)
  /\ answers' = [answers EXCEPT ![c] = @ \union {w}]
  /\ fate' = IF request[i].push /\ fate[c] = "pending"
               THEN [fate EXCEPT ![c] = "acked"] ELSE fate
  /\ UNCHANGED <<attempts, submitted>>

\* MUTANT: a failure is acked like a success.
RefuseAcked(i) ==
  /\ Respond(i)
  /\ fate' = IF request[i].push THEN [fate EXCEPT ![request[i].change] = "acked"] ELSE fate
  /\ UNCHANGED <<attempts, submitted, answers>>

\* 400, 500 or 503: no message is acked.
Refuse(i) == Respond(i) /\ UNCHANGED transport

\* MUTANT: the cached workflow wins over the durable claim.
OwnerCacheFirst(i, c) == IF known[i][c] # None THEN known[i][c] ELSE claim[c]

\* classify: the durable claim wins over the in-process cache.
Owner(i, c) == IF claim[c] # None THEN claim[c] ELSE known[i][c]

\* status finds the workflow in the registry or in the store.
Resolvable(i, w) == w \in live[i] \/ w \in docs

\* The decision on a change id: it was accepted before, or it is new.
IsDuplicate(i, c) == Owner(i, c) # None

\* 400: the body can never be accepted.  To Pub/Sub this is a failed delivery like
\* any other, which it repeats.
RejectPermanently(i) ==
  /\ Refuse(i)
  /\ UNCHANGED <<durable, local, history>>

\* The body is no envelope, its data no JSON object with a change id, or it states a
\* conclusion: the claims are never asked.  An HTTP caller may send any body.
RejectEnvelope(i) ==
  /\ At(i, "classify")
  /\ request[i].change \in Rejected \/ ~request[i].push
  /\ RejectPermanently(i)

\* A duplicate is answered with the workflow that exists.
ResolveDuplicate(i) ==
  LET owner == Owner(i, request[i].change) IN
  /\ At(i, "classify")
  /\ IsDuplicate(i, request[i].change)
  /\ IF Resolvable(i, owner) THEN Succeed(i, owner) ELSE Refuse(i)
  /\ UNCHANGED <<durable, local, history>>

\* dataset_from_fixture refuses the change.
RejectFixture(i) ==
  /\ At(i, "classify")
  /\ ~IsDuplicate(i, request[i].change)
  /\ request[i].change \in Rejected
  /\ RejectPermanently(i)

\* MUTANT: a new workflow is claimed without being stored.
BuildUnstored(i) ==
  LET c == request[i].change IN
  /\ At(i, "classify")
  /\ ~IsDuplicate(i, c)
  /\ c \notin Rejected
  /\ \E w \in Workflows :
       /\ minted[w] = None
       /\ minted' = [minted EXCEPT ![w] = c]
       /\ live' = [live EXCEPT ![i] = @ \union {w}]
       /\ request' = [request EXCEPT ![i] =
            [step |-> "claim", change |-> c, push |-> @.push, workflow |-> w]]
  /\ UNCHANGED <<durable, known, transport, history>>

\* A new change gets a workflow, registered before anything is stored.
Build(i) ==
  LET c == request[i].change IN
  /\ At(i, "classify")
  /\ ~IsDuplicate(i, c)
  /\ c \notin Rejected
  /\ \E w \in Workflows :
       /\ minted[w] = None
       /\ minted' = [minted EXCEPT ![w] = c]
       /\ live' = [live EXCEPT ![i] = @ \union {w}]
       /\ request' = [request EXCEPT ![i] =
            [step |-> "record", change |-> c, push |-> @.push, workflow |-> w]]
  /\ UNCHANGED <<durable, known, transport, history>>

Failure == failures < MaxFailures /\ failures' = failures + 1

\* A store call raises: the handler answers with a failure.
Fault(i) == Failure /\ Refuse(i)

\* A read in classify fails.
ClassifyFails(i) ==
  /\ At(i, "classify")
  /\ Fault(i)
  /\ UNCHANGED <<durable, local, unclaimed>>

\* MUTANT: a workflow that could not be stored is accepted all the same.
RecordWorkflowBestEffort(i) ==
  /\ At(i, "record")
  /\ docs' \in {docs, docs \union {request[i].workflow}}
  /\ Goto(i, "input")
  /\ UNCHANGED <<claim, inputs, local, transport, history>>

\* record_workflow: a failing call may have taken effect.
RecordWorkflow(i) ==
  /\ At(i, "record")
  /\ \/ /\ docs' = docs \union {request[i].workflow}
        /\ Goto(i, "input")
        /\ UNCHANGED <<transport, failures>>
     \/ /\ docs' \in {docs, docs \union {request[i].workflow}}
        /\ Fault(i)
  /\ UNCHANGED <<claim, inputs, local, unclaimed>>

\* _record_input
RecordInput(i) ==
  /\ At(i, "input")
  /\ \/ /\ inputs' = inputs \union {request[i].workflow}
        /\ Goto(i, "claim")
        /\ UNCHANGED <<transport, failures>>
     \/ /\ inputs' \in {inputs, inputs \union {request[i].workflow}}
        /\ Fault(i)
  /\ UNCHANGED <<claim, docs, local, unclaimed>>

\* _claim: the cache is set first, then the claim is created if there is none.  The
\* call may raise with or without having created it; a claim of another workflow
\* raises a ConflictingRecord.
Claim(i) ==
  LET c == request[i].change
      w == request[i].workflow
      Created == claim[c] = None /\ claim' = [claim EXCEPT ![c] = w]
  IN
  /\ At(i, "claim")
  /\ known' = [known EXCEPT ![i][c] = w]
  /\ \/ Created /\ Succeed(i, w) /\ UNCHANGED history
     \/ Created /\ Fault(i) /\ UNCHANGED unclaimed
     \/ claim[c] = None /\ Fault(i) /\ unclaimed' = unclaimed \union {c} /\ UNCHANGED claim
     \/ claim[c] # None /\ Refuse(i) /\ UNCHANGED <<claim, history>>
  /\ UNCHANGED <<docs, inputs, minted, live>>

\* The instance dies with its registry, its cache and its request.
Crash(i) ==
  /\ Failure
  /\ live' = [live EXCEPT ![i] = {}]
  /\ known' = [known EXCEPT ![i] = [c \in Changes |-> None]]
  /\ Respond(i)
  /\ UNCHANGED <<durable, minted, transport, unclaimed>>

Handle(i) ==
  \/ RejectEnvelope(i) \/ ResolveDuplicate(i) \/ RejectFixture(i) \/ Build(i)
  \/ ClassifyFails(i)
  \/ RecordWorkflow(i) \/ RecordInput(i) \/ Claim(i)

Next ==
  \/ \E i \in Instances : Handle(i) \/ Crash(i)
  \/ \E i \in Instances, c \in Changes : Deliver(i, c) \/ Submit(i, c)
  \/ \E c \in Changes : DeadLetter(c)

Spec == Init /\ [][Next]_vars

\* Pub/Sub delivers a message that is not under way until it is acked or dead, and
\* an instance finishes the request it handles.
FairSpec ==
  /\ Spec
  /\ \A i \in Instances : WF_vars(Handle(i))
  /\ \A c \in Changes :
       /\ SF_vars(fate[c] = "pending" /\ ~InFlight(c) /\ \E i \in Instances : Deliver(i, c))
       /\ WF_vars(DeadLetter(c))

-----------------------------------------------------------------------------
(***************************************************************************)
(* Properties                                                              *)
(***************************************************************************)

\* Every variable holds a value of its kind, and a message is delivered at most
\* as often as its budget allows.
TypeOK ==
  /\ claim \in [Changes -> Workflows \union {None}]
  /\ docs \subseteq Workflows /\ inputs \subseteq Workflows
  /\ minted \in [Workflows -> Changes \union {None}]
  /\ live \in [Instances -> SUBSET Workflows]
  /\ known \in [Instances -> [Changes -> Workflows \union {None}]]
  /\ request \in [Instances -> Requests]
  /\ attempts \in [Changes -> 0 .. MaxDeliveries]
  /\ submitted \in [Changes -> 0 .. MaxSubmissions]
  /\ fate \in [Changes -> {"pending", "acked", "dead"}]
  /\ answers \in [Changes -> SUBSET Workflows]
  /\ failures \in 0 .. MaxFailures
  /\ unclaimed \subseteq Changes

\* However often a change arrives, over whichever transport and instance and
\* through whatever crashes and failing calls, every successful answer names the
\* same workflow: the claim decides.  The one exception is a change whose claim call
\* raised behind the cache of the instance (_claim).
AcceptedOnce == \A c \in Changes \ unclaimed : \A v, w \in answers[c] : v = w

\* An answer of success is backed by the store: the workflow it names was built for
\* the change, its document and its input are there to resume it from, and, but for
\* that exception, the claim names it.
AnsweredIsDurable ==
  \A c \in Changes : \A w \in answers[c] :
    /\ minted[w] = c /\ w \in docs /\ w \in inputs
    /\ c \notin unclaimed => claim[c] = w

\* What classify calls a duplicate can always be resolved: the workflow it names
\* was built for the change and is in reach of every instance that names it.
DuplicatesResolve ==
  \A i \in Instances, c \in Changes :
    IsDuplicate(i, c) => Resolvable(i, Owner(i, c)) /\ minted[Owner(i, c)] = c

\* With fewer failures than the delivery budget covers, an acceptable change is
\* accepted, and one that is refused ends in the dead-letter topic, unanswered.
Settles ==
  \A c \in Changes :
    <>(IF c \in Rejected THEN fate[c] = "dead" /\ answers[c] = {} ELSE answers[c] # {})

-----------------------------------------------------------------------------
(***************************************************************************)
(* What the repository's documents say and the code does not keep.         *)
(***************************************************************************)

\* A change is accepted once, whichever call raised.
AcceptedOnceThroughout == \A c \in Changes : \A v, w \in answers[c] : v = w

=============================================================================
