------------------------ MODULE ChangeIngestionProofs ------------------------
(***************************************************************************)
(* Proofs about the two ways a change comes in: ChangeIngestion, for any   *)
(* instances, changes, workflow ids and budgets, and ConsoleRun, for any   *)
(* fixtures, workflows, photographs, deaths and failures.                  *)
(***************************************************************************)
EXTENDS ChangeIngestion, ConsoleRun, WellFoundedInduction, FiniteSetTheorems,
        SequenceTheorems, TLAPS

\* The bounds are numbers.
LEMMA Bounds ==
  /\ MaxDeliveries \in Nat /\ MaxSubmissions \in Nat
  /\ MaxFailures \in Nat
  BY IngestionAssumption

\* What an instance handles is a change, and past classify a workflow for it.
Handling ==
  \A i \in Instances :
    request[i].step # "idle" =>
      /\ request[i].change \in Changes
      /\ request[i].step # "classify" => request[i].workflow \in Workflows

\* Before any delivery every variable has its kind.
LEMMA InitTypeOK == Init => TypeOK
  BY Bounds DEF Init, TypeOK, Requests, NoRequest, Steps

\* A request that moves on to another step is still a request.
LEMMA GotoTypes ==
  ASSUME TypeOK, NEW i \in Instances, NEW s \in Steps, Goto(i, s)
  PROVE  request' \in [Instances -> Requests]
<1> DEFINE moved == [step |-> s, change |-> request[i].change,
                     push |-> request[i].push, workflow |-> request[i].workflow]
<1>1. request[i] \in Requests
  BY DEF TypeOK
<1>2. moved \in Requests
  BY <1>1 DEF Requests
<1>3. [request[i] EXCEPT !.step = s] = moved
  BY <1>1 DEF Requests
<1>4. request' = [request EXCEPT ![i] = moved]
  BY <1>3 DEF Goto, TypeOK
<1> QED BY <1>2, <1>4 DEF TypeOK

\* Once it has answered, an instance handles no request.
LEMMA RespondTypes ==
  ASSUME TypeOK, NEW i \in Instances, Respond(i)
  PROVE  request' \in [Instances -> Requests]
<1>1. NoRequest \in Requests
  BY DEF NoRequest, Requests, Steps
<1> QED BY <1>1 DEF TypeOK, Respond

\* A successful answer keeps the kinds of what the caller and Pub/Sub learn.
LEMMA SucceedTypes ==
  ASSUME TypeOK, NEW i \in Instances, NEW w \in Workflows,
         request[i].change \in Changes, Succeed(i, w)
  PROVE  /\ request' \in [Instances -> Requests]
         /\ fate' \in [Changes -> {"pending", "acked", "dead"}]
         /\ answers' \in [Changes -> SUBSET Workflows]
         /\ attempts' = attempts /\ submitted' = submitted
<1>1. request' \in [Instances -> Requests]
  BY RespondTypes DEF Succeed
<1> QED BY <1>1 DEF TypeOK, Succeed

\* A failing answer tells them nothing.
LEMMA RefuseTypes ==
  ASSUME TypeOK, NEW i \in Instances, Refuse(i)
  PROVE  request' \in [Instances -> Requests] /\ UNCHANGED transport
  BY RespondTypes DEF Refuse

\* So does one for a failing store call, which counts as a failure.
LEMMA FaultTypes ==
  ASSUME TypeOK, NEW i \in Instances, Fault(i)
  PROVE  /\ request' \in [Instances -> Requests] /\ UNCHANGED transport
         /\ failures' \in 0 .. MaxFailures
<1>1. failures' \in 0 .. MaxFailures
  BY Bounds DEF TypeOK, Fault, Failure
<1> QED BY <1>1, RefuseTypes DEF Fault

\* Every step of any instance, caller or of Pub/Sub keeps the kinds.
LEMMA NextTypeOK ==
  ASSUME TypeOK, Handling, [Next]_vars
  PROVE  TypeOK'
<1> USE DEF durable, local, transport, history
<1>1. ASSUME NEW i \in Instances, NEW c \in Changes, NEW push \in BOOLEAN, Receive(i, c, push)
      PROVE  request' \in [Instances -> Requests]
  <2>1. [step |-> "classify", change |-> c, push |-> push, workflow |-> None] \in Requests
    BY DEF Requests, Steps
  <2> QED BY <1>1, <2>1 DEF Receive, TypeOK
<1>2. ASSUME NEW i \in Instances, NEW c \in Changes, Deliver(i, c) PROVE TypeOK'
  <2>1. request' \in [Instances -> Requests]
    BY <1>1, <1>2 DEF Deliver
  <2>2. attempts[c] + 1 \in 0 .. MaxDeliveries
    BY <1>2, Bounds DEF Deliver, TypeOK
  <2>3. attempts' \in [Changes -> 0 .. MaxDeliveries]
    BY <1>2, <2>2 DEF Deliver, TypeOK
  <2> QED BY <1>2, <2>1, <2>3 DEF Deliver, TypeOK
<1>3. ASSUME NEW i \in Instances, NEW c \in Changes, Submit(i, c) PROVE TypeOK'
  <2>1. request' \in [Instances -> Requests]
    BY <1>1, <1>3 DEF Submit
  <2>2. submitted[c] + 1 \in 0 .. MaxSubmissions
    BY <1>3, Bounds DEF Submit, TypeOK
  <2>3. submitted' \in [Changes -> 0 .. MaxSubmissions]
    BY <1>3, <2>2 DEF Submit, TypeOK
  <2> QED BY <1>3, <2>1, <2>3 DEF Submit, TypeOK
<1>4. ASSUME NEW c \in Changes, DeadLetter(c) PROVE TypeOK'
  BY <1>4 DEF DeadLetter, TypeOK
<1>5. ASSUME NEW i \in Instances, Crash(i) PROVE TypeOK'
  <2>1. request' \in [Instances -> Requests]
    BY <1>5, RespondTypes DEF Crash
  <2>2. failures' \in 0 .. MaxFailures
    BY <1>5, Bounds DEF Crash, Failure, TypeOK
  <2>3. /\ live' \in [Instances -> SUBSET Workflows]
        /\ known' \in [Instances -> [Changes -> Workflows \union {None}]]
    BY <1>5 DEF Crash, TypeOK
  <2> QED BY <1>5, <2>1, <2>2, <2>3 DEF Crash, TypeOK
<1>6. ASSUME NEW i \in Instances, ResolveDuplicate(i) PROVE TypeOK'
  <2>1. request[i].change \in Changes
    BY <1>6 DEF ResolveDuplicate, At, Handling
  <2>2. Owner(i, request[i].change) \in Workflows
    BY <1>6, <2>1 DEF ResolveDuplicate, IsDuplicate, Owner, TypeOK
  <2>3. CASE Succeed(i, Owner(i, request[i].change))
    BY <1>6, <2>1, <2>2, <2>3, SucceedTypes DEF ResolveDuplicate, TypeOK
  <2>4. CASE Refuse(i)
    BY <1>6, <2>4, RefuseTypes DEF ResolveDuplicate, TypeOK
  <2> QED BY <1>6, <2>3, <2>4 DEF ResolveDuplicate
<1>7. ASSUME NEW i \in Instances, RejectFixture(i) \/ RejectEnvelope(i) PROVE TypeOK'
  BY <1>7, RefuseTypes DEF RejectFixture, RejectEnvelope, RejectPermanently, TypeOK
<1>8. ASSUME NEW i \in Instances, Build(i) PROVE TypeOK'
  <2>1. request[i].change \in Changes
    BY <1>8 DEF Build, At, Handling
  <2>2. PICK w \in Workflows :
          /\ minted' = [minted EXCEPT ![w] = request[i].change]
          /\ live' = [live EXCEPT ![i] = @ \union {w}]
          /\ request' = [request EXCEPT ![i] = [step |-> "record", change |-> request[i].change,
                                                push |-> request[i].push, workflow |-> w]]
    BY <1>8 DEF Build
  <2>3. request[i].push \in BOOLEAN
    BY DEF TypeOK, Requests
  <2>4. [step |-> "record", change |-> request[i].change,
         push |-> request[i].push, workflow |-> w] \in Requests
    BY <2>1, <2>3 DEF Requests, Steps
  <2>5. request' \in [Instances -> Requests]
    BY <2>2, <2>4 DEF TypeOK
  <2> QED BY <1>8, <2>1, <2>2, <2>5 DEF Build, TypeOK
<1>9. ASSUME NEW i \in Instances, ClassifyFails(i) PROVE TypeOK'
  BY <1>9, FaultTypes DEF ClassifyFails, TypeOK
<1>10. ASSUME NEW i \in Instances, RecordWorkflow(i) PROVE TypeOK'
  <2>1. request[i].workflow \in Workflows
    BY <1>10 DEF RecordWorkflow, At, Handling
  <2>2. CASE Goto(i, "input") /\ UNCHANGED <<transport, failures>>
    <3>1. request' \in [Instances -> Requests]
      BY <2>2, GotoTypes DEF Steps
    <3> QED BY <1>10, <2>1, <2>2, <3>1 DEF RecordWorkflow, TypeOK
  <2>3. CASE Fault(i)
    BY <1>10, <2>1, <2>3, FaultTypes DEF RecordWorkflow, TypeOK
  <2> QED BY <1>10, <2>2, <2>3 DEF RecordWorkflow
<1>11. ASSUME NEW i \in Instances, RecordInput(i) PROVE TypeOK'
  <2>1. request[i].workflow \in Workflows
    BY <1>11 DEF RecordInput, At, Handling
  <2>2. CASE Goto(i, "claim") /\ UNCHANGED <<transport, failures>>
    <3>1. request' \in [Instances -> Requests]
      BY <2>2, GotoTypes DEF Steps
    <3> QED BY <1>11, <2>1, <2>2, <3>1 DEF RecordInput, TypeOK
  <2>3. CASE Fault(i)
    BY <1>11, <2>1, <2>3, FaultTypes DEF RecordInput, TypeOK
  <2> QED BY <1>11, <2>2, <2>3 DEF RecordInput
<1>12. ASSUME NEW i \in Instances, Claim(i) PROVE TypeOK'
  <2>1. request[i].change \in Changes /\ request[i].workflow \in Workflows
    BY <1>12 DEF Claim, At, Handling
  <2>2. /\ known' \in [Instances -> [Changes -> Workflows \union {None}]]
        /\ claim' \in [Changes -> Workflows \union {None}]
        /\ unclaimed' \in SUBSET Changes
        /\ UNCHANGED <<docs, inputs, minted, live>>
    BY <1>12, <2>1 DEF Claim, TypeOK
  <2>3. CASE Succeed(i, request[i].workflow) /\ UNCHANGED history
    BY <2>1, <2>2, <2>3, SucceedTypes DEF TypeOK
  <2>4. CASE Refuse(i) /\ UNCHANGED history
    BY <2>2, <2>4, RefuseTypes DEF TypeOK
  <2>5. CASE Fault(i)
    BY <2>2, <2>5, FaultTypes DEF TypeOK
  <2> QED BY <1>12, <2>3, <2>4, <2>5 DEF Claim
<1>13. CASE UNCHANGED vars
  BY <1>13 DEF vars, TypeOK
<1> QED BY <1>2, <1>3, <1>4, <1>5, <1>6, <1>7, <1>8, <1>9, <1>10, <1>11, <1>12, <1>13
        DEF Next, Handle

-----------------------------------------------------------------------------
(***************************************************************************)
(* The inductive invariant.  What an instance has done for its request so  *)
(* far is in the store (SoundRequest), so a claim is only ever made for a  *)
(* workflow whose documents are there (StoreSound); and what an instance   *)
(* remembers to have accepted is in its registry (KnownSound).             *)
(***************************************************************************)
SoundRequest(i) ==
  request[i].step # "idle" =>
    /\ request[i].change \in Changes
    /\ request[i].step # "classify" =>
         /\ request[i].workflow \in Workflows
         /\ minted[request[i].workflow] = request[i].change
         /\ request[i].workflow \in live[i]
    /\ request[i].step \in {"input", "claim"} => request[i].workflow \in docs
    /\ request[i].step = "claim" => request[i].workflow \in inputs

StoreSound ==
  \A c \in Changes :
    claim[c] # None => /\ claim[c] \in docs /\ claim[c] \in inputs
                       /\ minted[claim[c]] = c

KnownSound ==
  \A i \in Instances, c \in Changes :
    known[i][c] # None => known[i][c] \in live[i] /\ minted[known[i][c]] = c

Inv == TypeOK /\ StoreSound /\ KnownSound /\ \A i \in Instances : SoundRequest(i)

\* Nothing is stored, remembered or under way at first.
LEMMA InitInv == Init => Inv
  BY InitTypeOK DEF Init, Inv, StoreSound, KnownSound, SoundRequest, NoRequest

\* A step of one instance that only adds to the store, to the registries and to
\* the workflows built leaves the requests of the others sound.
LEMMA OthersSound ==
  ASSUME Inv, NEW i \in Instances, SoundRequest(i)',
         \A j \in Instances \ {i} : request'[j] = request[j] /\ live[j] \subseteq live'[j],
         docs \subseteq docs', inputs \subseteq inputs',
         \A w \in Workflows : minted[w] # None => minted'[w] = minted[w]
  PROVE  \A j \in Instances : SoundRequest(j)'
<1>1. SUFFICES ASSUME NEW j \in Instances, j # i PROVE SoundRequest(j)'
  OBVIOUS
<1>2. None \notin Changes
  BY IngestionAssumption
<1> QED BY <1>1, <1>2 DEF Inv, SoundRequest

\* An instance that has answered handles nothing, which is sound.
LEMMA IdleSound ==
  ASSUME TypeOK, NEW i \in Instances, Respond(i)
  PROVE  SoundRequest(i)' /\ \A j \in Instances \ {i} : request'[j] = request[j]
  BY DEF TypeOK, Respond, SoundRequest, NoRequest

\* Every step keeps the invariant.
LEMMA NextInv ==
  ASSUME Inv, [Next]_vars
  PROVE  Inv'
<1> USE DEF durable, local, transport, history
<1>0. TypeOK
  BY DEF Inv
<1>1. TypeOK'
  <2>1. Handling
    BY DEF Inv, Handling, SoundRequest
  <2> QED BY <1>0, <2>1, NextTypeOK
\* A step that changes neither the store nor what instances know.
<1>2. ASSUME NEW i \in Instances, SoundRequest(i)',
             \A j \in Instances \ {i} : request'[j] = request[j],
             UNCHANGED <<durable, local>>
      PROVE  Inv'
  <2>1. \A j \in Instances : SoundRequest(j)'
    BY <1>2, OthersSound
  <2>2. StoreSound' /\ KnownSound'
    BY <1>2 DEF Inv, StoreSound, KnownSound
  <2> QED BY <1>1, <2>1, <2>2 DEF Inv
<1>3. ASSUME NEW i \in Instances, Respond(i), UNCHANGED <<durable, local>>
      PROVE  Inv'
  BY <1>0, <1>2, <1>3, IdleSound
<1>4. ASSUME NEW i \in Instances, NEW c \in Changes, NEW push \in BOOLEAN,
             Receive(i, c, push), UNCHANGED <<durable, local>>
      PROVE  Inv'
  <2>1. SoundRequest(i)' /\ \A j \in Instances \ {i} : request'[j] = request[j]
    BY <1>0, <1>4 DEF Receive, SoundRequest, TypeOK
  <2> QED BY <1>2, <1>4, <2>1
<1>5. ASSUME NEW i \in Instances, NEW c \in Changes, Deliver(i, c) \/ Submit(i, c)
      PROVE  Inv'
  BY <1>4, <1>5 DEF Deliver, Submit
<1>6. ASSUME NEW c \in Changes, DeadLetter(c) PROVE Inv'
  BY <1>1, <1>6 DEF DeadLetter, Inv, StoreSound, KnownSound, SoundRequest
<1>7. ASSUME NEW i \in Instances,
             ResolveDuplicate(i) \/ RejectEnvelope(i) \/ RejectFixture(i) \/ ClassifyFails(i)
      PROVE  Inv'
  BY <1>3, <1>7 DEF ResolveDuplicate, RejectEnvelope, RejectFixture, RejectPermanently,
                    ClassifyFails, Fault, Succeed, Refuse
<1>8. ASSUME NEW i \in Instances, Build(i) PROVE Inv'
  <2>1. PICK w \in Workflows :
          /\ minted[w] = None
          /\ minted' = [minted EXCEPT ![w] = request[i].change]
          /\ live' = [live EXCEPT ![i] = @ \union {w}]
          /\ request' = [request EXCEPT ![i] = [step |-> "record", change |-> request[i].change,
                                                push |-> request[i].push, workflow |-> w]]
    BY <1>8 DEF Build
  <2>2. request[i].change \in Changes /\ UNCHANGED <<durable, known>>
    BY <1>8 DEF Build, At, Inv, SoundRequest
  <2>3. \A v \in Workflows : minted[v] # None => minted'[v] = minted[v]
    BY <1>0, <2>1 DEF TypeOK
  <2>4. SoundRequest(i)'
    BY <1>0, <2>1, <2>2 DEF SoundRequest, TypeOK
  <2>5. \A j \in Instances \ {i} : request'[j] = request[j] /\ live[j] \subseteq live'[j]
    BY <1>0, <2>1 DEF TypeOK
  <2>6. \A j \in Instances : SoundRequest(j)'
    BY <2>2, <2>3, <2>4, <2>5, OthersSound
  <2>7. StoreSound'
    BY <1>0, <2>2, <2>3, IngestionAssumption DEF Inv, StoreSound, TypeOK
  <2>8. \A j \in Instances : live[j] \subseteq live'[j]
    BY <1>0, <2>1 DEF TypeOK
  <2>9. KnownSound'
    BY <1>0, <2>2, <2>3, <2>8, IngestionAssumption DEF Inv, KnownSound, TypeOK
  <2> QED BY <1>1, <2>6, <2>7, <2>9 DEF Inv
<1>9. ASSUME NEW i \in Instances, RecordWorkflow(i) PROVE Inv'
  <2>1. docs \subseteq docs' /\ UNCHANGED <<claim, inputs, local>>
    BY <1>9 DEF RecordWorkflow
  <2>2. SoundRequest(i)' /\ \A j \in Instances \ {i} : request'[j] = request[j]
    <3>1. CASE Fault(i)
      BY <1>0, <3>1, IdleSound DEF Fault, Refuse
    <3>2. CASE docs' = docs \union {request[i].workflow} /\ Goto(i, "input")
      BY <1>0, <1>9, <2>1, <3>2 DEF RecordWorkflow, At, Goto, Inv, SoundRequest, TypeOK, Requests
    <3> QED BY <1>9, <3>1, <3>2 DEF RecordWorkflow
  <2>3. \A j \in Instances : SoundRequest(j)'
    BY <2>1, <2>2, OthersSound
  <2>4. StoreSound' /\ KnownSound'
    BY <2>1 DEF Inv, StoreSound, KnownSound
  <2> QED BY <1>1, <2>3, <2>4 DEF Inv
<1>10. ASSUME NEW i \in Instances, RecordInput(i) PROVE Inv'
  <2>1. inputs \subseteq inputs' /\ UNCHANGED <<claim, docs, local>>
    BY <1>10 DEF RecordInput
  <2>2. SoundRequest(i)' /\ \A j \in Instances \ {i} : request'[j] = request[j]
    <3>1. CASE Fault(i)
      BY <1>0, <3>1, IdleSound DEF Fault, Refuse
    <3>2. CASE inputs' = inputs \union {request[i].workflow} /\ Goto(i, "claim")
      BY <1>0, <1>10, <2>1, <3>2 DEF RecordInput, At, Goto, Inv, SoundRequest, TypeOK, Requests
    <3> QED BY <1>10, <3>1, <3>2 DEF RecordInput
  <2>3. \A j \in Instances : SoundRequest(j)'
    BY <2>1, <2>2, OthersSound
  <2>4. StoreSound' /\ KnownSound'
    BY <2>1 DEF Inv, StoreSound, KnownSound
  <2> QED BY <1>1, <2>3, <2>4 DEF Inv
<1>11. ASSUME NEW i \in Instances, Claim(i) PROVE Inv'
  <2> DEFINE c == request[i].change
             w == request[i].workflow
  <2>1. /\ c \in Changes /\ w \in Workflows /\ minted[w] = c /\ w \in live[i]
        /\ w \in docs /\ w \in inputs
    BY <1>11 DEF Claim, At, Inv, SoundRequest
  <2>2. /\ claim' = claim \/ claim' = [claim EXCEPT ![c] = w]
        /\ known' = [known EXCEPT ![i][c] = w]
        /\ UNCHANGED <<docs, inputs, minted, live>>
    BY <1>11 DEF Claim
  <2>3. Respond(i)
    BY <1>11 DEF Claim, Fault, Succeed, Refuse
  <2>4. \A j \in Instances : SoundRequest(j)'
    BY <1>0, <2>2, <2>3, IdleSound, OthersSound
  <2>5. StoreSound'
    BY <1>0, <2>1, <2>2 DEF Inv, StoreSound, TypeOK
  <2>6. KnownSound'
    BY <1>0, <2>1, <2>2 DEF Inv, KnownSound, TypeOK
  <2> QED BY <1>1, <2>4, <2>5, <2>6 DEF Inv
<1>12. ASSUME NEW i \in Instances, Crash(i) PROVE Inv'
  <2>1. /\ live' = [live EXCEPT ![i] = {}]
        /\ known' = [known EXCEPT ![i] = [c \in Changes |-> None]]
        /\ UNCHANGED <<durable, minted>>
        /\ Respond(i)
    BY <1>12 DEF Crash
  <2>2. \A j \in Instances : SoundRequest(j)'
    BY <1>0, <2>1, IdleSound, OthersSound DEF TypeOK
  <2>3. StoreSound' /\ KnownSound'
    BY <1>0, <2>1 DEF Inv, StoreSound, KnownSound, TypeOK
  <2> QED BY <1>1, <2>2, <2>3 DEF Inv
<1>13. CASE UNCHANGED vars
  BY <1>1, <1>13 DEF vars, Inv, StoreSound, KnownSound, SoundRequest
<1> QED BY <1>5, <1>6, <1>7, <1>8, <1>9, <1>10, <1>11, <1>12, <1>13 DEF Next, Handle

\* The invariant holds in every reachable state, whichever calls fail.
THEOREM InductiveInvariant == Spec => []Inv
<1> QED BY InitInv, NextInv, PTL DEF Spec

\* Every reachable state is well typed and no message exceeds its budget.
THEOREM TypeCorrect == Spec => []TypeOK
<1>1. Inv => TypeOK
  BY DEF Inv
<1> QED BY <1>1, InductiveInvariant, PTL

\* Whatever classify calls a duplicate can be resolved, whichever calls fail: it
\* is stored with its input, or in the registry of the instance that remembers it.
THEOREM DuplicatesAlwaysResolve == Spec => []DuplicatesResolve
<1>1. Inv => DuplicatesResolve
  BY DEF Inv, StoreSound, KnownSound, DuplicatesResolve, IsDuplicate, Owner, Resolvable
<1> QED BY <1>1, InductiveInvariant, PTL

-----------------------------------------------------------------------------
(***************************************************************************)
(* The claim decides.  What an instance remembers is stored, and claimed   *)
(* by some workflow unless the claim call raised behind its cache; so an   *)
(* answer from memory names the claim like one from the store.             *)
(***************************************************************************)
Remembered ==
  \A i \in Instances, c \in Changes :
    known[i][c] # None => /\ known[i][c] \in docs /\ known[i][c] \in inputs
                          /\ c \in unclaimed \/ claim[c] # None

ClaimAnswered == Remembered /\ AnsweredIsDurable

\* Every step keeps the answers equal to the claim.
LEMMA NextClaimAnswered ==
  ASSUME Inv, ClaimAnswered, [Next]_vars
  PROVE  ClaimAnswered'
<1> USE DEF durable, local, transport, history
<1>0. TypeOK /\ None \notin Workflows
  BY IngestionAssumption DEF Inv
\* A step that changes neither claims nor caches nor answers, and only adds to the store.
<1>1. ASSUME UNCHANGED <<claim, known, answers, unclaimed>>,
             docs \subseteq docs', inputs \subseteq inputs',
             \A w \in Workflows : minted[w] # None => minted'[w] = minted[w]
      PROVE  ClaimAnswered'
  <2>1. Remembered'
    BY <1>1 DEF ClaimAnswered, Remembered
  <2>2. ASSUME NEW c \in Changes, NEW w \in answers[c]
        PROVE  minted'[w] = c
    BY <1>0, <1>1, IngestionAssumption DEF ClaimAnswered, AnsweredIsDurable, TypeOK
  <2> QED BY <1>1, <2>1, <2>2 DEF ClaimAnswered, AnsweredIsDurable
<1>2. ASSUME NEW i \in Instances, ResolveDuplicate(i) PROVE ClaimAnswered'
  <2> DEFINE c == request[i].change
             w == Owner(i, c)
  <2>1. c \in Changes /\ w # None /\ UNCHANGED <<durable, local, history>>
    BY <1>2 DEF ResolveDuplicate, IsDuplicate, At, Inv, SoundRequest
  <2>2. CASE Refuse(i)
    BY <1>1, <2>1, <2>2 DEF Refuse
  <2>3. CASE Succeed(i, w)
    <3>1. w \in docs /\ w \in inputs /\ minted[w] = c
      BY <2>1 DEF Owner, Inv, StoreSound, KnownSound, ClaimAnswered, Remembered
    <3>2. c \notin unclaimed => claim[c] = w
      BY <2>1 DEF Owner, ClaimAnswered, Remembered
    <3>3. answers' = [answers EXCEPT ![c] = @ \union {w}]
      BY <2>3 DEF Succeed
    <3>4. Remembered'
      BY <2>1 DEF ClaimAnswered, Remembered
    <3> HIDE DEF c, w
    <3>5. AnsweredIsDurable'
      BY <1>0, <2>1, <3>1, <3>2, <3>3 DEF ClaimAnswered, AnsweredIsDurable, TypeOK
    <3> QED BY <3>4, <3>5 DEF ClaimAnswered
  <2> QED BY <1>2, <2>2, <2>3 DEF ResolveDuplicate
<1>3. ASSUME NEW i \in Instances, Claim(i) PROVE ClaimAnswered'
  <2> DEFINE c == request[i].change
             w == request[i].workflow
  <2>1. /\ c \in Changes /\ w \in Workflows /\ known' = [known EXCEPT ![i][c] = w]
        /\ w \in docs /\ w \in inputs /\ minted[w] = c
        /\ UNCHANGED <<docs, inputs, minted>>
    BY <1>3 DEF Claim, At, Inv, SoundRequest
  \* The claim of c is this one, or another, or c is unclaimed.
  <2>2. ASSUME unclaimed \subseteq unclaimed',
               c \in unclaimed' \/ claim'[c] # None,
               \A d \in Changes : claim[d] # None => claim'[d] = claim[d]
        PROVE  Remembered'
    <3> HIDE DEF c, w
    <3> QED BY <1>0, <2>1, <2>2 DEF ClaimAnswered, Remembered, TypeOK
  <2>3. ASSUME claim[c] = None, c \notin unclaimed PROVE answers[c] = {}
    BY <1>0, <2>1, <2>3 DEF ClaimAnswered, AnsweredIsDurable, TypeOK
  <2>4. CASE claim[c] = None /\ claim' = [claim EXCEPT ![c] = w] /\ UNCHANGED unclaimed
    <3>1. Remembered'
      BY <1>0, <2>1, <2>2, <2>4 DEF TypeOK
    <3>2. answers' = [answers EXCEPT ![c] = @ \union {w}] \/ answers' = answers
      BY <1>3, <2>4 DEF Claim, Succeed, Fault, Refuse
    <3> HIDE DEF c, w
    <3>3. AnsweredIsDurable'
      BY <1>0, <2>1, <2>3, <2>4, <3>2 DEF ClaimAnswered, AnsweredIsDurable, TypeOK
    <3> QED BY <3>1, <3>3 DEF ClaimAnswered
  <2>5. CASE Refuse(i) /\ UNCHANGED claim
             /\ unclaimed \subseteq unclaimed' /\ (c \in unclaimed' \/ claim[c] # None)
    <3>1. Remembered' /\ UNCHANGED answers
      BY <2>2, <2>5 DEF Refuse
    <3>2. AnsweredIsDurable'
      BY <2>1, <2>5, <3>1 DEF ClaimAnswered, AnsweredIsDurable
    <3> QED BY <3>1, <3>2 DEF ClaimAnswered
  <2> QED BY <1>3, <2>4, <2>5 DEF Claim, Fault
<1>4. ASSUME NEW i \in Instances, Crash(i) PROVE ClaimAnswered'
  <2>1. /\ known' = [known EXCEPT ![i] = [c \in Changes |-> None]]
        /\ UNCHANGED <<durable, minted, answers, unclaimed>>
    BY <1>4 DEF Crash
  <2> QED BY <1>0, <2>1 DEF ClaimAnswered, Remembered, AnsweredIsDurable, TypeOK
<1>5. ASSUME NEW i \in Instances,
             \/ RejectEnvelope(i) \/ RejectFixture(i) \/ ClassifyFails(i)
             \/ RecordWorkflow(i) \/ RecordInput(i)
      PROVE  ClaimAnswered'
  <2>1. /\ UNCHANGED <<claim, known, answers, minted, unclaimed>>
        /\ docs \subseteq docs' /\ inputs \subseteq inputs'
    BY <1>5 DEF RejectEnvelope, RejectFixture, RejectPermanently, ClassifyFails,
                RecordWorkflow, RecordInput, Fault, Refuse
  <2> QED BY <1>1, <2>1
<1>6. ASSUME NEW i \in Instances, Build(i) PROVE ClaimAnswered'
  <2>1. PICK w \in Workflows :
          minted[w] = None /\ minted' = [minted EXCEPT ![w] = request[i].change]
    BY <1>6 DEF Build
  <2>2. \A v \in Workflows : minted[v] # None => minted'[v] = minted[v]
    BY <1>0, <2>1 DEF TypeOK
  <2>3. UNCHANGED <<durable, known, answers, unclaimed>>
    BY <1>6 DEF Build
  <2> QED BY <1>1, <2>2, <2>3
<1>7. ASSUME NEW i \in Instances, NEW c \in Changes, Deliver(i, c) \/ Submit(i, c)
      PROVE  ClaimAnswered'
  <2>1. UNCHANGED <<durable, local, answers, unclaimed>>
    BY <1>7 DEF Deliver, Submit
  <2> QED BY <1>1, <2>1
<1>8. ASSUME NEW c \in Changes, DeadLetter(c) PROVE ClaimAnswered'
  <2>1. UNCHANGED <<durable, local, answers, unclaimed>>
    BY <1>8 DEF DeadLetter
  <2> QED BY <1>1, <2>1
<1>9. CASE UNCHANGED vars
  BY <1>1, <1>9 DEF vars
<1> QED BY <1>2, <1>3, <1>4, <1>5, <1>6, <1>7, <1>8, <1>9 DEF Next, Handle

\* Whichever calls fail, what an instance remembers is stored, and an answer names
\* what is stored and, unless the claim call raised behind a cache, claimed.
THEOREM AnswersNameClaim == Spec => [](Inv /\ ClaimAnswered)
<1>1. Init => ClaimAnswered
  BY DEF Init, ClaimAnswered, Remembered, AnsweredIsDurable
<1>2. Inv /\ ClaimAnswered /\ [Next]_vars => ClaimAnswered'
  BY NextClaimAnswered
<1> QED BY <1>1, <1>2, InductiveInvariant, PTL DEF Spec

\* A change is accepted once: for any number of instances, deliveries, callers,
\* failing calls and crashes, all answers name one workflow, the one the claim
\* names, but for a change whose claim call raised behind a cache.
THEOREM AcceptedOnlyOnce == Spec => []AcceptedOnce
<1>1. Inv /\ ClaimAnswered => AcceptedOnce
  BY DEF ClaimAnswered, AnsweredIsDurable, AcceptedOnce
<1> QED BY <1>1, AnswersNameClaim, PTL

\* No answer of success goes out before everything a resume needs is stored, also
\* where the claim call raised: the answer then names a workflow that is stored.
THEOREM SuccessIsDurable == Spec => []AnsweredIsDurable
<1>1. ClaimAnswered => AnsweredIsDurable
  BY DEF ClaimAnswered
<1> QED BY <1>1, AnswersNameClaim, PTL

-----------------------------------------------------------------------------
(***************************************************************************)
(* The console's runs                                                      *)
(***************************************************************************)
InjectRequests ==
  {Idle, Answered, Failed} \union [at : {"RUN"}, invocation : Injections, step : 1..AwaitStep]

VerifyRequests ==
  {Idle, Answered, Failed}
    \union [at : {"RUN", "EVENT"}, workflow : Injections, invocation : Injections, step : AwaitStep..7]

ConsoleTypes ==
  /\ services \in [Injections -> Services \union {Nothing}]
  /\ runs \in [Injections -> Injections \union {Nothing}]
  /\ sessions \in [Injections -> Sessions \union {Nothing}]
  /\ injects \in [Injections -> InjectRequests]
  /\ verifies \in [Verifies -> VerifyRequests]

\* The change a service deploys and the store it keeps came from one ingestion.
DifferenceInv ==
  \A w \in Injections : services[w] # Nothing =>
    \E i \in Ingestions : services[w].change = i.change /\ services[w].store = i.store

\* The calls made, in order; the ADK's events tell of no more.
OrderTrue(s, session, w) ==
  /\ \A i \in 1..(AwaitStep - 1) : s.ran[SubAgents[i]] <= 1
  /\ \A i \in 2..6 : s.ran[SubAgents[i]] > 0 => s.ran[SubAgents[i - 1]] > 0
  /\ session # Nothing => \A step \in Done(session, w) : s.ran[step] > 0

\* A run that starts has made its steps once, and none of those ahead.
StartTrue(s, session, w, r) ==
  r.at = "RUN" =>
    /\ s # Nothing /\ session # Nothing /\ r.invocation = w
    /\ \A i \in 1..(r.step - 1) : SubAgents[i] \in Done(session, w)
    /\ \A i \in r.step..6 : s.ran[SubAgents[i]] = 0

\* A run that paused can be found, and has its first three steps behind it.
PauseTrue(s, session, run, w, r) ==
  r.at = "ANSWERED" /\ s # Nothing =>
    /\ session # Nothing
    /\ \A i \in 1..(AwaitStep - 1) : SubAgents[i] \in Done(session, w)
    /\ run = w \/ (run = Nothing /\ w \in Durable)
    /\ w \in Durable => session.invocation = w

RunInv ==
  \A w \in Injections :
    /\ services[w] # Nothing => OrderTrue(services[w], sessions[w], w)
    /\ StartTrue(services[w], sessions[w], w, injects[w])
    /\ PauseTrue(services[w], sessions[w], runs[w], w, injects[w])
    /\ injects[w].at = "IDLE" => sessions[w] = Nothing

\* A resumed run has the steps before its next one behind it.
ResumeTrue(r, svcs, injs) ==
  r.at \in {"RUN", "EVENT"} =>
    /\ injs[r.workflow].at = "ANSWERED" /\ svcs[r.workflow] # Nothing
    /\ r.invocation = r.workflow
    /\ \A i \in 1..(r.step - 1) : svcs[r.workflow].ran[SubAgents[i]] > 0
    /\ r.at = "EVENT" => r.step <= 6 /\ svcs[r.workflow].ran[SubAgents[r.step]] > 0

ResumeInv == \A v \in Verifies : ResumeTrue(verifies[v], services, injects)

ConsoleInv == ConsoleTypes /\ DifferenceInv /\ RunInv /\ ResumeInv

-----------------------------------------------------------------------------
\* A set of natural numbers that is not empty has a least element, and a greatest one
\* if something bounds it.
LEMMA LeastNatural ==
  ASSUME NEW S, S \subseteq Nat, S # {} PROVE \E m \in S : \A n \in S : m <= n
<1>1. PICK m \in S : \A n \in S : ~ (<<n, m>> \in OpToRel(<, Nat))
  BY NatLessThanWellFounded, WFMin, Zenon
<1>2. \A n \in S : ~ (n < m)
  BY <1>1 DEF OpToRel
<1>3. \A n \in S : m <= n
  BY <1>2
<1> QED
  BY <1>3

LEMMA MinIsLeast ==
  ASSUME NEW S, S \subseteq Nat, S # {} PROVE Min(S) \in S /\ \A n \in S : Min(S) <= n
BY LeastNatural DEF Min

LEMMA MaxIsMember ==
  ASSUME NEW b \in Nat, NEW S, S \subseteq 1..b, S # {} PROVE Max(S) \in S
<1> DEFINE T == { b - n : n \in S }
<1>1. T \subseteq Nat /\ T # {}
  <2>1. \A n \in S : b - n \in Nat
    OBVIOUS
  <2> QED
    BY <2>1
<1>2. PICK d \in T : \A e \in T : d <= e
  BY <1>1, LeastNatural
<1>3. PICK m \in S : d = b - m
  OBVIOUS
<1>4. \A n \in S : m >= n
  <2> SUFFICES ASSUME NEW n \in S PROVE m >= n
    OBVIOUS
  <2>1. b - n \in T
    OBVIOUS
  <2>2. b - m <= b - n
    BY <1>2, <1>3, <2>1
  <2>3. b \in Nat /\ m \in Nat /\ n \in Nat
    OBVIOUS
  <2> HIDE DEF T
  <2> QED
    BY <2>2, <2>3
<1> QED
  BY <1>4 DEF Max

-----------------------------------------------------------------------------
\* The section that is read and the document that counts have requirements.
LEMMA OperationRead ==
  ASSUME NEW doc, Len(doc.operations) \in Nat, DOMAIN doc.operations = 1..Len(doc.operations),
         FirstOperation(doc) # Absent
  PROVE  \E j \in DOMAIN doc.operations :
           FirstOperation(doc) = doc.operations[j] /\ doc.operations[j].requirements # Absent
<1> DEFINE shaped == { i \in DOMAIN doc.operations : doc.operations[i].requirements # Absent }
<1>1. shaped # {} /\ FirstOperation(doc) = doc.operations[Min(shaped)]
  BY DEF FirstOperation
<1>2. shaped \subseteq Nat
  OBVIOUS
<1>3. Min(shaped) \in shaped
  BY <1>1, <1>2, MinIsLeast
<1> QED
  BY <1>1, <1>3

\* A version that could be loaded is the one asked for and says all its values.
IsVersion(v, number) ==
  /\ v = [procedure |-> v.procedure, version |-> v.version,
          operation |-> v.operation, requirements |-> v.requirements]
  /\ v.version = number
  /\ v.requirements = [r \in Requirements |-> v.requirements[r]]

LEMMA VersionLoaded ==
  ASSUME NEW fixture, WellShaped(fixture), NEW procedure, NEW number,
         LoadVersion(fixture.directory, procedure, number) # Absent
  PROVE  IsVersion(LoadVersion(fixture.directory, procedure, number), number)
<1> DEFINE sources == fixture.directory.sources
           held == Holding(fixture.directory, procedure, number)
           doc == sources[Max(held)]
           first == FirstOperation(doc)
           v == LoadVersion(fixture.directory, procedure, number)
<1>1. /\ Len(sources) \in Nat /\ DOMAIN sources = 1..Len(sources)
      /\ \A i \in DOMAIN sources :
           LET operations == sources[i].operations
           IN /\ Len(operations) \in Nat /\ DOMAIN operations = 1..Len(operations)
              /\ \A j \in DOMAIN operations :
                   operations[j].requirements # Absent =>
                     operations[j].requirements
                       = [r \in Requirements |-> operations[j].requirements[r]]
  BY DEF WellShaped
<1>2. /\ held # {}
      /\ v = [procedure |-> procedure, version |-> number,
              operation |-> first.operation, requirements |-> first.requirements]
  BY DEF LoadVersion
<1>3. held \subseteq 1..Len(sources)
  BY <1>1 DEF Holding
<1>4. Max(held) \in held
  BY <1>1, <1>2, <1>3, MaxIsMember
<1>5. Max(held) \in DOMAIN sources /\ first # Absent
  BY <1>4 DEF Holding
<1>6. PICK j \in DOMAIN doc.operations :
        first = doc.operations[j] /\ doc.operations[j].requirements # Absent
  BY <1>1, <1>5, OperationRead
<1>7. first.requirements = [r \in Requirements |-> first.requirements[r]]
  BY <1>1, <1>5, <1>6
<1> HIDE DEF v, first
<1> QED
  BY <1>2, <1>7 DEF IsVersion, v

\* What is ingested tells the difference of the two versions it was derived from.
LEMMA IngestTells ==
  ASSUME NEW i \in Ingestions PROVE TellsTheDifference(i.change, i.store)
<1>1. PICK fixture \in Fixtures : i = Ingest(Dataset(fixture))
  BY DEF Ingestions
<1>2. i # Absent
  BY DEF Ingestions
<1> DEFINE data == Dataset(fixture)
           p == data.previous
           c == data.current
           diff == DiffRequirements(p, c)
           x == CHOOSE r \in diff : TRUE
<1>3. /\ data # Absent /\ Ingestible(p, c)
      /\ i = [change |-> ApprovedChange(p, c), store |-> Register(Register(<<>>, p), c)]
  BY <1>1, <1>2 DEF Ingest
<1>4. /\ IsVersion(p, fixture.previous) /\ IsVersion(c, fixture.current)
  <2> DEFINE before == LoadVersion(fixture.directory, fixture.procedure, fixture.previous)
             after == LoadVersion(fixture.directory, fixture.procedure, fixture.current)
  <2>1. /\ before # Absent /\ after # Absent
        /\ data = [previous |-> before, current |-> after,
                   catalog |-> Catalog(fixture.directory), scope |-> fixture.scope]
    BY <1>3 DEF Dataset
  <2>2. WellShaped(fixture)
    BY ConsoleAssumption
  <2> HIDE DEF data, before, after
  <2>3. p = before /\ c = after
    BY <2>1
  <2> QED
    BY <2>1, <2>2, <2>3, VersionLoaded DEF before, after
<1> HIDE DEF data
<1>5. /\ p.version # c.version
      /\ Cardinality(diff) = 1
      /\ \A r \in diff : Absent \notin {p.requirements[r], c.requirements[r]}
  BY <1>3 DEF Ingestible
<1>6. diff \subseteq Requirements /\ IsFiniteSet(diff)
  BY RequirementsAssumption, FS_Subset DEF DiffRequirements
<1>7. diff = {x} /\ x \in Requirements
  <2>1. PICK y : diff = {y}
    BY <1>5, <1>6, FS_Singleton
  <2> QED
    BY <1>6, <2>1
<1>8. \A r \in Requirements : r # x <=> p.requirements[r] = c.requirements[r]
  BY <1>7 DEF DiffRequirements
<1> HIDE DEF diff, x
<1>9. i.change = [requirement |-> x, previous_value |-> p.requirements[x],
                  current_value |-> c.requirements[x],
                  previous_ref |-> Ref(p), evidence_ref |-> Ref(c)]
  BY <1>3 DEF ApprovedChange, diff, x
<1>10. Ref(p) # Ref(c)
  BY <1>5 DEF Ref
<1>11. /\ DOMAIN i.store = {Ref(p), Ref(c)}
       /\ i.store[Ref(p)] = p /\ i.store[Ref(c)] = c
  <2> DEFINE one == Register(<<>>, p)
             two == Register(one, c)
  <2>1. DOMAIN <<>> = {}
    OBVIOUS
  <2>2. DOMAIN one = {Ref(p)} /\ one[Ref(p)] = p
    BY <2>1 DEF Register
  <2> HIDE DEF one
  <2>3. DOMAIN two = {Ref(p), Ref(c)} /\ two[Ref(p)] = p /\ two[Ref(c)] = c
    BY <1>10, <2>2 DEF Register
  <2> HIDE DEF two
  <2>4. i.store = two
    BY <1>3 DEF one, two
  <2> QED
    BY <2>3, <2>4
<1>12. /\ p.requirements = [r \in Requirements |-> p.requirements[r]]
       /\ c.requirements = [r \in Requirements |-> c.requirements[r]]
  BY <1>4 DEF IsVersion
<1>13. c.requirements = [p.requirements EXCEPT ![x] = c.requirements[x]]
  <2> DEFINE pr == p.requirements
             cr == c.requirements
             new == cr[x]
  <2>1. pr = [r \in Requirements |-> pr[r]] /\ cr = [r \in Requirements |-> cr[r]]
    BY <1>12
  <2>2. \A r \in Requirements : r # x => pr[r] = cr[r]
    BY <1>8
  <2> HIDE DEF pr, cr
  <2>3. \A r \in Requirements : [pr EXCEPT ![x] = new][r] = cr[r]
    BY <1>7, <2>1, <2>2
  <2>4. [pr EXCEPT ![x] = new] = [r \in Requirements |-> [pr EXCEPT ![x] = new][r]]
    BY <2>1
  <2> QED
    BY <2>1, <2>3, <2>4 DEF pr, cr
<1>14. /\ p.requirements[x] # c.requirements[x]
       /\ Absent \notin {p.requirements[x], c.requirements[x]}
  BY <1>5, <1>7, <1>8
<1> QED
  BY <1>9, <1>11, <1>13, <1>14 DEF TellsTheDifference


-----------------------------------------------------------------------------
\* The six sub-agents.
Names == Range(SubAgents)

LEMMA AgentsAre ==
  /\ Len(SubAgents) = 6 /\ DOMAIN SubAgents = 1..6
  /\ \A i \in 1..6 : SubAgents[i] \in Names
  /\ \A name \in Names : \E i \in 1..6 : name = SubAgents[i]
  /\ \A i, j \in 1..6 : SubAgents[i] = SubAgents[j] => i = j
<1>1. Len(SubAgents) = 6 /\ DOMAIN SubAgents = 1..6
  BY DEF SubAgents
<1>2. /\ SubAgents[1] = "ANALYZE" /\ SubAgents[2] = "DEPLOY" /\ SubAgents[3] = "DELIVER"
      /\ SubAgents[4] = "AWAIT" /\ SubAgents[5] = "OBSERVE" /\ SubAgents[6] = "PROVE"
  BY DEF SubAgents
<1>3. \A i \in 1..6 : i = 1 \/ i = 2 \/ i = 3 \/ i = 4 \/ i = 5 \/ i = 6
  OBVIOUS
<1>4. \A i, j \in 1..6 : SubAgents[i] = SubAgents[j] => i = j
  BY <1>2, <1>3
<1>5. Names = { SubAgents[i] : i \in 1..6 }
  BY <1>1 DEF Names, Range
<1> QED
  BY <1>1, <1>4, <1>5

\* What a use case leaves is a session of the same change, with the calls it had.
LEMMA OutcomeKeeps ==
  ASSUME NEW step, NEW s \in Services, NEW after \in Outcomes(step, s)
  PROVE  after \in Services /\ after.ran = s.ran /\ after.change = s.change /\ after.store = s.store
<1>1. ASSUME NEW state \in States, NEW proven \in BOOLEAN
      PROVE  LET a == [s EXCEPT !.state = state, !.proven = proven]
             IN a \in Services /\ a.ran = s.ran /\ a.change = s.change /\ a.store = s.store
  BY <1>1 DEF Services
<1>2. \A state \in States :
        LET a == [s EXCEPT !.state = state]
        IN a \in Services /\ a.ran = s.ran /\ a.change = s.change /\ a.store = s.store
  BY DEF Services
<1>3. CASE step = "ANALYZE" /\ s.state = "CHANGE_RECEIVED"
  <2>1. after = [s EXCEPT !.state = "IMPACT_DETERMINED"] \/ after = [s EXCEPT !.state = "REVIEW_REQUIRED"]
    BY <1>3 DEF Outcomes
  <2> QED
    BY <1>2, <2>1 DEF States
<1>4. CASE step = "DEPLOY" /\ s.state = "IMPACT_DETERMINED"
  <2>1. after = s \/ after = [s EXCEPT !.state = "REMEDIATION_COMPLETED"]
    BY <1>4 DEF Outcomes
  <2> QED
    BY <1>2, <2>1 DEF States
<1>5. CASE step = "DELIVER" /\ s.state = "REMEDIATION_COMPLETED"
  <2>1. after = s \/ after = [s EXCEPT !.state = "AWAITING_FIELD_VERIFICATION"]
    BY <1>5 DEF Outcomes
  <2> QED
    BY <1>2, <2>1 DEF States
<1>6. CASE step = "PROVE" /\ s.verdict = "PASS"
  <2>1. after = [s EXCEPT !.state = "PROOF_COMPLETE", !.proven = TRUE]
    BY <1>6 DEF Outcomes
  <2>2. "PROOF_COMPLETE" \in States /\ TRUE \in BOOLEAN
    BY DEF States
  <2> QED
    BY <1>1, <2>1, <2>2, Zenon
<1>7. CASE /\ ~(step = "ANALYZE" /\ s.state = "CHANGE_RECEIVED")
           /\ ~(step = "DEPLOY" /\ s.state = "IMPACT_DETERMINED")
           /\ ~(step = "DELIVER" /\ s.state = "REMEDIATION_COMPLETED")
           /\ ~(step = "PROVE" /\ s.verdict = "PASS")
  BY <1>7 DEF Outcomes
<1> QED
  BY <1>3, <1>4, <1>5, <1>6, <1>7

LEMMA JudgedKeeps ==
  ASSUME NEW s \in Services, NEW result \in Results
  PROVE  LET a == Judged(s, result)
         IN a \in Services /\ a.ran = s.ran /\ a.change = s.change /\ a.store = s.store
<1>1. VerdictState(result) \in States
  BY DEF VerdictState, States
<1> DEFINE state == VerdictState(result)
           b == [s EXCEPT !.verdict = result, !.state = state]
<1>2. b \in Services /\ b.ran = s.ran /\ b.change = s.change /\ b.store = s.store
  <2> HIDE DEF state
  <2> QED
    BY <1>1 DEF Services, state
<1> QED
  BY <1>2 DEF Judged

LEMMA CallCounts ==
  ASSUME NEW s \in Services, NEW step \in Names
  PROVE  LET a == Called(step, s)
         IN /\ a \in Services /\ a.change = s.change /\ a.store = s.store
            /\ a.ran[step] = s.ran[step] + 1
            /\ \A name \in Names : name # step => a.ran[name] = s.ran[name]
<1> DEFINE more == [s.ran EXCEPT ![step] = @ + 1]
           a == [s EXCEPT !.ran = more]
<1>1. s.ran \in [Names -> Nat]
  BY DEF Services, Names
<1>2. /\ more \in [Names -> Nat] /\ more[step] = s.ran[step] + 1
      /\ \A name \in Names : name # step => more[name] = s.ran[name]
  BY <1>1
<1>3. Called(step, s) = a
  BY DEF Called
<1> HIDE DEF more
<1>4. a \in Services /\ a.change = s.change /\ a.store = s.store /\ a.ran = more
  BY <1>2 DEF Services, Names
<1> QED
  BY <1>2, <1>3, <1>4

LEMMA NewServiceFits ==
  ASSUME NEW i \in Ingestions
  PROVE  LET s == NewService(i)
         IN /\ s \in Services /\ s.change = i.change /\ s.store = i.store
            /\ \A name \in Names : s.ran[name] = 0
<1> DEFINE none == [name \in Names |-> 0]
           no == FALSE
           s == [change |-> i.change, store |-> i.store, state |-> "CHANGE_RECEIVED",
                 verdict |-> Nothing, proven |-> no, ran |-> none]
<1>1. NewService(i) = s
  BY DEF NewService, Names
<1>2. none \in [Names -> Nat] /\ (\A name \in Names : none[name] = 0) /\ no \in BOOLEAN
  OBVIOUS
<1> HIDE DEF none, no
<1>3. s \in Services
  BY <1>2 DEF Services, Names, States
<1> QED
  BY <1>1, <1>2, <1>3

-----------------------------------------------------------------------------
\* The events of an ADK session.
LEMMA DoneIs ==
  ASSUME NEW session \in Sessions, NEW w
  PROVE  /\ Len(session.events) \in Nat /\ DOMAIN session.events = 1..Len(session.events)
         /\ \A i \in 1..Len(session.events) :
              /\ session.events[i] \in [invocation : Injections, step : Names]
              /\ session.events[i].invocation = w => session.events[i].step \in Done(session, w)
         /\ \A name \in Done(session, w) : \E i \in 1..Len(session.events) :
              session.events[i].invocation = w /\ session.events[i].step = name
         /\ Done(session, w) \subseteq Names
<1>1. session.events \in Seq([invocation : Injections, step : Names])
  BY DEF Sessions, Names
<1>2. /\ Len(session.events) \in Nat /\ DOMAIN session.events = 1..Len(session.events)
      /\ \A i \in 1..Len(session.events) : session.events[i] \in [invocation : Injections, step : Names]
  BY <1>1, LenProperties, ElementOfSeq
<1> QED
  BY <1>2 DEF Done

LEMMA BlankFits ==
  /\ BlankSession \in Sessions /\ \A w : Done(BlankSession, w) = {}
<1>1. <<>> \in Seq([invocation : Injections, step : Range(SubAgents)]) /\ DOMAIN <<>> = {}
  BY EmptySeq
<1>2. BlankSession \in Sessions /\ BlankSession.events = <<>>
  BY <1>1 DEF BlankSession, Sessions
<1> QED
  BY <1>1, <1>2 DEF Done

\* An event tells of one more step of its invocation.
LEMMA AppendedDone ==
  ASSUME NEW session \in Sessions, NEW w \in Injections, NEW step \in Names
  PROVE  LET a == Appended(session, w, step)
         IN /\ a \in Sessions /\ a.invocation = session.invocation
            /\ Done(a, w) = Done(session, w) \union {step}
<1> DEFINE E == [invocation : Injections, step : Names]
           es == session.events
           e == [invocation |-> w, step |-> step]
           more == Append(es, e)
           a == [session EXCEPT !.events = more]
<1>1. es \in Seq(E) /\ e \in E
  BY DEF Sessions, Names
<1>2. /\ more \in Seq(E) /\ Len(more) = Len(es) + 1 /\ Len(es) \in Nat
      /\ \A i \in 1..Len(es) : more[i] = es[i]
      /\ more[Len(es) + 1] = e
      /\ DOMAIN more = 1..(Len(es) + 1) /\ DOMAIN es = 1..Len(es)
  BY <1>1, AppendProperties, LenProperties
<1>3. Appended(session, w, step) = a
  BY DEF Appended
<1>4. e.invocation = w /\ e.step = step
  OBVIOUS
<1> HIDE DEF more, e
<1>5. a \in Sessions /\ a.invocation = session.invocation /\ a.events = more
  BY <1>2 DEF Sessions, Names
<1>6. Done(a, w) = Done(session, w) \union {step}
  <2>1. ASSUME NEW name \in Done(a, w) PROVE name \in Done(session, w) \union {step}
    <3>1. PICK i \in 1..(Len(es) + 1) : more[i].invocation = w /\ more[i].step = name
      BY <1>2, <1>5, <2>1 DEF Done
    <3>2. CASE i \in 1..Len(es)
      BY <1>2, <3>1, <3>2 DEF Done
    <3>3. CASE i = Len(es) + 1
      BY <1>2, <1>4, <3>1, <3>3
    <3> QED
      BY <1>2, <3>2, <3>3
  <2>2. ASSUME NEW name \in Done(session, w) PROVE name \in Done(a, w)
    <3>1. PICK i \in 1..Len(es) : es[i].invocation = w /\ es[i].step = name
      BY <1>2, <2>2 DEF Done
    <3>2. i \in DOMAIN more /\ more[i] = es[i]
      BY <1>2
    <3> QED
      BY <1>5, <3>1, <3>2 DEF Done
  <2>3. step \in Done(a, w)
    <3>1. Len(es) + 1 \in DOMAIN more
      BY <1>2
    <3> QED
      BY <1>2, <1>4, <1>5, <3>1 DEF Done
  <2> QED
    BY <2>1, <2>2, <2>3
<1> QED
  BY <1>3, <1>5, <1>6

\* A run resumes at the first step its invocation has not completed.
LEMMA ResumesAtFirst ==
  ASSUME NEW session \in Sessions, NEW w
  PROVE  /\ ResumePoint(session, w) \in 1..7
         /\ \A i \in 1..6 : i < ResumePoint(session, w) => SubAgents[i] \in Done(session, w)
         /\ (\A i \in 1..(AwaitStep - 1) : SubAgents[i] \in Done(session, w))
              => ResumePoint(session, w) >= AwaitStep
<1> DEFINE left == { i \in DOMAIN SubAgents : SubAgents[i] \notin Done(session, w) }
           k == ResumePoint(session, w)
<1>1. left = { i \in 1..6 : SubAgents[i] \notin Done(session, w) }
  BY AgentsAre
<1>2. k = IF left = {} THEN 7 ELSE Min(left)
  BY AgentsAre DEF ResumePoint
<1>3. CASE left = {}
  BY <1>1, <1>2, <1>3 DEF AwaitStep
<1>4. CASE left # {}
  <2>1. left \subseteq Nat
    BY <1>1
  <2>2. k \in left /\ \A n \in left : k <= n
    BY <1>2, <1>4, <2>1, MinIsLeast
  <2> HIDE DEF k
  <2>3. k \in 1..6 /\ SubAgents[k] \notin Done(session, w)
    BY <1>1, <2>2
  <2>4. \A i \in 1..6 : i < k => SubAgents[i] \in Done(session, w)
    BY <1>1, <2>2, <2>3
  <2>5. (\A i \in 1..3 : SubAgents[i] \in Done(session, w)) => k >= 4
    BY <2>3
  <2> QED
    BY <2>3, <2>4, <2>5 DEF k, AwaitStep
<1> QED
  BY <1>3, <1>4


-----------------------------------------------------------------------------
\* The calls of the runs that were told paused are never taken back.
Grown ==
  \A w \in Injections :
    injects[w].at = "ANSWERED" /\ services[w] \in Services =>
      /\ injects'[w].at = "ANSWERED" /\ services'[w] \in Services
      /\ \A name \in Names : services'[w].ran[name] >= services[w].ran[name]

LEMMA NothingIsApart == Nothing \notin Injections /\ Nothing \notin Services /\ Nothing \notin Sessions
BY ConsoleAssumption

LEMMA RequestsAre ==
  /\ Idle \in InjectRequests /\ Idle \in VerifyRequests /\ Idle.at = "IDLE"
  /\ Answered \in InjectRequests /\ Answered \in VerifyRequests /\ Answered.at = "ANSWERED"
  /\ Failed \in InjectRequests /\ Failed \in VerifyRequests /\ Failed.at = "FAILED"
  /\ \A r \in InjectRequests : r.at = "RUN" => /\ r.invocation \in Injections /\ r.step \in 1..AwaitStep
                                               /\ r \in [at : {"RUN"}, invocation : Injections, step : 1..AwaitStep]
  /\ \A r \in VerifyRequests : r.at \in {"RUN", "EVENT"} =>
       /\ r.workflow \in Injections /\ r.invocation \in Injections /\ r.step \in AwaitStep..7
       /\ r \in [at : {"RUN", "EVENT"}, workflow : Injections, invocation : Injections, step : AwaitStep..7]
  /\ \A r \in VerifyRequests : r.at \in {"RUN", "EVENT"} \/ r \in {Idle, Answered, Failed}
  /\ AwaitStep = 4
<1>1. /\ Idle \in InjectRequests /\ Idle \in VerifyRequests
      /\ Answered \in InjectRequests /\ Answered \in VerifyRequests
      /\ Failed \in InjectRequests /\ Failed \in VerifyRequests
  BY DEF InjectRequests, VerifyRequests
<1>2. Idle.at = "IDLE" /\ Answered.at = "ANSWERED" /\ Failed.at = "FAILED" /\ AwaitStep = 4
  BY DEF Idle, Answered, Failed, AwaitStep
<1>3. \A r \in InjectRequests : r.at = "RUN" =>
        r \in [at : {"RUN"}, invocation : Injections, step : 1..AwaitStep]
  BY <1>2 DEF InjectRequests
<1>4. \A r \in VerifyRequests : r.at \in {"RUN", "EVENT"} =>
        r \in [at : {"RUN", "EVENT"}, workflow : Injections, invocation : Injections, step : AwaitStep..7]
  BY <1>2 DEF VerifyRequests
<1>5. \A r \in VerifyRequests : r.at \in {"RUN", "EVENT"} \/ r \in {Idle, Answered, Failed}
  BY DEF VerifyRequests
<1> QED
  BY <1>1, <1>2, <1>3, <1>4, <1>5

LEMMA ResumeKept ==
  ASSUME ConsoleTypes, Grown, NEW r \in VerifyRequests, ResumeTrue(r, services, injects)
  PROVE  ResumeTrue(r, services', injects')
<1> SUFFICES ASSUME r.at \in {"RUN", "EVENT"} PROVE ResumeTrue(r, services', injects')
  BY DEF ResumeTrue
<1> DEFINE w == r.workflow
<1>1. w \in Injections /\ r.step \in 4..7
  BY RequestsAre
<1>2. /\ injects[w].at = "ANSWERED" /\ services[w] # Nothing /\ r.invocation = w
      /\ \A i \in 1..(r.step - 1) : services[w].ran[SubAgents[i]] > 0
      /\ r.at = "EVENT" => r.step <= 6 /\ services[w].ran[SubAgents[r.step]] > 0
  BY DEF ResumeTrue
<1>3. services[w] \in Services
  BY <1>1, <1>2 DEF ConsoleTypes
<1>4. /\ injects'[w].at = "ANSWERED" /\ services'[w] \in Services
      /\ \A name \in Names : services'[w].ran[name] >= services[w].ran[name]
  BY <1>1, <1>2, <1>3 DEF Grown
<1>5. \A name \in Names : services[w].ran[name] \in Nat /\ services'[w].ran[name] \in Nat
  BY <1>3, <1>4 DEF Services, Names
<1> DEFINE old == services[w].ran
           new == services'[w].ran
<1>6. \A i \in 1..6 : old[SubAgents[i]] > 0 => new[SubAgents[i]] > 0
  <2> SUFFICES ASSUME NEW i \in 1..6, old[SubAgents[i]] > 0 PROVE new[SubAgents[i]] > 0
    OBVIOUS
  <2>1. SubAgents[i] \in Names
    BY AgentsAre
  <2> QED
    BY <1>4, <1>5, <2>1
<1> HIDE DEF old, new
<1>7. /\ \A i \in 1..(r.step - 1) : new[SubAgents[i]] > 0
      /\ r.at = "EVENT" => r.step <= 6 /\ new[SubAgents[r.step]] > 0
  BY <1>1, <1>2, <1>6 DEF old
<1> QED
  BY <1>2, <1>4, <1>7, NothingIsApart DEF ResumeTrue, new

LEMMA GrownAtOne ==
  ASSUME NEW w \in Injections,
         \A u \in Injections \ {w} : services'[u] = services[u] /\ injects'[u] = injects[u],
         injects[w].at = "ANSWERED" /\ services[w] \in Services =>
           /\ injects'[w].at = "ANSWERED" /\ services'[w] \in Services
           /\ \A name \in Names : services'[w].ran[name] >= services[w].ran[name]
  PROVE  Grown
<1> SUFFICES ASSUME NEW u \in Injections, injects[u].at = "ANSWERED", services[u] \in Services
             PROVE  /\ injects'[u].at = "ANSWERED" /\ services'[u] \in Services
                    /\ \A name \in Names : services'[u].ran[name] >= services[u].ran[name]
  BY DEF Grown
<1>1. \A name \in Names : services[u].ran[name] \in Nat
  BY DEF Services, Names
<1>2. CASE u = w
  BY <1>2
<1>3. CASE u # w
  BY <1>1, <1>3
<1> QED
  BY <1>2, <1>3

\* A step that is of one run only.
LEMMA OneRunKeeps ==
  ASSUME ConsoleInv, NEW w \in Injections,
         \A u \in Injections \ {w} : /\ services'[u] = services[u] /\ sessions'[u] = sessions[u]
                                     /\ runs'[u] = runs[u] /\ injects'[u] = injects[u],
         ConsoleTypes',
         services'[w] # Nothing =>
           /\ \E i \in Ingestions : services'[w].change = i.change /\ services'[w].store = i.store
           /\ OrderTrue(services'[w], sessions'[w], w),
         StartTrue(services'[w], sessions'[w], w, injects'[w]),
         PauseTrue(services'[w], sessions'[w], runs'[w], w, injects'[w]),
         injects'[w].at = "IDLE" => sessions'[w] = Nothing,
         ResumeInv'
  PROVE  ConsoleInv'
<1>1. DifferenceInv /\ RunInv
  BY DEF ConsoleInv
<1>2. DifferenceInv'
  <2> SUFFICES ASSUME NEW u \in Injections, services'[u] # Nothing
               PROVE  \E i \in Ingestions : services'[u].change = i.change /\ services'[u].store = i.store
    BY DEF DifferenceInv
  <2> QED
    BY <1>1 DEF DifferenceInv
<1>3. RunInv'
  <2> SUFFICES ASSUME NEW u \in Injections
               PROVE  /\ services'[u] # Nothing => OrderTrue(services'[u], sessions'[u], u)
                      /\ StartTrue(services'[u], sessions'[u], u, injects'[u])
                      /\ PauseTrue(services'[u], sessions'[u], runs'[u], u, injects'[u])
                      /\ injects'[u].at = "IDLE" => sessions'[u] = Nothing
    BY DEF RunInv
  <2> QED
    BY <1>1 DEF RunInv
<1> QED
  BY <1>2, <1>3 DEF ConsoleInv

-----------------------------------------------------------------------------
LEMMA RefuseInjectionKeeps ==
  ASSUME ConsoleInv, NEW w \in Injections, RefuseInjection(w) PROVE ConsoleInv'
<1>1. ConsoleTypes /\ DifferenceInv /\ RunInv /\ ResumeInv
  BY DEF ConsoleInv
<1>2. /\ injects[w].at = "IDLE" /\ injects' = [injects EXCEPT ![w] = Failed]
      /\ UNCHANGED <<services, runs, sessions, verifies>>
  BY DEF RefuseInjection
<1>3. /\ injects' \in [Injections -> InjectRequests] /\ injects'[w] = Failed
      /\ \A u \in Injections \ {w} : injects'[u] = injects[u]
  BY <1>1, <1>2, RequestsAre DEF ConsoleTypes
<1>4. ConsoleTypes'
  BY <1>1, <1>2, <1>3 DEF ConsoleTypes
<1>5. Grown
  BY <1>2, <1>3, GrownAtOne
<1>6. ResumeInv'
  BY <1>1, <1>2, <1>5, ResumeKept DEF ResumeInv, ConsoleTypes
<1>7. /\ StartTrue(services'[w], sessions'[w], w, injects'[w])
      /\ PauseTrue(services'[w], sessions'[w], runs'[w], w, injects'[w])
      /\ injects'[w].at # "IDLE"
  BY <1>3, RequestsAre DEF StartTrue, PauseTrue
<1>8. services'[w] # Nothing =>
        /\ \E i \in Ingestions : services'[w].change = i.change /\ services'[w].store = i.store
        /\ OrderTrue(services'[w], sessions'[w], w)
  BY <1>1, <1>2 DEF DifferenceInv, RunInv
<1> QED
  BY <1>2, <1>3, <1>4, <1>6, <1>7, <1>8, OneRunKeeps

LEMMA InjectKeeps ==
  ASSUME ConsoleInv, NEW w \in Injections, Inject(w) PROVE ConsoleInv'
<1>1. ConsoleTypes /\ DifferenceInv /\ RunInv /\ ResumeInv
  BY DEF ConsoleInv
<1>2. PICK i \in Ingestions : services' = [services EXCEPT ![w] = NewService(i)]
  BY DEF Inject, Ingestions
<1>3. /\ injects[w].at = "IDLE" /\ sessions' = [sessions EXCEPT ![w] = CreateSession(w)]
      /\ injects' = [injects EXCEPT ![w] = Running(w, 1)] /\ UNCHANGED <<runs, verifies>>
  BY DEF Inject
<1>4. CreateSession(w) = BlankSession
  BY <1>1, <1>3 DEF RunInv, CreateSession
<1> DEFINE s == NewService(i)
           r == Running(w, 1)
<1>5. /\ s \in Services /\ s.change = i.change /\ s.store = i.store
      /\ \A name \in Names : s.ran[name] = 0
  BY NewServiceFits
<1>6. r \in InjectRequests /\ r.at = "RUN" /\ r.invocation = w /\ r.step = 1
  BY DEF Running, InjectRequests, AwaitStep
<1> HIDE DEF s, r
<1>7. /\ services' \in [Injections -> Services \union {Nothing}] /\ services'[w] = s
      /\ sessions' \in [Injections -> Sessions \union {Nothing}] /\ sessions'[w] = BlankSession
      /\ injects' \in [Injections -> InjectRequests] /\ injects'[w] = r
      /\ \A u \in Injections \ {w} : /\ services'[u] = services[u] /\ sessions'[u] = sessions[u]
                                     /\ injects'[u] = injects[u]
  <2>1. services' = [services EXCEPT ![w] = s] /\ injects' = [injects EXCEPT ![w] = r]
        /\ sessions' = [sessions EXCEPT ![w] = BlankSession]
    BY <1>2, <1>3, <1>4 DEF s, r
  <2> QED
    BY <1>1, <1>5, <1>6, <2>1, BlankFits DEF ConsoleTypes
<1>8. ConsoleTypes'
  BY <1>1, <1>3, <1>7 DEF ConsoleTypes
<1>9. Grown
  BY <1>3, <1>7, GrownAtOne
<1>10. ResumeInv'
  BY <1>1, <1>3, <1>9, ResumeKept DEF ResumeInv, ConsoleTypes
<1>11. \A k \in 1..6 : s.ran[SubAgents[k]] = 0
  BY <1>5, AgentsAre
<1>12. OrderTrue(s, BlankSession, w)
  <2>1. \A k \in 1..(AwaitStep - 1) : s.ran[SubAgents[k]] <= 1
    BY <1>11 DEF AwaitStep
  <2>2. \A k \in 2..6 : ~ (s.ran[SubAgents[k]] > 0)
    BY <1>11
  <2> QED
    BY <2>1, <2>2, BlankFits DEF OrderTrue
<1>13. StartTrue(s, BlankSession, w, r)
  <2>1. s # Nothing /\ BlankSession # Nothing
    BY <1>5, BlankFits, NothingIsApart
  <2> QED
    BY <1>6, <1>11, <2>1 DEF StartTrue
<1>14. PauseTrue(s, BlankSession, runs'[w], w, r)
  BY <1>6 DEF PauseTrue
<1> QED
  BY <1>3, <1>5, <1>6, <1>7, <1>8, <1>10, <1>12, <1>13, <1>14, OneRunKeeps


LEMMA StartStepKeeps ==
  ASSUME ConsoleInv, NEW w \in Injections, StartStep(w) PROVE ConsoleInv'
<1> DEFINE k == injects[w].step
           step == SubAgents[k]
           s == services[w]
           session == sessions[w]
           newer == Appended(session, w, step)
           r == [injects[w] EXCEPT !.step = k + 1]
<1>1. ConsoleTypes /\ DifferenceInv /\ RunInv /\ ResumeInv
  BY DEF ConsoleInv
<1>2. injects[w].at = "RUN" /\ k < 4 /\ injects[w] \in InjectRequests
  BY <1>1, RequestsAre DEF StartStep, ConsoleTypes
<1>3. k \in 1..3 /\ injects[w] \in [at : {"RUN"}, invocation : Injections, step : 1..4]
  BY <1>2, RequestsAre
<1>4. /\ s # Nothing /\ session # Nothing /\ injects[w].invocation = w
      /\ \A i \in 1..(k - 1) : SubAgents[i] \in Done(session, w)
      /\ \A i \in k..6 : s.ran[SubAgents[i]] = 0
  BY <1>1, <1>2 DEF RunInv, StartTrue
<1>5. s \in Services /\ session \in Sessions
  BY <1>1, <1>4 DEF ConsoleTypes
<1>6. step \in Names
  BY <1>3, AgentsAre
<1>7. PICK after \in Outcomes(step, s) : services' = [services EXCEPT ![w] = Called(step, after)]
  BY DEF StartStep
<1> DEFINE next == Called(step, after)
<1>8. after \in Services /\ after.ran = s.ran /\ after.change = s.change /\ after.store = s.store
  BY <1>5, <1>7, OutcomeKeeps
<1>9. /\ next \in Services /\ next.change = s.change /\ next.store = s.store
      /\ next.ran[step] = s.ran[step] + 1
      /\ \A name \in Names : name # step => next.ran[name] = s.ran[name]
  BY <1>6, <1>8, CallCounts
<1>10. newer \in Sessions /\ Done(newer, w) = Done(session, w) \union {step}
  BY <1>5, <1>6, AppendedDone
<1>11. r \in InjectRequests /\ r.at = "RUN" /\ r.invocation = w /\ r.step = k + 1
  BY <1>3, <1>4 DEF InjectRequests, AwaitStep
<1>12. /\ services' = [services EXCEPT ![w] = next] /\ injects' = [injects EXCEPT ![w] = r]
       /\ sessions' = [sessions EXCEPT ![w] = newer] /\ UNCHANGED <<runs, verifies>>
  <2>1. sessions' = [sessions EXCEPT ![w] = Appended(@, injects[w].invocation, step)]
        /\ injects' = [injects EXCEPT ![w].step = @ + 1] /\ UNCHANGED <<runs, verifies>>
    BY DEF StartStep
  <2> QED
    BY <1>4, <1>7, <2>1
<1> HIDE DEF next, newer, r
<1>13. /\ services' \in [Injections -> Services \union {Nothing}] /\ services'[w] = next
       /\ sessions' \in [Injections -> Sessions \union {Nothing}] /\ sessions'[w] = newer
       /\ injects' \in [Injections -> InjectRequests] /\ injects'[w] = r
       /\ \A u \in Injections \ {w} : /\ services'[u] = services[u] /\ sessions'[u] = sessions[u]
                                      /\ injects'[u] = injects[u]
  BY <1>1, <1>9, <1>10, <1>11, <1>12 DEF ConsoleTypes
<1>14. ConsoleTypes'
  BY <1>1, <1>12, <1>13 DEF ConsoleTypes
<1>15. Grown
  BY <1>2, <1>13, GrownAtOne
<1>16. ResumeInv'
  BY <1>1, <1>12, <1>15, ResumeKept DEF ResumeInv, ConsoleTypes
<1>17. /\ \A name \in Names : s.ran[name] \in Nat /\ next.ran[name] \in Nat
       /\ \A i \in 1..6 : SubAgents[i] \in Names /\ (SubAgents[i] = step <=> i = k)
  <2>1. s \in Services /\ next \in Services
    BY <1>3, <1>5, <1>9
  <2>2. \A name \in Names : s.ran[name] \in Nat /\ next.ran[name] \in Nat
    BY <2>1 DEF Services, Names
  <2>3. k \in 1..6 /\ step = SubAgents[k]
    BY <1>3
  <2>4. \A i \in 1..6 : SubAgents[i] \in Names /\ (SubAgents[i] = step <=> i = k)
    BY <2>3, AgentsAre
  <2> QED
    BY <2>2, <2>4
<1>18. OrderTrue(s, session, w)
  BY <1>1, <1>4 DEF RunInv
<1>19. /\ next.ran[SubAgents[k]] = 1
       /\ \A i \in 1..6 : i # k => next.ran[SubAgents[i]] = s.ran[SubAgents[i]]
       /\ \A i \in (k + 1)..6 : next.ran[SubAgents[i]] = 0
       /\ \A i \in 1..(k - 1) : s.ran[SubAgents[i]] > 0
  <2>1. next.ran[SubAgents[k]] = 1
    BY <1>3, <1>4, <1>9, <1>17
  <2>2. \A i \in 1..6 : i # k => next.ran[SubAgents[i]] = s.ran[SubAgents[i]]
    BY <1>9, <1>17
  <2>3. \A i \in (k + 1)..6 : i \in 1..6 /\ i # k /\ i \in k..6
    BY <1>3
  <2>4. \A i \in (k + 1)..6 : next.ran[SubAgents[i]] = 0
    BY <1>4, <2>2, <2>3
  <2>5. \A i \in 1..(k - 1) : s.ran[SubAgents[i]] > 0
    BY <1>4, <1>18 DEF OrderTrue
  <2> QED
    BY <2>1, <2>2, <2>4, <2>5
<1>20. OrderTrue(next, newer, w)
  <2>1. \A i \in 1..(AwaitStep - 1) : next.ran[SubAgents[i]] <= 1
    <3> SUFFICES ASSUME NEW i \in 1..3 PROVE next.ran[SubAgents[i]] <= 1
      BY DEF AwaitStep
    <3>1. s.ran[SubAgents[i]] <= 1
      BY <1>18 DEF OrderTrue, AwaitStep
    <3> QED
      BY <1>19, <3>1
  <2>2. \A i \in 2..6 : next.ran[SubAgents[i]] > 0 => next.ran[SubAgents[i - 1]] > 0
    <3> SUFFICES ASSUME NEW i \in 2..6, next.ran[SubAgents[i]] > 0 PROVE next.ran[SubAgents[i - 1]] > 0
      OBVIOUS
    <3>1. i <= k
      <4>1. CASE i \in (k + 1)..6
        BY <1>19, <4>1
      <4> QED
        BY <1>3, <4>1
    <3>2. i - 1 \in 1..(k - 1) /\ i - 1 # k /\ i - 1 \in 1..6
      BY <1>3, <3>1
    <3> QED
      BY <1>19, <3>2
  <2>3. \A name \in Done(newer, w) : next.ran[name] > 0
    <3> SUFFICES ASSUME NEW name \in Done(newer, w) PROVE next.ran[name] > 0
      OBVIOUS
    <3>1. CASE name = step
      BY <1>19, <3>1
    <3>2. CASE name # step
      <4>1. name \in Done(session, w) /\ name \in Names
        BY <1>5, <1>10, <3>2, DoneIs
      <4>2. s.ran[name] > 0
        BY <1>4, <1>18, <4>1 DEF OrderTrue
      <4> QED
        BY <1>9, <3>2, <4>1, <4>2
    <3> QED
      BY <3>1, <3>2
  <2> QED
    BY <2>1, <2>2, <2>3 DEF OrderTrue
<1>21. StartTrue(next, newer, w, r)
  <2>1. \A i \in 1..(r.step - 1) : SubAgents[i] \in Done(newer, w)
    <3> SUFFICES ASSUME NEW i \in 1..k PROVE SubAgents[i] \in Done(newer, w)
      BY <1>3, <1>11
    <3>1. CASE i = k
      BY <1>10, <3>1
    <3>2. CASE i # k
      <4>1. i \in 1..(k - 1)
        BY <1>3, <3>2
      <4> QED
        BY <1>4, <1>10, <4>1
    <3> QED
      BY <3>1, <3>2
  <2>2. \A i \in r.step..6 : next.ran[SubAgents[i]] = 0
    BY <1>11, <1>19
  <2>3. next # Nothing /\ newer # Nothing
    BY <1>9, <1>10, NothingIsApart
  <2> QED
    BY <1>11, <2>1, <2>2, <2>3 DEF StartTrue
<1>22. PauseTrue(next, newer, runs'[w], w, r) /\ r.at # "IDLE"
  BY <1>11 DEF PauseTrue
<1>23. \E i \in Ingestions : next.change = i.change /\ next.store = i.store
  BY <1>1, <1>4, <1>9 DEF DifferenceInv
<1> QED
  BY <1>12, <1>13, <1>14, <1>16, <1>20, <1>21, <1>22, <1>23, OneRunKeeps

LEMMA PauseKeeps ==
  ASSUME ConsoleInv, NEW w \in Injections, Pause(w) PROVE ConsoleInv'
<1> DEFINE s == services[w]
           session == sessions[w]
           newer == IF w \in Durable THEN [session EXCEPT !.invocation = w] ELSE session
<1>1. ConsoleTypes /\ DifferenceInv /\ RunInv /\ ResumeInv
  BY DEF ConsoleInv
<1>2. injects[w].at = "RUN" /\ injects[w].step = 4
  BY DEF Pause, AwaitStep
<1>3. /\ s # Nothing /\ session # Nothing /\ injects[w].invocation = w
      /\ \A i \in 1..3 : SubAgents[i] \in Done(session, w)
  BY <1>1, <1>2 DEF RunInv, StartTrue
<1>4. s \in Services /\ session \in Sessions
  BY <1>1, <1>3 DEF ConsoleTypes
<1>5. /\ newer \in Sessions /\ newer.events = session.events
      /\ w \in Durable => newer.invocation = w
  BY <1>4 DEF Sessions
<1>6. Done(newer, w) = Done(session, w)
  BY <1>5 DEF Done
<1>7. /\ injects' = [injects EXCEPT ![w] = Answered] /\ UNCHANGED <<services, verifies>>
      /\ runs' = [runs EXCEPT ![w] = w]
      /\ sessions' = [sessions EXCEPT ![w] = newer]
  <2>1. sessions' = IF w \in Durable THEN [sessions EXCEPT ![w] = Persisted(@, w)] ELSE sessions
    BY <1>3 DEF Pause
  <2>2. sessions = [sessions EXCEPT ![w] = session]
    BY <1>1 DEF ConsoleTypes
  <2>3. sessions' = [sessions EXCEPT ![w] = newer]
    BY <2>1, <2>2 DEF Persisted
  <2> QED
    BY <1>3, <2>3 DEF Pause
<1> HIDE DEF newer
<1>8. /\ sessions' \in [Injections -> Sessions \union {Nothing}] /\ sessions'[w] = newer
      /\ runs' \in [Injections -> Injections \union {Nothing}] /\ runs'[w] = w
      /\ injects' \in [Injections -> InjectRequests] /\ injects'[w] = Answered
      /\ \A u \in Injections \ {w} : /\ sessions'[u] = sessions[u]
                                     /\ runs'[u] = runs[u] /\ injects'[u] = injects[u]
  BY <1>1, <1>5, <1>7, RequestsAre DEF ConsoleTypes
<1>9. ConsoleTypes'
  BY <1>1, <1>7, <1>8 DEF ConsoleTypes
<1>10. Grown
  BY <1>2, <1>7, <1>8, GrownAtOne
<1>11. ResumeInv'
  BY <1>1, <1>7, <1>10, ResumeKept DEF ResumeInv, ConsoleTypes
<1>12. OrderTrue(s, newer, w)
  BY <1>1, <1>3, <1>6 DEF RunInv, OrderTrue
<1>13. PauseTrue(s, newer, w, w, Answered)
  BY <1>3, <1>4, <1>5, <1>6, NothingIsApart DEF PauseTrue, AwaitStep
<1>14. StartTrue(s, newer, w, Answered) /\ Answered.at # "IDLE"
  BY RequestsAre DEF StartTrue
<1>15. \E i \in Ingestions : s.change = i.change /\ s.store = i.store
  BY <1>1, <1>3 DEF DifferenceInv
<1> QED
  BY <1>7, <1>8, <1>9, <1>11, <1>12, <1>13, <1>14, <1>15, OneRunKeeps


\* A photograph resumes the paused run where it paused, or later.
LEMMA VerifyKeeps ==
  ASSUME ConsoleInv, NEW v \in Verifies, NEW w \in Injections, Verify(v, w) PROVE ConsoleInv'
<1> DEFINE s == services[w]
           next == services'[w]
           session == sessions[w]
           newer == [session EXCEPT !.ready = TRUE]
           k == ResumePoint(newer, w)
           r == [at |-> "RUN", workflow |-> w, invocation |-> w, step |-> k]
<1>1. ConsoleTypes /\ DifferenceInv /\ RunInv /\ ResumeInv
  BY DEF ConsoleInv
<1>2. injects[w].at = "ANSWERED" /\ s # Nothing /\ UNCHANGED injects
  BY DEF Verify
<1>3. /\ session # Nothing
      /\ \A i \in 1..(AwaitStep - 1) : SubAgents[i] \in Done(session, w)
      /\ runs[w] = w \/ (runs[w] = Nothing /\ w \in Durable)
      /\ w \in Durable => session.invocation = w
  BY <1>1, <1>2 DEF RunInv, PauseTrue
<1>4. s \in Services /\ session \in Sessions
  BY <1>1, <1>2, <1>3 DEF ConsoleTypes
<1>5. CreateSession(w) = session /\ Recover(w) = w
  BY <1>3, NothingIsApart DEF CreateSession, Recover
<1>6. newer \in Sessions /\ newer.events = session.events /\ newer.invocation = session.invocation
  <2>1. TRUE \in BOOLEAN
    OBVIOUS
  <2>2. \A b \in BOOLEAN : LET n == [session EXCEPT !.ready = b]
                           IN n \in Sessions /\ n.events = session.events
                              /\ n.invocation = session.invocation
    BY <1>4 DEF Sessions
  <2> QED
    BY <2>1, <2>2, Zenon
<1>7. /\ sessions' = [sessions EXCEPT ![w] = newer] /\ runs' = [runs EXCEPT ![w] = w]
      /\ verifies' = [verifies EXCEPT ![v] = r]
  BY <1>5 DEF Verify
<1>8. Done(newer, w) = Done(session, w)
  BY <1>6 DEF Done
<1> HIDE DEF newer
<1>9. k \in 4..7 /\ \A i \in 1..6 : i < k => SubAgents[i] \in Done(session, w)
  BY <1>3, <1>6, <1>8, ResumesAtFirst DEF AwaitStep
<1>10. r \in VerifyRequests /\ r.at = "RUN" /\ r.workflow = w /\ r.invocation = w /\ r.step = k
  <2> HIDE DEF k
  <2> QED
    BY <1>9 DEF VerifyRequests, AwaitStep
<1>11. /\ next \in Services /\ next.ran = s.ran /\ next.change = s.change /\ next.store = s.store
       /\ services' \in [Injections -> Services \union {Nothing}]
       /\ \A u \in Injections \ {w} : services'[u] = services[u]
  <2>1. PICK result \in Results \union {Nothing} :
          services' = [services EXCEPT ![w] = IF result = Nothing THEN @ ELSE Judged(@, result)]
    BY DEF Verify
  <2> DEFINE a == IF result = Nothing THEN s ELSE Judged(s, result)
  <2>2. a \in Services /\ a.ran = s.ran /\ a.change = s.change /\ a.store = s.store
    BY <1>4, JudgedKeeps
  <2>3. services' = [services EXCEPT ![w] = a]
    BY <2>1
  <2> HIDE DEF a
  <2>4. next = a /\ services' \in [Injections -> Services \union {Nothing}]
        /\ \A u \in Injections \ {w} : services'[u] = services[u]
    BY <1>1, <2>2, <2>3 DEF ConsoleTypes
  <2> QED
    BY <2>2, <2>4
<1> HIDE DEF k, r
<1>12. /\ sessions' \in [Injections -> Sessions \union {Nothing}] /\ sessions'[w] = newer
       /\ runs' \in [Injections -> Injections \union {Nothing}] /\ runs'[w] = w
       /\ verifies' \in [Verifies -> VerifyRequests] /\ verifies'[v] = r
       /\ \A u \in Injections \ {w} : sessions'[u] = sessions[u] /\ runs'[u] = runs[u]
       /\ \A u \in Verifies \ {v} : verifies'[u] = verifies[u]
  BY <1>1, <1>6, <1>7, <1>10 DEF ConsoleTypes
<1>13. ConsoleTypes'
  BY <1>1, <1>2, <1>11, <1>12 DEF ConsoleTypes
<1>14. \A name \in Names : s.ran[name] \in Nat
  BY <1>4 DEF Services, Names
<1>15. Grown
  <2>1. \A name \in Names : next.ran[name] >= s.ran[name]
    BY <1>11, <1>14
  <2> QED
    BY <1>2, <1>11, <2>1, GrownAtOne
<1>16. OrderTrue(s, session, w)
  BY <1>1, <1>2 DEF RunInv
<1>17. OrderTrue(next, newer, w)
  BY <1>3, <1>8, <1>11, <1>16 DEF OrderTrue
<1>18. ResumeTrue(r, services', injects')
  <2>1. \A i \in 1..(k - 1) : next.ran[SubAgents[i]] > 0
    <3> SUFFICES ASSUME NEW i \in 1..(k - 1) PROVE next.ran[SubAgents[i]] > 0
      OBVIOUS
    <3>1. i \in 1..6 /\ i < k
      BY <1>9
    <3>2. SubAgents[i] \in Done(session, w)
      BY <1>9, <3>1
    <3> QED
      BY <1>3, <1>11, <1>16, <3>2 DEF OrderTrue
  <2> QED
    BY <1>2, <1>10, <1>11, <2>1, NothingIsApart DEF ResumeTrue
<1>19. ResumeInv'
  <2> SUFFICES ASSUME NEW u \in Verifies PROVE ResumeTrue(verifies'[u], services', injects')
    BY DEF ResumeInv
  <2>1. CASE u = v
    BY <1>12, <1>18, <2>1
  <2>2. CASE u # v
    <3>1. verifies[u] \in VerifyRequests /\ ResumeTrue(verifies[u], services, injects)
      BY <1>1 DEF ConsoleTypes, ResumeInv
    <3>2. ResumeTrue(verifies[u], services', injects')
      BY <1>1, <1>15, <3>1, ResumeKept
    <3> QED
      BY <1>12, <2>2, <3>2
  <2> QED
    BY <2>1, <2>2
<1>20. PauseTrue(next, newer, w, w, injects[w])
  BY <1>3, <1>6, <1>8, NothingIsApart DEF PauseTrue
<1>21. StartTrue(next, newer, w, injects[w])
  BY <1>2 DEF StartTrue
<1>22. \E i \in Ingestions : next.change = i.change /\ next.store = i.store
  BY <1>1, <1>2, <1>11 DEF DifferenceInv
<1> QED
  BY <1>2, <1>11, <1>12, <1>13, <1>17, <1>19, <1>20, <1>21, <1>22, OneRunKeeps

-----------------------------------------------------------------------------
\* What the invariant says of a run that is being resumed.
LEMMA ResumedRun ==
  ASSUME ConsoleInv, NEW v \in Verifies, verifies[v].at \in {"RUN", "EVENT"}
  PROVE  LET w == verifies[v].workflow
         IN /\ w \in Injections /\ verifies[v].invocation = w /\ verifies[v].step \in 4..7
            /\ verifies[v] \in [at : {"RUN", "EVENT"}, workflow : Injections,
                                invocation : Injections, step : AwaitStep..7]
            /\ injects[w].at = "ANSWERED" /\ services[w] \in Services /\ services[w] # Nothing
            /\ sessions[w] \in Sessions /\ sessions[w] # Nothing
            /\ \A i \in 1..(verifies[v].step - 1) : services[w].ran[SubAgents[i]] > 0
            /\ verifies[v].at = "EVENT" =>
                 verifies[v].step <= 6 /\ services[w].ran[SubAgents[verifies[v].step]] > 0
            /\ OrderTrue(services[w], sessions[w], w)
            /\ PauseTrue(services[w], sessions[w], runs[w], w, injects[w])
<1> DEFINE w == verifies[v].workflow
<1>1. ConsoleTypes /\ RunInv /\ ResumeTrue(verifies[v], services, injects)
  BY DEF ConsoleInv, ResumeInv
<1>2. /\ w \in Injections /\ verifies[v].step \in AwaitStep..7
      /\ verifies[v] \in [at : {"RUN", "EVENT"}, workflow : Injections,
                          invocation : Injections, step : AwaitStep..7]
  BY <1>1, RequestsAre DEF ConsoleTypes
<1>3. /\ injects[w].at = "ANSWERED" /\ services[w] # Nothing /\ verifies[v].invocation = w
      /\ \A i \in 1..(verifies[v].step - 1) : services[w].ran[SubAgents[i]] > 0
      /\ verifies[v].at = "EVENT" =>
           verifies[v].step <= 6 /\ services[w].ran[SubAgents[verifies[v].step]] > 0
  BY <1>1 DEF ResumeTrue
<1>4. services[w] \in Services
  BY <1>1, <1>2, <1>3 DEF ConsoleTypes
<1>5. /\ OrderTrue(services[w], sessions[w], w)
      /\ PauseTrue(services[w], sessions[w], runs[w], w, injects[w])
  BY <1>1, <1>2, <1>3 DEF RunInv
<1>6. sessions[w] # Nothing
  BY <1>3, <1>5 DEF PauseTrue
<1>7. sessions[w] \in Sessions
  BY <1>1, <1>2, <1>6 DEF ConsoleTypes
<1> QED
  BY <1>2, <1>3, <1>4, <1>5, <1>6, <1>7 DEF AwaitStep

\* The requests with photographs after one of them moved.
LEMMA OthersResume ==
  ASSUME ConsoleInv, Grown, NEW v \in Verifies,
         \A u \in Verifies \ {v} : verifies'[u] = verifies[u],
         ResumeTrue(verifies'[v], services', injects')
  PROVE  ResumeInv'
<1> SUFFICES ASSUME NEW u \in Verifies PROVE ResumeTrue(verifies'[u], services', injects')
  BY DEF ResumeInv
<1>1. CASE u # v
  <2>1. /\ ConsoleTypes /\ verifies[u] \in VerifyRequests
        /\ ResumeTrue(verifies[u], services, injects)
    BY DEF ConsoleInv, ConsoleTypes, ResumeInv
  <2>2. ResumeTrue(verifies[u], services', injects')
    BY <2>1, ResumeKept
  <2> QED
    BY <1>1, <2>2
<1> QED
  BY <1>1

LEMMA ResumeStepKeeps ==
  ASSUME ConsoleInv, NEW v \in Verifies, ResumeStep(v) PROVE ConsoleInv'
<1> DEFINE w == verifies[v].workflow
           k == verifies[v].step
           step == SubAgents[k]
           s == services[w]
           session == sessions[w]
           r == [verifies[v] EXCEPT !.at = "EVENT"]
<1>1. ConsoleTypes /\ DifferenceInv /\ RunInv /\ ResumeInv
  BY DEF ConsoleInv
<1>2. /\ verifies[v].at = "RUN" /\ k <= 6 /\ UNCHANGED <<runs, sessions, injects>>
      /\ verifies' = [verifies EXCEPT ![v] = r]
  BY AgentsAre DEF ResumeStep
<1>3. /\ w \in Injections /\ verifies[v].invocation = w /\ k \in 4..6
      /\ verifies[v] \in [at : {"RUN", "EVENT"}, workflow : Injections,
                          invocation : Injections, step : AwaitStep..7]
      /\ injects[w].at = "ANSWERED" /\ s \in Services /\ s # Nothing
      /\ \A i \in 1..(k - 1) : s.ran[SubAgents[i]] > 0
      /\ OrderTrue(s, session, w)
      /\ PauseTrue(s, session, runs[w], w, injects[w])
  BY <1>2, ResumedRun
<1>4. step \in Names
  BY <1>3, AgentsAre
<1>5. PICK after \in Outcomes(step, s) : services' = [services EXCEPT ![w] = Called(step, after)]
  BY DEF ResumeStep
<1> DEFINE next == Called(step, after)
<1>6. after \in Services /\ after.ran = s.ran /\ after.change = s.change /\ after.store = s.store
  BY <1>3, <1>5, OutcomeKeeps
<1>7. /\ next \in Services /\ next.change = s.change /\ next.store = s.store
      /\ next.ran[step] = s.ran[step] + 1
      /\ \A name \in Names : name # step => next.ran[name] = s.ran[name]
  BY <1>4, <1>6, CallCounts
<1>8. r \in VerifyRequests /\ r.at = "EVENT" /\ r.workflow = w /\ r.invocation = w /\ r.step = k
  BY <1>3 DEF VerifyRequests
<1> HIDE DEF next, r
<1>9. /\ services' \in [Injections -> Services \union {Nothing}] /\ services'[w] = next
      /\ verifies' \in [Verifies -> VerifyRequests] /\ verifies'[v] = r
      /\ \A u \in Injections \ {w} : services'[u] = services[u]
      /\ \A u \in Verifies \ {v} : verifies'[u] = verifies[u]
  BY <1>1, <1>2, <1>3, <1>5, <1>7, <1>8 DEF ConsoleTypes, next
<1>10. ConsoleTypes'
  BY <1>1, <1>2, <1>9 DEF ConsoleTypes
<1>11. /\ \A name \in Names : s.ran[name] \in Nat /\ next.ran[name] \in Nat
       /\ \A i \in 1..6 : SubAgents[i] \in Names /\ (SubAgents[i] = step <=> i = k)
  <2>1. s \in Services /\ next \in Services
    BY <1>3, <1>7
  <2>2. \A name \in Names : s.ran[name] \in Nat /\ next.ran[name] \in Nat
    BY <2>1 DEF Services, Names
  <2>3. k \in 1..6 /\ step = SubAgents[k]
    BY <1>3
  <2>4. \A i \in 1..6 : SubAgents[i] \in Names /\ (SubAgents[i] = step <=> i = k)
    BY <2>3, AgentsAre
  <2> QED
    BY <2>2, <2>4
<1>12. /\ \A name \in Names : next.ran[name] >= s.ran[name]
       /\ next.ran[step] > 0
       /\ \A i \in 1..6 : i # k => next.ran[SubAgents[i]] = s.ran[SubAgents[i]]
  BY <1>4, <1>7, <1>11
<1>13. Grown
  BY <1>2, <1>3, <1>7, <1>9, <1>12, GrownAtOne
<1>14. \A i \in 1..(k - 1) : next.ran[SubAgents[i]] > 0
  <2> SUFFICES ASSUME NEW i \in 1..(k - 1) PROVE next.ran[SubAgents[i]] > 0
    OBVIOUS
  <2>1. i \in 1..6 /\ i # k
    BY <1>3
  <2> QED
    BY <1>3, <1>12, <2>1
<1>15. ResumeTrue(r, services', injects')
  BY <1>2, <1>3, <1>7, <1>8, <1>9, <1>12, <1>14, NothingIsApart DEF ResumeTrue
<1>16. ResumeInv'
  BY <1>9, <1>13, <1>15, OthersResume
<1>17. OrderTrue(next, session, w)
  <2>1. \A i \in 1..(AwaitStep - 1) : next.ran[SubAgents[i]] <= 1
    <3> SUFFICES ASSUME NEW i \in 1..3 PROVE next.ran[SubAgents[i]] <= 1
      BY DEF AwaitStep
    <3>1. s.ran[SubAgents[i]] <= 1 /\ i \in 1..6 /\ i # k
      BY <1>3 DEF OrderTrue, AwaitStep
    <3> QED
      BY <1>12, <3>1
  <2>2. \A i \in 2..6 : next.ran[SubAgents[i]] > 0 => next.ran[SubAgents[i - 1]] > 0
    <3> SUFFICES ASSUME NEW i \in 2..6, next.ran[SubAgents[i]] > 0 PROVE next.ran[SubAgents[i - 1]] > 0
      OBVIOUS
    <3>1. CASE i = k
      <4>1. i - 1 \in 1..(k - 1)
        BY <1>3, <3>1
      <4> QED
        BY <1>14, <4>1
    <3>2. CASE i # k
      <4>1. s.ran[SubAgents[i]] > 0
        BY <1>12, <3>2
      <4>2. s.ran[SubAgents[i - 1]] > 0
        BY <1>3, <4>1 DEF OrderTrue
      <4>3. i - 1 \in 1..6
        OBVIOUS
      <4> DEFINE name == SubAgents[i - 1]
      <4>4. name \in Names /\ s.ran[name] > 0
        BY <4>2, <4>3, AgentsAre
      <4> HIDE DEF name
      <4>5. next.ran[name] > 0
        BY <1>11, <1>12, <4>4
      <4> QED
        BY <4>5 DEF name
    <3> QED
      BY <3>1, <3>2
  <2>3. session # Nothing => \A name \in Done(session, w) : next.ran[name] > 0
    <3> SUFFICES ASSUME session # Nothing, NEW name \in Done(session, w) PROVE next.ran[name] > 0
      OBVIOUS
    <3>1. session \in Sessions
      BY <1>1, <1>3 DEF ConsoleTypes
    <3>2. name \in Names /\ s.ran[name] > 0
      BY <1>3, <3>1, DoneIs DEF OrderTrue
    <3> QED
      BY <1>11, <1>12, <3>2
  <2> QED
    BY <2>1, <2>2, <2>3 DEF OrderTrue
<1>18. PauseTrue(next, session, runs[w], w, injects[w])
  BY <1>3 DEF PauseTrue
<1>19. StartTrue(next, session, w, injects[w])
  BY <1>3 DEF StartTrue
<1>20. \E i \in Ingestions : next.change = i.change /\ next.store = i.store
  BY <1>1, <1>3, <1>7 DEF DifferenceInv
<1> QED
  BY <1>2, <1>3, <1>9, <1>10, <1>16, <1>17, <1>18, <1>19, <1>20, OneRunKeeps


LEMMA ResumeEventKeeps ==
  ASSUME ConsoleInv, NEW v \in Verifies, ResumeEvent(v) PROVE ConsoleInv'
<1> DEFINE w == verifies[v].workflow
           k == verifies[v].step
           step == SubAgents[k]
           s == services[w]
           session == sessions[w]
           newer == Appended(session, w, step)
           r == [verifies[v] EXCEPT !.at = "RUN", !.step = k + 1]
<1>1. ConsoleTypes /\ DifferenceInv /\ RunInv /\ ResumeInv
  BY DEF ConsoleInv
<1>2. verifies[v].at = "EVENT"
  BY DEF ResumeEvent
<1>3. /\ w \in Injections /\ verifies[v].invocation = w /\ k \in 4..6
      /\ verifies[v] \in [at : {"RUN", "EVENT"}, workflow : Injections,
                          invocation : Injections, step : AwaitStep..7]
      /\ injects[w].at = "ANSWERED" /\ s \in Services /\ s # Nothing
      /\ session \in Sessions /\ session # Nothing
      /\ \A i \in 1..(k - 1) : s.ran[SubAgents[i]] > 0
      /\ s.ran[step] > 0
      /\ OrderTrue(s, session, w)
      /\ PauseTrue(s, session, runs[w], w, injects[w])
  BY <1>2, ResumedRun
<1>4. step \in Names
  BY <1>3, AgentsAre
<1>5. /\ newer \in Sessions /\ newer.invocation = session.invocation
      /\ Done(newer, w) = Done(session, w) \union {step}
  BY <1>3, <1>4, AppendedDone
<1>6. r \in VerifyRequests /\ r.at = "RUN" /\ r.workflow = w /\ r.invocation = w /\ r.step = k + 1
  <2> DEFINE n == k + 1
             q == verifies[v]
  <2>1. n \in AwaitStep..7
    BY <1>3 DEF AwaitStep
  <2>2. /\ r = [q EXCEPT !.at = "RUN", !.step = n]
        /\ q \in [at : {"RUN", "EVENT"}, workflow : Injections,
                  invocation : Injections, step : AwaitStep..7]
        /\ q.workflow = w /\ q.invocation = w
    BY <1>3
  <2> HIDE DEF n, q, r
  <2>3. /\ r \in [at : {"RUN", "EVENT"}, workflow : Injections,
                  invocation : Injections, step : AwaitStep..7]
        /\ r.at = "RUN" /\ r.workflow = w /\ r.invocation = w /\ r.step = n
    BY <2>1, <2>2
  <2> QED
    BY <2>3 DEF VerifyRequests, n
<1>7. /\ sessions' = [sessions EXCEPT ![w] = newer] /\ verifies' = [verifies EXCEPT ![v] = r]
      /\ UNCHANGED <<services, runs, injects>>
  BY <1>3 DEF ResumeEvent
<1> HIDE DEF newer, r
<1>8. /\ sessions' \in [Injections -> Sessions \union {Nothing}] /\ sessions'[w] = newer
      /\ verifies' \in [Verifies -> VerifyRequests] /\ verifies'[v] = r
      /\ \A u \in Injections \ {w} : sessions'[u] = sessions[u]
      /\ \A u \in Verifies \ {v} : verifies'[u] = verifies[u]
  BY <1>1, <1>3, <1>5, <1>6, <1>7 DEF ConsoleTypes
<1>9. ConsoleTypes'
  BY <1>1, <1>7, <1>8 DEF ConsoleTypes
<1>10. \A name \in Names : s.ran[name] \in Nat
  BY <1>3 DEF Services, Names
<1>11. Grown
  BY <1>3, <1>7, <1>10, GrownAtOne
<1>12. ResumeTrue(r, services', injects')
  <2>1. \A i \in 1..k : s.ran[SubAgents[i]] > 0
    <3> SUFFICES ASSUME NEW i \in 1..k PROVE s.ran[SubAgents[i]] > 0
      OBVIOUS
    <3>1. i = k \/ i \in 1..(k - 1)
      BY <1>3
    <3> QED
      BY <1>3, <3>1
  <2>2. r.step - 1 = k
    BY <1>3, <1>6
  <2> QED
    BY <1>3, <1>6, <1>7, <2>1, <2>2 DEF ResumeTrue
<1>13. ResumeInv'
  BY <1>8, <1>11, <1>12, OthersResume
<1>14. OrderTrue(s, newer, w)
  BY <1>3, <1>5 DEF OrderTrue
<1>15. PauseTrue(s, newer, runs[w], w, injects[w])
  BY <1>3, <1>5, NothingIsApart DEF PauseTrue
<1>16. StartTrue(s, newer, w, injects[w])
  BY <1>3 DEF StartTrue
<1>17. \E i \in Ingestions : s.change = i.change /\ s.store = i.store
  BY <1>1, <1>3 DEF DifferenceInv
<1> QED
  BY <1>3, <1>7, <1>8, <1>9, <1>13, <1>14, <1>15, <1>16, <1>17, OneRunKeeps

LEMMA AskAndAnswerKeeps ==
  ASSUME ConsoleInv, NEW v \in Verifies, AskAndAnswer(v) PROVE ConsoleInv'
<1> DEFINE w == verifies[v].workflow
           s == services[w]
           session == sessions[w]
<1>1. ConsoleTypes /\ DifferenceInv /\ RunInv /\ ResumeInv
  BY DEF ConsoleInv
<1>2. /\ verifies[v].at = "RUN" /\ UNCHANGED <<runs, sessions, injects>>
      /\ verifies' = [verifies EXCEPT ![v] = Answered]
  BY DEF AskAndAnswer
<1>3. /\ w \in Injections /\ injects[w].at = "ANSWERED" /\ s \in Services /\ s # Nothing
      /\ OrderTrue(s, session, w)
      /\ PauseTrue(s, session, runs[w], w, injects[w])
  BY <1>2, ResumedRun
<1>4. PICK next \in Outcomes("PROVE", s) : services' = [services EXCEPT ![w] = next]
  BY DEF AskAndAnswer
<1>5. next \in Services /\ next.ran = s.ran /\ next.change = s.change /\ next.store = s.store
  BY <1>3, <1>4, OutcomeKeeps
<1>6. /\ services' \in [Injections -> Services \union {Nothing}] /\ services'[w] = next
      /\ verifies' \in [Verifies -> VerifyRequests] /\ verifies'[v] = Answered
      /\ \A u \in Injections \ {w} : services'[u] = services[u]
      /\ \A u \in Verifies \ {v} : verifies'[u] = verifies[u]
  BY <1>1, <1>2, <1>3, <1>4, <1>5, RequestsAre DEF ConsoleTypes
<1>7. ConsoleTypes'
  BY <1>1, <1>2, <1>6 DEF ConsoleTypes
<1>8. \A name \in Names : s.ran[name] \in Nat
  BY <1>3 DEF Services, Names
<1>9. Grown
  BY <1>2, <1>3, <1>5, <1>6, <1>8, GrownAtOne
<1>10. ResumeTrue(Answered, services', injects')
  BY RequestsAre DEF ResumeTrue
<1>11. ResumeInv'
  BY <1>6, <1>9, <1>10, OthersResume
<1>12. /\ OrderTrue(next, session, w) /\ PauseTrue(next, session, runs[w], w, injects[w])
       /\ StartTrue(next, session, w, injects[w])
  BY <1>3, <1>5 DEF OrderTrue, PauseTrue, StartTrue
<1>13. \E i \in Ingestions : next.change = i.change /\ next.store = i.store
  BY <1>1, <1>3, <1>5 DEF DifferenceInv
<1> QED
  BY <1>2, <1>3, <1>6, <1>7, <1>11, <1>12, <1>13, OneRunKeeps

\* A step that raises ends its request and leaves the run where it is.
LEMMA StepRaisesKeeps ==
  ASSUME ConsoleInv, StepRaises PROVE ConsoleInv'
<1>1. ConsoleTypes /\ DifferenceInv /\ RunInv /\ ResumeInv
  BY DEF ConsoleInv
<1>2. UNCHANGED <<services, runs, sessions>>
  BY DEF StepRaises
<1>3. \A name \in Names, s \in Services : s.ran[name] \in Nat
  BY DEF Services, Names
<1>4. ASSUME NEW w \in Injections, injects[w].at = "RUN",
             injects' = [injects EXCEPT ![w] = Failed], UNCHANGED verifies
      PROVE  ConsoleInv'
  <2>1. /\ injects' \in [Injections -> InjectRequests] /\ injects'[w] = Failed
        /\ \A u \in Injections \ {w} : injects'[u] = injects[u]
    BY <1>1, <1>4, RequestsAre DEF ConsoleTypes
  <2>2. ConsoleTypes'
    BY <1>1, <1>2, <1>4, <2>1 DEF ConsoleTypes
  <2>3. Grown
    BY <1>2, <1>4, <2>1, GrownAtOne
  <2>4. ResumeInv'
    BY <1>1, <1>4, <2>3, ResumeKept DEF ResumeInv, ConsoleTypes
  <2>5. /\ StartTrue(services[w], sessions[w], w, Failed)
        /\ PauseTrue(services[w], sessions[w], runs[w], w, Failed) /\ Failed.at # "IDLE"
    BY RequestsAre DEF StartTrue, PauseTrue
  <2>6. services[w] # Nothing =>
          /\ \E i \in Ingestions : services[w].change = i.change /\ services[w].store = i.store
          /\ OrderTrue(services[w], sessions[w], w)
    BY <1>1 DEF DifferenceInv, RunInv
  <2> QED
    BY <1>2, <2>1, <2>2, <2>4, <2>5, <2>6, OneRunKeeps
<1>5. ASSUME NEW v \in Verifies, verifies' = [verifies EXCEPT ![v] = Failed], UNCHANGED injects
      PROVE  ConsoleInv'
  <2>1. /\ verifies' \in [Verifies -> VerifyRequests] /\ verifies'[v] = Failed
        /\ \A u \in Verifies \ {v} : verifies'[u] = verifies[u]
    BY <1>1, <1>5, RequestsAre DEF ConsoleTypes
  <2>2. ConsoleTypes'
    BY <1>1, <1>2, <1>5, <2>1 DEF ConsoleTypes
  <2>3. Grown
    BY <1>2, <1>3, <1>5 DEF Grown
  <2>4. ResumeTrue(Failed, services', injects')
    BY RequestsAre DEF ResumeTrue
  <2>5. ResumeInv'
    BY <2>1, <2>3, <2>4, OthersResume
  <2>6. DifferenceInv' /\ RunInv'
    BY <1>1, <1>2, <1>5 DEF DifferenceInv, RunInv
  <2> QED
    BY <2>2, <2>5, <2>6 DEF ConsoleInv
<1> QED
  BY <1>4, <1>5 DEF StepRaises

\* The process dies: what was durable is as it was, and nobody is being served.
LEMMA ProcessDiesKeeps ==
  ASSUME ConsoleInv, ProcessDies PROVE ConsoleInv'
<1>1. ConsoleTypes /\ DifferenceInv /\ RunInv /\ ResumeInv
  BY DEF ConsoleInv
<1>2. /\ services' = [w \in Injections |-> IF w \in Durable THEN services[w] ELSE Nothing]
      /\ sessions' = [w \in Injections |-> IF w \in Durable THEN sessions[w] ELSE Nothing]
      /\ runs' = [w \in Injections |-> Nothing]
      /\ injects' = [w \in Injections |-> IF injects[w].at = "RUN" THEN Failed ELSE injects[w]]
      /\ verifies' = [v \in Verifies |->
                        IF verifies[v].at \in {"RUN", "EVENT"} THEN Failed ELSE verifies[v]]
  BY DEF ProcessDies
<1>3. ConsoleTypes'
  <2>1. services' \in [Injections -> Services \union {Nothing}]
    BY <1>1, <1>2 DEF ConsoleTypes
  <2>2. sessions' \in [Injections -> Sessions \union {Nothing}]
    BY <1>1, <1>2 DEF ConsoleTypes
  <2>3. runs' \in [Injections -> Injections \union {Nothing}]
    BY <1>2
  <2>4. injects' \in [Injections -> InjectRequests]
    BY <1>1, <1>2, RequestsAre DEF ConsoleTypes
  <2>5. verifies' \in [Verifies -> VerifyRequests]
    BY <1>1, <1>2, RequestsAre DEF ConsoleTypes
  <2> QED
    BY <2>1, <2>2, <2>3, <2>4, <2>5 DEF ConsoleTypes
<1>4. ResumeInv'
  <2> SUFFICES ASSUME NEW v \in Verifies PROVE ResumeTrue(verifies'[v], services', injects')
    BY DEF ResumeInv
  <2>1. verifies'[v].at \notin {"RUN", "EVENT"}
    BY <1>2, RequestsAre
  <2> QED
    BY <2>1 DEF ResumeTrue
<1>5. ASSUME NEW w \in Injections
      PROVE  /\ services'[w] # Nothing => services'[w] = services[w] /\ sessions'[w] = sessions[w]
             /\ services'[w] # Nothing => w \in Durable
             /\ injects'[w].at # "RUN" /\ runs'[w] = Nothing
             /\ injects'[w].at \in {"IDLE", "ANSWERED"} => injects'[w] = injects[w]
  BY <1>2, RequestsAre
<1>6. DifferenceInv'
  <2> SUFFICES ASSUME NEW w \in Injections, services'[w] # Nothing
               PROVE  \E i \in Ingestions : services'[w].change = i.change /\ services'[w].store = i.store
    BY DEF DifferenceInv
  <2>1. services'[w] = services[w]
    BY <1>5
  <2> QED
    BY <1>1, <2>1 DEF DifferenceInv
<1>7. RunInv'
  <2> SUFFICES ASSUME NEW w \in Injections
               PROVE  /\ services'[w] # Nothing => OrderTrue(services'[w], sessions'[w], w)
                      /\ StartTrue(services'[w], sessions'[w], w, injects'[w])
                      /\ PauseTrue(services'[w], sessions'[w], runs'[w], w, injects'[w])
                      /\ injects'[w].at = "IDLE" => sessions'[w] = Nothing
    BY DEF RunInv
  <2>1. services'[w] # Nothing => OrderTrue(services'[w], sessions'[w], w)
    BY <1>1, <1>5 DEF RunInv
  <2>2. StartTrue(services'[w], sessions'[w], w, injects'[w])
    BY <1>5 DEF StartTrue
  <2>3. PauseTrue(services'[w], sessions'[w], runs'[w], w, injects'[w])
    <3> SUFFICES ASSUME injects'[w].at = "ANSWERED", services'[w] # Nothing
                 PROVE  PauseTrue(services'[w], sessions'[w], runs'[w], w, injects'[w])
      BY DEF PauseTrue
    <3>1. services'[w] = services[w] /\ sessions'[w] = sessions[w] /\ injects'[w] = injects[w]
          /\ w \in Durable /\ runs'[w] = Nothing
      BY <1>5
    <3>2. PauseTrue(services[w], sessions[w], runs[w], w, injects[w])
      BY <1>1 DEF RunInv
    <3> QED
      BY <3>1, <3>2 DEF PauseTrue
  <2>4. injects'[w].at = "IDLE" => sessions'[w] = Nothing
    <3>1. injects'[w].at = "IDLE" => sessions[w] = Nothing
      BY <1>1, <1>5 DEF RunInv
    <3> QED
      BY <1>2, <3>1
  <2> QED
    BY <2>1, <2>2, <2>3, <2>4
<1> QED
  BY <1>3, <1>4, <1>6, <1>7 DEF ConsoleInv

-----------------------------------------------------------------------------
LEMMA ConsoleStarts == ConsoleInit => ConsoleInv
<1> SUFFICES ASSUME ConsoleInit PROVE ConsoleInv
  OBVIOUS
<1>1. /\ services = [w \in Injections |-> Nothing] /\ runs = [w \in Injections |-> Nothing]
      /\ sessions = [w \in Injections |-> Nothing] /\ injects = [w \in Injections |-> Idle]
      /\ verifies = [v \in Verifies |-> Idle]
  BY DEF ConsoleInit
<1>2. ConsoleTypes
  BY <1>1, RequestsAre DEF ConsoleTypes
<1>3. DifferenceInv
  BY <1>1 DEF DifferenceInv
<1>4. RunInv
  BY <1>1, RequestsAre DEF RunInv, StartTrue, PauseTrue
<1>5. ResumeInv
  BY <1>1, RequestsAre DEF ResumeInv, ResumeTrue
<1> QED
  BY <1>2, <1>3, <1>4, <1>5 DEF ConsoleInv

LEMMA ConsoleSteps == ConsoleInv /\ [ConsoleNext]_consoleVars => ConsoleInv'
<1> SUFFICES ASSUME ConsoleInv, [ConsoleNext]_consoleVars PROVE ConsoleInv'
  OBVIOUS
<1>1. ASSUME NEW w \in Injections, RefuseInjection(w) \/ Inject(w) \/ Start(w) PROVE ConsoleInv'
  BY <1>1, RefuseInjectionKeeps, InjectKeeps, StartStepKeeps, PauseKeeps DEF Start
<1>2. ASSUME NEW v \in Verifies, NEW w \in Injections, Verify(v, w) PROVE ConsoleInv'
  BY <1>2, VerifyKeeps
<1>3. ASSUME NEW v \in Verifies, Continue(v) PROVE ConsoleInv'
  BY <1>3, ResumeStepKeeps, ResumeEventKeeps, AskAndAnswerKeeps DEF Continue
<1>4. CASE StepRaises
  BY <1>4, StepRaisesKeeps
<1>5. CASE ProcessDies
  BY <1>5, ProcessDiesKeeps
<1>6. CASE UNCHANGED consoleVars
  BY <1>6 DEF consoleVars, console, ConsoleInv, ConsoleTypes, DifferenceInv, RunInv, ResumeInv
<1> QED
  BY <1>1, <1>2, <1>3, <1>4, <1>5, <1>6 DEF ConsoleNext

\* Through photographs, failing steps and deaths of the process, the calls a session
\* counted, the events its ADK session stored, the invocation its run holds and the
\* requests in flight agree (hero_workflow.py, firestore_session.py, cli_verify).
THEOREM ConsoleInvariant == ConsoleSpec => []ConsoleInv
<1> QED
  BY ConsoleStarts, ConsoleSteps, PTL DEF ConsoleSpec

\* Whatever fixtures clients send, in directories of any size, a registered workflow
\* deploys the one difference of two versions that its store holds
\* (dataset_from_fixture, SourceChangeIngestion).
THEOREM DeploysTheDifference == ConsoleSpec => []ChangeIsTheDifference
<1>1. ConsoleInv => ChangeIsTheDifference
  BY IngestTells DEF ConsoleInv, DifferenceInv, ChangeIsTheDifference
<1> QED
  BY <1>1, ConsoleInvariant, PTL

\* Steps 1 to 7 run once and in order, and a run its client was told of resumes
\* where it paused, in whatever process (HeroWorkflowRun start, recover, resume).
THEOREM RunsOnce == ConsoleSpec => []PausedRunsOnce
<1>1. ConsoleInv => PausedRunsOnce
  <2> SUFFICES ASSUME ConsoleInv, NEW w \in Injections, services[w] # Nothing
               PROVE  LET ran == services[w].ran
                      IN /\ \A i \in 1..(AwaitStep - 1) : ran[SubAgents[i]] <= 1
                         /\ \A i \in 2..Len(SubAgents) :
                              ran[SubAgents[i]] > 0 => ran[SubAgents[i - 1]] > 0
                         /\ injects[w].at = "ANSWERED" =>
                              ResumePoint(sessions[w], Recover(w)) >= AwaitStep
    BY DEF PausedRunsOnce
  <2>1. /\ ConsoleTypes /\ OrderTrue(services[w], sessions[w], w)
        /\ PauseTrue(services[w], sessions[w], runs[w], w, injects[w])
    BY DEF ConsoleInv, RunInv
  <2>2. ASSUME injects[w].at = "ANSWERED"
        PROVE  ResumePoint(sessions[w], Recover(w)) >= AwaitStep
    <3>1. /\ sessions[w] # Nothing
          /\ \A i \in 1..(AwaitStep - 1) : SubAgents[i] \in Done(sessions[w], w)
          /\ runs[w] = w \/ (runs[w] = Nothing /\ w \in Durable)
          /\ w \in Durable => sessions[w].invocation = w
      BY <2>1, <2>2 DEF PauseTrue
    <3>2. sessions[w] \in Sessions
      BY <2>1, <3>1 DEF ConsoleTypes
    <3>3. Recover(w) = w
      BY <3>1, NothingIsApart DEF Recover, CreateSession
    <3> QED
      BY <3>1, <3>2, <3>3, ResumesAtFirst
  <2> QED
    BY <2>1, <2>2, AgentsAre DEF OrderTrue
<1> QED
  BY <1>1, ConsoleInvariant, PTL
=============================================================================
