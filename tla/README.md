# Formal model of driftzero

driftzero deploys one approved procedural change into the physical world. A change
event is interpreted by a language model; deterministic code (the "Truth Engine")
decides which downstream artifact it affects; a scoped tool mutates that artifact; the
operational delta is delivered to a frontline worker; a photo of the work is judged
against the approved value; and an immutable Change Proof is written only if seven
conditions hold. Models propose, the deterministic code decides. This directory models
that deterministic code and what surrounds it (threads, retries, durability, crashes, the
public front) in TLA+, checks it with TLC and proves its central properties with TLAPS.

Contents: [inventory](#inventory), [modules](#modules), [what is checked](#what-is-checked),
[bounds](#bounds), [fairness](#fairness), [what is proved](#what-is-proved),
[where the code and its documents differ](#where-the-code-and-its-documents-differ),
[what is not modelled](#what-is-not-modelled), [plan](#plan).

## Inventory

Paths are under `src/` of the package (`driftzero`, `driftzero_console`,
`driftzero_cloud`, `driftzero_api`, `driftzero_adk`, `driftzero_public`, `driftzero_providers`).

| Component | State | Operations | Hard behaviour | What makes it correct | Modelled by |
|---|---|---|---|---|---|
| State machine: `truth_engine/state_machine.py`, `models/workflow.py` | one of 13 states | `transition`, `can_transition` | - | terminal states have no exit; the gate only supersession and failure | `WorkflowStates` |
| Source versions: `sources/registry.py`, `console/workflows.py` | versions of procedures, append-only | `register`, `ingest_source_change`, fixtures | versions that differ in nothing, or in too much | a change is the one difference of two held versions | `SourceChange` |
| Application service: `driftzero_console/service.py` over `truth_engine/`, `agents/` | one session: workflow, ledger, artifacts, channel, evidence, events, proof | `analyze_change`, `deploy_change`, `deliver_to_frontline`, `submit_field_evidence`, `generate_proof` | every use case at any time, in any order, any number of times | the proof tells the truth about artifact, receipt and verdict, for good | `HeroService`, `ChangeLifecycle` |
| Pages: `get_state`, `get_frontline` and the `_*_view` methods of `service.py`, worker's route of `app.py`, `static/app.js` | panels stored in the session, acknowledgment, an upload under way | every request, refused and repeated ones too; acknowledge; new session | panels of different moments on one page; a session replaced under an upload | no page says more than the session has established | `MissionControl` |
| Change analysis: `retry.py`, `agents/change_intel.py`, `driftzero_adk/change_intel_runtime.py`, `orchestration.py`, `truth_engine/{validation,impact}.py` | retry budget, failure memory, proposal, decision | request, answer, classify, retry or repair, Crossing 1, qualification | late answers, mixed failure classes, proposals that disagree with the change | a bounded spend; a target only from what the catalog says | `SemanticCall`, `ChangeAnalysis` |
| Autonomy gate, supersession, divergence: `truth_engine/{autonomy_gate,supersession,divergence}.py` | none: pure rules | `evaluate_autonomy`, `evaluate_divergence`, `should_supersede` | a target missing, stated twice or in another conflict | the write let through makes the artifact conform | `AutonomyGate` |
| Mutation tool and ledger: `tools/artifact_mutation.py`, `truth_engine/actions.py` | action records, artifact content | the tool call, `mark_*`, `decide_retry`, `reconcile_mutation` | concurrent and crashing callers, no lock between a check and what it guards, unknown write outcomes, other writers | one effect; evidence is never fabricated | `ArtifactMutation`, `AtMostOnceEffect` |
| Crossings 2 and 3, delta and delivery: `orchestration.py`, `agents/enablement.py`, `delivery/local_channel.py` | receipts, verdicts, delta | compose, dispatch, reconcile, cross | requests on several threads over one session without a lock, the mutation tool included; another writer | nothing counts as accepted or delivered that record and receipt do not bear out | `FrontlineDelivery` |
| Field observation: `agents/field_verify.py`, `agents/orchestrator.py`, `field/evidence.py`, `driftzero_providers/`, Crossing 4 | evidence per image, known submissions, events, two documents | accept bytes, replay, call, normalise, cross, adjudicate, flush | a failing or late model, a torn flush, resubmission after a resume | a verdict rests on an answer for that image; an image is judged once | `FieldObservation` |
| Proof store and generation: `truth_engine/{proof_generator,evidence}.py`, `proof/store.py` | proof in memory, proof document | manifest, conditions, record, validate | racing requests, uploads meanwhile, a store that raises, a resume | complete means proven; the proof tells the truth | `ChangeProof`, `HeroService` |
| Durable session: `_persist`/`_persists`, `driftzero_cloud/{composition,resume_snapshot,firestore,serialization}.py`, `ApiRuntime.resume` | workflow, action, snapshot and proof documents; revisions | flush (one write per document), resume | death between two documents of a flush, raising store calls, repeated requests | what was answered is stored; what is stored never goes back | `DurableSession` |
| Resume leases: `driftzero_cloud/leases.py` | one document per workflow | `acquire`, `release` | contending, crashing holders; separate read, write, delete; expiry | one live holder; no permanent lockout | `ResumeLeases` |
| Change ingestion: `driftzero_api/{runtime,pubsub,routes}.py`, `driftzero_cloud/firestore.py` | claim, workflow and input documents; a cache and registry per instance | push endpoint, `POST /changes`, `accept_change` | at-least-once delivery, dead-lettering, several instances between any two store calls | one workflow per change; success is only answered when durable | `ChangeIngestion` |
| Console runs: `driftzero_console/{app,workflows}.py`, `driftzero_adk/{hero_workflow,firestore_session}.py` | registry, ADK sessions with events, runs | inject, start, pause, recover, resume, verify | death between the pause and its record, two photographs at once | a paused run repeats nothing; a photograph that passes gets its proof | `ConsoleRun` |
| Public front: `driftzero_public/` | signed links in the browsers; nothing stored | `/live` routes over the private API | timeouts while the backend goes on, two tabs, expired links, restarts | every page is true; a link means a delivered delta | `PublicPilot` |
| Media output, Cloud Storage objects, configuration, telemetry, command line, scripts | see below | | | | not modelled |

How they interact. Pub/Sub or HTTP hands a change to the **ingestion**, which builds a
workflow with its **service** and stores the documents that a **resume** on another
instance needs. The **console**, the API's drive routes, the ADK run and the scripts all
call the same five use cases. `analyze_change` runs the **analysis**; `deploy_change` runs
the **mutation tool** under a grant made out for this request and passes Crossing 2;
`deliver_to_frontline` dispatches through the channel and passes Crossing 3;
`submit_field_evidence` runs the **field observation**; `generate_proof` evaluates the
seven conditions. Every use case ends in a flush through the **durable sink**; the
**lease** is taken around a resume only. The **public front** reaches all of it through
the API alone.

Three facts shape the models. The drive and proof routes are synchronous, so a web server
runs them on a pool of threads, and no code locks a service. The upload routes are
coroutines that do not yield while they judge, so a process has one submission at a time.
And Firestore is called one document at a time, with no transaction, so that a flush or an
acceptance can end in the middle.

`PROJECT.json` lists the hazards that follow from this under `hazards`, each at its line,
with the properties that would catch it or the reason why none does.

## Modules

`WorkflowStates` holds the states and the transition table that the other modules share.

**`HeroService`**: one action is one call of a use case that changes authoritative state.
`wf` is the workflow state with its history, `affected`/`impact` the qualified target,
`remediation`/`content`/`revision` the ledger and the repository per artifact,
`evidence`/`delta` what remediation left, `deliveryAction`/`dispatches`/`receiptRef` the
delivery, `fieldStore`/`calls`/`events` the field evidence, `proof` the proof. Advancing is
guarded as `_advance` is: a transition that the table does not allow is skipped, not raised.
Calls that are refused or replayed leave these variables alone. **`ChangeLifecycle`** is what
the service promises: remediations that are never repeated, a single delivery, verdicts that
end with a PASS, a proof that needs all three; `ImplementsLifecycle` is the refinement.

**`MissionControl`** extends `HeroService` by what is shown of it: `intel`, `delivery`, `field`,
`verdict`, `proofPanel` are the projections the use cases store, the operators `*View`,
`CapabilityStatus` and `Headline` what `get_state` and `app.js` derive from these and from the
live state. A request is one action, and refused and repeated ones count here, since they change
panels. The worker's upload is two steps, around the `await` of its route; `StartNewSession`
may fall between them.

**`ArtifactMutation`** opens the tool of one action up into the points at which a caller
touches the shared ledger or repository. Nothing locks either, so a check and the assignment
it guards are two steps: `PlanCheck` and `PlanSet` of the ledger, `CompareHolds` and `WriteLands` of
the repository. Callers interleave at these points and may die at each; other writers may change
the artifact. `races` remembers the windows two callers have been in together ("planning",
"writing"), `drifted` what other writers have set. **`AtMostOnceEffect`** is its promise: an
effect is announced first, happens once, and claims of it are earned. It counts effects, so a
second one is a step of its own, and the only steps of that kind it has are after another
writer restored the replaced value or after a race for the write.

**`FrontlineDelivery`** has two request threads on one session: `pc` is where each is,
`claim` what it has in hand, `known` whether it found the action on record. Its steps are the
points where `deploy_change` and `deliver_to_frontline` read or write what the threads share,
those of the mutation tool among them: a thread past the retry decision marks, writes and
completes the record after what others did to it. `overlapped` remembers that two deployments
were past the decision at once. `clock` orders compositions and dispatches, which is all that
Crossing 3 does with the times.

**`FieldObservation`** goes from the bytes of an image to a verdict, attempt by attempt
under `SemanticCall`, with the two documents of the flush as two steps, `torn` between them.
Size and container of the bytes are the inputs of `Rejection`. The delivery that opens the
workflow for evidence is one step, and other requests on other threads are left to `ChangeProof`.

**`ChangeProof`** takes `generate_proof` apart at every statement where the session may have
changed meanwhile: the manifest is assembled from what is read first, the context from what
is read next, the copy of the workflow is made and then assigned. `upload` is the one
submission that runs at the same time, `doc` and `proofDoc` what is stored. Each process numbers
its receipts from 1 on, so a delivery repeated by a resumed one mostly gives the same receipt;
since racing requests may dispatch twice, `Deliver` keeps any number up to `MaxDispatches`.

**`DurableSession`** reduces a use case to its in-memory effect and the job it leaves
(`todo`): transitions each followed by a flush, the composition, the proof document, the
final flush. `writing` walks through the documents of one flush; `basis` is what the sink
knows of the revision. A proof is the record of its events, its receipt and the history it was
made from (`ProofOf`): history and receipt are restored with the snapshot, a resumed process
numbers its one receipt as the one before it did, and the completion time is the event's, so a
proof made again after a death is the stored one. Where it is not, because a PASS had not been
flushed when a store call raised, `ProofConflict` is the code's ConflictingRecord. `mode` fixes the disturbances of a behaviour: `CRASHES`; `FAULTS`
(store calls that raise as well, perhaps after taking effect); `OVERLAP` (a resume while
another instance is live).

**`ResumeLeases`** has one action per Firestore call of `acquire` and `release`. Time is the
set of tokens that have expired; a process judges expiry by the clock it read first.

**`ChangeIngestion`** has one action per store call of an acceptance on each instance, with
the transport, the refusals of envelopes and fixtures, crashes and failing calls, the claim call
that raises behind the filled cache included (`unclaimed` remembers its change). A message is
a count of deliveries and a fate, not a queue: order carries no meaning here.

**`SemanticCall`** is the retry policy (`run_semantic_call`), used for both models.
**`ChangeAnalysis`** is one analysis from the first request to the decision. **`AutonomyGate`**
has the rules that no use case calls, as operators; two `ASSUME`s of `MCChangeAnalysis`
evaluate their promises on every artifact, source and change over a small domain.

**`SourceChange`** derives a change from documents, and **`ConsoleRun`** extends it with the
registry, the injections and the ADK runs. Values are nonempty: an empty one makes a single difference no change, just as an
absent one does. What the ADK does between two steps is external: a
resumed invocation goes on with its first step that has no event.

**`PublicPilot`** has a handler per tab, which makes one call after another; a call is sent,
performed and answered in separate steps, so that the backend may go on with a call nobody
waits for. `LoopFree` is the front's event loop, which an upload stops.

`MC*` modules hold the instances for TLC, `*Proofs` modules the theorems. Definitions marked
`MUTANT` are plausible bugs of the definition they precede; only the test of a property uses
them. `PROJECT.json` maps every definition to the lines it stands for.

## What is checked

Runs that pass. Each property has, in `PROJECT.json`, a mutant of the code that violates it.

| Run | Distinct states | What it shows |
|---|---|---|
| `hero_service` | 40,596 | However the five use cases are ordered and repeated: a proof tells the truth about artifact, receipt and event (`ProofSound`) and is there exactly in PROOF_COMPLETE (`ProofIffComplete`); ledger, repository and evidence agree (`LedgerMatchesRepository`); nothing is judged before its delivery (`NoVerdictBeforeDelivery`); the service implements `ChangeLifecycle` (`ImplementsLifecycle`). |
| `page` | 896,464 | With every request, refused, repeated and late ones included: the headline names only what was reached, and a proved change and no other is shown complete, whatever is requested later (`HeadlineTellsTruth`); panels of different moments agree with each other and with the records, and the worker's page is open exactly on an accepted receipt (`PanelsAgree`). |
| `mutation` | 2,265,175 | Concurrent, dying, retrying callers with every check a step apart from its assignment, every fault and other writers: one write unless two callers were between comparison and assignment together (`AtMostOneWrite`), evidence only of the own write (`EvidenceOfOwnWrite`), and the tool implements `AtMostOnceEffect`, effects counted (`ImplementsAtMostOnce`). |
| `leases` | 26,943 | While nothing expires and no resume fails there is one live holder (`OneLiveHolder`); a lease left behind by a dead holder does not lock the workflow (`NoLockout`, liveness). |
| `ingest` | 331,926 | All answers for a change name one workflow (`AcceptedOnce`), which is durable when it is named (`AnsweredIsDurable`); duplicates can always be resolved (`DuplicatesResolve`); every message settles the right way (`Settles`, liveness). |
| `durable` | 537,065 | With deaths between any two documents: what was answered is stored, proofs made again included (`AnsweredIsStored`), and a stored proof is borne out by the other documents (`ProofBacked`); also when store calls raise: what is stored never goes back (`NeverRegresses`) and a resume costs at most one more delivery (`RedeliveryBounded`). |
| `analysis` | 132,450 | The budget holds for every mix of failures and late answers (`SpendBounded`); a target is justified by the catalog, a review by a reason (`DecisionJustified`); there is always a decision (`Concludes`, liveness). Its module also evaluates the promises of `AutonomyGate`. |
| `pilot` | 1,669,934 | Every page stays true however old it is (`PagesTellTruth`); a link means a delivered delta (`LinkMeansDelivered`); a run is analysed once through timeouts, abandoned calls and restarts (`AnalysedOnce`). |
| `frontline` | 1,837,545 | With requests on two threads: what counts as delivered has a receipt that says DELIVERED (`DeliveryIsReceipted`); accepted evidence is and stays what the ledger records (`AcceptedIsRecorded`) and was true of the artifact when it was accepted (`AcceptedHolds`); the receipt is for the delta the session holds (`DeliveredIsTheDelta`). |
| `field` | 3,179,149 | A verdict rests on an answer for that image (`VerdictIsObserved`); an image is judged once per torn flush and once more (`JudgedOncePerTear`); the two chronologies and the state agree (`ChronologyAgrees`); stored history is never rewritten (`DurableHistoryIsAppendOnly`). |
| `proof` | 461,704 | With racing requests and uploads: a proof lists every attempt up to its PASS, names one receipt and never the review gate (`ProofTellsTruth`); complete means proven, and the validator agrees until a later verdict (`CompleteIsProven`); racers do not all give up (`RacersComplete`, liveness). |
| `console` | 387,710 | A registered change is the difference of two held versions (`ChangeIsTheDifference`); a paused run repeats no step, whichever process resumes it (`PausedRunsOnce`); a photograph that passes gets its proof (`PassIsProven`, liveness). |

Where the code does not do what a document, comment or docstring says is the subject of
[a section of its own](#where-the-code-and-its-documents-differ).

`TypeOK` of a module with proofs is a theorem and not an invariant of its run.
Deadlock is checked for `hero_service`, `page`, `leases` and `pilot`. The other `.cfg` files have
`CHECK_DEADLOCK FALSE` with the reason: a bounded instance really stops when its requests, calls
or resumes are used up, or when a workflow is complete or under review.

### Properties with a condition

- `AtMostOneWrite` and `EvidenceOfOwnWrite` depend on what *other* writers set (`drifted`). The
  repository's write is a compare-and-set on the replaced value, so a writer who restores that
  value re-arms it; and reconciliation recognises an own write by the approved value, so a
  writer who sets it is mistaken for the tool.
- `AtMostOneWrite` also excepts callers that were between comparison and assignment together
  (`races`), since nothing makes the two one. `ImplementsAtMostOnce` has the exceptions as steps
  of the abstract specification, and one more: two callers that create the record together may
  have it forgotten that the action was dispatched.
- `AcceptedIsRecorded` and `DeliveredIsTheDelta` except sessions in which two deployments were
  past the retry decision at once (`overlapped`).
- `OneLiveHolder` speaks of `calm` behaviours, without expiry and without a resume that fails.
- `AcceptedOnce`, and of `AnsweredIsDurable` the part about the claim, except the changes whose
  claim call raised behind the cache it had filled (`unclaimed`).
- `AnsweredIsStored` and `ProofBacked` are about the mode `CRASHES`, `NeverRegresses` and
  `RedeliveryBounded` about the modes in which one instance at a time is live.
- `JudgedOncePerTear` counts `tears`: flushes that died between the workflow document and the
  snapshot. `ChronologyAgrees` is about sessions whose flushes were not torn.
- `CompleteIsProven` promises a validator that agrees only as long as no racing submission
  adds a verdict after the proof.
- `RacersComplete` and `PassIsProven` except behaviours with a death or a failing store call.

What each of these conditions excludes is behaviour the code has, and is described below.

## Bounds

| Run | Bound | Why it is enough |
|---|---|---|
| `hero_service` | artifacts `p`, `q` (qualify), `d` (drifted), `x` (out of scope); 3 images; `MaxDispatches` 2; `MaxCalls` 2 | Each kind of artifact, the qualifying kind twice so that a second analysis can re-target; three images reopen a workflow twice; a second dispatch after a lost one; a second call for an image whose first one failed. All four dispatch outcomes. |
| `page` | 2 sessions, artifacts `p` (qualifies) and `d` (drifted), 2 images, `MaxDispatches` 2, `MaxCalls` 2 | A session that replaces another; a refused remediation; an image that decides and one that is judged again, comes too late or is refused by the store; a lost, a landed and a rejected dispatch before the one that counts. |
| `mutation` | 3 callers, `MaxCalls` 4, `MaxDrifts` 2 | Two racing callers and one that comes late; a fourth call retries after a return or a death; two drifts disturb a value and restore it. |
| `leases` | 2 instances, 3 tokens, `MaxCrashes` 2 | Tokens out of use are reused, so runs are not bounded; a token in the document and one per instance is the most in use. |
| `ingest` | 2 instances, a good and a refused change, 3 workflow ids, `MaxDeliveries` 3, `MaxSubmissions` 1, `MaxFailures` 1 | One failure can cost two concurrent handlers of a message an attempt each (one fails, the other meets the conflict), and the third attempt must succeed. |
| `durable` | 2 instances, `MaxResumes` 2, `MaxEvents` 2, `MaxFaults` 1 | A resume of a resumed workflow; a verdict reopened before or after a resume; one raising store call at every place. |
| `analysis` | 3 attempts, one repair, artifacts `p`, `q`, a stranger, at most two candidates; catalogs in which each artifact meets all conditions or all but one | The budget configured in the code; each condition missing alone; a duplicate, a stranger, two qualified candidates. The gate rules: two requirements with three values each. |
| `pilot` | 2 tabs, 1 run, 2 photographs, `MaxAbandoned` 1, a key that a restart loses | Two tabs interleave all calls of a run; one abandoned call overtakes or follows the retry; a FAIL and then a PASS. Runs do not share anything, so one is enough; with two the space is out of reach. |
| `frontline` | 2 threads, `MaxRequests` 4, `MaxReceipts` 3, `MaxDrifts` 2 | Each thread deploys and delivers, overtaking the other at any step; the third receipt is the repeat after a lost and a rejected one; a drift between the tool and Crossing 2, and one that restores the value. |
| `field` | 2 images, 7 of the endpoint's answers, 3 provider states, 2 attempts, `MaxSubmissions` 4, `MaxResumes` 2, `MaxFaults` 1 | A failed and a good submission of each image; a resume after a torn flush and another one; each class of answer (value, wrong value, inconclusive, free form, late, timed out, refused). |
| `proof` | 2 requests at a time, `MaxRequests` 2, `MaxEvents` 2, `MaxDispatches` 2, `MaxCrashes` 1, `MaxFaults` 1 | Two racers, a verdict slipped in between, a receipt that a repeated delivery changes or keeps, one death at every place. |
| `console` | 2 workflows of which one has a durable run, 2 photographs, requirements `position` and `count`, one death, one failing step | A repeat of the request, the resume raced by the second photograph, and versions that differ in one place, in two or in none. |

Interchangeable instances, images, threads, callers and tabs are symmetric where no liveness is
checked. All bounds are constants that the guards of the modules name.

## Fairness

- `leases`: requests to resume keep coming (`Begin`), an instance that does not crash finishes
  the call it is in, and the clock moves on (`Expire`).
- `ingest`: Pub/Sub redelivers a message until it is acked or its budget is used up (strong
  fairness of `Deliver`, which is disabled while a delivery is under way), a spent message
  reaches the dead-letter topic, and an instance finishes the request it handles.
- `analysis`: weak fairness of the next step. `run_semantic_call` bounds every attempt by a
  deadline, so that no attempt hangs and `Late` is always possible; the decision is plain code.
- `proof`: weak fairness of a running request (`Serve`) and of the adjudication (`Judge`): the
  thread pool and the event loop go on with what they have begun. Nobody needs to begin.
- `console`: weak fairness of a photograph's handler (`Continue`).

Crashes, failing calls and requests by people are never fair, except for the requests of
`leases`. The other runs use none. `pilot` states no liveness: the backend need
not answer at all, and the graph is too large for such a check.

## What is proved

`tlapm` checks the theorems of eight modules: every invariant that a run checks, every action
property, and both refinements, for every value of the constants that satisfies the named
assumptions (`CatalogAssumption`, `MutationAssumption`, ...: constants have their kinds,
`None` and `Nothing` are none of the values they are told from, the callers of the tool and
the requirement ids of a procedure are finitely many, a fixture's lists are lists). TLC
evaluates each of them on the run of its module. Where an invariant is not inductive alone,
this is what strengthens it:

**`HeroServiceProofs`**: `TypeCorrect`, `ProofIsSound`, `ProofMeansComplete`,
`LedgerIsTruthful`, `VerdictStateShowsLatest`, `DeliveryBeforeVerdict`, `FinalStatesAreFinal`,
`ObservationIsFreeAndKept`, `ImagesAreJudgedOnce`. That a proof is true of its artifact rests
on the ledger agreeing with the repository, that its receipt exists on the delivery, that its
event is the last on the state: `IInv` conjoins `TypeOK`, `StateInv` (which states are visited
and that the gate is never left), `LedgerInv`, `DeliveryInv`, `VerdictStateIsLatest` and
`CompletionInv`; `JudgedInv` says what the image store knows of every event. The lemmas
`*Move` say how far one call can move a workflow, so that `NextIInv` never expands the state
machine. `ServiceImplementsLifecycle` is the refinement of `ChangeLifecycle`: by `IInv` and
`RemediationInv` (a delta is there once something was remediated) each call is one of its
steps or a stutter (`CallRefines`).

The same module has the theorems of `MissionControl`: `PageInvariant`, `HeadlineIsTrue`,
`PanelsNeverDisagree`. `IInv` holds of whichever session is on show, since a request is a call,
none, or a new session; `PageInv` adds how far each stored panel can be trusted although it is
older than the session: a verdict on show is the latest event's unless the panel says that
nothing was adjudicated (`VerdictPanelInv`), the field panel repeats the verdict panel
(`FieldPanelInv`), a refusal never outlives a proof (`ProofPanelInv`).

**`ArtifactMutationProofs`**: `TypeCorrect`, `EffectOnRecord`, `OneWrite`, `EvidenceIsEarned`,
`ToolImplementsAtMostOnce`, for any number of callers and any other writers. `AloneInv`: as long
as no race is remembered, one caller at most is in the window. `RecordInv`: a caller past the
mark has a dispatched record unless the record was created twice. `OnceInv`: after a write the
value cannot match again, and nobody has compared it before, unless somebody restored it or
raced. `EvidenceInv`: a caller about to claim has written or has read the approved value. Each
action is then a step of `AtMostOnceEffect` or a stutter, a second write being the step that the
two exceptions allow.

**`ChangeProofProofs`**: `ProofInvariant`, `ProofsTellTruth`, `OnlyProvenIsComplete`, for any
number of racing requests, uploads, deaths, deliveries of a process and failing stores. Nothing keeps a
request from going on with what others have replaced since. `ProofInv` says why that is
harmless: what a thread has read of the events is a prefix of them (`RequestOK`), a copy of the
workflow that it will write back lacks neither target nor delivery if the session has them
(`Fits`), an upload never carries a complete workflow (`UploadOK`), and whoever advances does so
after the document was written (`CompleteInv`).

**`ChangeIngestionProofs`**: `TypeCorrect`, `DuplicatesAlwaysResolve`, `AcceptedOnlyOnce` and
`SuccessIsDurable`, with every call of the store able to raise. `Inv` says that claims and caches
are of stored workflows built for the change, and what each request in flight has stored;
`ClaimAnswered` that what an instance remembers of a change is stored and that answers name the
claimed workflow, unless a claim call raised behind the filled cache.

The other way in, `ConsoleRun`, is proved in the same module: `ConsoleInvariant`,
`DeploysTheDifference`, `RunsOnce`, for any fixtures, workflows, photographs, deaths and failing
steps. `IngestTells` shows of every fixture, whatever the size of its directory, that what is
ingested is the one difference of two versions that can be retrieved; `DifferenceInv` that no
use case separates change and store. `ConsoleInv` relates the calls counted, the ADK's events,
the invocation that is held and the requests in flight: a starting run has made the steps before
its next one and none after (`StartTrue`), an answered injection has left its three events and a
run, or a durable session, to find them by (`PauseTrue`), and a resumed one has behind it what
precedes its step, other photographs resuming the same run or not (`ResumeTrue`).

**`ChangeAnalysisProofs`**: `TypeCorrect`, `SpendIsBounded`, `DecisionIsJustified` for any
catalog, number of candidates and budget (the recursion of the retry loop is state here, so
no induction is needed); `GateWriteConforms`, `GateAllowsRetry` and `SupersessionEnds` for any
artifact, source and change, where the run has a small domain.

And, for the pages on which a visitor follows such an analysis, those of `PublicPilot`:
`PilotInvariant`, `PagesStayTrue`, `LinksMeanDelivered`, `NoSecondAnalysis`, for any tabs, runs,
photographs, abandoned calls and restarts. The backend takes back no delivery, proof or attempt
(`Onward`), so that pages, links and answers under way stay true (`FrontInv`) if they were true
when given; each answer is to the call its handler waits for (`AwaitInv`); and the right to have a
run analysed is in one place at a time: the call that creates it, the handler that is answered, the
call that spends it (`SpendingInv`), which is why a timeout cannot double it.

**`DurableSessionProofs`**: `TypeCorrect`, `DeliveriesAreBounded` (from `AloneInv`: at most one
instance is live), `AnswersAreStored` and `StoredProofIsBacked` (from `CrashInv`, which says
of each point of each flush which documents are already the session's, and `NumberedInv`: a
process whose ledger has no delivery has dispatched none, so that each numbers its receipt alike), `StoreMovesForward`
(from `ForwardInv`: what an instance holds is never behind what is stored). The leases that guard
a resume are proved beside it: `LeaseTypeCorrect`, `SingleHolder`, for any number of instances.
`HolderInv`: in calm behaviours the holder's token is the document's, and the create call lets in
one.

**`FrontlineDeliveryProofs`**: `TypeCorrect`, `DeliveryAlwaysReceipted` (`ReceiptInv` follows a
receipt from the channel through the thread that carries it to the ledger),
`AcceptedStaysRecorded` (`RecordInv`: without an overlap one deployment at most is past the
decision, what it has in hand is what the record says, and a completed record is left alone),
`AcceptanceIsCurrent`, `DeliveryIsOfTheDelta` (`DeltaInv`: the delta is composed by a
thread that found no execution captured, and a receipt about to be recorded is for it), for any number of threads.

**`FieldObservationProofs`**: `TypeCorrect`, `VerdictsAreObserved` (`ObservedInv`: an observation
in the store was answered for its image), `HistoryIsAppendOnly` (`AheadInv`: memory extends what
is stored), `ChronologiesAgree` (`AgreeInv`, `KnownInv`: what was judged is known) and
`JudgedOnce` (`OnceInv`).

Only model-checked: liveness under fairness (`NoLockout`, `Settles`, `Concludes`,
`RacersComplete`, `PassIsProven`), which is beyond the prover. Nor does TLAPS reason about
`ENABLED`, do induction over data or expand `RECURSIVE` operators; nothing proved here needs the
first two, and no module declares one of the last. What would be recursions over a list, the
search for the first section or the last document of `SourceChange`, is stated by the least or the
greatest index instead; `SpendBounded` counts attempts in the state.

The invariants of `ChangeProof`, `PublicPilot`, `ConsoleRun` and `MissionControl` that the proofs
use (`ProofInv`, `PilotInv`, `ConsoleInv`, `PageInv`) were checked by TLC on the instances of their
runs before they were proved. They are no invariants of the runs, since the theorems say more.

## Where the code and its documents differ

The modules state sentences of the documents that the code does not keep, each under the
heading *What the documents say and the code does not keep* (or a similar one). No run
checks them; named in a run's `.cfg`, under the condition given here, TLC refutes them.

| Property | Module | What happens |
|---|---|---|
| `NoMutationUnderReview` | `HeroService` | A workflow that a second analysis sent to REVIEW_REQUIRED still deploys the target of the first: `deploy_change` asks for a target, not for the state. |
| `EligibilityIsShown` | `MissionControl` | The panel promises "eligibility whenever it can honestly be computed", but a request for the proof that was refused stays on it: when the conditions hold later, it says BLOCKED and the page keeps its button disabled. |
| `DeliveryStandsForUpload` | `MissionControl` | "delivery cannot be undone mid-request", but the worker's route awaits the body of the photograph, and a new session may replace the delivered one meanwhile. |
| `TakenOnlyWhenExpired` | `ResumeLeases` | Two instances read the same expired lease and both overwrite it; the second displaces a live one. |
| `AcceptedOnceThroughout` | `ChangeIngestion` | `_claim` fills the in-process cache before the durable claim; when that raises, a redelivery is acked as a duplicate of a workflow nobody has claimed, and another instance accepts the change again. |
| `RecordedDeliveryIsDone` (mode `CRASHES`) | `DurableSession` | A resumed service derives another delivery action id, does not find the delivery that the stored ledger records as completed, and dispatches again. `RedeliveryBounded` says how often. |
| `ResumableToProof`, `NoSilentOverwrite` (mode `OVERLAP`) | `DurableSession` | After a death between workflow document and snapshot, a workflow is VERIFICATION_PASSED without its PASS and can never be proved. A sink's first write is unconditional, so an instance that resumed while another was at work overwrites it. |
| `UnobservedIsInconclusive` | `PublicPilot` | The verify route answers with the workflow's latest verdict, whichever image was submitted. |
| `ComposedWhenAccepted` | `FrontlineDelivery` | The verdict of Crossing 2 is recorded and not consulted before the delta is composed. |
| `ShownWasAccepted` | `FieldObservation` | A replayed image is shown with the Crossing 4 verdict of another image. |
| `ServedIsStored` | `ChangeProof` | After racing requests, or a resume without an event that a stored proof counts, the document a live route serves differs from the stored one. |

Met while modelling, visible in the modules' definitions:

- A second analysis may re-target; deploying then mutates a second artifact.
- A refused remediation is recorded and does not enter review (`DeployRejected`).
- A delivery that was only reconciled is dispatched again by a repeated call (`MayDispatch`).
- Reconciliation attributes another writer's approved value to the tool (`ReconcileMutation`).
- The tool's docstring says "No path reaches the repository write more than once per action_id".
  Two callers between `apply_requirement`'s comparison and its assignment both write the approved
  value (`WriteLands`), and both can report the mutation.
- Two callers that both find no record create it twice: the second `plan` can put a PLANNED
  record over an ATTEMPTED or COMPLETED one (`PlanSet`), and the action is then repeated, or
  claimed as a NO_OP after its own write.
- A deployment that was past the retry decision marks the record another one completed as
  ATTEMPTED or FAILED_OR_UNCERTAIN, although evidence of it was accepted (`MarkAttempted`).
- `release` reads its token and deletes afterwards: it may delete another's lease (`Delete`).
- After a death between a deployment's flush and the composition of the delta, the resumed
  deployment is ALREADY_COMPLETED and composes none. Two racing deployments compose two.
- When `record_proof` raises, the in-memory store has the proof: a repeated request replays it and
  the workflow does not advance while that process lives.
- The agent's `_last_failure` outlives its attempt, so a final transient failure can be reported
  as SCHEMA_REJECTED and a repair hint can be stale; a failed attempt can make resubmissions
  cost a call and then raise.
- A proposal that names the one qualified artifact twice goes to review (`Resolve`).
- Evidence of a no-op is always rejected at Crossing 2, unless deployments overlapped, and the
  workflow proceeds.
- Racing deliveries can turn an established view into REJECTED and the ledger to
  FAILED_OR_UNCERTAIN, although a delivery stands.
- A torn flush lets an image be judged twice, with the same event sequence number.
- An image observed before the workflow awaits evidence is used up and never judged.
- `validate_proof` compares content hashes of keys that its resolution never yields, so that
  check is vacuous.
- A PASS may be appended by an upload while a request replaces `session.workflow` with its copy:
  the workflow then awaits evidence with a PASS among its events.
- A process that dies after a proof was created and before the PASS it names was flushed, because
  the flush raised, is resumed without it: the proof made of what is judged next differs, and every
  request for it ends in a ConflictingRecord. (A delivery repeated after a resume does not do
  this by itself: each process numbers its receipts anew and dispatches once.)
- `rejected_result_refs` is stored, restored and put into the manifest, and nothing adds to it.
- A paused console run is reported as awaiting field evidence also at the review gate.
- `accept_change` classifies a stripped change id and claims the one of the dataset.
- A photograph after a PASS that has no proof yet replaces the verdict panel by one without a
  result (`VerdictAfter`). The field panel's stored `deployed` stays FALSE when the proof is made.
- A replay after a rejected or failed photograph shows no observation (`Submit`), and the panel
  state EVALUATING, "a real transient", is never reached: the verdict is stored first.
- A failed analysis after a qualified one leaves the headline at IMPACT QUALIFIED, and a first
  proposal that Crossing 1 rejects leaves it at SOURCE CHANGE RECEIVED, while the workflow is at
  the review gate (`Headline`).
- Version chains that no well-formed registry produces can make the supersession relation
  cyclic.

## What is not modelled

- **Capability broker** (`capabilities.py`): a grant is made out for the request that presents it,
  bound to the session's own change, and verified against it. `revoke` has no caller in the
  package, and `run_security_test`, the only request for a grant the policy denies, records the
  denial and touches nothing else. So no state that another part depends on remains.
- **Media output (Crossing 5)**: no use case calls `validate_media_output`.
- **Objects in Cloud Storage**: `GcsEvidenceStore` writes an object once under a derived path and is
  called from tests and scripts only. Of serialization, the records of workflow and proof
  are the documents of `DurableSession` and `ChangeProof`; a document is what was written.
- **Observability, telemetry, configuration**: no state that a decision depends on; configured
  values are constants.
- **Command line and scripts**: they drive the modelled use cases or collect what these leave.
- **Reads**: status, readiness, evidence listing and audit. Of the pages, wording, layout, the
  timeline and the fleet matrix; `MissionControl` has what depends on the workflow.
- Within modelled parts: wording of prompts, injection markers, content of the delta, hashes (a
  proof is the record of what it was made from), signatures (taken to be unforgeable). In
  `DurableSession`, one artifact and a channel that always answers. `ChangeAnalysis` begins
  with an available provider. `AutonomyGate` has no state machine, since nothing calls its rules.
  `FirestoreSessionService` is modelled as the ADK uses it; nothing in the package installs it.

## Plan

Every part that keeps state a decision depends on has a module. What is left, in order:

1. `FrontlineDelivery` and `FieldObservation` as refinements of the corresponding actions of
   `HeroService`.
2. Requests on two threads in `MissionControl`.
3. Objects in Cloud Storage and Crossing 5, once a use case calls them.

## Running

`tlc -config <run>.cfg <MC module>` for a run, `tlapm <Module>Proofs.tla` for proofs. Every run
ends within five minutes on two workers, most within one.
