----------------------------- MODULE PublicPilot -----------------------------
(***************************************************************************)
(* The public live pilot: browser tabs ask a stateless web front           *)
(* (driftzero_public), whose handlers ask the private API one call after   *)
(* another, each under a timeout.  The front keeps nothing: a signed link  *)
(* in the browser names the workflow and expires.                          *)
(*                                                                         *)
(* A call is sent, performed by the backend and answered in separate       *)
(* steps; after a timeout or a restart of the front the backend goes on    *)
(* with a call nobody waits for.  A workflow is here what the API's routes *)
(* tell of it; how it gets there is HeroService's subject.                 *)
(***************************************************************************)
EXTENDS Naturals, Sequences, FiniteSets

CONSTANTS
  Tabs,          \* browser tabs, of one visitor or of several
  Workflows,     \* workflow ids, each minted for one press of the button
  Photos,        \* images, told apart by content hash
  DurableKey,    \* TRUE iff the signing key is configured and survives a restart
  MaxAbandoned,  \* bound on the calls the backend goes on with unasked
  Nothing

ASSUME PilotAssumption ==
  /\ DurableKey \in BOOLEAN
  /\ MaxAbandoned \in Nat
  /\ Nothing \notin Workflows \union Photos

Results == {"PASS", "FAIL", "INCONCLUSIVE"}

VARIABLES
  stage,     \* how far the API has taken each workflow
  analyses,  \* change analyses started for it (each spends model calls)
  images,    \* the field attempt stored for each image of a workflow
  events,    \* its verification events
  proven,    \* it has a Change Proof
  handler,   \* the request a tab waits for, as the front's handler holds it
  calls,     \* calls on their way to or in the backend
  reply,     \* the answer a handler has and has not used yet
  links,     \* the workflows a tab holds a link for
  expired,   \* the workflows whose links are no longer accepted
  page       \* what a tab shows

backendVars == <<stage, analyses, images, events, proven>>
frontVars == <<handler, calls, reply>>
browserVars == <<links, expired, page>>
pilotVars == <<backendVars, frontVars, browserVars>>

-----------------------------------------------------------------------------
(***************************************************************************)
(* Requests, calls and pages                                               *)
(***************************************************************************)
\* A request as its handler holds it, and no request.
Idle == [step |-> "idle", wf |-> Nothing, photo |-> Nothing, upload |-> FALSE,
         result |-> "INCONCLUSIVE", chronology |-> <<>>]

\* Any LivePilotError: no answer in time, or an answer that is an error.
Failed == [ok |-> FALSE, delivered |-> FALSE, result |-> "INCONCLUSIVE", chronology |-> <<>>]

\* A page of some kind: "ready", "blocked", "refused", "delta", "verdict" or "proof".
Blank == [kind |-> "none", wf |-> Nothing, photo |-> Nothing,
          result |-> "INCONCLUSIVE", chronology |-> <<>>, offer |-> FALSE]

RefusedPage == [Blank EXCEPT !.kind = "refused"]
LandingPage(reachable) == [Blank EXCEPT !.kind = IF reachable THEN "ready" ELSE "blocked"]
DeltaPage(w) == [Blank EXCEPT !.kind = "delta", !.wf = w]
ProofPage(w) == [Blank EXCEPT !.kind = "proof", !.wf = w]
VerdictPage(h, chronology, offer) ==
  [kind |-> "verdict", wf |-> h.wf, photo |-> h.photo, result |-> h.result,
   chronology |-> chronology, offer |-> offer]

\* A call names the tab it is made for; it is awaited until the handler gives up.
CallOf(t, op, w, p) == [tab |-> t, op |-> op, wf |-> w, photo |-> p, awaited |-> TRUE]
AbandonedCalls == {c \in calls : ~c.awaited}

\* The link is checked once, when the request arrives.
LinkAccepted(w) == w \notin expired

\* live_upload is a coroutine that waits in place: while it waits for the backend
\* the front neither accepts another request nor sends another answer.
Blocking(t) == handler[t].upload
LoopFree(t) == \A u \in Tabs \ {t} : ~Blocking(u)

\* A request arrives and its handler makes its first call.
Begin(t, step, op, w, p, upload) ==
  /\ handler[t].step = "idle"
  /\ LoopFree(t)
  /\ handler' = [handler EXCEPT ![t] =
                   [Idle EXCEPT !.step = step, !.wf = w, !.photo = p, !.upload = upload]]
  /\ calls' = calls \union {CallOf(t, op, w, p)}
  /\ page' = [page EXCEPT ![t] = Blank]
  /\ UNCHANGED <<backendVars, reply, links, expired>>

\* The handler goes on to its next call.
Continue(t, op, next) ==
  /\ handler' = [handler EXCEPT ![t] = next]
  /\ calls' = calls \union {CallOf(t, op, next.wf, next.photo)}
  /\ reply' = [reply EXCEPT ![t] = Nothing]
  /\ UNCHANGED <<backendVars, browserVars>>

\* The handler answers the browser with a page.
Respond(t, p) ==
  /\ LoopFree(t)
  /\ handler' = [handler EXCEPT ![t] = Idle]
  /\ reply' = [reply EXCEPT ![t] = Nothing]
  /\ page' = [page EXCEPT ![t] = p]
  /\ UNCHANGED <<backendVars, calls, expired>>

Refuse(t) == Respond(t, RefusedPage) /\ UNCHANGED links

-----------------------------------------------------------------------------
(***************************************************************************)
(* The visitor                                                             *)
(***************************************************************************)

PilotInit ==
  /\ stage = [w \in Workflows |-> "NONE"]
  /\ analyses = [w \in Workflows |-> 0]
  /\ images = [w \in Workflows |-> [p \in Photos |-> "NONE"]]
  /\ events = [w \in Workflows |-> <<>>]
  /\ proven = [w \in Workflows |-> FALSE]
  /\ handler = [t \in Tabs |-> Idle]
  /\ calls = {}
  /\ reply = [t \in Tabs |-> Nothing]
  /\ links = [t \in Tabs |-> {}]
  /\ expired = {}
  /\ page = [t \in Tabs |-> Blank]

\* GET /live: the landing page asks the backend whether it serves.
OpenLanding(t) == Begin(t, "health", "health", Nothing, Nothing, FALSE)

\* POST /live/start with an id nobody has used.
Fresh(w) ==
  /\ stage[w] = "NONE"
  /\ \A u \in Tabs : handler[u].wf # w
  /\ \A c \in calls : c.wf # w
Start(t, w) == Fresh(w) /\ Begin(t, "create", "create", w, Nothing, FALSE)

\* GET /live/pilot, POST /live/verify or /live/upload, GET /live/proof.
OpenPilot(t, w) ==
  w \in links[t] /\ LinkAccepted(w) /\ Begin(t, "pilot", "status", w, Nothing, FALSE)
SubmitPhoto(t, w, p, upload) ==
  w \in links[t] /\ LinkAccepted(w) /\ Begin(t, "verify", "verify", w, p, upload)
OpenProof(t, w) ==
  w \in links[t] /\ LinkAccepted(w) /\ Begin(t, "read", "read", w, Nothing, FALSE)

\* An expired link, an unknown photo role or bytes that are no image are refused
\* before any call.
RefusedAtOnce(t) ==
  /\ handler[t].step = "idle"
  /\ links[t] # {}
  /\ Refuse(t)

\* The link stands in the address bar and can be opened in another tab.
CopyLink(t, u, w) ==
  /\ w \in links[t] \ links[u]
  /\ links' = [links EXCEPT ![u] = @ \union {w}]
  /\ UNCHANGED <<backendVars, frontVars, expired, page>>

Expire(w) ==
  /\ \E t \in Tabs : w \in links[t]
  /\ w \notin expired
  /\ expired' = expired \union {w}
  /\ UNCHANGED <<backendVars, frontVars, links, page>>

-----------------------------------------------------------------------------
(***************************************************************************)
(* The private API                                                         *)
(***************************************************************************)

\* The verify route's verdict: the workflow's latest, or INCONCLUSIVE.
Verdict(es) == IF es = <<>> THEN "INCONCLUSIVE" ELSE es[Len(es)].result

\* The call is over; its answer reaches the handler that still waits for it.
Completes(c, answer) ==
  /\ calls' = calls \ {c}
  /\ reply' = IF c.awaited THEN [reply EXCEPT ![c.tab] = answer] ELSE reply
  /\ UNCHANGED <<handler, browserVars>>

\* The call goes on with the next use case of the advance route.
GoesOn(c, op) ==
  /\ calls' = (calls \ {c}) \union {[c EXCEPT !.op = op]}
  /\ UNCHANGED <<handler, reply, browserVars>>

Accepted == [Failed EXCEPT !.ok = TRUE]

\* Refused without effect: not resumable, held elsewhere, unknown, or a crash.
ApiRefuses(c) == Completes(c, Failed) /\ UNCHANGED backendVars

ApiHealth(c) == c.op = "health" /\ Completes(c, Accepted) /\ UNCHANGED backendVars

ApiCreate(c) ==
  /\ c.op = "create"
  /\ stage' = [stage EXCEPT ![c.wf] = "RECEIVED"]
  /\ Completes(c, Accepted)
  /\ UNCHANGED <<analyses, images, events, proven>>

\* The three use cases of the advance route, each of which may get no further.
ApiAnalyze(c) ==
  /\ c.op = "analyze"
  /\ analyses' = [analyses EXCEPT ![c.wf] = @ + 1]
  /\ IF stage[c.wf] = "RECEIVED"
       THEN \E s \in {"QUALIFIED", "REVIEW"} : stage' = [stage EXCEPT ![c.wf] = s]
       ELSE UNCHANGED stage
  /\ GoesOn(c, "deploy")
  /\ UNCHANGED <<images, events, proven>>

ApiDeploy(c) ==
  /\ c.op = "deploy"
  /\ \/ stage[c.wf] = "QUALIFIED" /\ stage' = [stage EXCEPT ![c.wf] = "REMEDIATED"]
     \/ UNCHANGED stage
  /\ GoesOn(c, "deliver")
  /\ UNCHANGED <<analyses, images, events, proven>>

ApiDeliver(c) ==
  /\ c.op = "deliver"
  /\ \/ stage[c.wf] = "REMEDIATED" /\ stage' = [stage EXCEPT ![c.wf] = "DELIVERED"]
     \/ UNCHANGED stage
  /\ Completes(c, [Accepted EXCEPT !.delivered = (stage'[c.wf] = "DELIVERED")])
  /\ UNCHANGED <<analyses, images, events, proven>>

AwaitsEvidence(w) == stage[w] = "DELIVERED" /\ Verdict(events[w]) # "PASS"

\* An image not seen before is observed and judged, if evidence is awaited.
ApiObserves(c) ==
  /\ c.op = "verify"
  /\ images[c.wf][c.photo] = "NONE"
  /\ images' = [images EXCEPT ![c.wf][c.photo] = "OBSERVED"]
  /\ IF AwaitsEvidence(c.wf)
       THEN \E r \in Results :
              events' = [events EXCEPT ![c.wf] =
                           Append(@, [photo |-> c.photo, result |-> r])]
       ELSE UNCHANGED events
  /\ Completes(c, [Accepted EXCEPT !.result = Verdict(events'[c.wf])])
  /\ UNCHANGED <<stage, analyses, proven>>

\* The image was judged before, or no observation was obtained (and the attempt
\* may be stored as unusable): the answer is the latest verdict there is.
ApiObservesNothing(c) ==
  /\ c.op = "verify"
  /\ \/ UNCHANGED images
     \/ /\ images[c.wf][c.photo] = "NONE"
        /\ images' = [images EXCEPT ![c.wf][c.photo] = "UNUSABLE"]
  /\ Completes(c, [Accepted EXCEPT !.result = Verdict(events[c.wf])])
  /\ UNCHANGED <<stage, analyses, events, proven>>

StatusOf(w) ==
  [Accepted EXCEPT !.delivered = (stage[w] = "DELIVERED"), !.chronology = events[w]]

ApiStatus(c) ==
  /\ c.op = "status"
  /\ Completes(c, StatusOf(c.wf))
  /\ UNCHANGED backendVars

\* POST proof: generated when the conditions hold, read back if there is one.
ApiCreateProof(c) ==
  /\ c.op = "ensure"
  /\ stage[c.wf] = "DELIVERED" /\ Verdict(events[c.wf]) = "PASS"
  /\ proven' = [proven EXCEPT ![c.wf] = TRUE]
  /\ Completes(c, Accepted)
  /\ UNCHANGED <<stage, analyses, images, events>>

ApiReadProof(c) ==
  /\ c.op = "read"
  /\ proven[c.wf]
  /\ Completes(c, Accepted)
  /\ UNCHANGED backendVars

Api(c) ==
  \/ ApiRefuses(c) \/ ApiHealth(c) \/ ApiCreate(c)
  \/ ApiAnalyze(c) \/ ApiDeploy(c) \/ ApiDeliver(c)
  \/ ApiObserves(c) \/ ApiObservesNothing(c)
  \/ ApiStatus(c) \/ ApiCreateProof(c) \/ ApiReadProof(c)

-----------------------------------------------------------------------------
(***************************************************************************)
(* The front's handlers                                                    *)
(***************************************************************************)

\* The handler of t is at this step and its call was answered or given up.
Has(t, step) == handler[t].step = step /\ reply[t] # Nothing

\* Every way the health check can fail is one: not reachable.
Reachable(answer) == answer.ok

FinishLanding(t) ==
  /\ Has(t, "health")
  /\ Respond(t, LandingPage(Reachable(reply[t])))
  /\ UNCHANGED links

\* The change was accepted: drive it, once.
Created(t) ==
  /\ Has(t, "create")
  /\ IF reply[t].ok
       THEN Continue(t, "analyze", [handler[t] EXCEPT !.step = "advance"])
       ELSE Refuse(t)

\* MUTANT: an answer is taken for a delivery.
RedirectOnAnswer(answer) == answer.ok
\* The visitor is sent to the pilot only when the delta was delivered.
MayRedirect(answer) == answer.ok /\ answer.delivered

\* MUTANT: the front tries a failed advance again.
AdvancedOrRetried(t) ==
  /\ Has(t, "advance")
  /\ IF MayRedirect(reply[t])
       THEN /\ Respond(t, Blank)
            /\ links' = [links EXCEPT ![t] = @ \union {handler[t].wf}]
       ELSE Continue(t, "analyze", handler[t])
Advanced(t) ==
  /\ Has(t, "advance")
  /\ IF MayRedirect(reply[t])
       THEN /\ Respond(t, Blank)
            /\ links' = [links EXCEPT ![t] = @ \union {handler[t].wf}]
       ELSE Refuse(t)

FinishPilot(t) ==
  /\ Has(t, "pilot")
  /\ IF reply[t].ok
       THEN /\ Respond(t, DeltaPage(handler[t].wf))
            /\ UNCHANGED links
       ELSE Refuse(t)

Verified(t) ==
  /\ Has(t, "verify")
  /\ IF reply[t].ok
       THEN Continue(t, "status", [handler[t] EXCEPT !.step = "status",
                                                     !.result = reply[t].result])
       ELSE Refuse(t)

Chronology(answer) == answer.chronology

\* A state that could not be read shows no attempts; only a PASS asks for a proof.
ReadBack(t) ==
  /\ Has(t, "status")
  /\ IF handler[t].result = "PASS"
       THEN Continue(t, "ensure", [handler[t] EXCEPT !.step = "ensure",
                                                     !.chronology = Chronology(reply[t])])
       ELSE /\ Respond(t, VerdictPage(handler[t], Chronology(reply[t]), FALSE))
            /\ UNCHANGED links

\* MUTANT: a PASS is taken for a proof.
ProofAssumed(answer) == TRUE
ProofReady(answer) == answer.ok

Ensured(t) ==
  /\ Has(t, "ensure")
  /\ Respond(t, VerdictPage(handler[t], handler[t].chronology, ProofReady(reply[t])))
  /\ UNCHANGED links

FinishProof(t) ==
  /\ Has(t, "read")
  /\ IF reply[t].ok
       THEN /\ Respond(t, ProofPage(handler[t].wf))
            /\ UNCHANGED links
       ELSE Refuse(t)

Handle(t) ==
  \/ FinishLanding(t) \/ Created(t) \/ Advanced(t) \/ FinishPilot(t)
  \/ Verified(t) \/ ReadBack(t) \/ Ensured(t) \/ FinishProof(t)

\* The handler gives up: the call is lost, or the backend goes on with it.
Timeout(t) ==
  /\ handler[t].step # "idle" /\ reply[t] = Nothing
  /\ reply' = [reply EXCEPT ![t] = Failed]
  /\ LET mine == {c \in calls : c.tab = t /\ c.awaited}
     IN  \/ calls' = calls \ mine
         \/ /\ Cardinality(AbandonedCalls) < MaxAbandoned
            /\ calls' = (calls \ mine) \union {[c EXCEPT !.awaited = FALSE] : c \in mine}
  /\ UNCHANGED <<backendVars, handler, browserVars>>

\* The front's process ends: every handler is gone, and with an ephemeral key
\* every link it signed.
Restart ==
  /\ handler' = [t \in Tabs |-> Idle]
  /\ reply' = [t \in Tabs |-> Nothing]
  /\ LET orphaned == {[c EXCEPT !.awaited = FALSE] : c \in calls}
     IN  \E kept \in SUBSET orphaned : Cardinality(kept) <= MaxAbandoned /\ calls' = kept
  /\ expired' = IF DurableKey THEN expired ELSE expired \union UNION {links[t] : t \in Tabs}
  /\ UNCHANGED <<backendVars, links, page>>

PilotNext ==
  \/ \E t \in Tabs :
       \/ OpenLanding(t)
       \/ RefusedAtOnce(t)
       \/ \E w \in Workflows :
            \/ Start(t, w)
            \/ OpenPilot(t, w)
            \/ \E p \in Photos, upload \in BOOLEAN : SubmitPhoto(t, w, p, upload)
            \/ OpenProof(t, w)
            \/ \E u \in Tabs : CopyLink(t, u, w)
       \/ Handle(t)
       \/ Timeout(t)
  \/ \E c \in calls : Api(c)
  \/ \E w \in Workflows : Expire(w)
  \/ Restart

PilotSpec == PilotInit /\ [][PilotNext]_pilotVars

-----------------------------------------------------------------------------
(***************************************************************************)
(* Properties                                                              *)
(***************************************************************************)

IsPrefixOf(s, t) == Len(s) <= Len(t) /\ \A n \in 1..Len(s) : s[n] = t[n]

\* A page is still true when somebody reads it, however old it is: a delta was
\* delivered, a PASS is the run's last verdict, a FAIL was one of its verdicts, the
\* attempts listed are the run's first ones, and a proof shown or offered exists
\* (the front renders only what the backend answered).
PagesTellTruth ==
  \A t \in Tabs :
    LET pg == page[t]
    IN  /\ pg.kind = "delta" => stage[pg.wf] = "DELIVERED"
        /\ pg.kind = "verdict" =>
             /\ pg.result = "PASS" => Verdict(events[pg.wf]) = "PASS"
             /\ pg.result = "FAIL" => \E n \in 1..Len(events[pg.wf]) :
                                        events[pg.wf][n].result = "FAIL"
             /\ IsPrefixOf(pg.chronology, events[pg.wf])
             /\ pg.offer => proven[pg.wf]
        /\ pg.kind = "proof" => proven[pg.wf] /\ Verdict(events[pg.wf]) = "PASS"

\* Whoever holds a link holds it for a delivered delta: no tab can submit a
\* photograph for a run that never reached the frontline (live_start).
LinkMeansDelivered ==
  \A t \in Tabs : \A w \in links[t] : stage[w] = "DELIVERED"

\* A run spends one analysis at most, through timeouts, abandoned calls and
\* restarts (live_start never repeats the advance).
AnalysedOnce == \A w \in Workflows : analyses[w] <= 1

-----------------------------------------------------------------------------
(***************************************************************************)
(* What a comment of the API says and the code does not keep.              *)
(***************************************************************************)

\* An image of which no observation was obtained is shown neither as PASS nor as
\* FAIL (verify_workflow).
UnobservedIsInconclusive ==
  \A t \in Tabs :
    LET pg == page[t]
    IN  pg.kind = "verdict" /\ pg.result # "INCONCLUSIVE"
          => images[pg.wf][pg.photo] = "OBSERVED"

=============================================================================
