----------------------------- MODULE ConsoleRun ------------------------------
(***************************************************************************)
(* The console server: changes injected by the command line, each driven   *)
(* through an ADK run that pauses for the photograph, and the photographs  *)
(* that resume it.                                                         *)
(*                                                                         *)
(* A run is HeroWorkflowRun over an ADK session.  The console keeps both   *)
(* in memory; a run with a FirestoreSessionService outlives the process,   *)
(* and a fresh process reattaches to it.  The use cases are one step each  *)
(* here: HeroService, FrontlineDelivery, FieldObservation and ChangeProof  *)
(* have what happens inside them.  The ADK itself is external: a run goes  *)
(* through the steps that its invocation has not completed, in order.      *)
(***************************************************************************)
EXTENDS SourceChange

CONSTANTS
  Injections,   \* one workflow per injection: the ids the uuid namespaces yield
  Durable,      \* the workflows whose run has a durable session service
  Verifies,     \* requests with a photograph
  Fixtures,     \* what may be injected
  MaxCrashes,   \* bound on the deaths of the process
  MaxFaults,    \* bound on the steps that raise
  Nothing

\* The sub-agents of driftzero_hero_workflow.
SubAgents == <<"ANALYZE", "DEPLOY", "DELIVER", "AWAIT", "OBSERVE", "PROVE">>
AwaitStep == 4

Results == {"PASS", "FAIL", "INCONCLUSIVE"}

\* What the fixtures are ingested as, if they are.
Ingestions == { Ingest(Dataset(fixture)) : fixture \in Fixtures } \ {Absent}

\* The states of a workflow that its use cases, as far as they are told apart here,
\* leave it in.
States ==
  {"CHANGE_RECEIVED", "REVIEW_REQUIRED", "IMPACT_DETERMINED", "REMEDIATION_COMPLETED",
   "AWAITING_FIELD_VERIFICATION", "VERIFICATION_PASSED", "VERIFICATION_FAILED",
   "VERIFICATION_INCONCLUSIVE", "PROOF_COMPLETE"}

\* A session of the application service; ran counts the calls of each use case.
Services ==
  [change : { i.change : i \in Ingestions }, store : { i.store : i \in Ingestions },
   state : States, verdict : Results \union {Nothing}, proven : BOOLEAN,
   ran : [Range(SubAgents) -> Nat]]

\* The ADK session of a run.  The flag and the invocation are keys of its state; an
\* event says which step of which invocation is done.
Sessions ==
  [ready : BOOLEAN, invocation : Injections \union {Nothing},
   events : Seq([invocation : Injections, step : Range(SubAgents)])]

ASSUME ConsoleAssumption ==
  /\ Durable \subseteq Injections
  /\ MaxCrashes \in Nat /\ MaxFaults \in Nat
  /\ \A fixture \in Fixtures : WellShaped(fixture)
  /\ Nothing \notin Injections \union Services \union Sessions

VARIABLES
  services,  \* registry._services: per workflow its session, or Nothing
  runs,      \* registry._runs: per workflow the invocation its run holds, or Nothing
  sessions,  \* per workflow its ADK session, or Nothing
  injects,   \* per workflow the request that injects it: where it is
  verifies,  \* per photograph the request with it
  crashes, faults

console == <<services, runs, sessions, injects, verifies>>
bounds == <<crashes, faults>>
consoleVars == <<console, bounds>>

-----------------------------------------------------------------------------
(***************************************************************************)
(* A session of the application service                                    *)
(***************************************************************************)

\* _new_session
NewService(ingestion) ==
  [change |-> ingestion.change, store |-> ingestion.store, state |-> "CHANGE_RECEIVED",
   verdict |-> Nothing, proven |-> FALSE, ran |-> [step \in Range(SubAgents) |-> 0]]

Awaiting == {"AWAITING_FIELD_VERIFICATION", "VERIFICATION_FAILED", "VERIFICATION_INCONCLUSIVE"}

\* What a use case may leave of a session.  Analysis ends at the review gate if it
\* has no target; a refused remediation or delivery leaves the state, and the use
\* cases after it find nothing to do.
Outcomes(step, s) ==
  CASE step = "ANALYZE" /\ s.state = "CHANGE_RECEIVED" ->
         { [s EXCEPT !.state = state] : state \in {"IMPACT_DETERMINED", "REVIEW_REQUIRED"} }
    [] step = "DEPLOY" /\ s.state = "IMPACT_DETERMINED" ->
         { s, [s EXCEPT !.state = "REMEDIATION_COMPLETED"] }
    [] step = "DELIVER" /\ s.state = "REMEDIATION_COMPLETED" ->
         { s, [s EXCEPT !.state = "AWAITING_FIELD_VERIFICATION"] }
    [] step = "PROVE" /\ s.verdict = "PASS" ->
         { [s EXCEPT !.state = "PROOF_COMPLETE", !.proven = TRUE] }
    [] OTHER -> { s }

Called(step, s) == [s EXCEPT !.ran[step] = @ + 1]

VerdictState(result) ==
  CASE result = "PASS" -> "VERIFICATION_PASSED"
    [] result = "FAIL" -> "VERIFICATION_FAILED"
    [] OTHER           -> "VERIFICATION_INCONCLUSIVE"

\* submit_field_evidence: a photograph is judged if the workflow awaits one or may
\* be reopened, and if the model's answer is accepted.
Judged(s, result) ==
  IF s.state \in Awaiting
    THEN [s EXCEPT !.verdict = result, !.state = VerdictState(result)]
    ELSE s

-----------------------------------------------------------------------------
(***************************************************************************)
(* The ADK session of a run                                                *)
(***************************************************************************)
BlankSession == [ready |-> FALSE, invocation |-> Nothing, events |-> <<>>]

\* MUTANT: a session is always created.
CreateBlank(w) == BlankSession

\* create_session returns the stored session if there is one.
CreateSession(w) == IF sessions[w] = Nothing THEN BlankSession ELSE sessions[w]

Done(session, invocation) ==
  { session.events[i].step : i \in { j \in DOMAIN session.events :
                                       session.events[j].invocation = invocation } }

\* External: the first step of the invocation that has not completed, if any.
ResumePoint(session, invocation) ==
  LET left == { i \in DOMAIN SubAgents : SubAgents[i] \notin Done(session, invocation) }
  IN IF left = {} THEN Len(SubAgents) + 1 ELSE Min(left)

\* append_event: the session document has nothing new, so the event decides.
Appended(session, invocation, step) ==
  [session EXCEPT !.events = Append(@, [invocation |-> invocation, step |-> step])]

\* persist_state
Persisted(session, invocation) == [session EXCEPT !.invocation = invocation]

-----------------------------------------------------------------------------
Idle == [at |-> "IDLE"]
Answered == [at |-> "ANSWERED"]
Failed == [at |-> "FAILED"]

\* A request inside run_async: which invocation, and which step is next.
Running(invocation, step) == [at |-> "RUN", invocation |-> invocation, step |-> step]

ConsoleInit ==
  /\ services = [w \in Injections |-> Nothing]
  /\ runs = [w \in Injections |-> Nothing]
  /\ sessions = [w \in Injections |-> Nothing]
  /\ injects = [w \in Injections |-> Idle]
  /\ verifies = [v \in Verifies |-> Idle]
  /\ crashes = 0 /\ faults = 0

-----------------------------------------------------------------------------
(***************************************************************************)
(* POST /api/cli/workflows                                                 *)
(***************************************************************************)

\* The fixture is refused, or the constructor of the service raises.
RefuseInjection(w) ==
  /\ injects[w].at = "IDLE"
  /\ \E fixture \in Fixtures : Ingest(Dataset(fixture)) = Absent
  /\ injects' = [injects EXCEPT ![w] = Failed]
  /\ UNCHANGED <<services, runs, sessions, verifies, bounds>>

\* The service is built and registered, and run.start() opens the ADK session.
\* invocation: the ADK names it after the run that starts.
Inject(w) ==
  /\ injects[w].at = "IDLE"
  /\ \E fixture \in Fixtures :
       /\ Ingest(Dataset(fixture)) # Absent
       /\ services' = [services EXCEPT ![w] = NewService(Ingest(Dataset(fixture)))]
  /\ sessions' = [sessions EXCEPT ![w] = CreateSession(w)]
  /\ injects' = [injects EXCEPT ![w] = Running(w, 1)]
  /\ UNCHANGED <<runs, verifies, bounds>>

\* A step of start(): the use case runs on a thread, then its event is appended.
\* Nothing else uses the workflow meanwhile, so they are one action.
StartStep(w) ==
  /\ injects[w].at = "RUN" /\ injects[w].step < AwaitStep
  /\ LET step == SubAgents[injects[w].step]
     IN /\ \E after \in Outcomes(step, services[w]) :
             services' = [services EXCEPT ![w] = Called(step, after)]
        /\ sessions' = [sessions EXCEPT ![w] = Appended(@, injects[w].invocation, step)]
  /\ injects' = [injects EXCEPT ![w].step = @ + 1]
  /\ UNCHANGED <<runs, verifies, bounds>>

\* Step 8 makes the long-running call, which ends run_async without completing the
\* step; start() records the invocation, the registry keeps the run, and the client
\* is told the workflow id.
Pause(w) ==
  /\ injects[w].at = "RUN" /\ injects[w].step = AwaitStep
  /\ sessions' = IF w \in Durable
                   THEN [sessions EXCEPT ![w] = Persisted(@, injects[w].invocation)]
                   ELSE sessions
  /\ runs' = [runs EXCEPT ![w] = injects[w].invocation]
  /\ injects' = [injects EXCEPT ![w] = Answered]
  /\ UNCHANGED <<services, verifies, bounds>>

-----------------------------------------------------------------------------
(***************************************************************************)
(* POST /api/cli/workflows/<id>/verify                                     *)
(***************************************************************************)

\* The run that resume() continues: the one held, or the one recover() finds.
Recover(w) == IF runs[w] # Nothing \/ w \notin Durable THEN runs[w] ELSE CreateSession(w).invocation

\* The photograph is judged, and the same invocation resumed with the flag set.  A
\* run that was never started, or one whose invocation no process recorded, is not.
Verify(v, w) ==
  /\ verifies[v].at = "IDLE"
  /\ injects[w].at = "ANSWERED" /\ services[w] # Nothing
  /\ \E result \in Results \union {Nothing} :
       services' = [services EXCEPT ![w] = IF result = Nothing THEN @ ELSE Judged(@, result)]
  /\ LET invocation == Recover(w)
         session == [CreateSession(w) EXCEPT !.ready = TRUE]
     IN /\ sessions' = [sessions EXCEPT ![w] = session]
        /\ runs' = [runs EXCEPT ![w] = invocation]
        /\ verifies' = [verifies EXCEPT ![v] =
             [at |-> "RUN", workflow |-> w, invocation |-> invocation,
              step |-> ResumePoint(session, invocation)]]
  /\ UNCHANGED <<injects, bounds>>

\* A step of the resumed run: step 8 finds the flag and steps 9 and 10 call nothing.
ResumeStep(v) ==
  /\ verifies[v].at = "RUN" /\ verifies[v].step <= Len(SubAgents)
  /\ LET step == SubAgents[verifies[v].step]
         w == verifies[v].workflow
     IN /\ step = "AWAIT" => sessions[w].ready
        /\ \E after \in Outcomes(step, services[w]) :
             services' = [services EXCEPT ![w] = Called(step, after)]
  /\ verifies' = [verifies EXCEPT ![v].at = "EVENT"]
  /\ UNCHANGED <<runs, sessions, injects, bounds>>

ResumeEvent(v) ==
  /\ verifies[v].at = "EVENT"
  /\ LET w == verifies[v].workflow
     IN sessions' = [sessions EXCEPT ![w] =
                       Appended(@, verifies[v].invocation, SubAgents[verifies[v].step])]
  /\ verifies' = [verifies EXCEPT ![v].at = "RUN", ![v].step = @ + 1]
  /\ UNCHANGED <<services, runs, injects, bounds>>

\* MUTANT: the run has had its last step, so the request is done.
AnswerOnly(v) ==
  /\ verifies[v].at = "RUN" /\ verifies[v].step > Len(SubAgents)
  /\ verifies' = [verifies EXCEPT ![v] = Answered]
  /\ UNCHANGED <<services, runs, sessions, injects, bounds>>

\* The gate is asked once more: a corrected photograph finds the sequence complete.
AskAndAnswer(v) ==
  /\ verifies[v].at = "RUN" /\ verifies[v].step > Len(SubAgents)
  /\ LET w == verifies[v].workflow
     IN \E after \in Outcomes("PROVE", services[w]) :
          services' = [services EXCEPT ![w] = after]
  /\ verifies' = [verifies EXCEPT ![v] = Answered]
  /\ UNCHANGED <<runs, sessions, injects, bounds>>

\* A step of either raises out of run_async, and the request ends with it.
StepRaises ==
  /\ faults < MaxFaults
  /\ faults' = faults + 1
  /\ \/ \E w \in Injections : /\ injects[w].at = "RUN"
                             /\ injects' = [injects EXCEPT ![w] = Failed]
                             /\ UNCHANGED verifies
     \/ \E v \in Verifies : /\ verifies[v].at = "RUN"
                            /\ verifies' = [verifies EXCEPT ![v] = Failed]
                            /\ UNCHANGED injects
  /\ UNCHANGED <<services, runs, sessions, crashes>>

\* The process dies: what is in memory is lost.  The services of durable workflows
\* come back as DurableSession has it.
ProcessDies ==
  /\ crashes < MaxCrashes
  /\ crashes' = crashes + 1
  /\ services' = [w \in Injections |-> IF w \in Durable THEN services[w] ELSE Nothing]
  /\ sessions' = [w \in Injections |-> IF w \in Durable THEN sessions[w] ELSE Nothing]
  /\ runs' = [w \in Injections |-> Nothing]
  /\ injects' = [w \in Injections |->
                   IF injects[w].at = "RUN" THEN Failed ELSE injects[w]]
  /\ verifies' = [v \in Verifies |->
                    IF verifies[v].at \in {"RUN", "EVENT"} THEN Failed ELSE verifies[v]]
  /\ UNCHANGED faults

-----------------------------------------------------------------------------
Start(w) == StartStep(w) \/ Pause(w)
Continue(v) == ResumeStep(v) \/ ResumeEvent(v) \/ AskAndAnswer(v)

ConsoleNext ==
  \/ \E w \in Injections : RefuseInjection(w) \/ Inject(w) \/ Start(w)
  \/ \E v \in Verifies : (\E w \in Injections : Verify(v, w)) \/ Continue(v)
  \/ StepRaises
  \/ ProcessDies

\* The event loop and its worker threads are scheduled.
Fairness == \A v \in Verifies : WF_consoleVars(Continue(v))

ConsoleSpec == ConsoleInit /\ [][ConsoleNext]_consoleVars /\ Fairness

-----------------------------------------------------------------------------
(***************************************************************************)
(* Properties                                                              *)
(***************************************************************************)

\* Every registered workflow deploys a change that can be read off two versions it
\* holds: nothing a fixture says, and no second difference, gets in between
\* (dataset_from_fixture, ingest_source_change).
ChangeIsTheDifference ==
  \A w \in Injections :
    services[w] # Nothing => TellsTheDifference(services[w].change, services[w].store)

\* Whatever process resumes it, how often, and wherever one died: a run executes
\* steps 1 to 7 once and in order, and a workflow whose client was told that it is
\* paused can be resumed where it paused (start, recover, resume).
PausedRunsOnce ==
  \A w \in Injections :
    services[w] # Nothing =>
      LET ran == services[w].ran
      IN /\ \A i \in 1..(AwaitStep - 1) : ran[SubAgents[i]] <= 1
         /\ \A i \in 2..Len(SubAgents) : ran[SubAgents[i]] > 0 => ran[SubAgents[i - 1]] > 0
         /\ injects[w].at = "ANSWERED" =>
              ResumePoint(sessions[w], Recover(w)) >= AwaitStep

\* A photograph that passes gets its proof, although it may arrive while an earlier
\* one is resuming the run or after the run is complete: unless the process dies or
\* a step raises (cli_verify).
PassIsProven ==
  \A w \in Injections :
    ( services[w] # Nothing /\ services[w].verdict = "PASS" )
    ~> \/ services[w] # Nothing /\ services[w].proven
       \/ crashes > 0 \/ faults > 0

=============================================================================
