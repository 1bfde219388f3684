--------------------------- MODULE ChangeLifecycle ---------------------------
(***************************************************************************)
(* What one change deployment promises to whoever reads its Change Proof,  *)
(* without the ledger, the channel, the stores or the thirteen states:     *)
(* field evidence is judged only after a delivery, a delivery follows a    *)
(* remediation, a PASS is final, the review gate opens only before         *)
(* anything was remediated and never closes again, and the proof names an  *)
(* artifact that was remediated and rests on a PASS.                       *)
(*                                                                         *)
(* Remediate and Deliver carry no phase guard: the service remediates and  *)
(* delivers whatever the workflow state is (see NoMutationUnderReview in   *)
(* HeroService).                                                           *)
(***************************************************************************)
CONSTANTS Artifacts, None

VARIABLES
  phase,       \* "open", "review" (the gate) or "proved"
  remediated,  \* the artifacts a remediation completed on
  delivered,   \* the delta reached the frontline, backed by a receipt
  verdict,     \* the latest authoritative verdict, "NONE" before any
  proven       \* the artifact the Change Proof names, or None

lifecycleVars == <<phase, remediated, delivered, verdict, proven>>

LifecycleInit ==
  /\ phase = "open"
  /\ remediated = {}
  /\ delivered = FALSE
  /\ verdict = "NONE"
  /\ proven = None

Remediate(a) ==
  /\ a \notin remediated
  /\ remediated' = remediated \union {a}
  /\ UNCHANGED <<phase, delivered, verdict, proven>>

Deliver ==
  /\ remediated # {}
  /\ ~delivered
  /\ delivered' = TRUE
  /\ UNCHANGED <<phase, remediated, verdict, proven>>

Judge(v) ==
  /\ phase = "open"
  /\ delivered
  /\ verdict # "PASS"
  /\ verdict' = v
  /\ UNCHANGED <<phase, remediated, delivered, proven>>

Gate ==
  /\ phase = "open"
  /\ remediated = {}
  /\ phase' = "review"
  /\ UNCHANGED <<remediated, delivered, verdict, proven>>

Prove(a) ==
  /\ phase = "open"
  /\ verdict = "PASS"
  /\ a \in remediated
  /\ phase' = "proved"
  /\ proven' = a
  /\ UNCHANGED <<remediated, delivered, verdict>>

LifecycleNext ==
  \/ \E a \in Artifacts : Remediate(a) \/ Prove(a)
  \/ Deliver
  \/ \E v \in {"PASS", "FAIL", "INCONCLUSIVE"} : Judge(v)
  \/ Gate

LifecycleSpec == LifecycleInit /\ [][LifecycleNext]_lifecycleVars

=============================================================================
