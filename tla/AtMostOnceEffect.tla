-------------------------- MODULE AtMostOnceEffect --------------------------
(***************************************************************************)
(* What an idempotent action on an external system promises, when nothing  *)
(* locks its record or the system: it is on record before it has an effect,*)
(* it has its effect once, a mutation is claimed only after an effect, or  *)
(* after another writer has brought about the same, and a no-op only by an *)
(* action that is not on record as dispatched.                             *)
(*                                                                         *)
(* Effects are counted, so a second one is a step of its own.  It takes    *)
(* callers who were between the comparison and the write together, or      *)
(* another writer who restored the value the action replaces.  The record  *)
(* is only forgotten where callers were between the lookup and the creation*)
(* of the record together.                                                 *)
(***************************************************************************)
EXTENDS Naturals

VARIABLES
  dispatched,    \* the action is on record as dispatched
  effects,       \* times it changed the external system
  races,         \* the windows two callers have been in together
  interference,  \* what other writers have set the value to
  claims         \* the outcomes claimed with evidence

effectVars == <<dispatched, effects, races, interference, claims>>

EffectInit ==
  /\ dispatched = FALSE
  /\ effects = 0
  /\ races = {}
  /\ interference = {}
  /\ claims = {}

Dispatch ==
  /\ dispatched' = TRUE
  /\ UNCHANGED <<effects, races, interference, claims>>

Forget ==
  /\ "planning" \in races
  /\ dispatched' = FALSE
  /\ UNCHANGED <<effects, races, interference, claims>>

TakeEffect ==
  /\ dispatched \/ "planning" \in races
  /\ effects = 0 \/ "writing" \in races \/ "BEFORE" \in interference
  /\ effects' = effects + 1
  /\ UNCHANGED <<dispatched, races, interference, claims>>

Race ==
  /\ \E w \in {"planning", "writing"} : races' = races \union {w}
  /\ UNCHANGED <<dispatched, effects, interference, claims>>

Interfere ==
  /\ interference \subseteq interference'
  /\ UNCHANGED <<dispatched, effects, races, claims>>

ClaimMutation ==
  /\ effects > 0 \/ "AFTER" \in interference
  /\ dispatched' = TRUE
  /\ dispatched \/ "planning" \in races
  /\ \E c \in {"MUTATED", "RECONCILED_MUTATION"} : claims' = claims \union {c}
  /\ UNCHANGED <<effects, races, interference>>

ClaimNoOp ==
  /\ ~dispatched
  /\ claims' = claims \union {"NO_OP"}
  /\ UNCHANGED <<dispatched, effects, races, interference>>

EffectNext ==
  \/ Dispatch
  \/ Forget
  \/ TakeEffect
  \/ Race
  \/ Interfere
  \/ ClaimMutation
  \/ ClaimNoOp

EffectSpec == EffectInit /\ [][EffectNext]_effectVars

=============================================================================
