---------------------------- MODULE SemanticCall ----------------------------
(***************************************************************************)
(* The retry and timeout policy of calls to a language model               *)
(* (driftzero/retry.py): at most MaxAttempts attempts, of which a bounded  *)
(* number repairs output that had the wrong structure.  Who makes the call *)
(* decides what an attempt is: see ChangeAnalysis.                         *)
(***************************************************************************)
EXTENDS Naturals, Sequences

CONSTANTS
  MaxAttempts,   \* SemanticModelConfig.max_attempts
  AllowRepair    \* SemanticModelConfig.allow_structured_repair

ASSUME SemanticCallAssumption == MaxAttempts \in Nat \ {0} /\ AllowRepair \in BOOLEAN

VARIABLES
  attempts,    \* how each attempt so far ended: "OK" or a failure class
  repairUsed,  \* whether the one repair has been granted
  outcome      \* RetryOutcome of the whole call, "PENDING" while it runs

callVars == <<attempts, repairUsed, outcome>>

FailureClass == {"TRANSIENT", "MALFORMED_OUTPUT", "NON_TRANSIENT", "TIMEOUT"}
RetryOutcome == {"SUCCEEDED", "EXHAUSTED", "NON_TRANSIENT"}

CallInit ==
  /\ attempts = <<>>
  /\ repairUsed = FALSE
  /\ outcome = "PENDING"

\* MUTANT: a second malformed answer is repaired too.
RefusedRepeatedRepair(failure) ==
  failure = "MALFORMED_OUTPUT" /\ ~AllowRepair

\* A malformed answer ends the call when the repair is used up or not configured.
RefusesRepair(failure) ==
  failure = "MALFORMED_OUTPUT" /\ (repairUsed \/ ~AllowRepair)

\* What the call comes to when the next attempt fails.
OutcomeOf(failure) ==
  IF failure = "NON_TRANSIENT"
    THEN "NON_TRANSIENT"
    ELSE IF RefusesRepair(failure) \/ Len(attempts) + 1 = MaxAttempts
           THEN "EXHAUSTED"
           ELSE "PENDING"

AttemptFails(failure) ==
  /\ outcome = "PENDING"
  /\ attempts' = Append(attempts, failure)
  /\ repairUsed' = (repairUsed \/ (failure = "MALFORMED_OUTPUT" /\ ~RefusesRepair(failure)))
  /\ outcome' = OutcomeOf(failure)

\* An answer after the deadline is discarded.
AttemptLate == AttemptFails("TIMEOUT")

AttemptSucceeds ==
  /\ outcome = "PENDING"
  /\ attempts' = Append(attempts, "OK")
  /\ outcome' = "SUCCEEDED"
  /\ UNCHANGED repairUsed

-----------------------------------------------------------------------------
CallTypeOK ==
  /\ attempts \in Seq(FailureClass \union {"OK"})
  /\ repairUsed \in BOOLEAN
  /\ outcome \in RetryOutcome \union {"PENDING"}

\* What a call may spend, whatever the model answers in whatever order: no more
\* attempts than configured, none after a success or a failure that is not worth
\* a retry, at most one repair and none where it is not configured
\* (run_semantic_call).
SpendBounded ==
  /\ Len(attempts) <= MaxAttempts
  /\ \A k \in 1 .. Len(attempts) - 1 : attempts[k] \notin {"OK", "NON_TRANSIENT"}
  /\ \A j, k \in 1 .. Len(attempts) - 1 :
       attempts[j] = "MALFORMED_OUTPUT" /\ attempts[k] = "MALFORMED_OUTPUT" => j = k
  /\ ~AllowRepair => \A k \in 1 .. Len(attempts) - 1 : attempts[k] # "MALFORMED_OUTPUT"

=============================================================================
