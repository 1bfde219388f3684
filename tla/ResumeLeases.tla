---------------------------- MODULE ResumeLeases ----------------------------
(***************************************************************************)
(* The resume lease of one workflow (driftzero_cloud/leases.py): a         *)
(* Firestore document that instances create, take over once it expired,    *)
(* and delete.  Firestore's calls are atomic, ResumeLeases' are not: each  *)
(* action below is one call.                                               *)
(*                                                                         *)
(* Time is the set of tokens whose expiry has passed.  acquire reads the   *)
(* clock once, before its first call, so a process judges expiry by the    *)
(* set as it was then (asOf).  Tokens are uuids: a token out of use stands *)
(* for a new one, which keeps unbounded runs finite.                       *)
(***************************************************************************)
EXTENDS Naturals

CONSTANTS
  Procs,       \* instances that may resume the workflow
  Tokens,      \* lease tokens
  NoLease,
  MaxCrashes   \* bound on the crashes of instances

ASSUME LeaseAssumption ==
  /\ NoLease \notin Tokens
  /\ MaxCrashes \in Nat

VARIABLES
  calm,     \* whether no lease expires and no resume fails in this behaviour
  lease,    \* the token in the lease document, NoLease without a document
  expired,  \* tokens whose expires_at has passed
  step,     \* where each process is
  token,    \* the token each process acquires or holds
  asOf,     \* tokens that had expired when the process read the clock
  crashes

leaseVars == <<calm, lease, expired, step, token, asOf, crashes>>

Acquiring == {"create", "read", "takeover"}
Holding == {"held", "delete"}

LeaseInit ==
  /\ calm \in BOOLEAN
  /\ lease = NoLease
  /\ expired = {}
  /\ step = [p \in Procs |-> "idle"]
  /\ token = [p \in Procs |-> NoLease]
  /\ asOf = [p \in Procs |-> {}]
  /\ crashes = 0

InUse == {lease} \union {token[p] : p \in Procs}
Fresh == Tokens \ InUse

Goto(p, from, to) ==
  /\ step[p] = from
  /\ step' = [step EXCEPT ![p] = to]

\* The process is out of the protocol and forgets what it knew.
Leave(p) ==
  /\ step' = [step EXCEPT ![p] = "idle"]
  /\ token' = [token EXCEPT ![p] = NoLease]
  /\ asOf' = [asOf EXCEPT ![p] = {}]

\* acquire: read the clock and draw a token.
Begin(p) ==
  /\ Goto(p, "idle", "create")
  /\ \E t \in Fresh :
       /\ token' = [token EXCEPT ![p] = t]
       /\ expired' = expired \ {t}
       /\ asOf' = [q \in Procs |-> (IF q = p THEN expired \intersect InUse ELSE asOf[q]) \ {t}]
  /\ UNCHANGED <<lease, crashes>>

\* MUTANT: the document's absence is not a precondition of the write.
CreateUnchecked(p) ==
  /\ Goto(p, "create", "held")
  /\ lease' = token[p]
  /\ UNCHANGED <<expired, token, asOf, crashes>>

\* The create call succeeds only if there is no document.
Create(p) ==
  /\ \/ lease = NoLease /\ Goto(p, "create", "held") /\ lease' = token[p]
     \/ lease # NoLease /\ Goto(p, "create", "read") /\ UNCHANGED lease
  /\ UNCHANGED <<expired, token, asOf, crashes>>

\* MUTANT: an expired lease is respected like a live one.
ReadRespectful(p) ==
  /\ step[p] = "read"
  /\ IF lease = NoLease
       THEN Goto(p, "read", "takeover") /\ UNCHANGED <<token, asOf>>
       ELSE Leave(p)
  /\ UNCHANGED <<lease, expired, crashes>>

\* The document in the way is read: a live lease denies the request, an expired
\* one, and one that has vanished by now, may be taken over.
Read(p) ==
  /\ step[p] = "read"
  /\ IF lease = NoLease \/ lease \in asOf[p]
       THEN Goto(p, "read", "takeover") /\ UNCHANGED <<token, asOf>>
       ELSE Leave(p)
  /\ UNCHANGED <<lease, expired, crashes>>

\* The document is overwritten, whatever it holds by now.
TakeOver(p) ==
  /\ Goto(p, "takeover", "held")
  /\ lease' = token[p]
  /\ UNCHANGED <<expired, token, asOf, crashes>>

\* release: the document is read, and given up if it holds the own token.
ReleaseCheck(p) ==
  /\ ~calm
  /\ step[p] = "held"
  /\ IF lease = token[p]
       THEN Goto(p, "held", "delete") /\ UNCHANGED <<token, asOf>>
       ELSE Leave(p)
  /\ UNCHANGED <<lease, expired, crashes>>

\* The document is deleted, whatever it holds by now.
Delete(p) ==
  /\ step[p] = "delete"
  /\ lease' = NoLease
  /\ Leave(p)
  /\ UNCHANGED <<expired, crashes>>

\* An instance dies; its lease document stays.
HolderCrash(p) ==
  /\ crashes < MaxCrashes
  /\ step[p] # "idle"
  /\ crashes' = crashes + 1
  /\ Leave(p)
  /\ UNCHANGED <<lease, expired>>

\* Time passes the expiry of a lease.
Expire(t) ==
  /\ ~calm
  /\ t \in InUse \ {NoLease}
  /\ t \notin expired
  /\ expired' = expired \union {t}
  /\ UNCHANGED <<lease, step, token, asOf, crashes>>

AcquireStep(p) == Create(p) \/ Read(p) \/ TakeOver(p)

LeaseNext ==
  /\ \/ \E p \in Procs :
          Begin(p) \/ AcquireStep(p) \/ ReleaseCheck(p) \/ Delete(p) \/ HolderCrash(p)
     \/ \E t \in Tokens : Expire(t)
  /\ UNCHANGED calm

LeaseSpec == LeaseInit /\ [][LeaseNext]_leaseVars

\* Requests to resume keep coming, an instance that does not crash finishes the
\* call it is in, and the clock moves on.
LeaseFairSpec ==
  /\ LeaseSpec
  /\ \A p \in Procs :
       /\ WF_leaseVars(Begin(p) /\ UNCHANGED calm)
       /\ WF_leaseVars(AcquireStep(p) /\ UNCHANGED calm)
       /\ WF_leaseVars(Delete(p) /\ UNCHANGED calm)
  /\ \A t \in Tokens : WF_leaseVars(Expire(t) /\ UNCHANGED calm)

-----------------------------------------------------------------------------
(***************************************************************************)
(* Properties                                                              *)
(***************************************************************************)

\* Every variable holds a value of its kind, and exactly the processes in the
\* protocol have a token.
LeaseTypeOK ==
  /\ calm \in BOOLEAN
  /\ lease \in Tokens \union {NoLease}
  /\ expired \subseteq Tokens
  /\ step \in [Procs -> {"idle"} \union Acquiring \union Holding]
  /\ token \in [Procs -> Tokens \union {NoLease}]
  /\ asOf \in [Procs -> SUBSET Tokens]
  /\ crashes \in Nat
  /\ \A p \in Procs : token[p] = NoLease <=> step[p] = "idle"

HoldsLive(p) == step[p] \in Holding /\ token[p] \notin expired

\* While no lease expires and no resume fails, however many instances contend
\* and crash, one of them holds the lease (acquire): the create call decides.
OneLiveHolder == calm => \A p, q \in Procs : HoldsLive(p) /\ HoldsLive(q) => p = q

\* A lease nobody alive holds does not block the workflow forever: it expires
\* and a later request takes it over, whatever else contends or crashes.
Orphaned ==
  /\ ~calm
  /\ lease # NoLease
  /\ \A p \in Procs : ~(step[p] \in Holding /\ token[p] = lease)
NoLockout == Orphaned ~> ~Orphaned

-----------------------------------------------------------------------------
(***************************************************************************)
(* What leases.py says of itself and does not keep.                        *)
(***************************************************************************)

\* Only an expired lease is ever replaced by another one.
TakenOnlyWhenExpired ==
  [][lease # NoLease /\ lease' # NoLease /\ lease' # lease => lease \in expired]_leaseVars

=============================================================================
