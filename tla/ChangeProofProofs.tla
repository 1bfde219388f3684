-------------------------- MODULE ChangeProofProofs --------------------------
(***************************************************************************)
(* Proofs about ChangeProof, for any number of requests for the proof at a *)
(* time, any number of events, deliveries, deaths and failing stores.      *)
(*                                                                         *)
(* ProofInv says of every thread what is true of the things it has read    *)
(* when it goes on with them, although others have written since: what it  *)
(* read is a prefix of what there is, and the workflow it writes back      *)
(* lacks nothing that matters.  ProofTellsTruth and CompleteIsProven       *)
(* follow from it.                                                         *)
(***************************************************************************)
EXTENDS ChangeProof, SequenceTheorems, TLAPS

-----------------------------------------------------------------------------
(***************************************************************************)
(* The inductive invariant                                                 *)
(***************************************************************************)

\* The states a workflow with a target leaves behind.  Those it is abandoned in
\* never enter its history.
Visited ==
  {"CHANGE_RECEIVED", "IMPACT_DETERMINED", "REMEDIATION_PENDING", "REMEDIATION_COMPLETED",
   "FRONTLINE_DELIVERY_COMPLETED", "VERIFICATION_PASSED"}

\* A workflow that may be written into a session: it lacks nothing the session has.
\* This is what makes writing back a stale copy of it harmless.
Fits(w, s) ==
  /\ w \in Workflows
  /\ s.impact = "SINGLE_QUALIFIED_TARGET" => w.target
  /\ s.receipt # 0 => w.delivered

\* What is true of a session by itself.
SessionOK(s) ==
  /\ s \in Sessions /\ s.history \in Seq(Visited)
  /\ Fits(s.workflow, s)
  /\ s.evidence # "NONE" => s.impact = "SINGLE_QUALIFIED_TARGET"
  /\ s.receipt # 0 => s.evidence # "NONE"
  /\ s.receipt <= MaxDispatches /\ Len(s.events) <= MaxEvents

\* What is true of a manifest by itself.
ManifestOK(m) ==
  /\ m \in Manifests
  /\ m.transitions \in Seq(Visited)
  /\ m.delivery \in 1..MaxDispatches

\* What is true of a proof by itself.
ProofOK(p) ==
  /\ p \in Proofs
  /\ ManifestOK(p.manifest)
  /\ p.receipt \in 1..MaxDispatches /\ p.event \in 1..MaxEvents /\ p.manifest.delivery = p.receipt
  /\ Len(p.manifest.verifications) = p.event
  /\ Last(p.manifest.verifications) = "PASS"

\* A request for the proof at step r, the session being s and the document d: what
\* it has read is a prefix of what there is.
RequestOK(r, s, d) ==
  /\ r.step # "IDLE" => SessionOK(s)
  /\ r.step \notin {"IDLE", "RETURN"} => s.receipt # 0
  /\ r.step = "ATTEMPT" => /\ ManifestOK(r.manifest)
                           /\ IsPrefix(r.manifest.verifications, s.events)
  /\ r.step = "PUT" => r \in [step : {"PUT"}, proof : Proofs, replayed : BOOLEAN]
  /\ r.step \in {"LOOK", "PUT", "RECORD"} => /\ ProofOK(r.proof)
                                             /\ IsPrefix(r.proof.manifest.verifications, s.events)
  /\ r.step \in {"COPY", "ASSIGN", "ADVANCE"} => d # None
  /\ r.step = "ASSIGN" => Fits(r.workflow, s)

\* The submission under way at step u, the session being s.
UploadOK(u, s) ==
  /\ u.step \in {"IDLE", "APPEND", "ASSIGN", "RETURN"}
  /\ u.step # "IDLE" => SessionOK(s)
  /\ u.step \in {"APPEND", "ASSIGN"} =>
       /\ u \in [step : {"APPEND", "ASSIGN"}, result : Results, workflow : Workflows]
       /\ s.receipt # 0 /\ Fits(u.workflow, s)
       /\ u.workflow.state # "PROOF_COMPLETE"
  /\ u.step = "APPEND" => Len(s.events) < MaxEvents

\* The proof in memory references a prefix of the events.
MemoryOK(p, s) ==
  p # None => SessionOK(s) /\ ProofOK(p) /\ IsPrefix(p.manifest.verifications, s.events)

ThreadsInv ==
  /\ DOMAIN generator = Generators
  /\ \A g \in Generators : RequestOK(generator[g], session, proofDoc)

CompleteInv ==
  /\ IsComplete => proofDoc # None
  /\ doc.workflow.state = "PROOF_COMPLETE" => proofDoc # None

ProofInv ==
  /\ session # None => SessionOK(session)
  /\ SessionOK(doc)
  /\ MemoryOK(memory, session)
  /\ proofDoc # None => ProofOK(proofDoc)
  /\ ThreadsInv
  /\ UploadOK(upload, session)
  /\ CompleteInv

-----------------------------------------------------------------------------
(***************************************************************************)
(* Sequences                                                               *)
(***************************************************************************)

LEMMA PrefixReflexive == ASSUME NEW s \in Seq(Results) PROVE IsPrefix(s, s)
<1>1. Len(s) \in Nat
  BY LenProperties
<1> QED
  BY <1>1 DEF IsPrefix

LEMMA PrefixAppend ==
  ASSUME NEW s \in Seq(Results), NEW t \in Seq(Results), NEW r \in Results, IsPrefix(s, t)
  PROVE  IsPrefix(s, Append(t, r))
<1> DEFINE u == Append(t, r)
           n == Len(s)
<1>1. /\ n \in Nat /\ Len(t) \in Nat /\ n <= Len(t) /\ SubSeq(s, 1, n) = SubSeq(t, 1, n)
      /\ u \in Seq(Results) /\ Len(u) = Len(t) + 1 /\ \A k \in 1..Len(t) : u[k] = t[k]
  BY LenProperties, AppendProperties DEF IsPrefix
<1> HIDE DEF u
<1>2. \A k \in 1..n : t[k] \in Results /\ u[k] \in Results
  BY <1>1, ElementOfSeq
<1>3. SubSeq(t, 1, n) \in Seq(Results) /\ SubSeq(u, 1, n) \in Seq(Results)
      /\ Len(SubSeq(t, 1, n)) = n /\ Len(SubSeq(u, 1, n)) = n
  BY <1>1, <1>2, SubSeqProperties
<1>4. \A k \in 1..n : SubSeq(t, 1, n)[k] = t[k] /\ SubSeq(u, 1, n)[k] = u[k]
  BY <1>1, <1>2, SubSeqProperties
<1>5. SubSeq(t, 1, n) = SubSeq(u, 1, n)
  BY <1>1, <1>3, <1>4, SeqEqual
<1> QED
  BY <1>1, <1>5 DEF IsPrefix, u

\* A prefix that is at least as long is the whole, and has its last element.
LEMMA WholePrefix ==
  ASSUME NEW s \in Seq(Results), NEW t \in Seq(Results), IsPrefix(s, t), Len(s) >= Len(t), t # <<>>
  PROVE  Len(s) = Len(t) /\ Last(s) = Last(t)
<1>1. Len(s) \in Nat /\ Len(t) \in Nat /\ Len(s) = Len(t) /\ Len(t) # 0
  BY LenProperties, EmptySeq DEF IsPrefix
<1>2. SubSeq(s, 1, Len(s)) = SubSeq(t, 1, Len(t))
  BY <1>1 DEF IsPrefix
<1>3. SubSeq(s, 1, Len(s)) = s /\ SubSeq(t, 1, Len(t)) = t
  BY SubSeqFull
<1> QED
  BY <1>1, <1>2, <1>3 DEF Last

\* A workflow that is not abandoned never was.
LEMMA NeverAbandoned ==
  ASSUME NEW h \in Seq(Visited)
  PROVE  /\ h \in Seq(WorkflowState)
         /\ Range(h) \intersect {"SUPERSEDED", "FAILED", "REVIEW_REQUIRED"} = {}
<1>1. \A x \in Range(h) : x \in Visited
  BY ElementOfSeq, LenProperties DEF Range
<1>2. Visited \subseteq WorkflowState
  BY DEF Visited, WorkflowState
<1>3. h \in Seq(WorkflowState)
  BY <1>2, SeqMonotonic
<1>4. Visited \intersect {"SUPERSEDED", "FAILED", "REVIEW_REQUIRED"} = {}
  BY DEF Visited
<1> QED
  BY <1>1, <1>3, <1>4

-----------------------------------------------------------------------------
(***************************************************************************)
(* What stays true while the session grows                                 *)
(***************************************************************************)

\* What every step but a death does to a session.
Grown(s, t) ==
  /\ t.impact = s.impact
  /\ s.receipt # 0 => t.receipt # 0
  /\ t.events = s.events \/ \E r \in Results : t.events = Append(s.events, r)

\* What a session references stays referenced.
LEMMA PrefixKept ==
  ASSUME NEW s, NEW t, SessionOK(s), Grown(s, t), NEW x \in Seq(Results),
         IsPrefix(x, s.events)
  PROVE  IsPrefix(x, t.events)
<1>1. s.events \in Seq(Results)
  BY DEF SessionOK, Sessions
<1>2. CASE t.events = s.events
  BY <1>2
<1>3. ASSUME NEW r \in Results, t.events = Append(s.events, r) PROVE IsPrefix(x, t.events)
  BY <1>1, <1>3, PrefixAppend
<1> QED
  BY <1>2, <1>3 DEF Grown

LEMMA SessionIsSomething ==
  ASSUME NEW s, SessionOK(s) PROVE s # None
BY ProofAssumption DEF SessionOK

LEMMA ManifestTypes ==
  ASSUME NEW m, ManifestOK(m)
  PROVE  m.verifications \in Seq(Results)
BY DEF ManifestOK, Manifests

\* A workflow that fits a session fits the session it grows to, if that has no
\* receipt the workflow does not know of.
LEMMA FitsKept ==
  ASSUME NEW s, NEW t, NEW w, Fits(w, s), Grown(s, t), s.receipt # 0
  PROVE  Fits(w, t)
<1>1. w.delivered
  BY DEF Fits
<1>2. s.impact = "SINGLE_QUALIFIED_TARGET" => w.target
  BY DEF Fits
<1>3. t.impact = s.impact
  BY DEF Grown
<1>4. t.impact = "SINGLE_QUALIFIED_TARGET" => w.target
  BY <1>2, <1>3
<1> QED
  BY <1>1, <1>4 DEF Fits

LEMMA RequestKept ==
  ASSUME NEW r, NEW s, NEW t, NEW d, NEW e,
         RequestOK(r, s, d), SessionOK(s) => SessionOK(t), Grown(s, t),
         d # None => e # None
  PROVE  RequestOK(r, t, e)
<1>1. r.step # "IDLE" => SessionOK(s) /\ SessionOK(t)
  BY DEF RequestOK
<1>2. r.step \notin {"IDLE", "RETURN"} => s.receipt # 0 /\ t.receipt # 0
  BY DEF RequestOK, Grown
<1>3. ASSUME r.step = "ATTEMPT"
      PROVE  ManifestOK(r.manifest) /\ IsPrefix(r.manifest.verifications, t.events)
  <2>1. ManifestOK(r.manifest) /\ IsPrefix(r.manifest.verifications, s.events)
    BY <1>3 DEF RequestOK
  <2> QED
    BY <1>1, <1>3, <2>1, ManifestTypes, PrefixKept
<1>4. ASSUME r.step \in {"LOOK", "PUT", "RECORD"}
      PROVE  ProofOK(r.proof) /\ IsPrefix(r.proof.manifest.verifications, t.events)
  <2>1. ProofOK(r.proof) /\ IsPrefix(r.proof.manifest.verifications, s.events)
    BY <1>4 DEF RequestOK
  <2>2. r.proof.manifest.verifications \in Seq(Results)
    BY <2>1, ManifestTypes DEF ProofOK
  <2> QED
    BY <1>1, <1>4, <2>1, <2>2, PrefixKept
<1>5. r.step \in {"COPY", "ASSIGN", "ADVANCE"} => e # None
  BY DEF RequestOK
<1>6. ASSUME r.step = "ASSIGN" PROVE Fits(r.workflow, t)
  <2>1. Fits(r.workflow, s) /\ s.receipt # 0
    BY <1>6 DEF RequestOK
  <2> QED
    BY <2>1, FitsKept
<1>7. r.step = "PUT" => r \in [step : {"PUT"}, proof : Proofs, replayed : BOOLEAN]
  BY DEF RequestOK
<1> QED
  BY <1>1, <1>2, <1>3, <1>4, <1>5, <1>6, <1>7 DEF RequestOK

LEMMA UploadKept ==
  ASSUME NEW u, NEW s, NEW t, UploadOK(u, s),
         SessionOK(s) => SessionOK(t), Grown(s, t), t.events = s.events
  PROVE  UploadOK(u, t)
<1>1. u.step \in {"APPEND", "ASSIGN"} => s.receipt # 0 /\ t.receipt # 0
  BY DEF UploadOK, Grown
<1>2. ASSUME u.step \in {"APPEND", "ASSIGN"} PROVE Fits(u.workflow, t)
  <2>1. Fits(u.workflow, s) /\ s.receipt # 0
    BY <1>2 DEF UploadOK
  <2> QED
    BY <2>1, FitsKept
<1> QED
  BY <1>1, <1>2 DEF UploadOK

LEMMA MemoryKept ==
  ASSUME NEW p, NEW s, NEW t,
         MemoryOK(p, s), SessionOK(s) => SessionOK(t), Grown(s, t)
  PROVE  MemoryOK(p, t)
<1> SUFFICES ASSUME p # None PROVE MemoryOK(p, t)
  BY DEF MemoryOK
<1>1. SessionOK(s) /\ SessionOK(t) /\ ProofOK(p) /\ IsPrefix(p.manifest.verifications, s.events)
  BY DEF MemoryOK
<1>2. p.manifest.verifications \in Seq(Results)
  BY <1>1, ManifestTypes DEF ProofOK
<1>3. IsPrefix(p.manifest.verifications, t.events)
  BY <1>1, <1>2, PrefixKept
<1> QED
  BY <1>1, <1>3 DEF MemoryOK

\* The threads, when one of them moves.
LEMMA ThreadMoves ==
  ASSUME DOMAIN generator = Generators, NEW g \in Generators, NEW to, Go(g, to),
         RequestOK(to, session', proofDoc'),
         \A h \in Generators : RequestOK(generator[h], session', proofDoc')
  PROVE  ThreadsInv'
<1>1. DOMAIN generator' = Generators
  BY DEF Go
<1>2. \A h \in Generators : generator'[h] = IF h = g THEN to ELSE generator[h]
  BY DEF Go
<1>3. ASSUME NEW h \in Generators
      PROVE  RequestOK(generator'[h], session', proofDoc')
  <2>1. CASE h = g
    BY <1>2, <2>1
  <2>2. CASE h # g
    BY <1>2, <2>2
  <2> QED
    BY <2>1, <2>2
<1> QED
  BY <1>1, <1>3 DEF ThreadsInv

\* All that a step which neither kills nor revives the process leaves true.
LEMMA Kept ==
  ASSUME ProofInv, Grown(session, session'),
         SessionOK(session) => SessionOK(session'),
         proofDoc # None => proofDoc' # None
  PROVE  /\ \A h \in Generators : RequestOK(generator[h], session', proofDoc')
         /\ MemoryOK(memory, session')
         /\ proofDoc # None => ProofOK(proofDoc)
         /\ DOMAIN generator = Generators
<1>1. ThreadsInv /\ MemoryOK(memory, session)
  BY DEF ProofInv
<1>2. ASSUME NEW h \in Generators
      PROVE  RequestOK(generator[h], session', proofDoc')
  <2>1. RequestOK(generator[h], session, proofDoc)
    BY <1>1 DEF ThreadsInv
  <2> QED
    BY <1>1, <2>1, RequestKept
<1>3. MemoryOK(memory, session')
  BY <1>1, MemoryKept
<1>4. proofDoc # None => ProofOK(proofDoc)
  BY <1>1 DEF ProofInv
<1> QED
  BY <1>1, <1>2, <1>3, <1>4 DEF ThreadsInv

-----------------------------------------------------------------------------
(***************************************************************************)
(* The request for the proof                                               *)
(***************************************************************************)

\* The manifest of a session that has evidence and a receipt.
LEMMA ManifestOfSession ==
  ASSUME NEW s, SessionOK(s), s.receipt # 0
  PROVE  ManifestOK(Manifest(s)) /\ IsPrefix(Manifest(s).verifications, s.events)
<1>1. /\ s.evidence \in {"MUTATION", "NO_OP"} /\ s.receipt \in 1..MaxDispatches
      /\ s.events \in Seq(Results) /\ s.history \in Seq(Visited)
  BY DEF SessionOK, Sessions
<1>2. RemediationRefs(s.evidence) \in {<<"BEFORE", "AFTER">>, <<"EVALUATED">>}
  BY <1>1 DEF RemediationRefs
<1>3. s.history \in Seq(WorkflowState)
  BY <1>1, NeverAbandoned
<1>4. Manifest(s) \in Manifests
  BY <1>1, <1>2, <1>3 DEF Manifest, Manifests
<1>5. IsPrefix(s.events, s.events)
  BY <1>1, PrefixReflexive
<1> QED
  BY <1>1, <1>4, <1>5 DEF ManifestOK, Manifest

\* The conditions compare the manifest that was assembled with the events of
\* now: if they hold, the two are the same, so the proof references all of them.
LEMMA EligibleProof ==
  ASSUME NEW s, SessionOK(s), s.receipt # 0,
         NEW w, NEW m, ManifestOK(m), IsPrefix(m.verifications, s.events),
         Eligible(Context(w, m, s))
  PROVE  /\ ProofOK(ProofOf(Context(w, m, s)))
         /\ IsPrefix(ProofOf(Context(w, m, s)).manifest.verifications, s.events)
<1> DEFINE c == Context(w, m, s)
           p == ProofOf(c)
<1>1. c.manifest = m /\ c.events = s.events /\ c.receipt = s.receipt /\ c.evidence = s.evidence
  BY DEF Context
<1>2. /\ LatestIs(c.events, "PASS") /\ CoversAllEvents(c.manifest, c.events) /\ c.evidence # "NONE"
      /\ c.manifest.delivery = c.receipt
  BY DEF Eligible
<1> HIDE DEF c
<1>3. s.events # <<>> /\ Last(s.events) = "PASS" /\ Len(m.verifications) >= Len(s.events)
  BY <1>1, <1>2 DEF LatestIs, CoversAllEvents
<1>4. /\ s.events \in Seq(Results) /\ m.verifications \in Seq(Results)
      /\ s.receipt \in 1..MaxDispatches /\ s.evidence \in {"MUTATION", "NO_OP"} /\ Len(s.events) <= MaxEvents
      /\ m \in Manifests
  BY <1>1, <1>2, ManifestTypes DEF SessionOK, Sessions, ManifestOK
<1>5. Len(m.verifications) = Len(s.events) /\ Last(m.verifications) = "PASS"
  BY <1>3, <1>4, WholePrefix
<1>6. Len(s.events) \in Nat /\ Len(s.events) # 0
  BY <1>3, <1>4, LenProperties, EmptySeq
<1>7. p = [manifest |-> m, evidence |-> s.evidence, receipt |-> s.receipt, event |-> Len(s.events)]
  BY <1>1 DEF ProofOf
<1>8. Len(s.events) \in 1..MaxEvents
  BY <1>4, <1>6, ProofAssumption
<1>9. p \in Proofs
  BY <1>4, <1>6, <1>7 DEF Proofs
<1>10. ProofOK(p)
  BY <1>1, <1>2, <1>4, <1>5, <1>7, <1>8, <1>9 DEF ProofOK
<1>11. IsPrefix(p.manifest.verifications, s.events)
  BY <1>7
<1> QED
  BY <1>10, <1>11 DEF c

\* A step of one thread that leaves the session alone.
LEMMA ThreadReads ==
  ASSUME ProofInv, session' = session, proofDoc # None => proofDoc' # None,
         NEW g \in Generators, NEW to, Go(g, to), RequestOK(to, session, proofDoc')
  PROVE  ThreadsInv'
<1>1. DOMAIN generator = Generators
  BY DEF ProofInv, ThreadsInv
<1>2. Grown(session, session')
  BY DEF Grown
<1>3. \A h \in Generators : RequestOK(generator[h], session', proofDoc')
  BY <1>1, <1>2, Kept
<1> QED
  BY <1>1, <1>3, ThreadMoves

\* A step of one thread that writes neither the session nor a proof.
LEMMA ThreadOnly ==
  ASSUME ProofInv, UNCHANGED <<session, memory, upload, doc, proofDoc>>,
         NEW g \in Generators, NEW to, Go(g, to), RequestOK(to, session, proofDoc)
  PROVE  ProofInv'
<1>1. ThreadsInv'
  BY ThreadReads
<1>2. CompleteInv'
  BY DEF ProofInv, CompleteInv, IsComplete, Live
<1> QED
  BY <1>1, <1>2 DEF ProofInv

LEMMA IdleIsOK ==
  ASSUME NEW s, NEW d
  PROVE  RequestOK(Idle, s, d) /\ UploadOK(Idle, s)
BY DEF RequestOK, UploadOK, Idle

LEMMA ReturnIsOK ==
  ASSUME NEW s, NEW d, SessionOK(s)
  PROVE  RequestOK([step |-> "RETURN"], s, d) /\ UploadOK([step |-> "RETURN"], s)
BY DEF RequestOK, UploadOK

\* What a thread at a step has.
LEMMA ThreadHas ==
  ASSUME ProofInv, NEW g \in Generators
  PROVE  /\ RequestOK(generator[g], session, proofDoc)
         /\ ~At(g, "IDLE") => SessionOK(session)
         /\ ~At(g, "IDLE") /\ ~At(g, "RETURN") => session.receipt # 0
BY DEF ProofInv, ThreadsInv, RequestOK, At

LEMMA RequestProofKeeps ==
  ASSUME ProofInv, NEW g \in Generators, RequestProof(g) PROVE ProofInv'
<1>1. SessionOK(session)
  BY DEF ProofInv, RequestProof, Live
<1> DEFINE attempt == [step |-> "ATTEMPT", workflow |-> session.workflow, manifest |-> Manifest(session)]
<1>2. CASE HasStructure(session)
  <2>1. session.receipt # 0
    BY <1>2 DEF HasStructure
  <2>2. attempt.step = "ATTEMPT" /\ attempt.manifest = Manifest(session)
    OBVIOUS
  <2>3. Go(g, attempt)
    BY <1>2 DEF RequestProof
  <2> HIDE DEF attempt
  <2>4. RequestOK(attempt, session, proofDoc)
    BY <1>1, <2>1, <2>2, ManifestOfSession DEF RequestOK
  <2> QED
    BY <2>3, <2>4, ThreadOnly DEF RequestProof
<1>3. CASE ~HasStructure(session)
  <2>1. Go(g, [step |-> "RETURN"])
    BY <1>3 DEF RequestProof
  <2> QED
    BY <1>1, <2>1, ReturnIsOK, ThreadOnly DEF RequestProof
<1> QED
  BY <1>2, <1>3

LEMMA AttemptKeeps ==
  ASSUME ProofInv, NEW g \in Generators, Attempt(g) PROVE ProofInv'
<1> DEFINE c == Context(generator[g].workflow, generator[g].manifest, session)
           record == [step |-> "RECORD", proof |-> memory, replayed |-> TRUE]
           look == [step |-> "LOOK", proof |-> ProofOf(c)]
<1>1. /\ SessionOK(session) /\ session.receipt # 0
      /\ ManifestOK(generator[g].manifest)
      /\ IsPrefix(generator[g].manifest.verifications, session.events)
  BY ThreadHas DEF Attempt, At, RequestOK
<1>2. UNCHANGED <<session, memory, upload, doc, proofDoc>>
  BY DEF Attempt
<1>3. CASE memory # None
  <2>1. ProofOK(memory) /\ IsPrefix(memory.manifest.verifications, session.events)
    BY <1>3 DEF ProofInv, MemoryOK
  <2>2. Go(g, record)
    BY <1>3 DEF Attempt
  <2>3. record.step = "RECORD" /\ record.proof = memory
    OBVIOUS
  <2> HIDE DEF record
  <2>4. RequestOK(record, session, proofDoc)
    BY <1>1, <2>1, <2>3 DEF RequestOK
  <2> QED
    BY <1>2, <2>2, <2>4, ThreadOnly
<1>4. CASE memory = None /\ Eligible(c)
  <2>1. Go(g, look)
    BY <1>4 DEF Attempt
  <2>2. look.step = "LOOK" /\ look.proof = ProofOf(c)
    OBVIOUS
  <2>3. ProofOK(ProofOf(c)) /\ IsPrefix(ProofOf(c).manifest.verifications, session.events)
    BY <1>1, <1>4, EligibleProof
  <2> HIDE DEF look, c
  <2>4. RequestOK(look, session, proofDoc)
    BY <1>1, <2>2, <2>3 DEF RequestOK
  <2> QED
    BY <1>2, <2>1, <2>4, ThreadOnly
<1>5. CASE memory = None /\ ~Eligible(c)
  <2>1. Go(g, [step |-> "RETURN"])
    BY <1>5 DEF Attempt
  <2> QED
    BY <1>1, <1>2, <2>1, ReturnIsOK, ThreadOnly
<1> QED
  BY <1>3, <1>4, <1>5

LEMMA LookKeeps ==
  ASSUME ProofInv, NEW g \in Generators, Look(g) PROVE ProofInv'
<1>1. /\ SessionOK(session) /\ session.receipt # 0
      /\ ProofOK(generator[g].proof)
      /\ IsPrefix(generator[g].proof.manifest.verifications, session.events)
  BY ThreadHas DEF Look, At, RequestOK
<1>2. UNCHANGED <<session, memory, upload, doc, proofDoc>>
  BY DEF Look
<1>3. ASSUME NEW step \in {"PUT", "RECORD"},
             Go(g, [step |-> step, proof |-> generator[g].proof, replayed |-> FALSE])
      PROVE  ProofInv'
  <2> DEFINE to == [step |-> step, proof |-> generator[g].proof, replayed |-> FALSE]
  <2>1. to.step = step /\ to.proof = generator[g].proof
    OBVIOUS
  <2>2. step = "PUT" => to \in [step : {"PUT"}, proof : Proofs, replayed : BOOLEAN]
    BY <1>1 DEF ProofOK
  <2> HIDE DEF to
  <2>3. RequestOK(to, session, proofDoc)
    BY <1>1, <2>1, <2>2 DEF RequestOK
  <2> QED
    BY <1>2, <1>3, <2>3, ThreadOnly DEF to
<1>4. CASE memory = None
  <2>1. Go(g, [step |-> "PUT", proof |-> generator[g].proof, replayed |-> FALSE])
    BY <1>4 DEF Look
  <2> QED
    BY <1>3, <2>1
<1>5. CASE memory # None /\ memory \in {None, generator[g].proof}
  <2>1. Go(g, [step |-> "RECORD", proof |-> generator[g].proof, replayed |-> FALSE])
    BY <1>5 DEF Look
  <2> QED
    BY <1>3, <2>1
<1>6. CASE memory \notin {None, generator[g].proof}
  <2>1. Go(g, Idle)
    BY <1>6 DEF Look, Abort
  <2> QED
    BY <1>2, <2>1, IdleIsOK, ThreadOnly
<1> QED
  BY <1>4, <1>5, <1>6

LEMMA PutKeeps ==
  ASSUME ProofInv, NEW g \in Generators, Put(g) PROVE ProofInv'
<1> DEFINE to == [generator[g] EXCEPT !.step = "RECORD"]
<1>1. /\ SessionOK(session) /\ session.receipt # 0
      /\ ProofOK(generator[g].proof)
      /\ IsPrefix(generator[g].proof.manifest.verifications, session.events)
      /\ generator[g] \in [step : {"PUT"}, proof : Proofs, replayed : BOOLEAN]
  BY ThreadHas DEF Put, At, RequestOK
<1>2. to.step = "RECORD" /\ to.proof = generator[g].proof
  BY <1>1
<1>3. Go(g, to)
  BY DEF Put
<1> HIDE DEF to
<1>4. RequestOK(to, session, proofDoc')
  BY <1>1, <1>2 DEF RequestOK
<1>5. ThreadsInv'
  BY <1>3, <1>4, ThreadReads DEF Put
<1>6. MemoryOK(memory', session')
  BY <1>1 DEF Put, MemoryOK
<1>7. CompleteInv'
  BY DEF ProofInv, CompleteInv, IsComplete, Live, Put
<1> QED
  BY <1>5, <1>6, <1>7 DEF ProofInv, Put

LEMMA RecordProofKeeps ==
  ASSUME ProofInv, NEW g \in Generators, RecordProof(g) PROVE ProofInv'
<1> DEFINE to == [step |-> IF generator[g].replayed THEN "RETURN" ELSE "COPY"]
<1>1. /\ SessionOK(session) /\ session.receipt # 0
      /\ ProofOK(generator[g].proof)
  BY ThreadHas DEF RecordProof, At, RequestOK
<1>2. proofDoc' = generator[g].proof /\ proofDoc' # None
  BY <1>1, ProofAssumption DEF RecordProof, ProofOK
<1>3. Go(g, to) /\ to.step \in {"RETURN", "COPY"}
  BY DEF RecordProof, Recorded
<1> HIDE DEF to
<1>4. RequestOK(to, session, proofDoc')
  BY <1>1, <1>2, <1>3 DEF RequestOK
<1>5. UNCHANGED <<session, memory, upload, doc>>
  BY DEF RecordProof
<1>6. ThreadsInv'
  BY <1>2, <1>3, <1>4, <1>5, ThreadReads
<1>7. CompleteInv'
  BY <1>2 DEF CompleteInv
<1>8. proofDoc' # None => ProofOK(proofDoc')
  BY <1>1, <1>2, <1>5
<1> QED
  BY <1>5, <1>6, <1>7, <1>8 DEF ProofInv

LEMMA RecordConflictKeeps ==
  ASSUME ProofInv, NEW g \in Generators, RecordConflict(g) PROVE ProofInv'
BY IdleIsOK, ThreadOnly DEF RecordConflict, Abort

LEMMA CopyWorkflowKeeps ==
  ASSUME ProofInv, NEW g \in Generators, CopyWorkflow(g) PROVE ProofInv'
<1> DEFINE w == [session.workflow EXCEPT !.proven = TRUE]
           to == [step |-> "ASSIGN", workflow |-> w]
<1>1. /\ SessionOK(session) /\ session.receipt # 0
      /\ proofDoc # None
  BY ThreadHas DEF CopyWorkflow, At, RequestOK
<1>2. Fits(session.workflow, session)
  BY <1>1 DEF SessionOK
<1>3. w \in Workflows /\ w.target = session.workflow.target /\ w.delivered = session.workflow.delivered
  BY <1>2 DEF Fits, Workflows
<1>4. to.step = "ASSIGN" /\ to.workflow = w /\ Go(g, to)
  BY DEF CopyWorkflow
<1> HIDE DEF w
<1>5. Fits(w, session)
  BY <1>2, <1>3 DEF Fits
<1> HIDE DEF to
<1>6. RequestOK(to, session, proofDoc)
  BY <1>1, <1>4, <1>5 DEF RequestOK
<1> QED
  BY <1>4, <1>6, ThreadOnly DEF CopyWorkflow

\* Writing a workflow that fits.
LEMMA NewWorkflow ==
  ASSUME NEW s, SessionOK(s), NEW w, Fits(w, s)
  PROVE  /\ SessionOK([s EXCEPT !.workflow = w])
         /\ Grown(s, [s EXCEPT !.workflow = w])
         /\ [s EXCEPT !.workflow = w].events = s.events
         /\ [s EXCEPT !.workflow = w].workflow = w
<1> DEFINE t == [s EXCEPT !.workflow = w]
<1>1. s \in Sessions /\ w \in Workflows
  BY DEF SessionOK, Fits
<1>2. /\ t \in Sessions /\ t.workflow = w /\ t.impact = s.impact /\ t.evidence = s.evidence
      /\ t.receipt = s.receipt /\ t.events = s.events /\ t.history = s.history
  BY <1>1 DEF Sessions
<1> HIDE DEF t
<1>3. Fits(w, t)
  BY <1>2 DEF Fits
<1>4. SessionOK(t)
  BY <1>2, <1>3 DEF SessionOK
<1>5. Grown(s, t)
  BY <1>2 DEF Grown
<1> QED
  BY <1>2, <1>4, <1>5 DEF t

LEMMA AssignCopyKeeps ==
  ASSUME ProofInv, NEW g \in Generators, AssignCopy(g) PROVE ProofInv'
<1> DEFINE w == generator[g].workflow
<1>1. /\ SessionOK(session) /\ session.receipt # 0
      /\ proofDoc # None /\ Fits(w, session)
  BY ThreadHas DEF AssignCopy, At, RequestOK
<1>2. /\ session' = [session EXCEPT !.workflow = w] /\ Go(g, [step |-> "ADVANCE"])
      /\ UNCHANGED <<memory, upload, doc, proofDoc>>
  BY DEF AssignCopy
<1>3. /\ SessionOK(session') /\ Grown(session, session')
      /\ session'.events = session.events
  BY <1>1, <1>2, NewWorkflow
<1> HIDE DEF w
<1>4. session'.receipt # 0
  BY <1>1, <1>3 DEF Grown
<1>5. RequestOK([step |-> "ADVANCE"], session', proofDoc')
  BY <1>1, <1>2, <1>3, <1>4 DEF RequestOK
<1>6. /\ MemoryOK(memory, session')
      /\ \A h \in Generators : RequestOK(generator[h], session', proofDoc')
      /\ DOMAIN generator = Generators
  BY <1>1, <1>2, <1>3, Kept
<1>7. ThreadsInv'
  BY <1>2, <1>5, <1>6, ThreadMoves
<1>8. UploadOK(upload, session')
  BY <1>3, UploadKept DEF ProofInv
<1>9. CompleteInv'
  BY <1>1, <1>2 DEF CompleteInv
<1> QED
  BY <1>1, <1>2, <1>3, <1>6, <1>7, <1>8, <1>9 DEF ProofInv

LEMMA OnlyPassedCompletes ==
  ASSUME NEW state \in WorkflowState, CanTransition(state, "PROOF_COMPLETE")
  PROVE  state = "VERIFICATION_PASSED"
BY DEF CanTransition, LegalTargets, TerminalStates, Progress, Abandoned, WorkflowState

LEMMA CompleteKeeps ==
  ASSUME ProofInv, NEW g \in Generators, Complete(g) PROVE ProofInv'
<1>1. /\ SessionOK(session) /\ proofDoc # None
  BY ThreadHas DEF Complete, At, RequestOK
<1>2. Go(g, [step |-> "RETURN"]) /\ UNCHANGED <<memory, upload, doc, proofDoc>>
  BY DEF Complete
<1>3. /\ SessionOK(session') /\ Grown(session, session')
      /\ session'.events = session.events
  <2>1. CASE CanTransition(session.workflow.state, "PROOF_COMPLETE")
    <3> DEFINE w == [session.workflow EXCEPT !.state = "PROOF_COMPLETE"]
               history == Append(session.history, session.workflow.state)
    <3>1. session \in Sessions /\ session.workflow \in Workflows /\ Fits(session.workflow, session)
      BY <1>1 DEF SessionOK, Sessions
    <3>2. session.workflow.state \in Visited /\ session.history \in Seq(Visited)
      BY <1>1, <2>1, <3>1, OnlyPassedCompletes DEF Workflows, Visited, SessionOK
    <3>3. history \in Seq(Visited) /\ history \in Seq(WorkflowState)
      BY <3>2, AppendProperties, NeverAbandoned
    <3>4. /\ w \in Workflows /\ w.target = session.workflow.target
          /\ w.delivered = session.workflow.delivered
      BY <3>1 DEF Workflows, WorkflowState
    <3>5. session' = [session EXCEPT !.history = Append(session.history, session.workflow.state),
                                     !.workflow = [session.workflow EXCEPT !.state = "PROOF_COMPLETE"]]
      BY <2>1, <3>1 DEF Complete, Sessions, Workflows
    <3> HIDE DEF w, history
    <3>6. session' = [session EXCEPT !.history = history, !.workflow = w]
      BY <3>5 DEF w, history
    <3>7. /\ session' \in Sessions /\ session'.workflow = w /\ session'.impact = session.impact
          /\ session'.evidence = session.evidence /\ session'.receipt = session.receipt
          /\ session'.events = session.events
          /\ session'.history = history
      BY <3>1, <3>3, <3>4, <3>6 DEF Sessions
    <3>8. Fits(w, session')
      BY <3>1, <3>4, <3>7 DEF Fits
    <3>9. SessionOK(session')
      BY <1>1, <3>3, <3>7, <3>8 DEF SessionOK
    <3> QED
      BY <3>7, <3>9 DEF Grown
  <2>2. CASE ~CanTransition(session.workflow.state, "PROOF_COMPLETE")
    BY <1>1, <2>2 DEF Complete, Grown
  <2> QED
    BY <2>1, <2>2
<1>4. RequestOK([step |-> "RETURN"], session', proofDoc')
  BY <1>2, <1>3, ReturnIsOK
<1>5. /\ MemoryOK(memory, session')
      /\ \A h \in Generators : RequestOK(generator[h], session', proofDoc')
      /\ DOMAIN generator = Generators
  BY <1>1, <1>2, <1>3, Kept
<1>6. ThreadsInv'
  BY <1>2, <1>4, <1>5, ThreadMoves
<1>7. UploadOK(upload, session')
  BY <1>2, <1>3, UploadKept DEF ProofInv
<1>8. CompleteInv'
  BY <1>1, <1>2 DEF CompleteInv
<1> QED
  BY <1>1, <1>2, <1>3, <1>5, <1>6, <1>7, <1>8 DEF ProofInv

LEMMA ReturnProofKeeps ==
  ASSUME ProofInv, NEW g \in Generators, ReturnProof(g) PROVE ProofInv'
<1>1. SessionOK(session) /\ Go(g, Idle)
  BY ThreadHas DEF ReturnProof, At, Abort
<1>2. UNCHANGED <<session, memory, upload, proofDoc>> /\ doc' = session
  BY DEF ReturnProof
<1>3. ThreadsInv'
  BY <1>1, <1>2, IdleIsOK, ThreadReads
<1>4. session # None
  BY <1>1, SessionIsSomething
<1>5. CompleteInv'
  BY <1>1, <1>2, <1>4 DEF CompleteInv, ProofInv, IsComplete, Live
<1> QED
  BY <1>1, <1>2, <1>3, <1>5 DEF ProofInv

LEMMA StoreRaisesKeeps ==
  ASSUME ProofInv, NEW g \in Generators, StoreRaises(g) PROVE ProofInv'
<1>1. Go(g, Idle) /\ UNCHANGED <<session, memory, upload>>
  BY DEF StoreRaises, Abort
<1>2. CASE /\ At(g, "RECORD") /\ UNCHANGED doc
           /\ proofDoc' \in {proofDoc, IF proofDoc = None THEN generator[g].proof ELSE proofDoc}
  <2>1. ProofOK(generator[g].proof)
    BY <1>2, ThreadHas DEF At, RequestOK
  <2>2. proofDoc # None => proofDoc' # None
    BY <1>2
  <2>3. proofDoc' # None => ProofOK(proofDoc')
    BY <1>1, <1>2, <2>1 DEF ProofInv
  <2>4. ThreadsInv'
    BY <1>1, <2>2, IdleIsOK, ThreadReads
  <2>5. CompleteInv'
    BY <1>1, <1>2, <2>2 DEF ProofInv, CompleteInv, IsComplete, Live
  <2> QED
    BY <1>1, <1>2, <2>3, <2>4, <2>5 DEF ProofInv
<1>3. CASE At(g, "RETURN") /\ doc' \in {doc, session} /\ UNCHANGED proofDoc
  <2>1. SessionOK(session) /\ session # None
    BY <1>3, ThreadHas, SessionIsSomething DEF At
  <2>2. SessionOK(doc')
    BY <1>1, <1>3, <2>1 DEF ProofInv
  <2>3. ThreadsInv'
    BY <1>1, <1>3, IdleIsOK, ThreadReads
  <2>4. CompleteInv'
    BY <1>1, <1>3, <2>1 DEF ProofInv, CompleteInv, IsComplete, Live
  <2> QED
    BY <1>1, <1>3, <2>2, <2>3, <2>4 DEF ProofInv
<1> QED
  BY <1>2, <1>3 DEF StoreRaises

-----------------------------------------------------------------------------
(***************************************************************************)
(* What else happens to the session                                        *)
(***************************************************************************)

\* A step of the process that is not a request for the proof.
LEMMA SessionMoves ==
  ASSUME ProofInv, Live, UNCHANGED <<memory, generator, proofDoc>>,
         SessionOK(session'), Grown(session, session')
  PROVE  /\ MemoryOK(memory', session')
         /\ proofDoc' # None => ProofOK(proofDoc')
         /\ ThreadsInv'
<1>1. /\ \A h \in Generators : RequestOK(generator[h], session', proofDoc')
      /\ MemoryOK(memory, session')
      /\ proofDoc # None => ProofOK(proofDoc)
      /\ DOMAIN generator = Generators
  BY Kept
<1> QED
  BY <1>1 DEF ThreadsInv

LEMMA RemediateKeeps ==
  ASSUME ProofInv, Remediate PROVE ProofInv'
<1> DEFINE w == [session.workflow EXCEPT !.state = "REMEDIATION_COMPLETED"]
           history == session.history \o <<"IMPACT_DETERMINED", "REMEDIATION_PENDING">>
<1>1. /\ SessionOK(session)
      /\ session.impact = "SINGLE_QUALIFIED_TARGET" /\ session.evidence = "NONE"
      /\ session \in Sessions /\ session.workflow \in Workflows /\ Fits(session.workflow, session)
      /\ session.history \in Seq(Visited)
  BY DEF ProofInv, Remediate, Live, SessionOK, Sessions
<1>2. PICK evidence \in {"MUTATION", "NO_OP"} :
        session' = [session EXCEPT !.evidence = evidence,
                                   !.workflow.state = "REMEDIATION_COMPLETED",
                                   !.history = @ \o <<"IMPACT_DETERMINED", "REMEDIATION_PENDING">>]
  BY DEF Remediate
<1>3. <<"IMPACT_DETERMINED", "REMEDIATION_PENDING">> \in Seq(Visited)
  BY DEF Visited
<1>4. history \in Seq(Visited) /\ history \in Seq(WorkflowState)
  BY <1>1, <1>3, ConcatProperties, NeverAbandoned
<1>5. /\ w \in Workflows /\ w.target = session.workflow.target /\ w.state = "REMEDIATION_COMPLETED"
      /\ w.delivered = session.workflow.delivered
  BY <1>1 DEF Workflows, WorkflowState
<1>6. session' = [session EXCEPT !.evidence = evidence, !.workflow = w, !.history = history]
  BY <1>1, <1>2 DEF Sessions, Workflows
<1> HIDE DEF w, history
<1>7. /\ session' \in Sessions /\ session'.workflow = w /\ session'.impact = session.impact
      /\ session'.evidence = evidence /\ session'.receipt = session.receipt
      /\ session'.events = session.events
      /\ session'.history = history
  BY <1>1, <1>4, <1>5, <1>6 DEF Sessions
<1>8. Fits(w, session')
  BY <1>1, <1>5, <1>7 DEF Fits
<1>9. UNCHANGED <<memory, generator, upload, proofDoc>> /\ doc' = session'
  BY DEF Remediate
<1>10. SessionOK(session')
  BY <1>1, <1>4, <1>7, <1>8, <1>9 DEF SessionOK
<1>11. Grown(session, session') /\ session'.events = session.events
  BY <1>7 DEF Grown
<1>12. /\ MemoryOK(memory', session')
       /\ proofDoc' # None => ProofOK(proofDoc')
       /\ ThreadsInv'
  BY <1>1, <1>9, <1>10, <1>11, SessionMoves DEF Remediate
<1>13. UploadOK(upload', session')
  BY <1>9, <1>10, <1>11, UploadKept DEF ProofInv
<1>14. CompleteInv'
  BY <1>5, <1>7, <1>9 DEF CompleteInv, IsComplete
<1> QED
  BY <1>1, <1>9, <1>10, <1>12, <1>13, <1>14 DEF ProofInv

LEMMA DeliverKeeps ==
  ASSUME ProofInv, Deliver PROVE ProofInv'
<1> DEFINE remediated == session.workflow.state = "REMEDIATION_COMPLETED"
           state == IF remediated THEN "AWAITING_FIELD_VERIFICATION" ELSE session.workflow.state
           w == [session.workflow EXCEPT !.delivered = TRUE, !.state = state]
           history == IF remediated
                        THEN session.history \o <<"REMEDIATION_COMPLETED", "FRONTLINE_DELIVERY_COMPLETED">>
                        ELSE session.history
<1>1. /\ SessionOK(session)
      /\ session.evidence # "NONE" /\ session # None
      /\ session \in Sessions /\ session.workflow \in Workflows /\ Fits(session.workflow, session)
      /\ session.history \in Seq(Visited)
  BY DEF ProofInv, Deliver, Live, SessionOK, Sessions
<1>2. PICK number \in 1..MaxDispatches :
        session' = [session EXCEPT
          !.receipt = number,
          !.workflow.delivered = TRUE,
          !.workflow.state = IF @ = "REMEDIATION_COMPLETED" THEN "AWAITING_FIELD_VERIFICATION" ELSE @,
          !.history = IF session.workflow.state = "REMEDIATION_COMPLETED"
                        THEN @ \o <<"REMEDIATION_COMPLETED", "FRONTLINE_DELIVERY_COMPLETED">>
                        ELSE @]
  BY DEF Deliver
<1>3. <<"REMEDIATION_COMPLETED", "FRONTLINE_DELIVERY_COMPLETED">> \in Seq(Visited)
  BY DEF Visited
<1>4. history \in Seq(Visited) /\ history \in Seq(WorkflowState)
  <2>1. CASE remediated
    BY <1>1, <1>3, <2>1, ConcatProperties, NeverAbandoned
  <2>2. CASE ~remediated
    BY <1>1, <2>2, NeverAbandoned
  <2> QED
    BY <2>1, <2>2
<1>5. state \in WorkflowState /\ (state = "PROOF_COMPLETE" => session.workflow.state = "PROOF_COMPLETE")
  BY <1>1 DEF Workflows, WorkflowState
<1>6. session' = [session EXCEPT !.receipt = number, !.workflow = w, !.history = history]
  BY <1>1, <1>2 DEF Sessions, Workflows
<1> HIDE DEF state
<1>7. w \in Workflows /\ w.target = session.workflow.target /\ w.state = state
  BY <1>1, <1>5 DEF Workflows
<1>8. w.delivered
  BY <1>1 DEF Workflows
<1> HIDE DEF w, history
<1>17. number \in Nat /\ number # 0 /\ number <= MaxDispatches
  BY ProofAssumption
<1>9. /\ session' \in Sessions /\ session'.workflow = w /\ session'.impact = session.impact
      /\ session'.evidence = session.evidence /\ session'.receipt = number
      /\ session'.events = session.events
      /\ session'.history = history
  BY <1>1, <1>4, <1>6, <1>7, <1>17 DEF Sessions
<1>10. Fits(w, session')
  BY <1>1, <1>7, <1>8, <1>9 DEF Fits
<1>11. UNCHANGED <<memory, generator, upload, proofDoc>> /\ doc' = session'
  BY DEF Deliver
<1>12. SessionOK(session')
  BY <1>1, <1>4, <1>9, <1>10, <1>17 DEF SessionOK
<1>13. Grown(session, session') /\ session'.events = session.events
  BY <1>9, <1>17 DEF Grown
<1>14. /\ MemoryOK(memory', session')
       /\ proofDoc' # None => ProofOK(proofDoc')
       /\ ThreadsInv'
  BY <1>1, <1>2, <1>11, <1>12, <1>13, SessionMoves DEF Deliver
<1>15. UploadOK(upload', session')
  BY <1>11, <1>12, <1>13, UploadKept DEF ProofInv
<1>16. CompleteInv'
  BY <1>1, <1>5, <1>7, <1>9, <1>11 DEF ProofInv, CompleteInv, IsComplete, Live
<1> QED
  BY <1>2, <1>11, <1>12, <1>14, <1>15, <1>16 DEF ProofInv

LEMMA RefuseSubmissionKeeps ==
  ASSUME ProofInv, RefuseSubmission PROVE ProofInv'
<1>1. SessionOK(session)
  BY DEF ProofInv, RefuseSubmission, Live
<1>2. /\ upload' = [step |-> "RETURN"]
      /\ UNCHANGED <<session, memory, generator, doc, proofDoc>>
  BY DEF RefuseSubmission
<1>3. UploadOK(upload', session')
  BY <1>1, <1>2, ReturnIsOK
<1> QED
  BY <1>2, <1>3 DEF ProofInv, ThreadsInv, CompleteInv, IsComplete, Live

LEMMA AdjudicateKeeps ==
  ASSUME ProofInv, NEW result \in Results, Adjudicate(result) PROVE ProofInv'
<1> DEFINE w == [session.workflow EXCEPT !.state = "AWAITING_FIELD_VERIFICATION"]
           judged == [w EXCEPT !.state = VerdictState(result)]
           recorded == [step |-> "APPEND", result |-> result, workflow |-> judged]
<1>1. /\ SessionOK(session) /\ session.receipt # 0
      /\ session \in Sessions /\ session.workflow \in Workflows /\ Fits(session.workflow, session)
      /\ Len(session.events) < MaxEvents
  BY DEF ProofInv, Adjudicate, Live, SessionOK, Sessions
<1>2. session' = [session EXCEPT !.workflow = w]
  BY <1>1 DEF Adjudicate, Sessions, Workflows
<1>3. /\ w \in Workflows /\ w.target = session.workflow.target /\ w.state = "AWAITING_FIELD_VERIFICATION"
      /\ w.delivered = session.workflow.delivered
  BY <1>1 DEF Workflows, WorkflowState
<1>4. VerdictState(result) \in WorkflowState \ {"PROOF_COMPLETE"}
  BY DEF VerdictState, WorkflowState
<1>5. UNCHANGED <<memory, generator, doc, proofDoc>>
  BY DEF Adjudicate
<1>6. upload' = VerdictOutcome(session'.workflow, result)
  BY DEF Adjudicate
<1> HIDE DEF w
<1>7. Fits(w, session)
  BY <1>1, <1>3 DEF Fits
<1>8. /\ SessionOK(session') /\ Grown(session, session')
      /\ session'.events = session.events /\ session'.workflow = w
  BY <1>1, <1>2, <1>5, <1>7, NewWorkflow
<1>9. /\ judged \in Workflows /\ judged.target = w.target /\ judged.delivered = w.delivered
      /\ judged.state # "PROOF_COMPLETE"
  BY <1>3, <1>4 DEF Workflows
<1>10. upload' = recorded
  BY <1>6, <1>8 DEF VerdictOutcome
<1> HIDE DEF judged
<1>11. Fits(w, session') /\ session'.receipt # 0
  BY <1>1, <1>7, <1>8, FitsKept DEF Grown
<1>12. Fits(judged, session')
  BY <1>9, <1>11 DEF Fits
<1>13. /\ upload'.step = "APPEND" /\ upload'.workflow = judged
       /\ upload' \in [step : {"APPEND", "ASSIGN"}, result : Results, workflow : Workflows]
  BY <1>9, <1>10
<1>14. UploadOK(upload', session')
  BY <1>1, <1>8, <1>9, <1>11, <1>12, <1>13 DEF UploadOK
<1>15. /\ MemoryOK(memory', session')
       /\ proofDoc' # None => ProofOK(proofDoc')
       /\ ThreadsInv'
  BY <1>1, <1>5, <1>8, SessionMoves DEF Adjudicate
<1>16. CompleteInv'
  BY <1>3, <1>5, <1>8 DEF ProofInv, CompleteInv, IsComplete
<1> QED
  BY <1>1, <1>5, <1>8, <1>14, <1>15, <1>16 DEF ProofInv

LEMMA AppendEventKeeps ==
  ASSUME ProofInv, AppendEvent PROVE ProofInv'
<1> DEFINE events == Append(session.events, upload.result)
<1>1. /\ SessionOK(session) /\ session.receipt # 0
      /\ upload \in [step : {"APPEND", "ASSIGN"}, result : Results, workflow : Workflows]
      /\ Fits(upload.workflow, session) /\ upload.workflow.state # "PROOF_COMPLETE"
      /\ Len(session.events) < MaxEvents
  BY DEF ProofInv, AppendEvent, UploadOK
<1>2. /\ session' = [session EXCEPT !.events = events]
      /\ upload' = [upload EXCEPT !.step = "ASSIGN"]
      /\ UNCHANGED <<memory, generator, doc, proofDoc>>
  BY DEF AppendEvent
<1>3. /\ session \in Sessions /\ session.events \in Seq(Results) /\ upload.result \in Results
      /\ Fits(session.workflow, session) /\ session.history \in Seq(Visited)
  BY <1>1 DEF SessionOK, Sessions
<1>4. events \in Seq(Results) /\ Len(events) = Len(session.events) + 1 /\ Len(session.events) \in Nat
  BY <1>3, AppendProperties, LenProperties
<1>5. Len(events) <= MaxEvents
  BY <1>1, <1>4, ProofAssumption
<1>6. \E r \in Results : events = Append(session.events, r)
  BY <1>3
<1> HIDE DEF events
<1>7. /\ session' \in Sessions /\ session'.workflow = session.workflow
      /\ session'.impact = session.impact /\ session'.evidence = session.evidence
      /\ session'.receipt = session.receipt /\ session'.events = events
      /\ session'.history = session.history
  BY <1>2, <1>3, <1>4 DEF Sessions
<1>8. Fits(session'.workflow, session')
  BY <1>3, <1>7 DEF Fits
<1>9. SessionOK(session')
  BY <1>1, <1>2, <1>3, <1>5, <1>7, <1>8 DEF SessionOK
<1>10. Grown(session, session')
  BY <1>6, <1>7 DEF Grown
<1>11. session # None
  BY <1>1, SessionIsSomething
<1>12. /\ MemoryOK(memory', session')
       /\ proofDoc' # None => ProofOK(proofDoc')
       /\ ThreadsInv'
  BY <1>1, <1>2, <1>9, <1>10, <1>11, SessionMoves DEF Live
<1>13. /\ upload'.step = "ASSIGN" /\ upload'.workflow = upload.workflow
       /\ upload' \in [step : {"APPEND", "ASSIGN"}, result : Results, workflow : Workflows]
  BY <1>1, <1>2
<1>14. Fits(upload.workflow, session') /\ session'.receipt # 0
  BY <1>1, <1>10, FitsKept DEF Grown
<1>15. UploadOK(upload', session')
  BY <1>1, <1>9, <1>13, <1>14 DEF UploadOK
<1>16. CompleteInv'
  BY <1>2, <1>7, <1>11 DEF ProofInv, CompleteInv, IsComplete, Live
<1> QED
  BY <1>1, <1>2, <1>9, <1>12, <1>15, <1>16 DEF ProofInv

LEMMA AssignVerdictKeeps ==
  ASSUME ProofInv, AssignVerdict PROVE ProofInv'
<1>1. /\ SessionOK(session)
      /\ Fits(upload.workflow, session) /\ upload.workflow.state # "PROOF_COMPLETE"
  BY DEF ProofInv, AssignVerdict, UploadOK
<1>2. /\ session' = [session EXCEPT !.workflow = upload.workflow]
      /\ upload' = [step |-> "RETURN"]
      /\ UNCHANGED <<memory, generator, doc, proofDoc>>
  BY DEF AssignVerdict
<1>3. /\ SessionOK(session') /\ Grown(session, session')
      /\ session'.workflow = upload.workflow
  BY <1>1, <1>2, NewWorkflow
<1>4. session # None
  BY <1>1, SessionIsSomething
<1>5. /\ MemoryOK(memory', session')
      /\ proofDoc' # None => ProofOK(proofDoc')
      /\ ThreadsInv'
  BY <1>1, <1>2, <1>3, <1>4, SessionMoves DEF Live
<1>6. UploadOK(upload', session')
  BY <1>2, <1>3, ReturnIsOK
<1>7. CompleteInv'
  BY <1>1, <1>2, <1>3 DEF ProofInv, CompleteInv, IsComplete
<1> QED
  BY <1>1, <1>2, <1>3, <1>5, <1>6, <1>7 DEF ProofInv

LEMMA ReturnUploadKeeps ==
  ASSUME ProofInv, ReturnUpload PROVE ProofInv'
<1>1. SessionOK(session)
  BY DEF ProofInv, ReturnUpload, UploadOK
<1>2. session # None
  BY <1>1, SessionIsSomething
<1>3. /\ UNCHANGED <<session, memory, generator, proofDoc>>
      /\ doc' = session /\ upload' = Idle
  BY DEF ReturnUpload
<1>4. UploadOK(upload', session')
  BY <1>3, IdleIsOK
<1>5. ThreadsInv'
  BY <1>3 DEF ProofInv, ThreadsInv
<1>6. CompleteInv'
  BY <1>2, <1>3 DEF ProofInv, CompleteInv, IsComplete, Live
<1> QED
  BY <1>1, <1>3, <1>4, <1>5, <1>6 DEF ProofInv

LEMMA CrashKeeps ==
  ASSUME ProofInv, Crash PROVE ProofInv'
<1>1. /\ session' = None /\ memory' = None
      /\ generator' = [g \in Generators |-> Idle] /\ upload' = Idle
      /\ UNCHANGED <<doc, proofDoc>>
  BY DEF Crash
<1>2. UploadOK(upload', session')
  BY <1>1, IdleIsOK
<1>3. ThreadsInv'
  BY <1>1, IdleIsOK DEF ThreadsInv
<1>4. MemoryOK(memory', session')
  BY <1>1 DEF MemoryOK
<1>5. CompleteInv'
  BY <1>1 DEF ProofInv, CompleteInv, IsComplete, Live
<1> QED
  BY <1>1, <1>2, <1>3, <1>4, <1>5 DEF ProofInv

LEMMA ResumeKeeps ==
  ASSUME ProofInv, Resume PROVE ProofInv'
<1>1. session = None /\ ~ SessionOK(session)
  BY SessionIsSomething DEF Resume, Live
<1>2. session' = doc /\ UNCHANGED <<memory, generator, upload, doc, proofDoc>>
  BY DEF Resume
<1>3. memory = None /\ upload.step = "IDLE"
  BY <1>1 DEF ProofInv, MemoryOK, UploadOK
<1>4. \A g \in Generators : generator[g].step = "IDLE"
  BY <1>1 DEF ProofInv, ThreadsInv, RequestOK
<1>5. ThreadsInv'
  BY <1>2, <1>4 DEF ProofInv, ThreadsInv, RequestOK
<1>6. UploadOK(upload', session')
  BY <1>2, <1>3 DEF UploadOK
<1>7. MemoryOK(memory', session')
  BY <1>2, <1>3 DEF MemoryOK
<1>8. CompleteInv'
  BY <1>2 DEF ProofInv, CompleteInv, IsComplete
<1> QED
  BY <1>2, <1>5, <1>6, <1>7, <1>8 DEF ProofInv

-----------------------------------------------------------------------------
(***************************************************************************)
(* The theorems                                                            *)
(***************************************************************************)

LEMMA InitialSession ==
  ASSUME NEW state \in WorkflowState, NEW impact \in {"SINGLE_QUALIFIED_TARGET", "NO_QUALIFIED_TARGET"},
         NEW history \in Seq(Visited), session = Session(state, impact, history)
  PROVE  SessionOK(session) /\ session.workflow.state = state
<1> DEFINE target == impact = "SINGLE_QUALIFIED_TARGET"
           w == [state |-> state, target |-> target, delivered |-> FALSE, proven |-> FALSE]
<1>1. target \in BOOLEAN
  OBVIOUS
<1>2. session = [workflow |-> w, impact |-> impact, evidence |-> "NONE", receipt |-> 0,
                 events |-> <<>>, history |-> history]
  BY DEF Session, Workflow
<1>3. w \in Workflows /\ (impact = "SINGLE_QUALIFIED_TARGET" => w.target) /\ w.state = state
  BY <1>1 DEF Workflows
<1> HIDE DEF w
<1>4. history \in Seq(WorkflowState)
  BY NeverAbandoned
<1>5. <<>> \in Seq(Results) /\ Len(<<>>) = 0
  BY EmptySeq
<1>6. /\ session.workflow = w /\ session.impact = impact /\ session.receipt = 0
      /\ session.evidence = "NONE" /\ session.events = <<>> /\ session.history = history
  BY <1>2
<1>7. session \in Sessions
  BY <1>2, <1>3, <1>4, <1>5 DEF Sessions
<1>8. Fits(session.workflow, session)
  BY <1>3, <1>6 DEF Fits
<1> QED
  BY <1>3, <1>5, <1>6, <1>7, <1>8, ProofAssumption DEF SessionOK

LEMMA ProofInitInv == Init => ProofInv
<1> SUFFICES ASSUME Init PROVE ProofInv
  OBVIOUS
<1>1. SessionOK(session) /\ session.workflow.state # "PROOF_COMPLETE"
  <2>1. CASE session = Session("IMPACT_DETERMINED", "SINGLE_QUALIFIED_TARGET", <<"CHANGE_RECEIVED">>)
    <3>1. <<"CHANGE_RECEIVED">> \in Seq(Visited) /\ "IMPACT_DETERMINED" \in WorkflowState
      BY DEF Visited, WorkflowState
    <3> QED
      BY <2>1, <3>1, InitialSession
  <2>2. CASE session = Session("REVIEW_REQUIRED", "NO_QUALIFIED_TARGET",
                               <<"CHANGE_RECEIVED", "IMPACT_DETERMINED">>)
    <3>1. /\ <<"CHANGE_RECEIVED", "IMPACT_DETERMINED">> \in Seq(Visited)
          /\ "REVIEW_REQUIRED" \in WorkflowState
      BY DEF Visited, WorkflowState
    <3> QED
      BY <2>2, <3>1, InitialSession
  <2> QED
    BY <2>1, <2>2 DEF Init
<1>2. doc = session /\ memory = None /\ proofDoc = None
  BY DEF Init
<1>3. ThreadsInv
  BY IdleIsOK DEF Init, ThreadsInv
<1>4. UploadOK(upload, session)
  BY IdleIsOK DEF Init
<1>5. CompleteInv
  BY <1>1, <1>2 DEF CompleteInv, IsComplete
<1>6. MemoryOK(memory, session)
  BY <1>2 DEF MemoryOK
<1> QED
  BY <1>1, <1>2, <1>3, <1>4, <1>5, <1>6 DEF ProofInv

LEMMA ProofNextInv == ProofInv /\ [Next]_vars => ProofInv'
<1> SUFFICES ASSUME ProofInv, [Next]_vars PROVE ProofInv'
  OBVIOUS
<1>1. ASSUME NEW g \in Generators, RequestProof(g) PROVE ProofInv'
  BY <1>1, RequestProofKeeps
<1>2. ASSUME NEW g \in Generators, Serve(g) PROVE ProofInv'
  BY <1>2, AttemptKeeps, LookKeeps, PutKeeps, RecordProofKeeps, RecordConflictKeeps,
     CopyWorkflowKeeps, AssignCopyKeeps, CompleteKeeps, ReturnProofKeeps DEF Serve
<1>3. ASSUME NEW g \in Generators, StoreRaises(g) PROVE ProofInv'
  BY <1>3, StoreRaisesKeeps
<1>4. ASSUME Remediate \/ Deliver \/ RefuseSubmission PROVE ProofInv'
  BY <1>4, RemediateKeeps, DeliverKeeps, RefuseSubmissionKeeps
<1>5. ASSUME NEW result \in Results, Adjudicate(result) PROVE ProofInv'
  BY <1>5, AdjudicateKeeps
<1>6. ASSUME Judge PROVE ProofInv'
  BY <1>6, AppendEventKeeps, AssignVerdictKeeps, ReturnUploadKeeps DEF Judge
<1>7. ASSUME Crash \/ Resume PROVE ProofInv'
  BY <1>7, CrashKeeps, ResumeKeeps
<1>8. ASSUME UNCHANGED vars PROVE ProofInv'
  BY <1>8 DEF vars, ProofInv, ThreadsInv, CompleteInv, IsComplete, Live
<1> QED
  BY <1>1, <1>2, <1>3, <1>4, <1>5, <1>6, <1>7, <1>8 DEF Next

\* Whatever a request has read before others wrote stays true enough to be written
\* back: each thread of generate_proof, the upload, the store and the documents
\* keep ProofInv (service.py, proof/store.py, firestore.py).
THEOREM ProofInvariant == Spec => []ProofInv
<1> QED
  BY ProofInitInv, ProofNextInv, PTL DEF Spec

\* Every proof, in memory or stored, references every attempt up to the PASS it
\* names and a receipt the channel gave, although attempt_proof judges a manifest
\* that was assembled before images were adjudicated.
THEOREM ProofsTellTruth == Spec => []ProofTellsTruth
<1>1. ASSUME NEW p, ProofOK(p)
      PROVE  /\ Len(p.manifest.verifications) = p.event
             /\ Last(p.manifest.verifications) = "PASS"
             /\ Filled(p)
             /\ "REVIEW_REQUIRED" \notin Range(p.manifest.transitions)
  <2>1. "REVIEW_REQUIRED" \notin Range(p.manifest.transitions)
    BY <1>1, NeverAbandoned DEF ProofOK, ManifestOK
  <2> QED
    BY <1>1, <2>1 DEF ProofOK, ManifestOK, Filled
<1>2. ProofInv => ProofTellsTruth
  BY <1>1 DEF ProofInv, MemoryOK, ProofTellsTruth
<1> QED
  BY <1>2, ProofInvariant, PTL

\* What a complete workflow with a passed last verdict holds is what the seven
\* conditions ask for.
LEMMA CompleteIsEligible ==
  ASSUME NEW s, SessionOK(s), s.workflow.state = "PROOF_COMPLETE",
         LatestIs(s.events, "PASS"), HasStructure(s)
  PROVE  Eligible(Context(s.workflow, Manifest(s), s))
<1> DEFINE m == Manifest(s)
           c == Context(s.workflow, m, s)
<1>1. /\ s.events \in Seq(Results) /\ s.history \in Seq(Visited)
      /\ s.evidence \in {"MUTATION", "NO_OP"} /\ s.impact = "SINGLE_QUALIFIED_TARGET"
      /\ s.receipt # 0
  BY DEF SessionOK, Sessions, HasStructure
<1>2. s.workflow.target
  BY <1>1 DEF SessionOK, Fits
<1>3. s.workflow.delivered
  BY <1>1 DEF SessionOK, Fits
<1>4. /\ c.workflow = s.workflow /\ c.impact = s.impact /\ c.evidence = s.evidence
      /\ c.receipt = s.receipt /\ c.events = s.events /\ c.history = s.history
      /\ c.manifest = m
  BY DEF Context
<1>5. /\ m.remediation = RemediationRefs(s.evidence) /\ m.delivery = s.receipt
      /\ m.verifications = s.events
  BY DEF Manifest
<1> HIDE DEF m, c
<1>6. ~Fabricated(m, s.evidence)
  <2>1. CASE s.evidence = "MUTATION"
    BY <1>5, <2>1 DEF Fabricated, RemediationRefs
  <2>2. CASE s.evidence = "NO_OP"
    BY <1>5, <2>2 DEF Fabricated, RemediationRefs
  <2> QED
    BY <1>1, <2>1, <2>2
<1>7. s.events # <<>> /\ Len(s.events) \in Nat
  BY <1>1, LenProperties DEF LatestIs
<1>8. CoversAllEvents(m, s.events)
  BY <1>5, <1>7 DEF CoversAllEvents
<1>9. StateCompatible(s.workflow, s.history)
  BY <1>1, NeverAbandoned DEF StateCompatible
<1>10. Eligible(c)
  BY <1>1, <1>2, <1>3, <1>4, <1>5, <1>6, <1>7, <1>8, <1>9 DEF Eligible
<1> QED
  BY <1>10 DEF c, m

\* A workflow is complete only once its proof is stored, and the validator bears out
\* a complete one unless a later verdict is not a PASS (generate_proof, validate_proof).
THEOREM OnlyProvenIsComplete == Spec => []CompleteIsProven
<1>1. ASSUME ProofInv PROVE CompleteIsProven
  <2>1. ASSUME IsComplete, LatestIs(session.events, "PASS") PROVE ValidNow
    <3>1. SessionOK(session)
      BY <1>1, <2>1 DEF IsComplete, Live, ProofInv
    <3> QED
      BY <2>1, <3>1, CompleteIsEligible DEF IsComplete, ValidNow, Valid
  <2> QED
    BY <1>1, <2>1 DEF CompleteIsProven, ProofInv, CompleteInv
<1> QED
  BY <1>1, ProofInvariant, PTL

=============================================================================
