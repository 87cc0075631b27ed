------------------------- MODULE PaymentProofProofs -------------------------
(***************************************************************************)
(* Proofs about PaymentProof, for any set of headers and requests, any     *)
(* tokens, price and window: JobsInv is inductive, and that jobs are paid  *)
(* for, correspond to payments and can be recovered follows from it.       *)
(***************************************************************************)
EXTENDS PaymentProof, FiniteSetTheorems, TLAPS

(* What an accepted header is, whatever its other parts say.               *)
LEMMA AcceptedFields ==
    ASSUME NEW p \in Formed \cap Genuine
    PROVE  /\ p \in Proofs /\ WellFormed(p) /\ SignatureOk(p)
           /\ p.after \in Nat /\ p.before \in Nat
           /\ p.signed.by = p.from /\ p.signed.msg = Digest(p)
<1>1. p \in Proofs /\ WellFormed(p) /\ SignatureOk(p)
  BY DEF Formed, Genuine
<1>2. p.after \in Nat /\ p.before \in Nat
  BY <1>1, ProofAssumption DEF SignatureOk, Encodes, Uint
<1>3. QED
  BY <1>1, <1>2 DEF SignatureOk

(* A valid header is one whose authorization is open, for not too long.    *)
LEMMA ValidFields ==
    ASSUME now \in Nat, NEW p \in Proofs, Valid(p)
    PROVE  /\ p \in Formed \cap Genuine
           /\ p.after <= now /\ now < p.before /\ p.before - now <= MaxWindow
<1>1. p \in Formed /\ p \in Genuine /\ ~(now < p.after) /\ ~(now >= p.before)
      /\ ~(p.before - now > MaxWindow)
  BY DEF Valid, Validate
<1>2. QED
  BY <1>1, AcceptedFields, ProofAssumption

(* Such a header is accepted as long as the service lives.                 *)
LEMMA StaysAccepted ==
    ASSUME now \in Nat, NEW p \in Formed \cap Genuine, NEW t \in 0..now,
           p.after <= t, t < p.before, p.before - t <= MaxWindow
    PROVE  Valid(p) \/ Recovered(p)
<1>1. p \in Formed /\ p \in Genuine /\ p.after \in Nat /\ p.before \in Nat
  BY AcceptedFields
<1>2. ~(now < p.after) /\ ~(p.before - now > MaxWindow)
  BY <1>1, ProofAssumption
<1>3. QED
  BY <1>1, <1>2 DEF Valid, Recovered, Validate

(* One key, one payment: asset, payer and nonce.                           *)
LEMMA KeyIsPayment ==
    ASSUME NEW p, NEW o
    PROVE  PaymentKey(p) = PaymentKey(o)
             <=> p.asset = o.asset /\ p.from = o.from /\ p.nonce = o.nonce
<1>1. ASSUME PaymentKey(p) = PaymentKey(o)
      PROVE  p.asset = o.asset /\ p.from = o.from /\ p.nonce = o.nonce
  <2>1. /\ PaymentKey(p).asset = PaymentKey(o).asset /\ PaymentKey(p).from = PaymentKey(o).from
        /\ PaymentKey(p).nonce = PaymentKey(o).nonce
    BY <1>1
  <2>2. (IF p.asset = Unprefixed THEN {} ELSE {p.asset})
          = (IF o.asset = Unprefixed THEN {} ELSE {o.asset})
    BY <2>1 DEF PaymentKey
  <2>3. p.asset = o.asset
    BY <2>2
  <2>4. QED
    BY <2>1, <2>3 DEF PaymentKey
<1>2. QED
  BY <1>1 DEF PaymentKey

(* A signature covers one payment: the message names the token, and the    *)
(* messages of the two methods differ in their fields.                     *)
LEMMA MessageIsPayment ==
    ASSUME NEW p \in Formed \cap Genuine, NEW o \in Formed \cap Genuine, p.signed = o.signed
    PROVE  PaymentKey(p) = PaymentKey(o)
<1>1. /\ WellFormed(p) /\ WellFormed(o) /\ p.from = o.from /\ Digest(p) = Digest(o)
  BY AcceptedFields
<1>2. CASE p.asset \in Permit2 /\ o.asset \in Permit2
  <2>1. Digest(p).token = p.token /\ Digest(p).nonce = p.nonce
        /\ Digest(o).token = o.token /\ Digest(o).nonce = o.nonce
    BY <1>2 DEF Digest
  <2>2. p.token = p.asset /\ o.token = o.asset
    BY <1>1, <1>2 DEF WellFormed, PermitOk
  <2>3. QED
    BY <1>1, <2>1, <2>2, KeyIsPayment
<1>3. CASE p.asset \notin Permit2 /\ o.asset \notin Permit2
  <2>1. Digest(p).domain = p.asset /\ Digest(p).nonce = p.nonce
        /\ Digest(o).domain = o.asset /\ Digest(o).nonce = o.nonce
    BY <1>3 DEF Digest
  <2>2. QED
    BY <1>1, <2>1, KeyIsPayment
<1>4. ASSUME NEW a, NEW b, Digest(a) = Digest(b), a.asset \in Permit2, b.asset \notin Permit2
      PROVE  FALSE
  <2>1. "spender" \in DOMAIN Digest(a) /\ "spender" \notin DOMAIN Digest(b)
    BY <1>4 DEF Digest
  <2>2. QED
    BY <1>4, <2>1
<1>5. QED
  BY <1>1, <1>2, <1>3, <1>4
-----------------------------------------------------------------------------
LEMMA JobsInit == Init => JobsInv
<1> SUFFICES ASSUME Init PROVE JobsInv
  OBVIOUS
<1>1. DOMAIN jobs = {} /\ answer = {} /\ now = 0
  BY DEF Init
<1>2. IsFiniteSet(DOMAIN jobs) /\ Cardinality(DOMAIN jobs) = 0 /\ Cardinality(answer) = 0
  BY <1>1, FS_EmptySet
<1>3. QED
  BY <1>1, <1>2, ProofAssumption DEF JobsInv, TypeOK, AnswerBound

LEMMA OneAnswer == ASSUME NEW S, S = {} \/ \E a : S = {a} PROVE Cardinality(S) <= 1
<1>1. Cardinality(S) = 0 \/ Cardinality(S) = 1
  BY FS_EmptySet, FS_Singleton, Zenon
<1>2. QED
  BY <1>1

(* A header that opens no job leaves the jobs as they are.                 *)
LEMMA AnswersKeep ==
    ASSUME JobsInv, UNCHANGED <<now, jobs>>,
           answer' = {} \/ \E a : /\ answer' = {a} /\ a.key \in DOMAIN jobs
                                  /\ jobs[a.key].proof = a.proof
                                  /\ jobs[a.key].request = a.request
    PROVE  JobsInv'
<1>1. Cardinality(answer') <= 1
  BY OneAnswer
<1>2. AnswerBound'
  BY DEF AnswerBound
<1>3. QED
  BY <1>1, <1>2 DEF JobsInv, TypeOK, JobOK

LEMMA OpenKeeps ==
    ASSUME JobsInv, NEW p \in Proofs, NEW q \in Requests, Open(p, q)
    PROVE  JobsInv'
<1>0. /\ now \in Nat /\ now' = now /\ Valid(p) /\ PaymentKey(p) \notin DOMAIN jobs
      /\ IsFiniteSet(DOMAIN jobs) /\ Cardinality(DOMAIN jobs) < MaxJobs
  BY ProofAssumption DEF Open, MayOpen, JobsInv, TypeOK
<1>1. /\ DOMAIN jobs' = DOMAIN jobs \cup {PaymentKey(p)}
      /\ \A k \in DOMAIN jobs : jobs'[k] = jobs[k]
      /\ jobs'[PaymentKey(p)] = NewRecord(p, q)
  BY <1>0 DEF Open
<1>2. /\ NewRecord(p, q).proof = p /\ NewRecord(p, q).request = q
      /\ NewRecord(p, q).createdAt = now
  BY DEF NewRecord
<1>3. /\ p \in Formed \cap Genuine
      /\ p.after <= now /\ now < p.before /\ p.before - now <= MaxWindow
  BY <1>0, ValidFields
<1>4. ASSUME NEW k \in DOMAIN jobs' PROVE JobOK(k, jobs[k])' /\ jobs'[k].proof \in Proofs
  <2>1. CASE k \in DOMAIN jobs
    BY <1>0, <1>1, <2>1 DEF JobsInv, JobOK, TypeOK
  <2>2. CASE k = PaymentKey(p)
    BY <1>0, <1>1, <1>2, <1>3, <2>2 DEF JobOK
  <2>3. QED
    BY <1>1, <2>1, <2>2
<1>5. IsFiniteSet(DOMAIN jobs') /\ Cardinality(DOMAIN jobs') <= MaxJobs
  <2>1. /\ IsFiniteSet(DOMAIN jobs')
        /\ Cardinality(DOMAIN jobs') = Cardinality(DOMAIN jobs) + 1
    BY <1>0, <1>1, FS_AddElement, Zenon
  <2>2. Cardinality(DOMAIN jobs) \in Nat
    BY <1>0, FS_CardinalityType
  <2>3. QED
    BY <1>0, <2>1, <2>2, ProofAssumption
<1>6. answer' = {[key |-> PaymentKey(p), proof |-> p, request |-> q]}
  BY DEF Open
<1>7. Cardinality(answer') <= 1
  BY <1>6, OneAnswer
<1>8. AnswerBound'
  BY <1>1, <1>2, <1>6 DEF AnswerBound
<1>9. TypeOK'
  BY <1>0, <1>4, <1>5, <1>7 DEF TypeOK, JobsInv, JobOK
<1>10. QED
  BY <1>4, <1>5, <1>8, <1>9 DEF JobsInv

LEMMA JobsStep == JobsInv /\ [Next]_vars => JobsInv'
<1> SUFFICES ASSUME JobsInv, [Next]_vars PROVE JobsInv'
  OBVIOUS
<1>1. CASE UNCHANGED vars
  BY <1>1 DEF vars, JobsInv, TypeOK, JobOK, AnswerBound
<1>2. CASE Tick
  <2>1. now \in Nat /\ now' = now + 1 /\ now' \in 0..MaxTime /\ jobs' = jobs /\ answer' = {}
    BY <1>2, ProofAssumption DEF Tick, JobsInv, TypeOK
  <2>2. Cardinality(answer') <= 1
    BY <2>1, FS_EmptySet
  <2>3. \A k \in DOMAIN jobs : JobOK(k, jobs[k])'
    BY <2>1 DEF JobsInv, JobOK
  <2>4. QED
    BY <2>1, <2>2, <2>3 DEF JobsInv, TypeOK, AnswerBound
<1>3. ASSUME NEW p \in Proofs, NEW q \in Requests, Present(p, q) PROVE JobsInv'
  <2>1. CASE Reject(p, q) \/ TurnAway(p, q)
    BY <2>1, AnswersKeep DEF Reject, TurnAway
  <2>2. CASE Return(p, q)
    <3> DEFINE a == [key |-> PaymentKey(p), proof |-> p, request |-> q]
    <3>1. /\ a.key \in DOMAIN jobs /\ jobs[a.key].proof = a.proof
          /\ jobs[a.key].request = a.request
      BY <2>2 DEF Return, Bound
    <3>2. QED
      BY <2>2, <3>1, AnswersKeep DEF Return
  <2>3. QED
    BY <1>3, <2>1, <2>2, OpenKeeps DEF Present
<1>4. QED
  BY <1>1, <1>2, <1>3 DEF Next

LEMMA JobsAlways == Spec => []JobsInv
  BY JobsInit, JobsStep, PTL DEF Spec

(* Every job rests on an authorization that paid the price, in its token,  *)
(* to the seller, when it was opened, and that does not stay open longer   *)
(* than the code allows: whatever the parts of the header that nobody      *)
(* signed say.                                                             *)
THEOREM JobsArePaidFor == Spec => []JobsAuthorized
<1>1. JobsInv => JobsAuthorized
  <2> SUFFICES ASSUME JobsInv, NEW k \in DOMAIN jobs
               PROVE  /\ Authorizes(jobs[k].proof, jobs[k].createdAt)
                      /\ jobs[k].proof.before - jobs[k].createdAt <= MaxWindow
    BY DEF JobsAuthorized
  <2> DEFINE p == jobs[k].proof
  <2>1. JobOK(k, jobs[k]) /\ p \in Formed \cap Genuine
    BY DEF JobsInv, JobOK
  <2>2. WellFormed(p) /\ p.signed.by = p.from /\ p.signed.msg = Digest(p)
    BY <2>1, AcceptedFields
  <2>3. /\ Digest(p).to = p.to /\ Digest(p).value = p.value
        /\ Digest(p).after = p.after /\ Digest(p).before = p.before
    BY DEF Digest
  <2>4. p.to = Seller /\ p.value = Price
    BY <2>2 DEF WellFormed, RequirementOk, PermitOk, TransferOk
  <2>5. IF p.asset \in Permit2
        THEN /\ Digest(p).domain = "Permit2" /\ Digest(p).token = p.asset
             /\ Digest(p).spender = p.extraSpender
        ELSE Digest(p).domain = p.asset /\ Digest(p).from = p.from
    BY <2>2 DEF Digest, WellFormed, PermitOk
  <2> HIDE DEF p
  <2>6. Authorizes(p, jobs[k].createdAt)
    BY <2>1, <2>2, <2>3, <2>4, <2>5 DEF Authorizes, JobOK, p
  <2>7. QED
    BY <2>1, <2>6 DEF JobOK, p
<1>2. QED
  BY <1>1, JobsAlways, PTL

(* Jobs and payments correspond one to one, and a handle goes to the       *)
(* payment and the request it is for.                                      *)
THEOREM IdentityHolds == Spec => []IdentitySound
<1>1. JobsInv => OneJobEach
  <2> SUFFICES ASSUME JobsInv, NEW k \in DOMAIN jobs, NEW l \in DOMAIN jobs, k # l,
                      jobs[k].proof.signed = jobs[l].proof.signed
               PROVE  FALSE
    BY DEF OneJobEach
  <2>1. JobOK(k, jobs[k]) /\ JobOK(l, jobs[l])
    BY DEF JobsInv
  <2>2. QED
    BY <2>1, MessageIsPayment DEF JobOK
<1>2. JobsInv => NoForeignJob
  <2> SUFFICES ASSUME JobsInv, NEW p \in Proofs, NEW k \in DOMAIN jobs, k = PaymentKey(p)
               PROVE  /\ jobs[k].proof.asset = p.asset /\ jobs[k].proof.from = p.from
                      /\ jobs[k].proof.nonce = p.nonce
    BY DEF NoForeignJob
  <2>1. PaymentKey(jobs[k].proof) = PaymentKey(p)
    BY DEF JobsInv, JobOK
  <2>2. QED
    BY <2>1, KeyIsPayment
<1>3. JobsInv => TypeOK /\ AnswerBound
  BY DEF JobsInv
<1>4. QED
  BY <1>1, <1>2, <1>3, JobsAlways, PTL DEF IdentitySound

(* Whoever paid can come back with the same header, at any later time.     *)
THEOREM JobsStayRecoverable == Spec => []JobsRecoverable
<1>1. JobsInv => JobsRecoverable
  <2> SUFFICES ASSUME JobsInv, NEW k \in DOMAIN jobs
               PROVE  /\ Valid(jobs[k].proof) \/ Recovered(jobs[k].proof)
                      /\ PaymentKey(jobs[k].proof) = k
    BY DEF JobsRecoverable
  <2>1. JobOK(k, jobs[k]) /\ now \in Nat
    BY ProofAssumption DEF JobsInv, TypeOK
  <2>2. QED
    BY <2>1, StaysAccepted DEF JobOK
<1>2. QED
  BY <1>1, JobsAlways, PTL
=============================================================================
