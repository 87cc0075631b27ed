---------------------------- MODULE PaymentProof ----------------------------
(***************************************************************************)
(* What a Payment-Signature header must be for create_job to open a job,   *)
(* and what makes two headers the same payment: the verification of        *)
(* x402_verify.py and x402_permit2.py, the identity of x402_job_service.py *)
(* and the way back to an existing job once the authorization has expired. *)
(* A header is a record of what the verification reads in it; `signed' is  *)
(* the message its signature was made for, and by whom.                    *)
(***************************************************************************)
EXTENDS Integers, FiniteSets

CONSTANTS
    Tokens,      \* TOKENS
    Permit2,     \* the tokens whose transfer_method is permit2-exact
    Unprefixed,  \* U, whose payment keys do not name the asset
    Proofs,      \* the headers that are presented
    Requests,    \* the analyses that are asked for
    Seller,      \* B402_PAY_TO_ADDRESS
    Price,       \* PRICE_WEI
    MaxUint,     \* UINT256_MAX
    MaxWindow,   \* an authorization ends within this time: 3600 s
    MaxTime,     \* bound on the clock
    MaxJobs      \* bound on the number of jobs

ASSUME ProofAssumption ==
    /\ Permit2 \subseteq Tokens /\ Unprefixed \in Tokens
    /\ MaxUint \in Nat /\ Price \in 0..MaxUint
    /\ MaxWindow \in Nat /\ MaxTime \in Nat /\ MaxJobs \in Nat

VARIABLES
    now,     \* the clock, in seconds
    jobs,    \* the job records, by payment key
    answer   \* the header and request last given a job handle, in a set

vars == <<now, jobs, answer>>

Uint == 0..MaxUint

-----------------------------------------------------------------------------
(* Verification                                                            *)

\* _eip712_digest and _permit2_digest: what the signature has to cover.
Digest(p) ==
    IF p.asset \in Permit2
    THEN [domain |-> "Permit2", token |-> p.token, value |-> p.value, spender |-> p.spender,
          nonce |-> p.nonce, before |-> p.before, to |-> p.to, after |-> p.after]
    ELSE [domain |-> p.asset, from |-> p.from, to |-> p.to, value |-> p.value,
          after |-> p.after, before |-> p.before, nonce |-> p.nonce]

Encodes(p) == {p.value, p.after, p.before, p.nonce} \subseteq Uint

\* Faulty variant: the signature is recovered but compared with nobody.
SignatureOkPresent(p) == Encodes(p)

\* Account._recover_hash yields the signer only for the message it signed, and
\* numbers that are no uint256 have no digest at all.
SignatureOk(p) == Encodes(p) /\ p.signed = [by |-> p.from, msg |-> Digest(p)]

\* decode_payment_signature, the version, the resource, the token, the extra of
\* the accepted requirement, and the requirement as a whole, which has to be
\* the seller's own: exact scheme, network, price and recipient.
RequirementOk(p) ==
    /\ p.form = "proof"
    /\ p.asset \in Tokens
    /\ p.extra = "valid"
    /\ p.amount = Price /\ p.payTo = Seller

\* verify_permit2_exact: exact keys, canonical decimal numbers, and an
\* authorization for this token, price, spender and recipient.
PermitOk(p) ==
    /\ p.payload = "permit2" /\ p.spelling = "canonical"
    /\ Encodes(p)
    /\ p.token = p.asset
    /\ p.value = Price /\ p.value = p.amount
    /\ p.spender = p.extraSpender
    /\ p.to = p.payTo
    /\ p.after < p.before

\* The EIP-3009 branch of _validate_current_payment_proof: numbers and nonce may
\* be spelled in several ways, a nonce is padded to 32 bytes.
TransferOk(p) ==
    /\ p.payload = "eip3009"
    /\ p.to = Seller /\ p.to = p.payTo
    /\ p.value = p.amount
    /\ p.nonce <= MaxUint

WellFormed(p) == RequirementOk(p) /\ IF p.asset \in Permit2 THEN PermitOk(p) ELSE TransferOk(p)

\* What does not depend on the clock.
Formed == {p \in Proofs : WellFormed(p)}
Genuine == {p \in Proofs : SignatureOk(p)}

\* The checks in the order of the code: an expired authorization is reported as
\* such before its window and its signature have been looked at.
Validate(p, allowExpired) ==
    IF p \notin Formed \/ now < p.after THEN "rejected"
    ELSE IF now >= p.before /\ ~allowExpired THEN "expired"
    ELSE IF p.before - now > MaxWindow \/ p \notin Genuine THEN "rejected"
    ELSE "accepted"

Valid(p) == Validate(p, FALSE) = "accepted"

\* Faulty variant: an expired authorization is refused at once.
RecoveredNever(p) == FALSE

\* create_job validates an expired authorization again, with allow_expired.
Recovered(p) == Validate(p, FALSE) = "expired" /\ Validate(p, TRUE) = "accepted"

-----------------------------------------------------------------------------
(* Identity                                                                *)

\* Faulty variant: the nonce as it is spelled in the header.
PaymentKeyAsSpelled(p) ==
    [asset |-> IF p.asset = Unprefixed THEN {} ELSE {p.asset}, from |-> p.from,
     nonce |-> IF p.spelling = "canonical" THEN p.nonce ELSE -p.nonce]

\* derive_identity: a hash of the canonical payer and nonce, preceded by the
\* asset unless that is U.
PaymentKey(p) ==
    [asset |-> IF p.asset = Unprefixed THEN {} ELSE {p.asset}, from |-> p.from, nonce |-> p.nonce]

\* _require_exact_job_binding: the digest of the header, the request, the payer
\* and the asset are those of the record.
Bound(job, p, q) ==
    /\ job.proof = p
    /\ job.request = q
    /\ job.proof.from = p.from /\ job.proof.asset = p.asset

-----------------------------------------------------------------------------
Init == now = 0 /\ jobs = << >> /\ answer = {}

Tick ==
    /\ now < MaxTime
    /\ now' = now + 1
    /\ answer' = {}
    /\ UNCHANGED jobs

\* payment_rejected: neither valid nor recovered, or not what the job is bound to.
Reject(p, q) ==
    /\ \/ ~Valid(p) /\ ~Recovered(p)
       \/ PaymentKey(p) \in DOMAIN jobs /\ ~Bound(jobs[PaymentKey(p)], p, q)
       \/ PaymentKey(p) \notin DOMAIN jobs /\ Recovered(p)
    /\ answer' = {}
    /\ UNCHANGED <<now, jobs>>

\* The header leads to the job it has opened before, expired or not.
Return(p, q) ==
    /\ Valid(p) \/ Recovered(p)
    /\ PaymentKey(p) \in DOMAIN jobs
    /\ Bound(jobs[PaymentKey(p)], p, q)
    /\ answer' = {[key |-> PaymentKey(p), proof |-> p, request |-> q]}
    /\ UNCHANGED <<now, jobs>>

MayOpen(p) == Valid(p)

NewRecord(p, q) == [proof |-> p, request |-> q, createdAt |-> now]

\* A new job.
Open(p, q) ==
    /\ MayOpen(p)
    /\ PaymentKey(p) \notin DOMAIN jobs
    /\ Cardinality(DOMAIN jobs) < MaxJobs
    /\ jobs' = [k \in DOMAIN jobs \cup {PaymentKey(p)} |->
                  IF k \in DOMAIN jobs THEN jobs[k] ELSE NewRecord(p, q)]
    /\ answer' = {[key |-> PaymentKey(p), proof |-> p, request |-> q]}
    /\ UNCHANGED now

\* async_jobs_paused, invalid_request, or a wallet over its limit.
TurnAway(p, q) ==
    /\ Valid(p)
    /\ PaymentKey(p) \notin DOMAIN jobs
    /\ answer' = {}
    /\ UNCHANGED <<now, jobs>>

Present(p, q) == Reject(p, q) \/ Return(p, q) \/ Open(p, q) \/ TurnAway(p, q)

Next == Tick \/ \E p \in Proofs, q \in Requests : Present(p, q)

Spec == Init /\ [][Next]_vars

-----------------------------------------------------------------------------
\* The shape of the state.
TypeOK ==
    /\ now \in 0..MaxTime
    /\ \A k \in DOMAIN jobs :
         /\ jobs[k].proof \in Proofs /\ jobs[k].request \in Requests
         /\ jobs[k].createdAt \in 0..now
    /\ Cardinality(DOMAIN jobs) <= MaxJobs
    /\ Cardinality(answer) <= 1

\* What the contract of the token would carry out at time t: the payer has signed
\* a transfer of the price, in this token, to the seller, open at t.
Authorizes(p, t) ==
    LET m == p.signed.msg
    IN  /\ p.signed.by = p.from
        /\ m.to = Seller /\ m.value = Price
        /\ m.after <= t /\ t < m.before
        /\ IF p.asset \in Permit2 THEN m.domain = "Permit2" /\ m.token = p.asset /\ m.spender = p.extraSpender
           ELSE m.domain = p.asset /\ m.from = p.from

\* Every job rests on an authorization that paid the price when it was opened
\* and that does not stay open for longer than the code allows, however header
\* and requirement contradict the signed message.
JobsAuthorized ==
    \A k \in DOMAIN jobs :
      /\ Authorizes(jobs[k].proof, jobs[k].createdAt)
      /\ jobs[k].proof.before - jobs[k].createdAt <= MaxWindow

\* One authorization opens one job: no second header for it, spelled otherwise or
\* with other unsigned parts, opens another.
OneJobEach ==
    \A k, l \in DOMAIN jobs : k # l => jobs[k].proof.signed # jobs[l].proof.signed

\* The nonces of one payer in different tokens are different payments: a header
\* that is valid finds no job of another asset, payer or nonce in its way.
NoForeignJob ==
    \A p \in Proofs : \A k \in DOMAIN jobs :
      Valid(p) /\ k = PaymentKey(p)
        => LET o == jobs[k].proof
           IN  <<o.asset, o.from, o.nonce>> = <<p.asset, p.from, p.nonce>>

\* Whoever paid can come back: the header of a job keeps leading to it, however
\* long after its authorization has expired.
JobsRecoverable ==
    \A k \in DOMAIN jobs :
      /\ Valid(jobs[k].proof) \/ Recovered(jobs[k].proof)
      /\ PaymentKey(jobs[k].proof) = k

\* A job handle goes only to the header and the request that the job is for.
AnswerBound ==
    \A a \in answer :
      a.key \in DOMAIN jobs /\ jobs[a.key].proof = a.proof /\ jobs[a.key].request = a.request

\* Jobs and payments correspond one to one: one authorization opens one job, no
\* two payments share one, and a handle goes to the payment and request it is for.
IdentitySound == TypeOK /\ OneJobEach /\ NoForeignJob /\ AnswerBound
-----------------------------------------------------------------------------
(* Why it holds: the invariant that every step preserves.                  *)

\* A job keeps the header that opened it under the key of that header, and the
\* header was accepted when the job was created.
JobOK(k, job) ==
    /\ job.proof \in Formed \cap Genuine /\ job.request \in Requests
    /\ PaymentKey(job.proof) = k
    /\ job.createdAt \in 0..now
    /\ job.proof.after <= job.createdAt /\ job.createdAt < job.proof.before
    /\ job.proof.before - job.createdAt <= MaxWindow

JobsInv ==
    /\ TypeOK /\ IsFiniteSet(DOMAIN jobs)
    /\ \A k \in DOMAIN jobs : JobOK(k, jobs[k])
    /\ AnswerBound
=============================================================================
