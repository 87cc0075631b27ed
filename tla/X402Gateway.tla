---------------------------- MODULE X402Gateway ----------------------------
(***************************************************************************)
(* The way of a request from the public API to the paid job service and    *)
(* back: the Lambda of gateway/x402_lambda/src with the OAuth token it     *)
(* keeps warm, the A2A executor with the envelope of x402_envelope.py, and *)
(* the routes of x402_handler.py.  The Lambda gives up after its timeout   *)
(* while the agent goes on with the request; the buyer then repeats it,    *)
(* with the same payment.  Of the job service only what decides an answer  *)
(* is kept: the record of each payment, the one session its lease admits   *)
(* to the facilitator, and what becomes of the money.  Times are           *)
(* durations, counted down or up by Tick.                                  *)
(***************************************************************************)
EXTENDS Integers

CONSTANTS
    Containers,    \* warm Lambda containers, one request at a time each
    Sessions,      \* requests the agent works on at a time
    Payments,      \* paid create requests, by their Payment-Signature
    Views,         \* requests without payment: price, job status, resume
    Flaws,         \* what may be wrong with each request, "none" for nothing
    RotatedLate,   \* Permit2 payments whose requirement the facilitator may
                   \* withdraw once it has begun to settle them
    Lifetimes,     \* expires_in of tokens
    Margin,        \* a token is replaced this long before its end: 30 s
    FetchTimeout,  \* timeout of the token request: 5 s
    Transit,       \* time from the header to the check of the token
    InvokeTimeout, \* timeout of the invocation: 25 s
    MaxFaults,     \* bound on failures, timeouts and changes of the secret
    None           \* no request, no container

Requests == Payments \cup Views

GatewayFlaws == {"route", "source", "query", "body", "large", "header", "context"}
AgentFlaws == {"base", "json", "encoding"}

ASSUME GatewayAssumption ==
    /\ None \notin Requests /\ None \notin Containers /\ Payments \cap Views = {}
    /\ Flaws \in [Requests -> SUBSET (GatewayFlaws \cup AgentFlaws \cup {"none"})]
    \* The buyer repeats a payment with the same bytes: what is found wrong in it
    \* once is found each time.  The context and the envelope are not the buyer's.
    /\ \A p \in Payments : "none" \in Flaws[p] => Flaws[p] \subseteq {"none", "context", "base"}
    /\ RotatedLate \subseteq Payments
    /\ Margin \in Nat /\ FetchTimeout \in Nat /\ Transit \in Nat /\ InvokeTimeout \in Nat
    /\ FetchTimeout + Transit <= Margin /\ Transit < InvokeTimeout
    /\ Lifetimes \subseteq {n \in Nat : n > FetchTimeout + Transit}
    /\ MaxFaults \in Nat

VARIABLES
    gw,       \* the containers
    secret,   \* version of the OAuth client's secret
    run,      \* the requests at the agent
    job,      \* the record of each payment
    charge,   \* what has become of the money of each payment
    buyer,    \* what the buyer knows of each request
    faults    \* failures so far

vars == <<gw, secret, run, job, charge, buyer, faults>>

Fault == faults < MaxFaults /\ faults' = faults + 1
NoFault == UNCHANGED faults

\* pc: idle, fetch, issued, transit, invoke; secret and token are the caches,
\* coming is a token on its way.
Cold == [pc |-> "idle", req |-> None, waited |-> 0, secret |-> {}, coming |-> {},
         token |-> {}, refresh |-> 0]

Free == [pc |-> "free", req |-> None, flaw |-> "none", caller |-> None, code |-> "none"]

Init ==
    /\ gw = [c \in Containers |-> Cold]
    /\ secret = 0
    /\ run = [s \in Sessions |-> Free]
    /\ job = [p \in Payments |-> "none"]
    /\ charge = [p \in Payments |-> "none"]
    /\ buyer = [r \in Requests |-> "idle"]
    /\ faults = 0

-----------------------------------------------------------------------------
(* Answers                                                                 *)

\* _send_job_error, _handle_async_analyze and the read and resume routes.  The
\* receipt of a job has the job's status in it, which may be failed.
Status(code) ==
    CASE code \in {"accepted", "job_failed"} -> 202
      [] code = "view" -> 200                    \* or what else the route answers
      [] code = "invalid_request" -> 400
      [] code = "payment_rejected" -> 402
      [] code = "job_not_found" -> 404
      [] code = "wallet_rate_limited" -> 429
      [] code \in {"settlement_pending", "unavailable"} -> 503

\* Faulty variant: a timeout is the client's fault.
TimeoutStatusGone == 408

\* GatewayApplication.handle: nothing is known of the settlement.
TimeoutStatus == 503

\* createReceiptFromPending: the stored proof is sent again after a 5xx; after a
\* 429 a cooldown takes its place, and the buyer is done with this payment.  A
\* receipt is kept, whichever status it has.
Conclusion(r, status, code) ==
    CASE r \in Views -> "idle"
      [] r \in Payments /\ status >= 500 -> "retry"
      [] r \in Payments /\ status = 429 -> "limited"
      [] r \in Payments /\ status < 300 -> IF code = "job_failed" THEN "failed" ELSE "accepted"
      [] OTHER -> "refused"

\* The answer of container c.
Reply(c, status, code) ==
    LET r == gw[c].req
        idle == [gw[c] EXCEPT !.pc = "idle", !.req = None, !.waited = 0, !.coming = {}]
    IN  /\ gw' = [gw EXCEPT ![c] = idle]
        /\ buyer' = [buyer EXCEPT ![r] = Conclusion(r, status, code)]

-----------------------------------------------------------------------------
(* The Lambda                                                              *)

Is(c, pc) == gw[c].pc = pc

\* Faulty variant: a token is kept for good.
CacheHitForever(g) == g.token # {}

\* authorization_header: the cached token, while it is not due.
CacheHit(g) == g.token # {} /\ g.refresh > 0

\* What the gateway does not see.
Passing(r) == Flaws[r] \ GatewayFlaws

\* The buyer sends or repeats a request; handle builds the envelope and takes
\* the cached token, or reads the secret unless it has one and asks for a token.
Receive(c, r) ==
    /\ Is(c, "idle") /\ buyer[r] \in {"idle", "retry"}
    /\ Passing(r) # {}
    /\ \E read \in IF gw[c].secret = {} THEN {{secret}} ELSE {gw[c].secret} :
         gw' = [gw EXCEPT ![c] = IF CacheHit(@)
                                 THEN [@ EXCEPT !.pc = "transit", !.req = r, !.waited = 0]
                                 ELSE [@ EXCEPT !.pc = "fetch", !.req = r, !.waited = 0, !.secret = read]]
    /\ buyer' = [buyer EXCEPT ![r] = "waiting"]
    /\ UNCHANGED <<secret, run, job, charge, faults>>

\* GatewayRequestError and, for a context that is not the API's own,
\* GatewayConfigurationError.
Refuse(c, r) ==
    /\ Is(c, "idle") /\ buyer[r] \in {"idle", "retry"}
    /\ \E flaw \in Flaws[r] \cap GatewayFlaws :
         LET status == CASE flaw = "context" -> 503 [] flaw = "large" -> 413 [] OTHER -> 400
         IN  buyer' = [buyer EXCEPT ![r] = Conclusion(r, status, "none")]
    /\ UNCHANGED <<gw, secret, run, job, charge, faults>>

\* The secret cannot be read; nothing is cached.
SecretUnavailable(c, r) ==
    /\ Is(c, "idle") /\ buyer[r] \in {"idle", "retry"}
    /\ Passing(r) # {}
    /\ ~CacheHit(gw[c]) /\ gw[c].secret = {}
    /\ buyer' = [buyer EXCEPT ![r] = Conclusion(r, 503, "none")]
    /\ Fault
    /\ UNCHANGED <<gw, secret, run, job, charge>>

\* The token endpoint issues a token to a client with the current secret.
Issue(c) ==
    /\ Is(c, "fetch") /\ secret \in gw[c].secret
    /\ \E life \in Lifetimes :
         gw' = [gw EXCEPT ![c] = [@ EXCEPT !.pc = "issued", !.coming = {[left |-> life, life |-> life]}]]
    /\ UNCHANGED <<secret, run, job, charge, buyer, faults>>

\* Faulty variant: no margin.
RefreshAfterLifetime(life) == life

\* A token is due before its end; one that lives no longer than that, at once.
RefreshAfter(life) == IF life > Margin THEN life - Margin ELSE 0

\* The token arrives and is cached; the request goes out with it.
TokenArrives(c) ==
    /\ Is(c, "issued")
    /\ \E t \in gw[c].coming :
         gw' = [gw EXCEPT ![c] = [@ EXCEPT !.pc = "transit", !.waited = 0, !.coming = {},
                                           !.token = {t}, !.refresh = RefreshAfter(t.life)]]
    /\ UNCHANGED <<secret, run, job, charge, buyer, faults>>

\* OAuthUnavailable: refused, malformed, or out of time.  The old token stays
\* cached, and due.
TokenFails(c) ==
    /\ gw[c].pc \in {"fetch", "issued"}
    /\ \/ Fault
       \/ Is(c, "fetch") /\ secret \notin gw[c].secret /\ NoFault
    /\ Reply(c, 503, "none")
    /\ UNCHANGED <<secret, run, job, charge>>

Expired(c) == \A t \in gw[c].token : t.left = 0

\* The runtime checks the token and starts a session for the request.
Invoke(c, s) ==
    /\ Is(c, "transit") /\ ~Expired(c)
    /\ run[s].pc = "free"
    /\ \E flaw \in Passing(gw[c].req) :
         run' = [run EXCEPT ![s] = [Free EXCEPT !.pc = "begin", !.req = gw[c].req, !.flaw = flaw, !.caller = c]]
    /\ gw' = [gw EXCEPT ![c].pc = "invoke"]
    /\ UNCHANGED <<secret, job, charge, buyer, faults>>

\* 401, 403, 429, 5xx or no connection: AgentInvocationUnauthorized and its like.
InvokeFails(c) ==
    /\ Is(c, "transit")
    /\ \/ Fault
       \/ Expired(c) /\ NoFault
    /\ Reply(c, 503, "none")
    /\ UNCHANGED <<secret, run, job, charge>>

Detach(c, s) == IF run[s].caller = c THEN [run[s] EXCEPT !.caller = None] ELSE run[s]

\* AgentInvocationTimeout, or the connection is lost: the agent goes on.
GiveUp(c) ==
    /\ Is(c, "invoke")
    /\ Fault
    /\ \/ gw[c].waited >= InvokeTimeout /\ Reply(c, TimeoutStatus, "none")
       \/ Reply(c, 503, "none")
    /\ run' = [s \in Sessions |-> Detach(c, s)]
    /\ UNCHANGED <<secret, job, charge>>

\* The response envelope comes back.  An exception at the agent is a JSON-RPC
\* error without result: InvalidAgentResponse.  The buyer may lose the answer.
Return(c, s) ==
    /\ Is(c, "invoke") /\ run[s].caller = c /\ run[s].pc = "done"
    /\ \/ Reply(c, IF run[s].code = "fault" THEN 502 ELSE Status(run[s].code), run[s].code) /\ NoFault
       \/ Reply(c, 504, "none") /\ Fault
    /\ run' = [run EXCEPT ![s] = Free]
    /\ UNCHANGED <<secret, job, charge>>

-----------------------------------------------------------------------------
(* The agent                                                               *)

Done(s, code) == run' = [run EXCEPT ![s].pc = "done", ![s].code = code]

\* dispatch_x402_envelope and the handler refuse what the gateway let pass.
RefuseAtAgent(s) ==
    /\ run[s].pc = "begin"
    /\ \/ run[s].flaw = "base" /\ Done(s, "fault")
       \/ /\ run[s].flaw \in {"json", "encoding"}
          /\ Done(s, IF run[s].flaw = "json" THEN "invalid_request"
                     ELSE IF run[s].req \in Payments THEN "payment_rejected" ELSE "job_not_found")
    /\ UNCHANGED <<gw, secret, job, charge, buyer, faults>>

Sound(s, R) == run[s].pc = "begin" /\ run[s].flaw = "none" /\ run[s].req \in R

\* _handle_price, the challenge for a request without payment, _handle_job_get
\* and _handle_job_resume.
View(s) ==
    /\ Sound(s, Views)
    /\ Done(s, "view")
    /\ UNCHANGED <<gw, secret, job, charge, buyer, faults>>

\* create_job: a payment without record is admitted, or turned away before
\* anything is recorded: for good when its authorization has run out.
Admit(s) ==
    LET p == run[s].req
    IN  /\ Sound(s, Payments) /\ job[p] = "none"
        /\ \/ /\ job' = [job EXCEPT ![p] = "settling"]
              /\ run' = [run EXCEPT ![s].pc = "settle"]
              /\ NoFault
           \/ charge[p] = "void" /\ Done(s, "payment_rejected") /\ NoFault /\ UNCHANGED job
           \/ /\ \E code \in {"wallet_rate_limited", "unavailable"} : Done(s, code)
              /\ Fault
              /\ UNCHANGED job
        /\ UNCHANGED <<gw, secret, charge, buyer>>

\* The session that has the settlement of p: the holder of the record's lease,
\* of which X402Settlement has one at a time (OneSettler).
Settles(s, p) == run[s].req = p /\ run[s].pc \in {"settle", "posted"}

\* A payment with a record: a receipt with the job's status, or, while the
\* settlement is open and nobody has it, the next attempt at it.
Resume(s) ==
    LET p == run[s].req
    IN  /\ Sound(s, Payments) /\ job[p] # "none"
        /\ \/ job[p] \in {"paid", "settling"} /\ Done(s, "accepted") /\ NoFault
           \/ job[p] = "rejected" /\ Done(s, "job_failed") /\ NoFault
           \/ /\ job[p] = "settling" /\ \A z \in Sessions : ~Settles(z, p)
              /\ run' = [run EXCEPT ![s].pc = "settle"]
              /\ NoFault
           \/ Done(s, "unavailable") /\ Fault
        /\ UNCHANGED <<gw, secret, job, charge, buyer>>

\* The settlement is requested of the facilitator; one it has refused before,
\* in an answer that was lost, it considers anew.
Post(s) ==
    LET p == run[s].req
    IN  /\ run[s].pc = "settle"
        /\ charge' = [charge EXCEPT ![p] = IF @ \in {"none", "refused"} THEN "posted" ELSE @]
        /\ run' = [run EXCEPT ![s].pc = "posted"]
        /\ UNCHANGED <<gw, secret, job, buyer, faults>>

\* The facilitator carries the settlement out or refuses it.
Decide(p) ==
    /\ charge[p] = "posted"
    /\ \E verdict \in {"paid", "refused"} : charge' = [charge EXCEPT ![p] = verdict]
    /\ UNCHANGED <<gw, secret, run, job, buyer, faults>>

\* The authorization runs out unused: the token no longer accepts it.
Expire(p) ==
    /\ charge[p] \in {"none", "posted", "refused"}
    /\ charge' = [charge EXCEPT ![p] = "void"]
    /\ UNCHANGED <<gw, secret, run, job, buyer, faults>>

\* _settle_and_transition and _mark_settled: the answer of the facilitator, or
\* the use of an EIP-3009 authorization that the chain shows, is recorded.
Settled(s) ==
    LET p == run[s].req
    IN  /\ \/ run[s].pc = "posted" /\ charge[p] \in {"paid", "refused", "void"}
           \/ run[s].pc = "settle" /\ charge[p] = "paid"
        /\ job' = [job EXCEPT ![p] = IF charge[p] = "paid" THEN "paid" ELSE "rejected"]
        /\ Done(s, IF charge[p] = "paid" THEN "accepted" ELSE "payment_rejected")
        /\ UNCHANGED <<gw, secret, charge, buyer, faults>>

\* Faulty variant: a rejection without asking needs no look at the chain.
RejectableUnseen(p) == TRUE

\* Where a payment may be rejected without a settlement request.  An EIP-3009
\* payment is looked up on the chain first, and no earlier request of it can land
\* any more when the lease is had again (LandsInTime of X402Settlement).  Nobody
\* looks a Permit2 payment up: its requirement is taken to stay supported once the
\* facilitator has begun to settle it, unless it is one of RotatedLate.
Rejectable(p) == charge[p] \notin {"posted", "paid"} \/ p \in RotatedLate

\* The payment is rejected without a settlement request: its authorization has
\* run out, its requirement is no longer supported, or /verify says no.
RejectUnasked(s) ==
    LET p == run[s].req
    IN  /\ run[s].pc = "settle" /\ Rejectable(p)
        /\ job' = [job EXCEPT ![p] = "rejected"]
        /\ Done(s, "payment_rejected")
        /\ UNCHANGED <<gw, secret, charge, buyer, faults>>

\* An answer is lost or says pending; the settlement may still come.
Unsettled(s) ==
    /\ run[s].pc \in {"settle", "posted"}
    /\ Done(s, "settlement_pending")
    /\ Fault
    /\ UNCHANGED <<gw, secret, job, charge, buyer>>

\* A request nobody waits for any more ends.
Drop(s) ==
    /\ run[s].pc = "done" /\ run[s].caller = None
    /\ run' = [run EXCEPT ![s] = Free]
    /\ UNCHANGED <<gw, secret, job, charge, buyer, faults>>

-----------------------------------------------------------------------------
Down(n) == IF n > 0 THEN n - 1 ELSE 0

Limit(c) == CASE gw[c].pc \in {"fetch", "issued"} -> FetchTimeout
              [] Is(c, "transit") -> Transit
              [] Is(c, "invoke") -> InvokeTimeout
              [] OTHER -> 0

\* A second passes; no container waits beyond its timeout.
Tick ==
    /\ \A c \in Containers : Is(c, "idle") \/ gw[c].waited < Limit(c)
    /\ gw' = [c \in Containers |->
                [gw[c] EXCEPT !.waited = IF Is(c, "idle") THEN 0 ELSE @ + 1,
                              !.refresh = Down(@),
                              !.token = {[t EXCEPT !.left = Down(@)] : t \in @},
                              !.coming = {[t EXCEPT !.left = Down(@)] : t \in @}]]
    /\ UNCHANGED <<secret, run, job, charge, buyer, faults>>

\* The secret of the client is replaced: the old one is no longer good.
RotateSecret ==
    /\ secret' = secret + 1
    /\ Fault
    /\ UNCHANGED <<gw, run, job, charge, buyer>>

\* A container is thrown away with its caches.
Recycle(c) ==
    /\ Is(c, "idle")
    /\ gw' = [gw EXCEPT ![c] = Cold]
    /\ UNCHANGED <<secret, run, job, charge, buyer, faults>>

Arrive(c) == \E r \in Requests : Receive(c, r) \/ Refuse(c, r) \/ SecretUnavailable(c, r)
Lambda(c) ==
    \/ Issue(c) \/ TokenArrives(c) \/ TokenFails(c)
    \/ InvokeFails(c) \/ GiveUp(c) \/ \E s \in Sessions : Invoke(c, s) \/ Return(c, s)
Agent(s) ==
    \/ RefuseAtAgent(s) \/ View(s) \/ Admit(s) \/ Resume(s)
    \/ Post(s) \/ Settled(s) \/ RejectUnasked(s) \/ Unsettled(s) \/ Drop(s)

Next ==
    \/ \E c \in Containers : Arrive(c) \/ Lambda(c) \/ Recycle(c)
    \/ \E s \in Sessions : Agent(s)
    \/ \E p \in Payments : Decide(p) \/ Expire(p)
    \/ Tick \/ RotateSecret

Spec == Init /\ [][Next]_vars

\* Time passes and every party goes on; the buyer repeats a request for as long
\* as it is told to, and there is always a container and a session for it in the
\* end.  The platform replaces containers whose secret is out of date, which the
\* code does not.  What fails does so finitely often.
FairSpec ==
    /\ Spec /\ WF_vars(Tick)
    /\ \A p \in Payments :
         /\ WF_vars(Decide(p))
         /\ SF_vars(buyer[p] = "retry" /\ \E c \in Containers : Receive(c, p) \/ Refuse(c, p))
    /\ \A c \in Containers :
         /\ SF_vars(gw[c].secret # {secret} /\ Recycle(c))
         /\ WF_vars(Issue(c) \/ TokenArrives(c) \/ TokenFails(c) \/ InvokeFails(c))
         /\ SF_vars(\E s \in Sessions : Invoke(c, s))
         /\ WF_vars(\E s \in Sessions : Return(c, s))
    /\ \A s \in Sessions : WF_vars(Agent(s))

-----------------------------------------------------------------------------
Tokens == [left : Nat, life : Lifetimes]

Codes == {"none", "fault", "invalid_request", "payment_rejected", "job_not_found", "view",
          "wallet_rate_limited", "unavailable", "accepted", "job_failed", "settlement_pending"}

\* The shape of the state; no container waits beyond its limit.
TypeOK ==
    /\ gw \in [Containers ->
                 [pc : {"idle", "fetch", "issued", "transit", "invoke"},
                  req : Requests \cup {None}, waited : Nat, secret : SUBSET Nat,
                  coming : SUBSET Tokens, token : SUBSET Tokens, refresh : Nat]]
    /\ \A c \in Containers :
         /\ ~Is(c, "idle") => gw[c].req \in Requests
         /\ gw[c].waited <= Limit(c)
         /\ \A t \in gw[c].token \cup gw[c].coming : t.left <= t.life
         /\ \A v \in gw[c].secret : v <= secret
    /\ secret \in 0..faults
    /\ run \in [Sessions ->
                  [pc : {"free", "begin", "settle", "posted", "done"},
                   req : Requests \cup {None}, flaw : AgentFlaws \cup {"none"},
                   caller : Containers \cup {None}, code : Codes]]
    /\ job \in [Payments -> {"none", "settling", "paid", "rejected"}]
    /\ charge \in [Payments -> {"none", "posted", "paid", "refused", "void"}]
    /\ buyer \in [Requests -> {"idle", "waiting", "retry", "limited", "accepted", "failed", "refused"}]
    /\ faults \in 0..MaxFaults

\* A request never goes out with a token that has run out by the time it is
\* checked, however long it took to come, as long as tokens live longer than the
\* token request and the way to the agent may take.
TokenUsable == \A c \in Containers : Is(c, "transit") => ~Expired(c)

\* The token cache: the durations it keeps stay in range, no step waits beyond
\* its limit, and no token is used beyond its life.
TokensSound == TypeOK /\ TokenUsable

\* What a buyer is told when a payment is refused for good: by an error, or in the
\* receipt of a job that has failed.
Refused(p) == buyer[p] \in {"refused", "failed"}

\* A buyer who is told that has not been charged and will not be: not by a session
\* that still runs after a timeout either, and not when the service rejects without
\* asking.  Permit2 payments whose requirement is withdrawn while they are settled
\* are excepted: theirs is the counterexample of permit2_rotation.
RefusedMeansUncharged ==
    \A p \in Payments \ RotatedLate :
        Refused(p) => charge[p] \in {"none", "refused", "void"}

\* What makes the two inductive.  A token that is not due yet outlives the way to
\* the agent; one on its way has lost no more than the time waited for it, and one
\* in use has more left than the rest of the way.
TokenAges ==
    \A c \in Containers :
        LET g == gw[c]
        IN  /\ g.refresh > 0 => \A t \in g.token : t.left >= g.refresh + Transit
            /\ \A t \in g.coming : g.pc = "issued" /\ t.left + g.waited >= t.life
            /\ g.pc = "transit" => g.token # {} /\ \A t \in g.token : t.left + g.waited > Transit

\* Each container waits for at most one session, which has its request.
CallersMatch ==
    \A s \in Sessions :
        /\ run[s].pc # "free" => run[s].req \in Requests /\ run[s].flaw \in Flaws[run[s].req]
        /\ run[s].caller # None =>
             /\ run[s].pc # "free" /\ Is(run[s].caller, "invoke")
             /\ gw[run[s].caller].req = run[s].req
        /\ \A z \in Sessions : run[s].caller # None /\ run[s].caller = run[z].caller => s = z

\* A settlement is asked for by one session at a time, under an open record of a
\* payment with nothing wrong in it, and the record agrees with the money.
RecordsMatch ==
    /\ \A p \in Payments :
         /\ job[p] = "none" => charge[p] \in {"none", "void"}
         /\ job[p] = "rejected" => charge[p] \in {"none", "refused", "void"} \/ p \in RotatedLate
         /\ job[p] = "paid" => charge[p] = "paid"
         /\ job[p] # "none" => "none" \in Flaws[p]
    /\ \A s \in Sessions :
         run[s].pc \in {"settle", "posted"} =>
           /\ run[s].req \in Payments /\ job[run[s].req] = "settling"
           /\ run[s].pc = "posted" => charge[run[s].req] # "none"
           /\ \A z \in Sessions : Settles(z, run[s].req) => s = z

\* The payment is not charged, now or later.
NeverCharged(p) ==
    \/ "none" \notin Flaws[p] \/ charge[p] = "void"
    \/ job[p] = "rejected" /\ charge[p] \in {"none", "refused"}
    \/ p \in RotatedLate

\* The answers that tell a buyer so.
Final == {"invalid_request", "payment_rejected", "job_not_found", "job_failed"}

\* Only such a payment is refused, to the buyer or in an answer on its way.
RefusalsFinal ==
    /\ \A p \in Payments : Refused(p) => NeverCharged(p)
    /\ \A s \in Sessions :
         run[s].pc = "done" =>
           /\ run[s].code # "none"
           /\ run[s].req \in Payments /\ run[s].code \in Final => NeverCharged(run[s].req)

\* A buyer who repeats a request gets a final answer, through timeouts, expired
\* tokens, lost answers and open settlements.
AnswerComes ==
    \A p \in Payments : buyer[p] = "waiting" ~> buyer[p] \in {"accepted", "failed", "refused", "limited"}
=============================================================================
