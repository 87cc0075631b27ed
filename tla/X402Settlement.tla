--------------------------- MODULE X402Settlement ---------------------------
(***************************************************************************)
(* One paid job of x402_job_service.py from the first POST of its payment  *)
(* proof until it is queued or its payment has failed: create_job and      *)
(* everything it calls, run by concurrent request handlers that all carry  *)
(* the same proof (a buyer's retries, on any replica).  The handlers share *)
(* the job record (an S3 object written with If-Match / If-None-Match) and *)
(* the wallet's admission slot, and call the facilitator, which moves the  *)
(* money on chain.  A handler may die at every await; a write it had       *)
(* started, or a settlement it had requested, may still take effect.       *)
(*                                                                         *)
(* The record is compared by content, as its ETag does.  The limiter is    *)
(* the atomic one of RateLimit, seen from this job: `gen' counts the       *)
(* reservations its id was given, `slot' is the latest one's entry and     *)
(* `open' says whether that one is still inside its window.                *)
(***************************************************************************)
EXTENDS Integers, FiniteSets

CONSTANTS Handlers,     \* concurrent create_job calls with this proof
          Methods,      \* transfer methods: "eip3009", "permit2-exact"
          Lease,        \* _LEASE_MILLISECONDS, in ticks
          Stall,        \* longest time from a handler's clock reading to the
                        \* end of its settlement call
          Hold,         \* longest time from that reading to the write of the outcome
          Land,         \* longest time a requested settlement can still land
          ValidBefore,  \* tick at which the authorization expires
          Rotating,     \* the methods whose supported kinds the facilitator may change
          PendingTries, \* _PENDING_PERSIST_ATTEMPTS
          MaxGen,       \* bound on the reservations of this job id
          MaxFaults,    \* bound on deaths, lost answers and unknown outcomes
          MaxTime       \* bound on the clock

ASSUME SettlementAssumption ==
    /\ Methods \subseteq {"eip3009", "permit2-exact"} /\ Rotating \subseteq Methods
    /\ Lease \in Nat \ {0} /\ Stall \in Nat /\ Hold \in Nat
    /\ Land \in Nat /\ ValidBefore \in Nat /\ MaxTime \in Nat
    /\ PendingTries \in Nat \ {0} /\ MaxGen \in Nat \ {0} /\ MaxFaults \in Nat

VARIABLES
    clock,    \* wall clock of the replicas and of the chain
    rec,      \* the job record
    gen, slot, open,   \* the admission of this job id
    landed,   \* the settlement request that moved the money, or NoReq
    live,     \* settlement requests that can still land, with their deadlines
    method,   \* the transfer method of this proof
    rotated,  \* the supported kinds no longer match the proof's requirement
    pc,       \* where each handler is
    snap,     \* the record as the handler last read or wrote it
    now,      \* the handler's last reading of the clock it decides with
    mine,     \* the reservation (gen) the handler holds
    req,      \* the handler's settlement request
    tries,    \* attempts left of _mark_settlement_pending
    asked,    \* this call has POSTed /settle
    faults    \* faults left

shared == <<rec, gen, slot, open, landed, live, method, rotated>>
local == <<pc, snap, now, mine, req, tries, asked>>
vars == <<clock, shared, local, faults>>

NoRec == [exists |-> FALSE, pay |-> "none", status |-> "none", rate |-> "none",
          lease |-> 0, pend |-> FALSE, settledAt |-> 0, gen |-> 0]
NoReq == <<>>

Paid == landed # NoReq

Init ==
    /\ clock = 1
    /\ rec = NoRec
    /\ gen = 0 /\ slot = "none" /\ open = FALSE
    /\ landed = NoReq /\ live = {} /\ rotated = FALSE
    /\ method \in Methods
    /\ pc = [h \in Handlers |-> "idle"]
    /\ snap = [h \in Handlers |-> NoRec]
    /\ now = [h \in Handlers |-> 0]
    /\ mine = [h \in Handlers |-> 0]
    /\ req = [h \in Handlers |-> NoReq]
    /\ tries = [h \in Handlers |-> 0]
    /\ asked = [h \in Handlers |-> FALSE]
    /\ faults = MaxFaults

-----------------------------------------------------------------------------
(* The records the service writes.                                         *)

\* create_job: the reservation of a new job, leased from the handler's first
\* clock reading.
CreatedRecord(h) ==
    [exists |-> TRUE, pay |-> "settling", status |-> "settling", rate |-> "reserved",
     lease |-> now[h] + Lease, pend |-> FALSE, settledAt |-> 0, gen |-> mine[h]]

\* Faulty variant: the claim does not renew the lease.
ClaimedRecordUnrenewed(h) == snap[h]

\* _reconcile_settling takes over an expired lease.
ClaimedRecord(h) == [snap[h] EXCEPT !.lease = now[h] + Lease]

\* _mark_settled
SettledRecord(h) ==
    [snap[h] EXCEPT !.pay = "settled", !.status = "settling", !.pend = FALSE,
                    !.settledAt = IF @ > 0 THEN @ ELSE clock,
                    !.lease = clock + Lease]

\* _fail_settlement
FailedRecord(h) ==
    [snap[h] EXCEPT !.pay = "failed", !.status = "failed", !.pend = FALSE, !.lease = 0]

\* _mark_settlement_pending
PendingRecord(h) == [snap[h] EXCEPT !.pay = "settling", !.status = "settling", !.pend = TRUE]

\* _finalize_rate_commit
QueuedRecord(h) == [snap[h] EXCEPT !.status = "queued", !.rate = "committed", !.lease = 0]

\* _mark_rate_released
ReleasedRecord(h) == [snap[h] EXCEPT !.rate = "released"]

\* What a handler at a conditional write is about to write.
Write(h) ==
    CASE pc[h] = "create"   -> CreatedRecord(h)
      [] pc[h] = "claim"    -> ClaimedRecord(h)
      [] pc[h] = "mark"     -> SettledRecord(h)
      [] pc[h] = "fail"     -> FailedRecord(h)
      [] pc[h] = "pend"     -> PendingRecord(h)
      [] pc[h] = "finalize" -> QueuedRecord(h)
      [] pc[h] = "unrate"   -> ReleasedRecord(h)

Writing == {"create", "claim", "mark", "fail", "pend", "finalize", "unrate"}

Settling(r) == r.pay = "settling" /\ r.status = "settling"

-----------------------------------------------------------------------------
(* Control of a handler.                                                   *)

Goto(h, where) == pc' = [pc EXCEPT ![h] = where]

\* The call returns or raises; its locals go away.
Finish(h) ==
    /\ Goto(h, "idle")
    /\ snap' = [snap EXCEPT ![h] = NoRec]
    /\ now' = [now EXCEPT ![h] = 0]
    /\ mine' = [mine EXCEPT ![h] = 0]
    /\ req' = [req EXCEPT ![h] = NoReq]
    /\ tries' = [tries EXCEPT ![h] = 0]
    /\ asked' = [asked EXCEPT ![h] = FALSE]

\* Faulty variant: a settled job whose commit was interrupted is left alone.
AfterReconcileFailuresOnly(r) ==
    IF r.pay = "failed" /\ r.rate = "reserved" THEN "release" ELSE "idle"

\* _reconcile_rate_limit decides on the record it is given.
AfterReconcile(r) ==
    IF r.pay = "settled" /\ r.rate = "reserved" THEN "commit"
    ELSE IF r.pay = "settled" /\ r.rate = "committed" /\ r.status = "settling" THEN "finalize"
    ELSE IF r.pay = "failed" /\ r.rate = "reserved" THEN "release"
    ELSE "idle"

\* Continue with the record r, or return when nothing is left to reconcile.
Reconcile(h, r) ==
    IF AfterReconcile(r) = "idle"
    THEN Finish(h)
    ELSE /\ Goto(h, AfterReconcile(r))
         /\ snap' = [snap EXCEPT ![h] = r]
         /\ UNCHANGED <<now, mine, req, tries, asked>>

\* POST /x402/analyze/async with the proof; now = self._clock().
Start(h) ==
    /\ pc[h] = "idle"
    /\ Goto(h, "read")
    /\ now' = [now EXCEPT ![h] = clock]
    /\ UNCHANGED <<clock, shared, snap, mine, req, tries, asked, faults>>

\* store.read of create_job.  An expired proof may only recover a job.
ReadJob(h) ==
    /\ pc[h] = "read"
    /\ \/ /\ ~rec.exists /\ now[h] >= ValidBefore
          /\ Finish(h)
       \/ /\ ~rec.exists /\ now[h] < ValidBefore
          /\ Goto(h, "reserve")
          /\ UNCHANGED <<snap, now, mine, req, tries, asked>>
       \/ /\ rec.exists /\ Settling(rec)
          /\ Goto(h, "confirm")
          /\ snap' = [snap EXCEPT ![h] = rec]
          /\ UNCHANGED <<now, mine, req, tries, asked>>
       \/ /\ rec.exists /\ ~Settling(rec)
          /\ Reconcile(h, rec)
    /\ UNCHANGED <<clock, shared, faults>>

-----------------------------------------------------------------------------
(* The wallet's admission slot.                                            *)

\* Reservation g is inside its window.
InWindow(g) == g = gen /\ open

\* reserve: a new reservation, the one there is, or no room in the window.
Reserve(h) ==
    /\ pc[h] = "reserve"
    /\ \/ /\ slot = "none" /\ gen < MaxGen
          /\ gen' = gen + 1 /\ slot' = "reserved" /\ open' = TRUE
          /\ mine' = [mine EXCEPT ![h] = gen + 1]
          /\ Goto(h, "create")
          /\ UNCHANGED <<snap, now, req, tries, asked>>
       \/ /\ slot # "none"
          /\ Goto(h, "observe")
          /\ UNCHANGED <<gen, slot, open, snap, now, mine, req, tries, asked>>
       \/ /\ slot = "none"
          /\ Finish(h)
          /\ UNCHANGED <<gen, slot, open>>
    /\ UNCHANGED <<clock, rec, landed, live, method, rotated, faults>>

\* confirm, for a new job and for one found settling; an expired reservation
\* does not stop the payment, a reservation that is not there does.
Confirm(h) ==
    /\ pc[h] = "confirm"
    /\ \/ /\ InWindow(snap[h].gen) /\ slot # "reserved"
          /\ Finish(h)
       \/ /\ InWindow(snap[h].gen) => slot = "reserved"
          /\ Goto(h, IF mine[h] > 0 THEN "ask" ELSE "lease")
          /\ UNCHANGED <<snap, now, mine, req, tries, asked>>
    /\ UNCHANGED <<clock, shared, faults>>

\* commit; outside the window there is nothing left to commit.
CommitSlot(h) ==
    /\ pc[h] = "commit"
    /\ \/ /\ InWindow(snap[h].gen) /\ slot = "none"
          /\ Finish(h)
          /\ UNCHANGED slot
       \/ /\ InWindow(snap[h].gen) => slot # "none"
          /\ slot' = IF InWindow(snap[h].gen) THEN "committed" ELSE slot
          /\ Goto(h, "finalize")
          /\ UNCHANGED <<snap, now, mine, req, tries, asked>>
    /\ UNCHANGED <<clock, rec, gen, open, landed, live, method, rotated, faults>>

ReleaseSlot(h) ==
    /\ pc[h] = "release"
    /\ slot' = IF InWindow(snap[h].gen) THEN "none" ELSE slot
    /\ Goto(h, "unrate")
    /\ UNCHANGED <<clock, rec, gen, open, landed, live, method, rotated>>
    /\ UNCHANGED <<snap, now, mine, req, tries, asked, faults>>

\* The rolling window moves past the reservation.
CloseWindow ==
    /\ open
    /\ open' = FALSE /\ slot' = "none"
    /\ UNCHANGED <<clock, rec, gen, landed, live, method, rotated, local, faults>>
-----------------------------------------------------------------------------
(* Taking over a stale reservation.                                        *)

\* Faulty variant: recovery does not look at the lease.
LeaseIgnored(r, t) == FALSE

LeaseHeld(r, t) == r.lease > t

\* _reconcile_settling reads the clock and looks at the lease.
CheckLease(h) ==
    /\ pc[h] = "lease"
    /\ \/ /\ LeaseHeld(snap[h], clock)
          /\ Finish(h)
       \/ /\ ~LeaseHeld(snap[h], clock)
          /\ now' = [now EXCEPT ![h] = clock]
          /\ Goto(h, "claim")
          /\ UNCHANGED <<snap, mine, req, tries, asked>>
    /\ UNCHANGED <<clock, shared, faults>>

\* The claim met a newer record: go on with that one.
Reread(h) ==
    /\ pc[h] = "reread"
    /\ Reconcile(h, rec)
    /\ UNCHANGED <<clock, shared, faults>>

\* Recovery of an EIP-3009 payment asks the chain first: a used authorization
\* is settled, an unused and expired one can never be.
ReadChain(h) ==
    /\ pc[h] = "chain"
    /\ Goto(h, IF Paid THEN "mark" ELSE IF now[h] >= ValidBefore THEN "fail" ELSE "ask")
    /\ UNCHANGED <<clock, shared, snap, now, mine, req, tries, asked, faults>>

-----------------------------------------------------------------------------
(* The settlement call (_settle_payment, B402Client._settle) and the       *)
(* facilitator it talks to.                                                *)

\* A new EIP-3009 or Permit2 job and every EIP-3009 recovery verify first;
\* the recovery of a Permit2 job does not.
VerifiesFirst(h) == mine[h] > 0 \/ method = "eip3009"

\* The supported kinds must still contain the proof's requirement.
CheckSupported(h) ==
    /\ pc[h] = "ask"
    /\ Goto(h, IF rotated THEN "fail" ELSE IF VerifiesFirst(h) THEN "verify" ELSE "settle")
    /\ UNCHANGED <<clock, shared, snap, now, mine, req, tries, asked, faults>>

\* /verify: an authorization that has been used is not valid; one that has not
\* may be rejected for reasons of the facilitator's own.
Verify(h) ==
    /\ pc[h] = "verify"
    /\ \/ ~Paid /\ Goto(h, "settle")
       \/ Goto(h, "fail")
    /\ UNCHANGED <<clock, shared, snap, now, mine, req, tries, asked, faults>>

\* /settle is sent.
PostSettle(h) ==
    LET r == <<h, clock + Land>> IN
    /\ pc[h] = "settle"
    /\ req' = [req EXCEPT ![h] = r]
    /\ live' = live \cup {r}
    /\ asked' = [asked EXCEPT ![h] = TRUE]
    /\ Goto(h, "await")
    /\ UNCHANGED <<clock, rec, gen, slot, open, landed, method, rotated, snap, now, mine, tries, faults>>

\* A requested settlement is executed, once for all requests (one nonce).
LandSettlement ==
    /\ ~Paid /\ clock < ValidBefore
    /\ \E r \in live : clock < r[2] /\ landed' = r
    /\ UNCHANGED <<clock, rec, gen, slot, open, live, method, rotated, local, faults>>

\* success = True.
AnswerSettled(h) ==
    /\ pc[h] = "await" /\ Paid
    /\ Goto(h, "mark")
    /\ UNCHANGED <<clock, shared, snap, now, mine, req, tries, asked, faults>>

\* success = False without a transaction: this request will not land.  A second
\* Permit2 settlement of a settled payment answers success; a second EIP-3009
\* one is rejected by the token.
AnswerRejected(h) ==
    /\ pc[h] = "await"
    /\ ~Paid \/ (method = "eip3009" /\ landed # req[h])
    /\ live' = live \ {req[h]}
    /\ Goto(h, "fail")
    /\ UNCHANGED <<clock, rec, gen, slot, open, landed, method, rotated>>
    /\ UNCHANGED <<snap, now, mine, req, tries, asked, faults>>

\* Faulty variant: one attempt too many to record a settlement that is pending.
AnswerPendingOnceMore(h) ==
    /\ pc[h] = "await" /\ faults > 0
    /\ faults' = faults - 1
    /\ tries' = [tries EXCEPT ![h] = PendingTries + 1]
    /\ Goto(h, "pend")
    /\ UNCHANGED <<clock, shared, snap, now, mine, req, asked>>

\* success = False with a transaction: submitted, not confirmed.
AnswerPending(h) ==
    /\ pc[h] = "await" /\ faults > 0
    /\ faults' = faults - 1
    /\ tries' = [tries EXCEPT ![h] = PendingTries]
    /\ Goto(h, "pend")
    /\ UNCHANGED <<clock, shared, snap, now, mine, req, asked>>

\* The facilitator's supported kinds change; the client's cache follows.
Rotate ==
    /\ method \in Rotating /\ ~rotated
    /\ rotated' = TRUE
    /\ UNCHANGED <<clock, rec, gen, slot, open, landed, live, method, local, faults>>

\* _mark_settlement_pending after a failed write: read the record, stop when it
\* has moved on or has the reference, try again otherwise.
PendingReread(h) ==
    /\ pc[h] = "pendread"
    /\ \/ /\ ~Settling(rec) \/ rec.pend \/ tries[h] = 1
          /\ Finish(h)
       \/ /\ Settling(rec) /\ ~rec.pend /\ tries[h] > 1
          /\ snap' = [snap EXCEPT ![h] = rec]
          /\ tries' = [tries EXCEPT ![h] = @ - 1]
          /\ Goto(h, "pend")
          /\ UNCHANGED <<now, mine, req, asked>>
    /\ UNCHANGED <<clock, shared, faults>>

\* That read fails: try again from the same snapshot while attempts are left.
PendingReadFails(h) ==
    /\ pc[h] = "pendread" /\ faults > 0
    /\ faults' = faults - 1
    /\ \/ /\ tries[h] = 1
          /\ Finish(h)
       \/ /\ tries[h] > 1
          /\ tries' = [tries EXCEPT ![h] = @ - 1]
          /\ Goto(h, "pend")
          /\ UNCHANGED <<snap, now, mine, req, asked>>
    /\ UNCHANGED <<clock, shared>>

-----------------------------------------------------------------------------
(* Conditional writes of the record.                                       *)

\* Faulty variant: the job is queued before its admission is committed.
AfterPutUncommitted(h) ==
    CASE pc[h] = "create" -> "confirm"
      [] pc[h] = "claim"  -> IF method = "eip3009" THEN "chain" ELSE "ask"
      [] pc[h] = "mark"   -> "finalize"
      [] pc[h] = "fail"   -> "release"
      [] OTHER            -> "idle"

AfterPut(h) ==
    CASE pc[h] = "create" -> "confirm"
      [] pc[h] = "claim"  -> IF method = "eip3009" THEN "chain" ELSE "ask"
      [] pc[h] = "mark"   -> "commit"
      [] pc[h] = "fail"   -> "release"
      [] OTHER            -> "idle"

AfterConflict(h) ==
    CASE pc[h] = "create" -> "observe"
      [] pc[h] = "claim"  -> "reread"
      [] pc[h] = "pend"   -> "pendread"
      [] OTHER            -> "idle"

\* Faulty variant: a PUT without If-Match.
PreconditionIgnored(h) == TRUE

PreconditionHolds(h) == rec = snap[h]

PutOk(h) ==
    /\ pc[h] \in Writing /\ PreconditionHolds(h)
    /\ rec' = Write(h)
    /\ IF AfterPut(h) = "idle"
       THEN Finish(h)
       ELSE /\ Goto(h, AfterPut(h))
            /\ snap' = [snap EXCEPT ![h] = Write(h)]
            /\ UNCHANGED <<now, mine, req, tries, asked>>
    /\ UNCHANGED <<clock, gen, slot, open, landed, live, method, rotated, faults>>

GiveWay(h) ==
    IF AfterConflict(h) = "idle"
    THEN Finish(h)
    ELSE Goto(h, AfterConflict(h)) /\ UNCHANGED <<snap, now, mine, req, tries, asked>>

\* The record is not the one that was read.
PutConflict(h) ==
    /\ pc[h] \in Writing /\ ~PreconditionHolds(h)
    /\ GiveWay(h)
    /\ UNCHANGED <<clock, shared, faults>>

\* A conflict that is none: S3 answered 409 twice, or the client library
\* repeated a write that had been applied.
PutFalseConflict(h) ==
    /\ pc[h] \in Writing /\ PreconditionHolds(h) /\ faults > 0
    /\ faults' = faults - 1
    /\ rec' \in {rec, Write(h)}
    /\ GiveWay(h)
    /\ UNCHANGED <<clock, gen, slot, open, landed, live, method, rotated>>

\* _wait_for_exact_reserved_job, and the read after a failed create: the call
\* returns what another handler made of the job, or job_state_unavailable.
Observe(h) ==
    /\ pc[h] = "observe"
    /\ Finish(h)
    /\ UNCHANGED <<clock, shared, faults>>

\* The handler dies, is cancelled, or raises on an error of the store, the
\* chain or the facilitator (SettlementIndeterminate after its 60 s timeout).
\* A write under way may have been applied.
Die(h) ==
    /\ pc[h] # "idle" /\ faults > 0
    /\ faults' = faults - 1
    /\ \/ UNCHANGED rec
       \/ pc[h] \in Writing /\ PreconditionHolds(h) /\ rec' = Write(h)
    /\ Finish(h)
    /\ UNCHANGED <<clock, gen, slot, open, landed, live, method, rotated>>

\* The worker of X402Execution claims the queued job.
Execute ==
    /\ rec.status = "queued"
    /\ rec' = [rec EXCEPT !.status = "running"]
    /\ UNCHANGED <<clock, gen, slot, open, landed, live, method, rotated, local, faults>>

\* Where a handler is between the clock reading that its lease starts from and
\* the end of its settlement call.
Leased == {"read", "reserve", "create", "confirm", "claim", "chain", "ask", "verify",
           "settle", "await"}

\* Time passes while some deadline lies ahead and no handler is overdue.
Tick ==
    /\ \/ clock < rec.lease \/ clock < ValidBefore \/ live # {}
    /\ clock < MaxTime
    /\ \A h \in Handlers : pc[h] \in Leased => clock < now[h] + Stall
    /\ \A h \in Handlers : pc[h] \in {"mark", "fail"} => clock < now[h] + Hold
    /\ clock' = clock + 1
    /\ live' = {r \in live : r[2] > clock + 1}
    /\ UNCHANGED <<rec, gen, slot, open, landed, method, rotated, local, faults>>

Step(h) ==
    \/ ReadJob(h) \/ Reserve(h) \/ Confirm(h) \/ CommitSlot(h) \/ ReleaseSlot(h)
    \/ CheckLease(h) \/ Reread(h) \/ ReadChain(h) \/ CheckSupported(h) \/ Verify(h)
    \/ PostSettle(h) \/ AnswerSettled(h) \/ AnswerRejected(h) \/ PendingReread(h)
    \/ PutOk(h) \/ PutConflict(h) \/ Observe(h)

Fault(h) == AnswerPending(h) \/ PendingReadFails(h) \/ PutFalseConflict(h) \/ Die(h)

Next ==
    \/ Tick \/ CloseWindow \/ LandSettlement \/ Rotate \/ Execute
    \/ \E h \in Handlers : Start(h) \/ Step(h) \/ Fault(h)

Spec == Init /\ [][Next]_vars

\* A handler's awaits end, time passes, and the buyer goes on retrying.
FairSpec ==
    /\ Spec
    /\ WF_vars(Tick)
    /\ \A h \in Handlers : WF_vars(Step(h)) /\ WF_vars(Start(h))

-----------------------------------------------------------------------------
(* What must hold.                                                         *)

Record == [exists : BOOLEAN, pay : {"none", "settling", "settled", "failed"},
           status : {"none", "settling", "queued", "running", "failed"},
           rate : {"none", "reserved", "committed", "released"},
           lease : Nat, pend : BOOLEAN, settledAt : Nat, gen : Nat]

TypeOK ==
    /\ clock \in Nat
    /\ rec \in Record
    /\ gen \in Nat /\ slot \in {"none", "reserved", "committed"} /\ open \in BOOLEAN
    /\ live \subseteq Handlers \X Nat
    /\ landed \in (Handlers \X Nat) \cup {NoReq}
    /\ method \in Methods /\ rotated \in BOOLEAN
    /\ pc \in [Handlers -> Leased \cup Writing \cup {"idle", "observe", "lease", "reread",
                                        "commit", "release", "pendread"}]
    /\ snap \in [Handlers -> Record]
    /\ now \in [Handlers -> Nat]
    /\ mine \in [Handlers -> Nat]
    /\ req \in [Handlers -> (Handlers \X Nat) \cup {NoReq}]
    /\ tries \in [Handlers -> 0 .. PendingTries]
    /\ asked \in [Handlers -> BOOLEAN]
    /\ faults \in Nat

\* Payment is durably settled before the job enters queued: a job that is
\* queued or being worked on has been paid for on chain, its admission is
\* committed and the time of its settlement recorded.
WorkOnlyIfPaid ==
    rec.status \in {"queued", "running"} =>
        Paid /\ rec.pay = "settled" /\ rec.rate = "committed" /\ rec.settledAt > 0

\* A job whose payment is recorded as failed was never charged, and never will
\* be: no request that is still with the facilitator can land afterwards.
FailedMeansUnpaid ==
    rec.pay = "failed" =>
        ~Paid /\ \A r \in live : clock < r[2] => clock >= ValidBefore

\* The buyer gets what is paid for and pays for nothing else: the record follows
\* the money, through lost answers, late landings, deaths and takeovers.
PaymentHonoured == WorkOnlyIfPaid /\ FailedMeansUnpaid

\* The lease admits one handler at a time to the facilitator.
OneSettler ==
    \A g, h \in Handlers :
        pc[g] \in {"verify", "settle", "await"} /\ pc[h] \in {"verify", "settle", "await"}
            => g = h

\* What the admission must be for a record r, while it is inside its window.
RateMatches(r) ==
    r.exists /\ InWindow(r.gen) =>
        /\ Settling(r) => slot = "reserved"
        /\ r.pay = "settled" => slot \in {"reserved", "committed"}
        /\ r.rate = "committed" => slot = "committed"
        /\ r.rate = "released" => slot = "none" /\ r.pay = "failed"

\* The record and the limiter agree about the admission while it is inside its
\* window: a settling job holds a reservation, a paid one never loses it, a
\* finished failure has given it back.
RateAgrees == RateMatches(rec)

\* The outcome of a payment is final and work is not undone: a settled payment
\* stays settled at the same instant, a failed one stays failed, and no late
\* handler puts a job that is being worked on back in the queue.
OutcomeFinal ==
    [][/\ rec.pay = "settled" => rec'.pay = "settled" /\ rec'.settledAt = rec.settledAt
       /\ rec.pay = "failed" => rec'.pay = "failed"
       /\ rec.status = "running" => rec'.status = "running"]_vars

\* The job as its buyer sees it.
JobState ==
    CASE ~rec.exists -> "absent"
      [] rec.exists /\ Settling(rec) -> "settling"
      [] rec.exists /\ rec.pay = "settled" /\ rec.status = "settling" -> "paid"
      [] rec.exists /\ rec.pay = "failed" -> "unpaid"
      [] OTHER -> rec.status

Claims == IF rec.status = "running" THEN 1 ELSE 0

Job == INSTANCE PaidJob
         WITH state <- JobState, charged <- Paid, paidAt <- rec.settledAt,
              attempts <- Claims, worker <- Claims, report <- 0,
              MaxAttempts <- 1, Workers <- {1}, Nobody <- 0

\* The settlement does what PaidJob promises, up to the first claim: the buyer is
\* charged at most once and only while the job is open, a charge is never answered
\* with a refusal, no step is taken back or left out, and the time of the payment
\* is written once, however handlers die, overlap and come late.
ImplementsPaidJob == Job!Spec

\* Money that has moved buys work: once the payment has landed, retries of the
\* same request bring the job to the queue.
PaidGetsQueued == Paid ~> rec.status \in {"queued", "running"}

\* The docs on recovery (docs/x402-api-usage.md): every stale Permit2 reservation
\* is recovered settle-only, so no recovering handler records a payment that has
\* landed as failed without having POSTed /settle.
RecoveryAsksFacilitator ==
    [][\A h \in Handlers :
         method = "permit2-exact" /\ Paid /\ pc[h] = "fail" /\ mine[h] = 0
            /\ rec.pay = "settling" /\ rec'.pay = "failed" => asked[h]]_vars
-----------------------------------------------------------------------------
(* Why it holds: the invariants that every step preserves.                 *)

\* Handlers whose snapshot is a reservation, a settled payment whose admission
\* is not committed, a failed one whose admission is not released, or nothing.
OnReservation == {"confirm", "lease", "claim", "reread", "chain", "ask", "verify", "settle",
                  "await", "mark", "fail", "pend", "pendread"}
OnSettled == {"commit", "finalize"}
OnFailed == {"release", "unrate"}
OnNothing == {"idle", "read", "reserve", "create", "observe"}

\* The records there are.
RecordShape(r) ==
    \/ r = NoRec
    \/ /\ r.exists /\ r.gen > 0
       /\ \/ /\ Settling(r) /\ r.rate = "reserved" /\ r.settledAt = 0
          \/ /\ r.pay = "settled" /\ r.settledAt > 0
             /\ \/ r.status = "settling" /\ r.rate = "reserved"
                \/ r.status \in {"queued", "running"} /\ r.rate = "committed"
          \/ /\ r.pay = "failed" /\ r.status = "failed"
             /\ r.rate \in {"reserved", "released"}

SnapShape(h) ==
    /\ RecordShape(snap[h])
    /\ pc[h] \in OnReservation => Settling(snap[h])
    /\ pc[h] = "claim" => snap[h].lease <= now[h]
    /\ pc[h] \in OnSettled => snap[h].pay = "settled" /\ snap[h].status = "settling"
    /\ pc[h] \in OnFailed => snap[h].pay = "failed" /\ snap[h].rate = "reserved"
    /\ pc[h] \in OnNothing => snap[h] = NoRec

\* A record s that was the job's may have become r: the same job, an outcome that
\* stands, and a lease that only grows while there is none.
Precedes(s, r) ==
    s.exists =>
        /\ r.exists /\ r.gen = s.gen
        /\ s.pay \in {"settled", "failed"} => r.pay = s.pay
        /\ Settling(r) => Settling(s) /\ s.lease <= r.lease

\* The handler's view of the admission, while that is inside its window.
SlotSeen(h) ==
    /\ mine[h] <= gen
    /\ pc[h] = "create" => mine[h] > 0
    /\ pc[h] = "create" /\ ~rec.exists /\ InWindow(mine[h]) => slot = "reserved"
    /\ pc[h] = "finalize" /\ InWindow(snap[h].gen) => slot = "committed"
    /\ pc[h] = "unrate" /\ InWindow(snap[h].gen) => slot = "none"

\* The record and what the handlers know of it.  No clock is needed for this.
RecordInv ==
    /\ TypeOK /\ clock > 0
    /\ RecordShape(rec) /\ rec.gen <= gen
    /\ rec.pay = "settled" => Paid
    /\ RateAgrees
    /\ \A h \in Handlers : /\ SnapShape(h) /\ Precedes(snap[h], rec) /\ SlotSeen(h)
                           /\ pc[h] = "mark" => Paid

\* The handlers that settle under a lease of their own, and those that have their
\* outcome and are about to write it.
Owner(h) == \/ pc[h] \in {"chain", "ask", "verify", "settle", "await"}
            \/ pc[h] = "confirm" /\ mine[h] > 0
Deciding(h) == Owner(h) \/ pc[h] \in {"mark", "fail"}

\* An owner is within its lease, and the record has that lease; no two
\* handlers ever decide under the same one.
LeaseSeen(h) ==
    /\ now[h] <= clock
    /\ pc[h] \in Leased => clock <= now[h] + Stall
    /\ pc[h] \in {"idle", "read", "reserve", "lease", "claim"} => mine[h] = 0
    /\ Owner(h) => /\ Settling(rec) /\ rec.lease = snap[h].lease
                   /\ snap[h].lease = now[h] + Lease

LeaseInv ==
    /\ \A h \in Handlers : LeaseSeen(h)
    /\ \A g, h \in Handlers :
         g # h /\ Deciding(g) /\ Deciding(h) => snap[g].lease # snap[h].lease

\* No request with the facilitator can land any more.
Quiet == \A r \in live : r[2] <= clock
NeverLands == ~Paid /\ (Quiet \/ clock >= ValidBefore)

\* What an owner, or a handler about to record a failure, may conclude about the
\* money: a request that can land is its own.
MoneySeen(h) ==
    /\ pc[h] = "verify" => VerifiesFirst(h)
    /\ Owner(h) /\ pc[h] # "await" => Quiet
    /\ Owner(h) /\ pc[h] \notin {"chain", "await"} /\ VerifiesFirst(h) => ~Paid
    /\ pc[h] = "await" => /\ \A r \in live : r[2] <= clock \/ r = req[h]
                          /\ method = "eip3009" => ~Paid \/ landed = req[h]
    /\ pc[h] = "fail" /\ Settling(rec) /\ rec.lease = snap[h].lease => NeverLands

MoneyInv ==
    /\ rotated => method \in Rotating
    /\ ~rec.exists => ~Paid /\ live = {}
    /\ Settling(rec) => \A r \in live : r[2] <= rec.lease
    /\ rec.pay = "failed" => NeverLands
    /\ \A h \in Handlers : MoneySeen(h)

\* The conditions under which a lease protects a payment: a settler is done, and
\* its request decided, before its lease ends, and the requirement of a Permit2
\* proof, whose recovery does not ask the chain, stays supported.
SettlesInTime == Stall < Lease
LandsInTime == SettlesInTime /\ Stall + Land <= Lease /\ "permit2-exact" \notin Rotating
=============================================================================
