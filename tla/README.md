# Verification of the stock-analyst agent

TLA+ models of the agent: the paid-job service, the ERC-8183 seller, the way
into it and the deliveries out of it, checked with TLC on small
instances and proved with TLAPS where a statement holds for every instance.
`PROJECT.json` maps every definition to the lines it models and lists runs,
faulty variants, hazards, findings and theorems.

## 1. The system

A buyer (`buyer-client/`, TypeScript) buys a stock report from a seller agent
(`stockanalyst/app/agent/`, Python) either through an ERC-8183 escrow job or by
an x402 payment; an HTTP gateway (`gateway/x402_lambda/`) forwards x402 requests
to the agent's runtime. The runtime runs as several replicas that share nothing
but S3 objects, the facilitator (B402) and the chain.

| Component | State it keeps | Operations | Hard because |
|---|---|---|---|
| wallet rate limiter (`x402_wallet_rate_limit.py`) | one S3 object per wallet: reservations with id, time, state | reserve, commit, release, confirm | read-edit-PUT races, lost answers, a window that moves while a call runs |
| object store adapter (`x402_job_store.py`) | S3 objects and their ETags | create (If-None-Match), replace (If-Match), read, markers, reports | 409 retried once, 412, ambiguous errors, PUTs that outlive their caller |
| job service, settlement (`x402_job_service.py`) | job record: payment status, lease, pending reference, admission state | create_job, recovery of a stale reservation, commit or release of the admission | money moves outside: time-outs, pending transactions, retries on other replicas, death between two writes |
| job service, execution | job record: status, attempt, lease owner, report id; one task and one heartbeat per replica | get_job, resume_job, claim, heartbeat, fence, finish | takeovers, cancelled writes, stale workers, exhausted attempts |
| job service, accounting (and `competition_reporting.py`) | accounting marker; one task per replica | redrive, report, mark | at-least-once delivery, crash between report and marker |
| B402 client (`b402_client.py`) | cache of the supported kinds | verify, settle, supported | unknown outcomes, a cache that changes under a persisted proof |
| x402 HTTP handler (`x402_handler.py`, `x402_envelope.py`) | none | routes, headers, error mapping | order of the checks |
| proof verification (`x402_verify.py`, `x402_permit2.py`, `x402_tokens.py`) | none; the identity of a payment keys the job records | validate_payment_proof, derive_identity | unsigned parts that contradict the signed message, several spellings of one number, expiry |
| seller core (`seller_core.py`, `executor.py`, `signing.py`) | in-flight sets, verified hand-offs, late submits, handled jobs, semaphores | notify_funded, sweep, submit | callbacks and a sweeper racing over the same job |
| notification security (`notify_security.py`) | none | preflight and verify a funding notification, validate a gateway | names that change their addresses, slow resolvers |
| usage reporting (`usage_reporting.py`) | bounded set of delivery tasks | submit, deliver | events dropped at the limit |
| entry point (`main.py`, `executor.py`) | a runner task and a queue per model call | stream a report, dispatch a request | a runner that outlives its reader |
| report pipeline (`analysis.py`, `report_*.py`, `prompt_builder.py`, `managed_model.py`, `tools.py`, `data_sources.py`) | none | build, validate and render a report | model calls that break off, hang or answer with refusals |
| deliverable storage (`uomp_storage.py`, `s3_storage.py`, `signing.py`) | a factory global to the process, one lock | submit, upload over pinned addresses | threads that share the factory, deadlines, sockets with two owners |
| gateway (`gateway/x402_lambda/src`) | OAuth token and secret per warm container | forward a request | expiry of a cached token, a timeout while the agent goes on |
| buyer, paid jobs (`x402-async*.ts`, `x402-p*.ts`) | receipts and pending proofs on disk | pay, poll, resume, finalise | a crash between payment and receipt |
| buyer, ERC-8183 (`gateway.ts`, `negotiate.ts`, `erc8183.ts`, `deliverable.ts`, ...) | job on chain | negotiate, fund, notify, wait | chain and agent disagree for a while |

How they interact: the HTTP handler calls `create_job`, `get_job` and
`resume_job`. `create_job` reserves an admission (limiter), writes the record
(store), settles (facilitator, chain), commits the admission and queues the job;
`get_job`, `resume_job` and `create_job` spawn the execution task; the same
handlers and the execution task redrive the accounting. All of it meets in one
record per job, changed only by conditional writes. The gateway's Lambda calls
the same routes through the A2A executor and its envelope. The seller core gets
notifications from the executor, reads the chain, runs the report pipeline and
submits through `signing.py`, which uploads the deliverable.

What makes each of the modelled parts correct:

- limiter: a grant is never lost or given twice, a commit that returned is
  durable, the window holds at most its capacity, Retry-After is long enough,
  calls return;
- settlement: no work without payment, no charge for a job recorded as failed,
  one settler at a time, record and limiter agree, outcomes are final, a landed
  payment gets its job queued;
- execution: a superseded attempt cannot write, success names a stored report,
  attempts are counted and bounded, a queued job can run and gets picked up, a
  dead worker's job is taken over;
- accounting: the marker means delivered, and every settled job is delivered;
- seller: one delivery at a time per job, with the context it was authorised
  with; nothing is done again once submitted; an accepted notification is
  served, and a funded job delivered while its buyer asks;
- upload: every deliverable goes to its own storage, over validated addresses,
  within one deadline; sockets and the lock are given back;
- proofs: a job rests on what its payer signed, payments and jobs correspond one
  to one, and a payer can always come back;
- gateway: a refusal means no charge, tokens are used within their life, an
  answer comes;
- report stream: only whole, permitted and (on the escrow path) validated text
  is delivered, no runner outlives its reader, an analysis ends.

## 2. Modules

| Module | Models |
|---|---|
| `RateLimit` | abstract limiter: one atomic operation at a time on a set of admissions |
| `WalletRateLimiter` | the limiter as written; implements `RateLimit` |
| `PaidJob` | abstract paid job: its life as the buyer sees it, without handlers, leases, retries or crashes |
| `X402Settlement` | one job from its first POST to queued or failed; implements `PaidJob` up to the first claim; uses the limiter as `RateLimit` describes it, seen from one job |
| `X402Execution` | one job from queued to its outcome; implements `PaidJob` from the queue on |
| `X402Accounting` | competition accounting of one job |
| `SellerCore` | notifications, sweep and deliveries of the ERC-8183 seller, with the chain |
| `GatewayUpload` | concurrent submissions, the storage factory and the upload to a buyer's gateway |
| `PaymentProof` | verification of payment headers and the identity of payments |
| `X402Gateway` | a request from the buyer through the Lambda to the job service and back |
| `ReportStream` | from the text of the model to a report, on both paths |
| `WalletRateLimiterProofs`, `X402SettlementProofs`, `X402ExecutionProofs`, `X402GatewayProofs`, `SellerCoreProofs`, `GatewayUploadProofs`, `PaymentProofProofs`, `ReportStreamProofs` | theorems about the module of that name; `X402SettlementProofs` also about `X402Accounting`, and about settlement, execution and accounting together |
| `MC*` | instances for TLC |

Definitions called "faulty variant" in a comment are not part of a
specification: each is a plausible bug of the definition below it, and
`PROJECT.json` records which property finds it.

### WalletRateLimiter

`stored` is the S3 object of one wallet. Each element of `Callers` is one call
in progress: `pc` says where (`loop` before the clock reading, `read` and `write`
before the GET and the conditional PUT, `check` before `_read_commit_state`),
`now` and `snap` are the locals the code decides with. The entry list is a set,
since the code depends on its order nowhere, and an ETag is the content it
stands for. `WriteConflict` and `WriteError` may or may not have applied the
PUT; `Abandon` is cancellation or death, with a PUT in a thread of its own that
may be applied. `handed`, `releases`, `commits` and `committed` are history.
`StartCommit` and `StartRelease` exclude each other per reservation, as the job
service's payment status does (`RateAgrees` checks that side).

### PaidJob

What the job service promises, in nine steps on the variables a buyer could see:
`Open`, `Charge`, `Accept`, `TurnAway`, `Queue` for the payment, `Claim`, `Requeue`, `Fail`, `Succeed` for
the work. `Charge` is possible once and only while the job is open, `TurnAway` only
before it; a claim costs an attempt and changes the worker; the report of a success
is that of the worker who had the job; nothing leads out of `unpaid`, `over` and
`succeeded`. `X402Settlement` maps its record, `Paid` and `settledAt` to it (`JobState`), with
`Execute` as the one claim; `X402Execution` maps status, attempt, owner, `retryable` and
report, for a job that is paid.

### X402Settlement

Each handler is one `create_job` call with the same proof. A handler at a
conditional write (`Writing`) either applies it (`PutOk`), meets another record
(`PutConflict`), is told of a conflict that is none (`PutFalseConflict`: 409 twice, or
a repeated request of the S3 client), or dies with the write applied or not
(`Die`, which also stands for every error that makes the call raise). The record
keeps the fields the code decides with. The limiter is the atomic one:
`gen` numbers the reservations of this job id, `slot` is the entry of the latest,
`open` whether it is inside its window. The facilitator and the chain are
`landed`, `live` (requests that may still land, with a deadline) and
`LandSettlement`; `Paid` says that money has moved. `Rotate` is a change of the
supported kinds. `Execute` stands for the worker's claim, so that late handlers
can meet a running job.

### X402Execution

The record, the report objects, and per replica a task (`pc`, `own`, `drive`,
`out`), its heartbeat (`beat`, `lost`), a poll that has seen the job queued
(`saw`) and a resume (`rpc`). Conditional writes are modelled by who holds the
current ETag (`hold`, `rhold`): reading joins, an applied write empties the sets
but for its author. Time is one bit, `stale`. `CutOff` is what a cancelled or dead
task may leave behind: the write it was waiting for is applied at that moment or
never.

### X402Accounting

`due` abstracts the settled record; `saw` is a handler between its look for the
marker and `_spawn_accounting`; the task reads, posts (`posts` counts the POSTs of
one `CompetitionReporter.report`) and marks. Back-off delays are left out. The module
shares no names with `X402Settlement`, so that `X402SettlementProofs` can extend both.

### SellerCore

The `SellerCore` object is one record, `core`, so that code between two awaits is a
composition of functions on it (`SpawnJobs`, `Forget`, `StartWork`, `CleanUp`,
`Release`). Handlers in `notify_funded` (`note`) pause at the chain read, the signature
check and the accounting call; permits of the two semaphores are `free`, threads
that outlive a timed-out handler `detached`. A delivery (`core.runs`) has two
places per job, so that a second task is a state the model can reach and
`CoreConsistent` can exclude. `_prune_tracked_state` is `Evictions`, applied inside the
actions that call it. Of the deadlines only their order matters: `deadlines` holds
the pairs of jobs of which the first is not due after the second, and they pass in
that order (`GracePasses`). `TimeOut` is the
1800 s limit of a delivery, which leaves a submission in its thread to end by itself
(`Exits` with `cut`). A late success is in `late` when the task ends:
`wait_for` raises only after the coroutine it cancelled has ended.

### GatewayUpload

One submission per thread: lock, replacement of the factory, validation of the
gateway's addresses, connection attempts, request, bounded reading, transaction,
`finally`. `_DeadlineSocket` is `raw`, `closed` and `refs` with the functions of the
class. The response of a refused upload belongs to urllib's `HTTPError`, which the
code does not close: its socket stays open over `finally` and the release of the
lock, until the exception is let go (`Collect`, external and under no fairness;
`Remains` is what a submission leaves behind). A thread submits again once that has
happened, so each leaves at most one. Time is what an operation takes, up to what
is left; `dns` may change at any moment. `MakeProvider` is the check of a production
process. `submit_workflow` is external and taken to return: if it hung, it
would hold `submit_lock` for ever (`signing.py:434` sets no limit).

### PaymentProof

A header is a record of the fields the verification reads, and the message and
signer its signature was made for; a digest is an injective function of the
fields the code hashes. `Validate` keeps the order of the checks, since the
second validation with `allow_expired` depends on which of them failed first.

### X402Gateway

`gw` is a warm container with its request, secret and token; `run` a session at the
agent, which goes on after its container has given up (`GiveUp`). Of the job
service it keeps what decides an answer: the record of a payment (`job`), the session
that may settle it, and the money (`charge`). A payment is rejected upon the
facilitator's refusal (`Settled`) or without asking it (`RejectUnasked`): an EIP-3009
authorization that has run out, a requirement that is no longer supported, or a
negative `/verify`. When that may happen is `Rejectable`; the Permit2 payments whose
requirement the facilitator withdraws after it has begun to settle them are the
constant `RotatedLate`. `Expire` makes an unused authorization void. A record that has
failed is answered 202 with the status `failed` (`Resume`), which is as final to the
buyer as a 4xx. `Conclusion` is what the buyer's client does with an answer: repeat
after 5xx, give the proof up after 429, otherwise take it as final.

### ReportStream

The runner and the consumer of `_stream_runner` with their queue and the tear-down
in `finally`; the inner calls and the time limit of `_consume_report`; and
`generate_validated_report` for deliveries. `said` is what the runner has emitted, so
that what is delivered can be compared with it; the queue holds places in `said` and
the two marks that end it (`Done`, `Exc`). `LastResort` delivers `SAFE_FAILURE_REPORT`, which
holds nothing the model said.

## 3. Runs

A property that joins several (`AdmissionsKept`, `LeaseFenced`, `CoreConsistent`, ...) is a
conjunction of named parts in its module.

| Run | Instance | Shows |
|---|---|---|
| `limiter` | 2 callers, 2 ids, capacity 1, window 3, 2 ticks a second, 2 attempts, clock to 6, 2 grants handed out or asked for | `AdmissionsKept`, `RollingAdmissions`, `RetryAfterFrees`, `ImplementsRateLimit` |
| `settle` | both transfer methods, 2 handlers, lease 2, stall 1, landing 1, validity to 4, 2 reservations, 2 faults, clock to 7 | `PaymentHonoured`, `OneSettler`, `RateAgrees`, `ImplementsPaidJob` |
| `settle_live` | both methods, 2 handlers, validity to 3, 1 reservation, 1 fault, clock to 10, fairness | `PaidGetsQueued` |
| `permit2_rotation` | Permit2 with a change of the supported kinds | violates `RecoveryAsksFacilitator` (finding) |
| `exec` | 2 replicas, 3 tokens, 2 attempts, 2 turns of the claim loop, 1 fault, fairness | `LeaseFenced`, `RecordSound`, `ImplementsPaidWork`, `JobMovesOn` |
| `accounting` | 2 replicas, 2 attempts, 2 POSTs, 4 faults, fairness | `MarkerMeansDelivered`, `EventuallyReported` |
| `seller` | 2 jobs, one demanding a context, 1 handler, 2 contexts, 1 tracked job at most, 1 permit, 1 fault | `CoreConsistent`, `ContextStable`, `DoneIsDone`, `ThreadsBounded` |
| `seller_live` | 1 job, 2 handlers, restarts, 1 fault, fairness and a buyer that keeps notifying | `VerifiedHasContext`, `AcceptedGetsWorked`, `FundedGetsDelivered` |
| `upload` | 3 threads, 2 gateways and the default storage, 2 public addresses and a private one, timeout 2, 2 bytes, fairness | `StorageIsolated`, `PeerValidated`, `SocketsHeld`, `OneDeadline`, `LockReturned` |
| `proof` | 3 tokens of both methods, honest headers with all windows, payers, nonces and spellings, and each alteration of one field, signed anew or not; 2 requests, 2 jobs, clock to 4 | `JobsAuthorized`, `IdentitySound`, `JobsRecoverable` |
| `gateway` | 1 container, 2 sessions, 1 sound payment and another request that fails at each stage or not at all, no payment in `RotatedLate`, lifetimes below and above the margin, 2 faults, fairness | `TokensSound`, `RefusedMeansUncharged`, `AnswerComes` |
| `stream` | both paths, 3 calls, 3 events a call, fairness | `ReportSound`, `RunnerStopped`, `AnalysisEnds` |

The type invariants are checked in every module, in five of them as a part of
the first property.

Why the bounds are enough. Two actors are what a race on one object takes; a
third meets an object that is as changed as the second left it. Windows,
leases and validity are a few ticks long and the clock reaches their ends, so
that every order of expiry, write and answer occurs. In `limiter` the clock goes to
twice the window: entries leave it and are pruned, new admissions follow, and a
call may read the clock before and the record after an entry's end. With two
turns of the claim loop in `exec` the second finds the claim of the first in the
record when only its answer was lost. Capacity 1 makes every
admission the last one, and one tracked job every second job an eviction. Two
attempts reach "not the last", "the last" and "exhausted". Two faults give a crash
during the recovery from an earlier one; where a run allows one (`exec`, `seller`,
`seller_live`), its safety properties are proved for any number of faults. Only
the liveness properties rest on the bounds alone: every safety property and both
refinements of the paid job are theorems too. The two seller runs divide the work:
eviction and two contexts in one, two handlers and restarts in the other.
`seller_live` has room for its job and never evicts, so it says nothing of eviction. In `settle`,
`accounting` and `stream` deadlock is allowed, because a job, its
accounting or an analysis that has ended leaves nothing to do; in the others it is
checked. Symmetry is used only where no liveness is checked, on elements no
formula tells apart.

Fairness. A started call, handler or task keeps going (weak fairness of its
steps): its awaits end, by an answer or by a timeout (20 s for HTTP, 60 s for a
settlement, 15 min for a paid analysis, 30 min for a delivery). Time passes. The
buyer goes on polling, retrying, resuming and notifying, which its clients do;
without it nothing in the runtime wakes a job up. In `seller_live` that is strong
fairness of each notification, since a handler may be busy with another. In `gateway`
a repeated request finds a free container and session in the end (strong
fairness: the platform adds them), and containers whose secret is out of date are
replaced: the platform does that, the code does not. Failures are bounded by
`MaxFaults`, not by fairness.

Timing assumptions of the settlement runs: `LandsInTime`, of which the core is
`Stall + Land <= Lease`, that is, from
the clock reading that starts a lease to the last moment at which the settle
request of that handler can land no more than the lease goes by (60 s + landing
against 120 s). `PaymentHonoured` needs it: a process that is
suspended for longer than its lease can record a paid job as failed. `OneSettler`
needs `Stall < Lease` (`SettlesInTime`). `ImplementsPaidJob` needs what `PaymentHonoured` needs.
`RateAgrees`, `OutcomeFinal` (an outcome that is written stays) and the half of
`PaymentHonoured` that forbids unpaid work need no timing, as the theorems show. The
liveness run also assumes that the outcome is written within the lease (`Hold`);
otherwise two handlers could take turns for ever. In `settle` and `settle_live` the
supported kinds change for EIP-3009 only; Permit2 is the next section's first point.

## 4. Findings and deviations

`permit2_rotation` is a finding: the recovery of a Permit2 job whose requirement
is no longer among the supported kinds is rejected locally
(`b402_client.py:269-272`) and recorded as failed, even when the payment had
landed; `docs/x402-api-usage.md:100` says that every stale reservation is
recovered by settling again.

Met while modelling, and left to the properties' preconditions rather than to runs
of their own:

- An empty response at the third attempt leaves the job failed with
  `retryable: true` (`x402_job_service.py:1731-1746`), which `resume_job` refuses
  (`:274`); `docs/x402-api-usage.md:115` says it can be resumed.
- `notify_funded` installs a context (`seller_core.py:434`), awaits the accounting
  call (`:443`) and only then marks the job in flight (`:444`). With more than
  `_MAX_TRACKED_JOBS` tracked, another notification may evict the context during
  that await, and the accepted job starts without it: with two jobs and the limit
  at one, `VerifiedHasContext` does not hold. It is checked and proved where the
  tracked state has room for every job (`Roomy`).
- A first create request that the gateway gave up may be admitted and settled
  after a repetition was answered 429, upon which the client drops the proof
  (`x402-async.ts:1206-1224`) and signs another one later.
- A secret that is replaced stays cached in warm containers (`oauth_client.py:50`).
- `upload` and `_open_response` (`uomp_storage.py:433`, `:480-495`) let the `HTTPError` of a
  refused upload pass and do not close it, so its socket outlives the request
  until the exception is freed; `tests/test_uomp_storage.py:614-618` closes it by hand.
  `SocketsHeld` therefore does not say that no socket outlives its request, but that
  this one case does and that the socket closes with the exception.
- A payment may be refused without a settle request (`b402_client.py:271`,
  `x402_job_service.py:839-842`). For Permit2 that refusal can be wrong, which is the
  finding above; `RefusedMeansUncharged` leaves such payments out (`RotatedLate`).

## 5. Proofs

All for every value of the constants that satisfies the module's assumption.

- `WalletRateLimiterProofs`: `TypeCorrect`; `AdmissionSound` (`AdmissionsKept`, that is `GrantBacked`,
  `OneCreator` and `CommitDurable`); `LimiterRefines` (`ImplementsRateLimit`); `CapacityKept`
  (`RollingAdmissions`); `RefusalsTruthful` (`RetryAfterFrees`). The three
  parts of `AdmissionsKept` are not inductive by themselves: `LimiterInv` adds `Discipline`,
  that clock readings are never ahead and that commits and releases in progress
  agree with the history. The core lemmas are `PutKeeps` and `PutKeepsCommitted`:
  a conditional PUT computed from an unchanged snapshot keeps every entry inside
  its window that it does not release, with its commitment. The refinement needs
  `Timely`, `RoomSeen` and `UniqueIds` besides. The last two rest on `CapacityInv`: the
  record never holds more than `Capacity` entries (`PutWithinCapacity`), every grant near
  enough in time is still inside the window of the PUT that adds the next, and such
  grants have different ids, so that they map one to one into the record
  (`GrantsCounted`); for a refusal, rounding up covers the oldest entry's remaining time
  (`RetryAfterCovers`), and the record without it is below its capacity.
- `X402SettlementProofs`: `WorkIsPaid`, `RateSound` (`TypeOK`, `RateAgrees`) and `OutcomesFinal`
  (`OutcomeFinal`) with no assumption on time; `LeaseAdmitsOne` (`OneSettler`) from `SettlesInTime`;
  `PaymentsHonoured` (`PaymentHonoured`) from `LandsInTime`. `RecordInv` is what the conditional
  writes give: the shapes a record can have, what the snapshot at each place in
  `create_job` says (`SnapShape`), that every snapshot is an earlier version of the record
  (`Precedes`), and what a handler knows of its admission (`SlotSeen`). `LeaseInv` adds that an
  owner is within its lease and the record still has that lease, so that two owners
  would own the same one. `MoneyInv` adds that while a lease is owned every request that
  can still land is its owner's; hence one about to write "failed" knows that nothing
  lands any more (`NeverLands`). `LandsInTime` also says that Permit2 requirements stay
  supported: without that the statement is false, and `permit2_rotation` is the
  counterexample.
  `SettlementImplementsJob` (`ImplementsPaidJob`), from the same assumption, goes through the
  actions: a landing is `Charge`, allowed since only an open job has a request that can
  land; each applied write is the step of `PaidJob` its author's snapshot stands for;
  all else changes nothing a buyer sees.
- Accounting, at the end of `X402SettlementProofs`: `AccountingSound` (`AccountingTypeOK`,
  `MarkerMeansDelivered`), with `TasksInformed`: a task past its read knows that the event is
  due, one past its report that it was accepted. `ComposedSpec` then runs the tasks of
  `X402Accounting` over the record of `X402Settlement`, with `due` computed from it as
  `_accounting_is_pending` does. `ComposedImplementsBoth` shows that this implements either
  specification, the point being that a record that is due never ceases to be so
  (`DueStays`: no late handler's write applies to it), and `ReportedMeansPaid` that what is
  reported or marked has been paid.
- The job as a whole, also in `X402SettlementProofs`: `JobSpec` adds the work. The steps of
  `X402Execution` are possible once the settlement has queued the job, the first claim
  is `X402Settlement`'s `Execute` at the same time, and the replicas are those that account
  for the job. `JobImplementsParts` shows that this implements all three specifications,
  and `JobImplementsPaidJob` that it implements `PaidJob` from opening to report (`Whole`), from
  `LandsInTime`. The argument: a queued job rests as far as the settlement is concerned
  (`QueuedRests`), and the workers know nothing of a job before it is queued (`Linked`), so that
  every step is one of the payment or one of the work, as the two refinements have it.
  The two compositions have proofs and no run of their own: their state space is the
  product of those of their parts. `ExecutionConstants` repeats what `X402Execution` assumes of its constants, since an
  assumption does not carry over an instance.
- `X402ExecutionProofs`: `ExecutionTypeCorrect`, `LeaseFences` (`LeaseFenced`: `HolderOwns` and `OneWriter`),
  `OutcomesSound` (`RecordSound`: `SucceededHasReport` and `QueuedRunnable`), `ExecutionImplementsWork`
  (`ImplementsPaidWork`). `ExecutionInv` adds `ReadersCurrent` (who holds the ETag for a claim or
  a resume read a record that is open, not its own, and for a resume not queued) and
  `Tokens` (lease tokens are unique, and a task that is about to succeed has stored its
  report). `TaskWriteSound` and `ResumeWriteSound` say of every write that can be applied
  which step of `PaidJob` it is (`Follows`); the refinement and the other theorems share them.
- `X402GatewayProofs`: `TokensNeverStale` (`TokensSound`) and `RefusalIsFinal` (`RefusedMeansUncharged`).
  For tokens, `TokenAges`: while a cached token is not due for refresh it outlives the
  way to the agent, one on its way has aged no more than its request was waited for.
  It rests on the assumption that the margin (30 s) covers the token request and the
  way, and that no lifetime is shorter than these (`oauth_client.py:94-97` takes any
  that is positive). For refusals `CallersMatch` (a
  container waits for one session, of its own request), `RecordsMatch` (what the record
  says of a payment follows what has become of its money) and `RefusalsFinal`: an answer
  that refuses for good is about a payment that can never be charged (`NeverCharged`):
  flawed in itself, run out unused, or rejected with nothing under way. Two facts of
  `X402Settlement` are taken over as guards: one session at a time settles a payment
  (`OneSettler`, in `Resume`), and when a later one rejects without asking, no earlier
  settle request can land (`LandsInTime`, in `Rejectable`). Payments in `RotatedLate` are
  excluded; for them the statement is false. The theorem also needs that the buyer repeats a payment with the same bytes,
  which its client does (it keeps the pending proof): `GatewayAssumption` says that what
  is found wrong in one request is found in each repetition of it.
- `SellerCoreProofs`: `BookkeepingHolds` (`CoreConsistent`), `ContextsStay` (`ContextStable`), `DoneStaysDone`
  (`DoneIsDone`), `PermitsKept` (`ThreadsBounded`), and `AcceptedKeepsContext` (`VerifiedHasContext`) from
  `Roomy`. Since code between two awaits is a function on the object, most lemmas say
  that such a function keeps `CoreInv`: one delivery per job (`OneRun`), work in progress is
  marked, and marked as contextless where it began without a context (`WorkMarked`,
  which is why no later notification installs one under it), and a submission that
  succeeded is known (`SuccessKnown`). `NoteInv` counts the threads that hold a permit. Under
  `Roomy` nothing is evicted, and an accepted handler's context is still there when its
  delivery starts (`AcceptedInv`).
- `GatewayUploadProofs`: `SubmissionsIsolated` (`StorageIsolated`), `PeersPinned` (`PeerValidated`),
  `SocketsReleased` (`SocketsHeld`), `DeadlineKept` (`OneDeadline`). `UploadInv`: only the holder of the lock
  has replaced the factory and will restore it (`LockInv`), both owners of a socket are
  counted, and only a refused response has one after its request (`SocketSeen`), and the addresses, the peer and the time of a request in progress
  fit together (`RequestOK`).
- `PaymentProofProofs`: `JobsArePaidFor` (`JobsAuthorized`), `IdentityHolds` (`IdentitySound`),
  `JobsStayRecoverable` (`JobsRecoverable`). `JobsInv` says of every job that the header which
  opened it passed all checks at a time that is past, and that its key is the identity
  of that header (`JobOK`); the lemmas show what `Validate` implies of a header, that the
  identity determines the signed payment (`MessageIsPayment`), and that a proof once
  accepted is accepted again for its job, expired or not (`StaysAccepted`).
- `ReportStreamProofs`: `ReportsSound` (`ReportSound`), `RunnersStop` (`RunnerStopped`). `StreamInv`: the queue
  holds the places in `said` that were not read yet, in order, and then the marks that
  end it (`QueueInv`); what a reader has collected is the text up to where it is, with no
  refusal in it (`Collected`); a delivery on the escrow path has a conforming text or no
  text at all (`ValidatedOnly`); and while a call is read its runner was not cancelled
  (`Reading`).

Only model-checked: all liveness (`PaidGetsQueued`, `JobMovesOn`, `EventuallyReported`,
`AcceptedGetsWorked`, `FundedGetsDelivered`, `LockReturned`, `AnswerComes`, `AnalysisEnds`), which is out
of the prover's reach: it rests on fairness and `ENABLED`. Every invariant and action
property that a passing run checks is also a theorem.

## 6. Not modelled, and abstractions to know of

- Job expiry after seven days, authorisation by job token, and jobs written by
  earlier versions without a rate reservation.
- A write whose author is cut off is applied at the cut or never; it does not
  land at a later moment. Conditional writes bound what a later landing could
  do: it applies only while nobody else has written.
- The replicas and the chain share one clock.
- The generic facilitator (`_settle_generic`) is a subset of the B402 outcomes:
  it never answers pending.
- A running job whose worker dies during its last attempt stays running:
  `JobMovesOn` does not cover it, since the code offers no way on.
- Reports and model calls are inputs (`Outcomes` in `X402Execution`, the runner's
  events in `ReportStream`); prompts, market data, model settings and rendering are
  text without state. The 1800 s limit of a delivery is `SellerCore`'s `TimeOut`, not a
  step of `ReportStream`, and `AnalysisEnds` is about paid analyses.
- Usage reporting: best-effort telemetry whose state nothing else reads.
- The fields, expiry and signer of a funding notification: `SellerCore` takes a check
  as passed or failed.
- The buyer's clients, but for `Conclusion`: sequential programs whose steps are the
  inputs of the modules here. Their files on disk are the part worth modelling.
- The development mode of the gateway check (`ALLOW_PRIVATE_DELIVERY_GATEWAY`,
  `notify_security.py:139-162`), which lets http and loopback addresses pass:
  `PeerValidated` is about production.
- The S3 storage provider, the agent card, PDF output, and start-up.
- Cryptography: a signature is a record of signer and message.

## 7. Plan

1. The buyer's pending proofs and receipts across crashes, with `X402Settlement`.
2. Let cut-off writes land late in `X402Execution` and `X402Settlement`.
3. Join `X402Gateway` to the composed job: it keeps a smaller picture of the job service,
   which is not yet shown to be implied by `X402Settlement`.
