----------------------------- MODULE SellerCore -----------------------------
(***************************************************************************)
(* The ERC-8183 seller of seller_core.py: buyers notify it of jobs they    *)
(* have funded on the chain, and it delivers them in background tasks.     *)
(* Notification handlers, one sweep and the deliveries are coroutines of   *)
(* one event loop that interleave at every await; chain reads, signature   *)
(* checks and submissions run on threads that a cancelled coroutine cannot *)
(* stop.  All state of the seller is in memory and lost at a restart; the  *)
(* chain is the only truth that stays.                                     *)
(*                                                                         *)
(* The fields of the SellerCore object are the record core, so that code   *)
(* without an await between is a composition of functions on it.           *)
(***************************************************************************)
EXTENDS Integers, FiniteSets

CONSTANTS Jobs,        \* job ids on the chain
          Handlers,    \* requests that may be in notify_funded at once
          Contexts,    \* signed notification contexts, by digest
          None,        \* no context
          Deals,       \* jobs that carry a quote this agent has signed
          Demanding,   \* jobs whose terms require a notification context
          MaxTracked,  \* _MAX_TRACKED_JOBS
          Slots,       \* _MAX_CHAIN_READ_WORKERS, _MAX_NOTIFY_VALIDATION_WORKERS
          MayRestart,  \* whether the process may die
          MaxFaults    \* bound on failures, timeouts, expiries and restarts

ASSUME SellerAssumption ==
    /\ None \notin Contexts
    /\ Deals \subseteq Jobs /\ Demanding \subseteq Jobs
    /\ MaxTracked \in Nat
    /\ Slots \in Nat \ {0}
    /\ MayRestart \in BOOLEAN
    /\ MaxFaults \in Nat

VARIABLES
    chain,     \* status of each job in the ERC-8183 contract
    core,      \* the SellerCore object and its background tasks
    note,      \* the notification each handler is working on
    free,      \* permits left in the two semaphores
    detached,  \* threads that run on after their handler was timed out
    faults     \* failures, timeouts, expiries and restarts left

vars == <<chain, core, note, free, detached, faults>>

Kinds == {"read", "check"}      \* _chain_read_slots, _notify_validation_slots

\* A delivery task: _run_job with all it awaits.  Two places per job, so that
\* a second task for the same job is a state of the model.
Places == 1..2
NoRun == [pc |-> "idle", verified |-> FALSE, ctx |-> None, cut |-> FALSE, terminal |-> FALSE]
NewRun(verified) == [NoRun EXCEPT !.pc = "spawned", !.verified = verified]

FreshCore ==
    [context |-> [j \in Jobs |-> None],  \* _job_contexts
     specs |-> {},                       \* keys of _job_specs
     deadlines |-> {},                   \* _context_deadlines: <<a, b>> when a's is not after b's
     passed |-> {},                      \* jobs whose deadline is over
     signalled |-> {},                   \* jobs whose _context_events entry is set
     handled |-> {},                     \* _handled
     late |-> {},                        \* _late_submit_successes
     contextless |-> {},                 \* _contextless_started
     inflight |-> {},                    \* _inflight
     unverified |-> {},                  \* jobs with _inflight_verified False
     pending |-> {},                     \* _pending_verified_handoffs
     sweep |-> "idle",                   \* _sweep_active and the scan's progress
     found |-> {},                       \* what the scan has found
     delivered |-> {},                   \* history: submissions known to have succeeded
     runs |-> [j \in Jobs |-> [i \in Places |-> NoRun]]]

NoNote == [pc |-> "idle", job |-> None, ctx |-> None]

Init ==
    /\ chain = [j \in Jobs |-> "open"]
    /\ core = FreshCore
    /\ note = [h \in Handlers |-> NoNote]
    /\ free = [k \in Kinds |-> Slots]
    /\ detached = [k \in Kinds |-> 0]
    /\ faults = MaxFaults

Fault == faults > 0 /\ faults' = faults - 1

-----------------------------------------------------------------------------
(* Synchronous parts of the object.                                        *)

Live(s, j) == {i \in Places : s.runs[j][i].pc # "idle"}
FreePlace(s, j) == IF s.runs[j][1].pc = "idle" THEN 1 ELSE 2

\* Faulty variant: the task marks itself in flight only when it starts.
SpawnJobsUnmarked(s, jobs, verified) ==
    LET new == jobs \ (s.handled \cup s.late \cup s.inflight)
    IN  [s EXCEPT !.runs = [j \in Jobs |-> IF j \in new
                                           THEN [@[j] EXCEPT ![FreePlace(s, j)] = NewRun(verified)]
                                           ELSE @[j]]]

\* Faulty variant: a verified call for a job in flight leaves nothing behind.
SpawnJobsWithoutHandoff(s, jobs, verified) ==
    LET new == jobs \ (s.handled \cup s.late \cup s.inflight)
    IN  [s EXCEPT !.inflight = @ \cup new,
                  !.unverified = IF verified THEN @ \ new ELSE @ \cup new,
                  !.runs = [j \in Jobs |-> IF j \in new
                                           THEN [@[j] EXCEPT ![FreePlace(s, j)] = NewRun(verified)]
                                           ELSE @[j]]]

\* _spawn_job for every job of a set.
SpawnJobs(s, jobs, verified) ==
    LET open == jobs \ (s.handled \cup s.late)
        new == open \ s.inflight
    IN  [s EXCEPT !.inflight = @ \cup new,
                  !.unverified = IF verified THEN @ \ new ELSE @ \cup new,
                  !.pending = IF verified THEN @ \cup (open \cap s.inflight \cap s.unverified) ELSE @,
                  !.runs = [j \in Jobs |-> IF j \in new
                                           THEN [@[j] EXCEPT ![FreePlace(s, j)] = NewRun(verified)]
                                           ELSE @[j]]]

\* _spawn_sweep: at most one scan at a time.
SpawnSweep(s) == IF s.sweep = "idle" THEN [s EXCEPT !.sweep = "scan"] ELSE s

Awaited(s) == {j \in Jobs : <<j, j>> \in s.deadlines}
Tracked(s) == {j \in Jobs : s.context[j] # None} \cup s.specs \cup Awaited(s)

\* The deadline of a is before that of b, which may have none.
Sooner(s, a, b) == a \in Awaited(s) /\ <<b, a>> \notin s.deadlines

Forget(s, jobs) ==
    [s EXCEPT !.context = [j \in Jobs |-> IF j \in jobs THEN None ELSE @[j]],
              !.specs = @ \ jobs,
              !.deadlines = {d \in @ : d[1] \notin jobs /\ d[2] \notin jobs},
              !.passed = @ \ jobs,
              !.signalled = @ \ jobs]

\* Faulty variant: jobs in flight may be evicted as well.
EvictableInFlight(s, j) == Tracked(s) \ {j}

Evictable(s, j) == Tracked(s) \ (s.inflight \cup s.pending \cup {j})

\* The sets of jobs that _prune_tracked_state(protect=j) may evict.
Evictions(s, j) ==
    LET over == Cardinality(Tracked(s)) - MaxTracked
        can == Evictable(s, j)
        size == IF over <= 0 THEN 0
                ELSE IF over < Cardinality(can) THEN over ELSE Cardinality(can)
    IN  {e \in SUBSET can : /\ Cardinality(e) = size
                            /\ \A a \in e, b \in can \ e : ~Sooner(s, b, a)}

SetRun(s, j, i, run) == [s EXCEPT !.runs[j][i] = run]

\* _do_work_and_submit up to its first await: the context is read here, once.
\* An unverified task brings the spec of its own snapshot.
StartWork(s, j, i) ==
    LET run == s.runs[j][i]
        started == SetRun(s, j, i,
                          [run EXCEPT !.ctx = s.context[j],
                                      !.pc = IF run.verified /\ j \notin s.specs THEN "spec" ELSE "work"])
    IN  IF s.context[j] = None THEN [started EXCEPT !.contextless = @ \cup {j}] ELSE started

End(s, j, i, terminal) ==
    SetRun(s, j, i, [s.runs[j][i] EXCEPT !.pc = "ended", !.terminal = terminal])

\* The end of _await_sweep_context and what follows it in _fulfill_job.
AfterWait(s, j, i) ==
    IF s.context[j] = None /\ j \in Demanding
    THEN End(s, j, i, FALSE)
    ELSE StartWork(s, j, i)

\* The finally block of _run_job after a terminal outcome.
CleanUp(s, j) ==
    [Forget(s, {j}) EXCEPT !.handled = @ \cup {j}, !.late = @ \ {j}, !.pending = @ \ {j},
                           !.contextless = @ \ {j}, !.inflight = @ \ {j}, !.unverified = @ \ {j}]

\* Faulty variant: a transient failure drops the context with the rest.
ReleaseForgetting(s, j, verified) ==
    LET released == [Forget(s, {j}) EXCEPT !.inflight = @ \ {j}, !.unverified = @ \ {j},
                              !.contextless = @ \ {j}, !.pending = @ \ {j}]
    IN  IF ~verified /\ j \in s.pending /\ s.context[j] # None
        THEN SpawnJobs(released, {j}, TRUE)
        ELSE released

\* Faulty variant: the marks of an unfinished delivery stay.
ReleaseMarked(s, j, verified) ==
    LET released == [s EXCEPT !.inflight = @ \ {j}, !.unverified = @ \ {j}, !.pending = @ \ {j}]
    IN  IF ~verified /\ j \in s.pending /\ s.context[j] # None
        THEN SpawnJobs(released, {j}, TRUE)
        ELSE released

\* The same after a transient one; a verified hand-off that waits is started.
Release(s, j, verified) ==
    LET released == [s EXCEPT !.inflight = @ \ {j}, !.unverified = @ \ {j},
                              !.contextless = @ \ {j}, !.pending = @ \ {j}]
    IN  IF ~verified /\ j \in s.pending /\ s.context[j] # None
        THEN SpawnJobs(released, {j}, TRUE)
        ELSE released

-----------------------------------------------------------------------------
(* The chain, and its readers.                                             *)

\* The buyer funds the job.
Fund(j) ==
    /\ chain[j] = "open"
    /\ chain' = [chain EXCEPT ![j] = "funded"]
    /\ UNCHANGED <<core, note, free, detached, faults>>

\* Time passes expired_at of a funded job.
Expire(j) ==
    /\ chain[j] = "funded"
    /\ chain' = [chain EXCEPT ![j] = "expired"]
    /\ Fault
    /\ UNCHANGED <<core, note, free, detached>>

\* verify_signed_job_snapshot: only a job that is funded is looked at further.
Verdict(j) ==
    CASE chain[j] \in {"open", "submitted"} -> "transient"
      [] chain[j] = "funded" /\ j \in Deals -> "ok"
      [] OTHER                              -> "permanent"

-----------------------------------------------------------------------------
(* notify_funded.                                                          *)

SetNote(h, where, j, c) == note' = [note EXCEPT ![h] = [pc |-> where, job |-> j, ctx |-> c]]
Answer(h, what) == SetNote(h, what, None, None)
Over == {"idle", "accepted", "rejected", "unavailable"}

\* A notification without a job id starts a sweep and nothing else.
NotifyBare(h) ==
    /\ note[h].pc \in Over
    /\ Answer(h, "accepted")
    /\ core' = SpawnSweep(core)
    /\ UNCHANGED <<chain, free, detached, faults>>

\* An unusable job id, keys of the old protocol, no authorization object, or
\* one whose structure fails the preflight.
NotifyMalformed(h) ==
    /\ note[h].pc \in Over
    /\ Answer(h, "rejected")
    /\ UNCHANGED <<chain, core, free, detached, faults>>

Notify(h, j, c) ==
    /\ note[h].pc \in Over
    /\ SetNote(h, "read", j, c)
    /\ UNCHANGED <<chain, core, free, detached, faults>>

Running(k) == IF k = "read" THEN "reading" ELSE "checking"

\* _run_bounded_thread: take a permit, start the thread.
Acquire(h, k) ==
    /\ note[h].pc = k
    /\ free[k] > 0
    /\ free' = [free EXCEPT ![k] = @ - 1]
    /\ note' = [note EXCEPT ![h].pc = Running(k)]
    /\ UNCHANGED <<chain, core, detached, faults>>

\* The chain read returns.
ReadDone(h) ==
    /\ note[h].pc = "reading"
    /\ free' = [free EXCEPT !["read"] = @ + 1]
    /\ CASE Verdict(note[h].job) = "ok"        -> SetNote(h, "check", note[h].job, note[h].ctx)
         [] Verdict(note[h].job) = "permanent" -> Answer(h, "rejected")
         [] Verdict(note[h].job) = "transient" -> Answer(h, "unavailable")
    /\ UNCHANGED <<chain, core, detached, faults>>

ReadFails(h) ==
    /\ note[h].pc = "reading"
    /\ free' = [free EXCEPT !["read"] = @ + 1]
    /\ Answer(h, "unavailable")
    /\ Fault
    /\ UNCHANGED <<chain, core, detached>>

\* Faulty variant: the permit is returned although the thread is still running.
GiveUpReleasing(h, k) ==
    /\ \/ note[h].pc = k /\ UNCHANGED <<free, detached>>
       \/ /\ note[h].pc = Running(k)
          /\ free' = [free EXCEPT ![k] = @ + 1]
          /\ detached' = [detached EXCEPT ![k] = @ + 1]
    /\ Answer(h, "unavailable")
    /\ Fault
    /\ UNCHANGED <<chain, core>>

\* The 30 s of a read or a check are over; a thread that runs keeps its permit.
GiveUp(h, k) ==
    /\ \/ note[h].pc = k /\ UNCHANGED <<free, detached>>
       \/ /\ note[h].pc = Running(k)
          /\ detached' = [detached EXCEPT ![k] = @ + 1]
          /\ UNCHANGED free
    /\ Answer(h, "unavailable")
    /\ Fault
    /\ UNCHANGED <<chain, core>>

\* release_when_finished
ThreadExits(k) ==
    /\ detached[k] > 0
    /\ detached' = [detached EXCEPT ![k] = @ - 1]
    /\ free' = [free EXCEPT ![k] = @ + 1]
    /\ UNCHANGED <<chain, core, note, faults>>

CheckFails(h) ==
    /\ note[h].pc = "checking"
    /\ free' = [free EXCEPT !["check"] = @ + 1]
    /\ Answer(h, "rejected") \/ Answer(h, "unavailable")
    /\ Fault
    /\ UNCHANGED <<chain, core, detached>>

TooLate(s, j) == j \in s.handled \cup s.late \cup s.contextless

Conflict(s, j, c) == s.context[j] \notin {None, c}

\* The check succeeds.  Up to the await of the accounting nothing interleaves:
\* refuse what has started, prune, install the context, wake a waiting delivery.
CheckDone(h) ==
    LET j == note[h].job
        c == note[h].ctx
    IN  /\ note[h].pc = "checking"
        /\ free' = [free EXCEPT !["check"] = @ + 1]
        /\ \/ /\ TooLate(core, j)
              /\ Answer(h, "rejected")
              /\ UNCHANGED core
           \/ /\ ~TooLate(core, j)
              /\ \E e \in Evictions(core, j) :
                   LET s == Forget(core, e)
                   IN  IF Conflict(s, j, c)
                       THEN core' = s /\ Answer(h, "rejected")
                       ELSE /\ core' = [s EXCEPT !.context[j] = c,
                                                 !.specs = @ \cup {j},
                                                 !.signalled = @ \cup (Awaited(s) \cap {j})]
                            /\ SetNote(h, "report", j, c)
        /\ UNCHANGED <<chain, detached, faults>>

\* The accounting call has returned: start the delivery and a sweep.
Accept(h) ==
    /\ note[h].pc = "report"
    /\ core' = SpawnSweep(SpawnJobs(core, {note[h].job}, TRUE))
    /\ Answer(h, "accepted")
    /\ UNCHANGED <<chain, free, detached, faults>>

-----------------------------------------------------------------------------
(* The sweep.                                                              *)

handlers == <<note, free, detached>>
rest == <<handlers, faults>>

SweepFails ==
    /\ core.sweep = "scan"
    /\ core' = [core EXCEPT !.sweep = "idle"]
    /\ Fault
    /\ UNCHANGED <<chain, handlers>>

\* get_pending_jobs answers with the funded jobs of that moment.
SweepScan ==
    /\ core.sweep = "scan"
    /\ core' = [core EXCEPT !.sweep = "spawn", !.found = {j \in Jobs : chain[j] = "funded"}]
    /\ UNCHANGED <<chain, rest>>

SweepSpawn ==
    /\ core.sweep = "spawn"
    /\ core' = [SpawnJobs(core, core.found, FALSE) EXCEPT !.sweep = "idle", !.found = {}]
    /\ UNCHANGED <<chain, rest>>

-----------------------------------------------------------------------------
(* A delivery.                                                             *)

At(j, i, where) == core.runs[j][i].pc = where
Move(j, i, where) == core' = [core EXCEPT !.runs[j][i].pc = where]

\* A verified task goes straight to the work.
StartVerified(j, i) ==
    /\ At(j, i, "spawned") /\ core.runs[j][i].verified
    /\ core' = StartWork(core, j, i)
    /\ UNCHANGED <<chain, rest>>

\* _fulfill_job reads the chain.
Verify(j, i) ==
    /\ At(j, i, "spawned") /\ ~core.runs[j][i].verified
    /\ core' = IF Verdict(j) = "ok" THEN SetRun(core, j, i, [core.runs[j][i] EXCEPT !.pc = "report"])
               ELSE End(core, j, i, Verdict(j) = "permanent")
    /\ UNCHANGED <<chain, rest>>

VerifyFails(j, i) ==
    /\ At(j, i, "spawned") /\ ~core.runs[j][i].verified
    /\ core' = End(core, j, i, FALSE)
    /\ Fault
    /\ UNCHANGED <<chain, handlers>>

\* The accounting call has returned: _await_sweep_context up to its await.
AwaitContext(j, i) ==
    /\ At(j, i, "report")
    /\ LET known == [core EXCEPT !.specs = @ \cup {j}]
       IN  \E e \in Evictions(known, j) :
             LET s == Forget(known, e)
                 w == [s EXCEPT !.deadlines = IF j \in Awaited(s) THEN @
                                           ELSE @ \cup ((Awaited(s) \cup {j}) \X {j})]
             IN  core' = CASE s.context[j] # None -> StartWork(s, j, i)
                           [] s.context[j] = None /\ j \in s.passed \cup s.signalled -> AfterWait(s, j, i)
                           [] OTHER -> [w EXCEPT !.runs[j][i].pc = "wait"]
    /\ UNCHANGED <<chain, rest>>

\* The oldest deadline that is still ahead passes.
GracePasses(j) ==
    /\ j \in Awaited(core) \ core.passed
    /\ \A k \in Awaited(core) \ core.passed : ~Sooner(core, k, j)
    /\ core' = [core EXCEPT !.passed = @ \cup {j}]
    /\ UNCHANGED <<chain, rest>>

WaitOver(j, i) ==
    /\ At(j, i, "wait")
    /\ j \in core.passed \cup core.signalled
    /\ core' = AfterWait(core, j, i)
    /\ UNCHANGED <<chain, rest>>

\* job_spec, when no snapshot has left a spec.
ReadSpec(j, i) ==
    /\ At(j, i, "spec")
    /\ \/ Move(j, i, "work") /\ UNCHANGED faults
       \/ core' = End(core, j, i, FALSE) /\ Fault
    /\ UNCHANGED <<chain, handlers>>

\* The analysis is done, and the submission starts on its thread.
WorkDone(j, i) ==
    /\ At(j, i, "work")
    /\ Move(j, i, "submit")
    /\ UNCHANGED <<chain, rest>>

WorkFails(j, i) ==
    /\ At(j, i, "work")
    /\ core' = End(core, j, i, FALSE)
    /\ Fault
    /\ UNCHANGED <<chain, handlers>>

\* Faulty variant: nobody looks at the thread after the timeout.
ExitsForgotten(s, j, i, ok, skip) ==
    LET d == [s EXCEPT !.delivered = IF ok THEN @ \cup {j} ELSE @]
    IN  End(d, j, i, ~s.runs[j][i].cut /\ (ok \/ skip))

\* The submission has been cut off by the timeout: whatever it came to, the
\* delivery ends as timed out, and success is remembered apart.
Exits(s, j, i, ok, skip) ==
    LET d == [s EXCEPT !.delivered = IF ok THEN @ \cup {j} ELSE @]
    IN  IF s.runs[j][i].cut
        THEN [End(d, j, i, FALSE) EXCEPT !.late = IF ok THEN @ \cup {j} ELSE @]
        ELSE End(d, j, i, ok \/ skip)

\* The thread of the submission returns with the hash of its transaction.
SubmitOk(j, i) ==
    /\ At(j, i, "submit") /\ chain[j] = "funded"
    /\ chain' = [chain EXCEPT ![j] = "submitted"]
    /\ core' = Exits(core, j, i, TRUE, FALSE)
    /\ UNCHANGED rest

\* submit_workflow verifies the job again, and one that is no longer funded is
\* refused; the error says for good or not.
SubmitRefused(j, i) ==
    /\ At(j, i, "submit") /\ chain[j] # "funded"
    /\ \E skip \in BOOLEAN : core' = Exits(core, j, i, FALSE, skip)
    /\ UNCHANGED <<chain, rest>>

\* It raises: for good or to be tried again, the transaction mined or not.
SubmitFails(j, i) ==
    /\ At(j, i, "submit") /\ chain[j] = "funded"
    /\ chain' \in {chain, [chain EXCEPT ![j] = "submitted"]}
    /\ \E skip \in BOOLEAN : core' = Exits(core, j, i, FALSE, skip)
    /\ Fault
    /\ UNCHANGED handlers

\* _JOB_DELIVERY_TIMEOUT_SECONDS: _await_submit_task stays until the thread is done.
TimeOut(j, i) ==
    /\ core.runs[j][i].pc \in {"spawned", "report", "wait", "spec", "work", "submit"}
    /\ ~core.runs[j][i].cut
    /\ ~(At(j, i, "spawned") /\ core.runs[j][i].verified)     \* nothing awaited yet
    /\ core' = IF At(j, i, "submit")
               THEN [core EXCEPT !.runs[j][i].cut = TRUE]
               ELSE End(core, j, i, FALSE)
    /\ Fault
    /\ UNCHANGED <<chain, handlers>>

\* The finally block of _run_job.
Finish(j, i) ==
    LET run == core.runs[j][i]
        s == SetRun(core, j, i, NoRun)
    IN  /\ run.pc = "ended"
        /\ core' = IF run.terminal \/ j \in core.late
                   THEN CleanUp(s, j)
                   ELSE Release(s, j, run.verified)
        /\ UNCHANGED <<chain, rest>>

-----------------------------------------------------------------------------
\* The process dies and starts again; a transaction already sent may be mined.
Restart ==
    /\ MayRestart
    /\ Fault
    /\ \E mined \in SUBSET {j \in Jobs : /\ chain[j] = "funded"
                                         /\ \E i \in Places : core.runs[j][i].pc = "submit"} :
         chain' = [j \in Jobs |-> IF j \in mined THEN "submitted" ELSE chain[j]]
    /\ core' = FreshCore
    /\ note' = [h \in Handlers |-> NoNote]
    /\ free' = [k \in Kinds |-> Slots]
    /\ detached' = [k \in Kinds |-> 0]

HandlerStep(h) ==
    \/ ReadDone(h) \/ ReadFails(h) \/ CheckFails(h) \/ CheckDone(h) \/ Accept(h)
    \/ \E k \in Kinds : Acquire(h, k) \/ GiveUp(h, k)

RunStep(j, i) ==
    \/ StartVerified(j, i) \/ Verify(j, i) \/ VerifyFails(j, i)
    \/ AwaitContext(j, i) \/ WaitOver(j, i)
    \/ ReadSpec(j, i) \/ WorkDone(j, i) \/ WorkFails(j, i)
    \/ SubmitOk(j, i) \/ SubmitRefused(j, i) \/ SubmitFails(j, i)
    \/ TimeOut(j, i) \/ Finish(j, i)

Next ==
    \/ \E j \in Jobs : Fund(j) \/ Expire(j) \/ GracePasses(j)
    \/ \E h \in Handlers : NotifyBare(h) \/ NotifyMalformed(h) \/ HandlerStep(h)
    \/ \E h \in Handlers, j \in Jobs, c \in Contexts : Notify(h, j, c)
    \/ \E k \in Kinds : ThreadExits(k)
    \/ SweepFails \/ SweepScan \/ SweepSpawn
    \/ \E j \in Jobs, i \in Places : RunStep(j, i)
    \/ Restart

Spec == Init /\ [][Next]_vars

\* Coroutines that are ready run, threads end, and time passes.
Fairness ==
    /\ \A h \in Handlers : WF_vars(HandlerStep(h))
    /\ \A j \in Jobs, i \in Places : WF_vars(RunStep(j, i))
    /\ \A j \in Jobs : WF_vars(GracePasses(j))
    /\ \A k \in Kinds : WF_vars(ThreadExits(k))
    /\ WF_vars(SweepFails \/ SweepScan \/ SweepSpawn)

FairSpec == Spec /\ Fairness

\* The buyer of every job keeps notifying, with each context it has ever used:
\* a stored context refuses all others.
RetrySpec ==
    FairSpec /\ \A j \in Jobs, c \in Contexts : SF_vars(\E h \in Handlers : Notify(h, j, c))

-----------------------------------------------------------------------------
(* Safety.                                                                 *)

RunStates == {"idle", "spawned", "report", "wait", "spec", "work", "submit", "ended"}
NoteStates == Over \cup {"read", "reading", "check", "checking", "report"}

Runs == [pc : RunStates, verified : BOOLEAN, ctx : Contexts \cup {None},
         cut : BOOLEAN, terminal : BOOLEAN]
Notes == [pc : NoteStates, job : Jobs \cup {None}, ctx : Contexts \cup {None}]
Cores == [context : [Jobs -> Contexts \cup {None}], specs : SUBSET Jobs,
          deadlines : SUBSET (Jobs \X Jobs), passed : SUBSET Jobs, signalled : SUBSET Jobs,
          handled : SUBSET Jobs, late : SUBSET Jobs, contextless : SUBSET Jobs,
          inflight : SUBSET Jobs, unverified : SUBSET Jobs, pending : SUBSET Jobs,
          sweep : {"idle", "scan", "spawn"}, found : SUBSET Jobs, delivered : SUBSET Jobs,
          runs : [Jobs -> [Places -> Runs]]]

\* The state has the shape the code gives it; permits stay within the
\* semaphores, and only a job with a deadline has an event.
TypeOK ==
    /\ chain \in [Jobs -> {"open", "funded", "expired", "submitted"}]
    /\ core \in Cores
    /\ core.passed \cup core.signalled \subseteq Awaited(core)
    /\ note \in [Handlers -> Notes]
    /\ free \in [Kinds -> 0..Slots]
    /\ detached \in [Kinds -> 0..Slots]
    /\ faults \in 0..MaxFaults

\* A job is in flight exactly while it has a delivery task, and it never has
\* two: notifications, sweeps and hand-offs cannot deliver a job twice at once.
RunsOwned ==
    \A j \in Jobs : Cardinality(Live(core, j)) = IF j \in core.inflight THEN 1 ELSE 0

\* Every mark of live work belongs to a job in flight: none outlives its
\* delivery, where it would refuse or divert later notifications for ever.
MarksOwned(s) ==
    s.late \cup s.contextless \cup s.unverified \cup s.pending \subseteq s.inflight

\* The bookkeeping of the object matches its tasks.
CoreConsistent == TypeOK /\ RunsOwned /\ MarksOwned(core)

Working == {"spec", "work", "submit"}

\* The context of a delivery cannot appear, change or vanish under it: until
\* the submission is over the stored context is the one the work was begun with.
ContextStable ==
    \A j \in Jobs, i \in Places :
      core.runs[j][i].pc \in Working => core.context[j] = core.runs[j][i].ctx

\* Nothing is retained for a job that is handled, and no task works on it.
DoneLeavesNothing(s) == s.handled \cap (Tracked(s) \cup s.inflight) = {}

\* Once a submission is known to have succeeded, in time or after the
\* timeout, the process neither verifies, analyses nor submits the job again.
NoRework(s) ==
    \A j \in s.delivered, i \in Places : s.runs[j][i].pc \in {"idle", "ended"}

\* A job that is done stays done and leaves nothing behind.
DoneIsDone == DoneLeavesNothing(core) /\ NoRework(core)

OnThread(k) == {h \in Handlers : note[h].pc = Running(k)}
Threads(k) == Cardinality(OnThread(k)) + detached[k]

\* The threads that run, abandoned ones included, and the permits left make up
\* the size of the semaphore: none is lost and none given out twice.
ThreadsBounded == \A k \in Kinds : Threads(k) + free[k] = Slots

\* A delivery started by a notification works with the signed context it was
\* accepted with, also after a failed one.  Below _MAX_TRACKED_JOBS only: above
\* it, pruning may take the context while the accounting call is awaited.
VerifiedHasContext ==
    \A j \in Jobs, i \in Places :
      core.runs[j][i].pc \in Working /\ core.runs[j][i].verified => core.runs[j][i].ctx # None
-----------------------------------------------------------------------------
(* Why it holds: the inductive invariant behind the safety properties.     *)

\* A job in flight has exactly one live task, any other has none.
OneRun(s) ==
    \A j \in Jobs :
      IF j \in s.inflight THEN \E i \in Places : Live(s, j) = {i} ELSE Live(s, j) = {}

\* A delivery that works without a context has marked its job, so that no
\* notification installs one any more.
WorkMarked(s) ==
    \A j \in Jobs, i \in Places :
      s.runs[j][i].pc \in Working =>
        /\ s.context[j] = s.runs[j][i].ctx
        /\ s.context[j] = None => j \in s.contextless

\* A success is remembered until the job is handled: as late, or by the task
\* that has ended with it.
SuccessKnown(s) ==
    \A j \in s.delivered :
      \/ j \in s.handled \cup s.late
      \/ \E i \in Places : s.runs[j][i].pc = "ended" /\ s.runs[j][i].terminal

CoreInv(s) ==
    /\ s \in Cores
    /\ s.passed \cup s.signalled \subseteq Awaited(s)
    /\ OneRun(s) /\ MarksOwned(s) /\ WorkMarked(s)
    /\ DoneLeavesNothing(s) /\ NoRework(s) /\ SuccessKnown(s)

\* A handler under way has a job and a context, and every permit taken belongs
\* to one thread.
NoteInv ==
    /\ note \in [Handlers -> Notes]
    /\ \A h \in Handlers : note[h].pc \notin Over => note[h].job \in Jobs /\ note[h].ctx \in Contexts
    /\ free \in [Kinds -> Nat] /\ detached \in [Kinds -> Nat]
    /\ \A k \in Kinds : IsFiniteSet(OnThread(k)) /\ Threads(k) + free[k] = Slots

SellerInv ==
    /\ chain \in [Jobs -> {"open", "funded", "expired", "submitted"}]
    /\ faults \in 0..MaxFaults
    /\ CoreInv(core)
    /\ NoteInv

\* The tracked state never comes to its limit.
Roomy == IsFiniteSet(Jobs) /\ Cardinality(Jobs) <= MaxTracked

\* Then no context is evicted: it is there from the acceptance of the
\* notification to the work that is begun with it.
ContextKept(s) ==
    \A j \in Jobs, i \in Places :
      s.runs[j][i].verified =>
        /\ s.runs[j][i].pc \notin {"report", "wait"}
        /\ s.runs[j][i].pc = "spawned" => s.context[j] # None
        /\ s.runs[j][i].pc \in Working => s.runs[j][i].ctx # None

AcceptedInv ==
    /\ ContextKept(core)
    /\ \A h \in Handlers :
         note[h].pc = "report" => core.context[note[h].job] # None \/ note[h].job \in core.handled
-----------------------------------------------------------------------------
(* Liveness.                                                               *)

\* A notification that passes all checks is served: unless the process dies and
\* its memory is gone, the job is worked on with a signed context or reaches its
\* end, also when an unverified delivery was in flight and fails.
AcceptedGetsWorked ==
    \A h \in Handlers, j \in Jobs :
      note[h].pc = "report" /\ note[h].job = j
        ~> \/ j \in core.handled
           \/ \E i \in Places : core.runs[j][i].ctx # None
           \/ core = FreshCore

\* A funded job whose buyer keeps notifying is submitted, expires or is given
\* up for good, whatever fails on the way.
FundedGetsDelivered ==
    \A j \in Jobs : chain[j] = "funded" ~> chain[j] # "funded" \/ j \in core.handled
=============================================================================
