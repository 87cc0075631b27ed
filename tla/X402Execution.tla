--------------------------- MODULE X402Execution ---------------------------
(***************************************************************************)
(* The execution of one paid job of x402_job_service.py, from queued to    *)
(* its report: on every replica at most one background task (_run_job) and *)
(* its heartbeat, and the request handlers get_job and resume_job, which   *)
(* start, cancel and replace tasks.  All of them change one record with    *)
(* conditional writes, and any replica may crash at every await.           *)
(*                                                                         *)
(* A write applies when its author still holds the record's ETag.  The     *)
(* model keeps the set of those who do: whoever reads joins it, and a      *)
(* write that is applied empties it but for the writer.  An author that    *)
(* holds the ETag knows the record, so no copies of it are kept.           *)
(***************************************************************************)
EXTENDS Integers, FiniteSets

CONSTANTS Replicas,     \* processes of the runtime
          Owners,       \* lease owner tokens (secrets.token_hex)
          None,         \* no token
          Outcomes,     \* what an analysis may come to
          MaxAttempts,  \* _MAX_EXECUTION_ATTEMPTS
          Drives,       \* _CLAIM_DRIVE_ATTEMPTS
          MaxFaults     \* bound on crashes and on store errors

ASSUME ExecutionAssumption ==
    /\ None \notin Owners
    /\ Outcomes \subseteq {"report", "empty", "retryable", "fatal"}
    /\ MaxAttempts \in Nat \ {0}
    /\ Drives \in Nat \ {0}
    /\ MaxFaults \in Nat

VARIABLES
    rec,      \* the job record
    stale,    \* its updatedAt is at least _STALE_MILLISECONDS ago
    reports,  \* report objects in the store, by their report id
    pc,       \* where the task of each replica is
    own,      \* its lease owner token
    drive,    \* its turn of the claim loop, from 1
    out,      \* what its analysis came to
    beat,     \* its heartbeat: off, sleep or write
    lost,     \* lease_lost
    hold,     \* replicas whose task holds the record's ETag
    saw,      \* replicas with a handler that has read status queued
    rpc,      \* where resume_job is on each replica
    rhold,    \* replicas whose resume_job holds the record's ETag
    faults    \* faults left

taskVars == <<pc, own, drive, out, beat, lost>>
handlerVars == <<saw, rpc>>
etags == <<hold, rhold>>
vars == <<rec, stale, reports, taskVars, handlerVars, etags, faults>>

Init ==
    /\ rec = [status |-> "queued", attempt |-> 0, owner |-> None, retry |-> FALSE,
              report |-> None]
    /\ stale = FALSE
    /\ reports = {}
    /\ pc = [p \in Replicas |-> "idle"]
    /\ own = [p \in Replicas |-> None]
    /\ drive = [p \in Replicas |-> 1]
    /\ out = [p \in Replicas |-> "none"]
    /\ beat = [p \in Replicas |-> "off"]
    /\ lost = [p \in Replicas |-> FALSE]
    /\ hold = {} /\ saw = {} /\ rhold = {}
    /\ rpc = [p \in Replicas |-> "idle"]
    /\ faults = MaxFaults

-----------------------------------------------------------------------------
(* The record.                                                             *)

\* Faulty variant: a running job never becomes stale.
ResumableFailuresOnly == rec.status = "failed" /\ rec.retry

\* resume_job and _claim_execution agree on which states may be left.
Resumable == (rec.status = "running" /\ stale) \/ (rec.status = "failed" /\ rec.retry)

\* Faulty variant: a claim that does not look at the attempts.
ClaimableWithoutLimit == rec.status = "queued" \/ Resumable

Claimable == (rec.status = "queued" \/ Resumable) /\ rec.attempt < MaxAttempts

QueuedRecord == [rec EXCEPT !.status = "queued", !.owner = None, !.retry = FALSE]

\* Faulty variant: the takeover forgets to count the attempt.
RunningRecordUncounted(o) == [rec EXCEPT !.status = "running", !.owner = o, !.retry = FALSE]

RunningRecord(o) ==
    [rec EXCEPT !.status = "running", !.attempt = @ + 1, !.owner = o, !.retry = FALSE]

\* _fail_execution
CanRetry(kind) ==
    \/ kind = "empty"
    \/ kind = "retryable" /\ rec.attempt < MaxAttempts

FailedRecord(kind) ==
    [rec EXCEPT !.status = "failed", !.owner = None, !.retry = CanRetry(kind)]

SucceededRecord(o) ==
    [rec EXCEPT !.status = "succeeded", !.owner = None, !.retry = FALSE, !.report = o]

\* What the task of p is about to write; the fence only refreshes the lease.
TaskWrite(p) ==
    CASE pc[p] = "claim"   -> RunningRecord(own[p])
      [] pc[p] = "fence"   -> rec
      [] pc[p] = "fail"    -> FailedRecord(out[p])
      [] pc[p] = "succeed" -> SucceededRecord(own[p])

Writing == {"claim", "fence", "fail", "succeed"}

\* Faulty variant: a PUT without If-Match, which nobody's ETag protects from.
ApplyUnconditionally(new, h, r) ==
    /\ rec' = new
    /\ stale' = FALSE
    /\ hold' = hold \cup h /\ rhold' = rhold \cup r

\* A write is applied; h and r hold the new ETag afterwards.
Apply(new, h, r) ==
    /\ rec' = new
    /\ stale' = FALSE
    /\ hold' = h /\ rhold' = r

\* A write whose answer is a conflict that is none, or an error: applied or not,
\* and its author, who will not write with that ETag again, drops it.
Drop(p) == hold' = hold \ {p} /\ UNCHANGED <<rec, stale, rhold>>

Unanswered(new, p) == Apply(new, {}, {}) \/ Drop(p)

Fault == faults > 0 /\ faults' = faults - 1

-----------------------------------------------------------------------------
(* The task of a replica.                                                  *)

Goto(p, where) == pc' = [pc EXCEPT ![p] = where]

\* The task is over, and with it what it knew.
EndTask(p) ==
    /\ Goto(p, "idle")
    /\ own' = [own EXCEPT ![p] = None]
    /\ drive' = [drive EXCEPT ![p] = 1]
    /\ out' = [out EXCEPT ![p] = "none"]
    /\ beat' = [beat EXCEPT ![p] = "off"]
    /\ lost' = [lost EXCEPT ![p] = FALSE]

\* A token nobody has used (secrets.token_hex(16)).
Unused == Owners \ (reports \cup {own[p] : p \in Replicas} \cup {rec.owner, rec.report})

\* The claim loop is left; its counter with it.
StartWork(p) ==
    /\ Goto(p, "work")
    /\ drive' = [drive EXCEPT ![p] = 1]
    /\ beat' = [beat EXCEPT ![p] = "sleep"]

NewTask(p) ==
    /\ Unused # {}
    /\ own' = [own EXCEPT ![p] = CHOOSE o \in Unused : TRUE]
    /\ Goto(p, "read")
    /\ drive' = [drive EXCEPT ![p] = 1]
    /\ out' = [out EXCEPT ![p] = "none"]
    /\ beat' = [beat EXCEPT ![p] = "off"]
    /\ lost' = [lost EXCEPT ![p] = FALSE]

\* _drive_execution_claim reads the record and _claim_execution looks at it.
ReadClaim(p) ==
    /\ pc[p] = "read"
    /\ \/ /\ rec.status = "running" /\ rec.owner = own[p]
          /\ StartWork(p)
          /\ hold' = hold \cup {p}
          /\ UNCHANGED <<own, out, lost>>
       \/ /\ rec.owner # own[p] /\ Claimable
          /\ Goto(p, "claim")
          /\ hold' = hold \cup {p}
          /\ UNCHANGED <<own, drive, out, beat, lost>>
       \/ /\ rec.owner # own[p] /\ ~Claimable
          /\ EndTask(p)
          /\ UNCHANGED hold
    /\ UNCHANGED <<rec, stale, reports, handlerVars, rhold, faults>>

\* The next turn of the claim loop, or the end of the task after the last.
NextDrive(p) ==
    IF drive[p] < Drives
    THEN /\ Goto(p, "read")
         /\ drive' = [drive EXCEPT ![p] = @ + 1]
         /\ UNCHANGED <<own, out, beat, lost>>
    ELSE EndTask(p)

\* A read of the claim loop fails.
ReadFails(p) ==
    /\ pc[p] = "read" /\ Fault
    /\ NextDrive(p)
    /\ UNCHANGED <<rec, stale, reports, handlerVars, etags>>

ClaimOk(p) ==
    /\ pc[p] = "claim" /\ p \in hold
    /\ Apply(TaskWrite(p), {p}, {})
    /\ StartWork(p)
    /\ UNCHANGED <<reports, own, out, lost, handlerVars, faults>>

ClaimConflict(p) ==
    /\ pc[p] = "claim" /\ p \notin hold
    /\ NextDrive(p)
    /\ UNCHANGED <<rec, stale, reports, handlerVars, etags, faults>>

ClaimUnanswered(p) ==
    /\ pc[p] = "claim" /\ p \in hold /\ Fault
    /\ Unanswered(TaskWrite(p), p)
    /\ NextDrive(p)
    /\ UNCHANGED <<reports, handlerVars>>

\* _consume_report: a report; an empty response (three times); a timeout, a
\* provider limit or any other error; a request that cannot be analysed.
Analyse(p) ==
    /\ pc[p] = "work"
    /\ \E kind \in Outcomes : out' = [out EXCEPT ![p] = kind]
    /\ Goto(p, "stop")
    /\ UNCHANGED <<rec, stale, reports, own, drive, beat, lost, handlerVars, etags, faults>>

\* _stop_heartbeat waits for a heartbeat write under way; a lease that was lost
\* ends the task, whatever the analysis came to.
StopHeartbeat(p) ==
    /\ pc[p] = "stop" /\ beat[p] # "write"
    /\ IF lost[p]
       THEN EndTask(p)
       ELSE /\ Goto(p, IF out[p] = "report" THEN "fence" ELSE "fail")
            /\ beat' = [beat EXCEPT ![p] = "off"]
            /\ UNCHANGED <<own, drive, out, lost>>
    /\ UNCHANGED <<rec, stale, reports, handlerVars, etags, faults>>

\* The fence: _refresh_lease once more before the report is stored.
FenceOk(p) ==
    /\ pc[p] = "fence" /\ p \in hold
    /\ Apply(TaskWrite(p), {p}, {})
    /\ Goto(p, "put")
    /\ UNCHANGED <<reports, own, drive, out, beat, lost, handlerVars, faults>>

\* put_report, keyed by the lease owner.
PutReport(p) ==
    /\ pc[p] = "put"
    /\ reports' = reports \cup {own[p]}
    /\ Goto(p, "succeed")
    /\ UNCHANGED <<rec, stale, own, drive, out, beat, lost, handlerVars, etags, faults>>

PutReportFails(p) ==
    /\ pc[p] = "put" /\ Fault
    /\ reports' \in {reports, reports \cup {own[p]}}
    /\ out' = [out EXCEPT ![p] = "retryable"]
    /\ Goto(p, "fail")
    /\ UNCHANGED <<rec, stale, own, drive, beat, lost, handlerVars, etags>>

\* The write of the outcome.
FinishOk(p) ==
    /\ pc[p] \in {"fail", "succeed"} /\ p \in hold
    /\ Apply(TaskWrite(p), {}, {})
    /\ EndTask(p)
    /\ UNCHANGED <<reports, handlerVars, faults>>

\* The fence or the outcome meets a newer record: the task gives way.
GiveWay(p) ==
    /\ pc[p] \in {"fence", "fail", "succeed"} /\ p \notin hold
    /\ EndTask(p)
    /\ UNCHANGED <<rec, stale, reports, handlerVars, etags, faults>>

WriteUnanswered(p) ==
    /\ pc[p] \in {"fence", "fail", "succeed"} /\ p \in hold /\ Fault
    /\ Unanswered(TaskWrite(p), p)
    /\ EndTask(p)
    /\ UNCHANGED <<reports, handlerVars>>

-----------------------------------------------------------------------------
(* The heartbeat of a task.                                                *)

BeatStart(p) ==
    /\ pc[p] = "work" /\ beat[p] = "sleep"
    /\ beat' = [beat EXCEPT ![p] = "write"]
    /\ UNCHANGED <<rec, stale, reports, pc, own, drive, out, lost, handlerVars, etags, faults>>

BeatOk(p) ==
    /\ beat[p] = "write" /\ p \in hold
    /\ Apply(rec, {p}, {})
    /\ beat' = [beat EXCEPT ![p] = IF pc[p] = "work" THEN "sleep" ELSE "off"]
    /\ UNCHANGED <<reports, pc, own, drive, out, lost, handlerVars, faults>>

\* A conflict, or an error: the lease counts as lost.
BeatFails(p) ==
    /\ beat[p] = "write"
    /\ \/ p \notin hold /\ UNCHANGED <<rec, stale, etags, faults>>
       \/ p \in hold /\ Fault /\ Unanswered(rec, p)
    /\ beat' = [beat EXCEPT ![p] = "off"]
    /\ lost' = [lost EXCEPT ![p] = TRUE]
    /\ UNCHANGED <<reports, pc, own, drive, out, handlerVars>>

-----------------------------------------------------------------------------
(* Request handlers.                                                       *)

\* get_job, and resume_job of a queued job: the read ...
GetJob(p) ==
    /\ rec.status = "queued"
    /\ p \notin saw
    /\ saw' = saw \cup {p}
    /\ UNCHANGED <<rec, stale, reports, taskVars, rpc, etags, faults>>

\* ... and _spawn, which does nothing while a task is active.
Spawn(p) ==
    /\ p \in saw
    /\ saw' = saw \ {p}
    /\ IF pc[p] = "idle" THEN NewTask(p) ELSE UNCHANGED taskVars
    /\ UNCHANGED <<rec, stale, reports, rpc, etags, faults>>

\* Faulty variant: the resume of a job whose attempts are used up.
ResumeReadWithoutLimit(p) ==
    /\ rpc[p] = "idle" /\ Resumable
    /\ rpc' = [rpc EXCEPT ![p] = "write"]
    /\ rhold' = rhold \cup {p}
    /\ UNCHANGED <<rec, stale, reports, taskVars, saw, hold, faults>>

\* resume_job reads the record and finds it resumable.
ResumeRead(p) ==
    /\ rpc[p] = "idle"
    /\ rec.attempt < MaxAttempts /\ Resumable
    /\ rpc' = [rpc EXCEPT ![p] = "write"]
    /\ rhold' = rhold \cup {p}
    /\ UNCHANGED <<rec, stale, reports, taskVars, saw, hold, faults>>

ResumeOk(p) ==
    /\ rpc[p] = "write" /\ p \in rhold
    /\ Apply(QueuedRecord, {}, {})
    /\ rpc' = [rpc EXCEPT ![p] = "handoff"]
    /\ UNCHANGED <<reports, taskVars, saw, faults>>

ResumeFails(p) ==
    /\ rpc[p] = "write"
    /\ \/ p \notin rhold /\ UNCHANGED <<rec, stale, etags, faults>>
       \/ /\ p \in rhold /\ Fault
          /\ \/ Apply(QueuedRecord, {}, {})
             \/ rhold' = rhold \ {p} /\ UNCHANGED <<rec, stale, hold>>
    /\ rpc' = [rpc EXCEPT ![p] = "idle"]
    /\ UNCHANGED <<reports, taskVars, saw>>

\* What a task that is cut off may still do: the write it was waiting for runs
\* in a thread of its own.
CutOff(p) ==
    \/ Drop(p) /\ UNCHANGED reports
    \/ /\ pc[p] \in Writing /\ p \in hold
       /\ Apply(TaskWrite(p), {}, {})
       /\ UNCHANGED reports
    \/ /\ beat[p] = "write" /\ p \in hold
       /\ Apply(rec, {}, {})
       /\ UNCHANGED reports
    \/ /\ pc[p] = "put"
       /\ reports' = reports \cup {own[p]}
       /\ Drop(p)

\* _handoff_and_spawn: cancel the local task, wait for its end, start anew.
Handoff(p) ==
    /\ rpc[p] = "handoff"
    /\ rpc' = [rpc EXCEPT ![p] = "idle"]
    /\ CutOff(p)
    /\ NewTask(p)
    /\ UNCHANGED <<saw, faults>>

\* The process of replica p dies with its task and its handlers.
Crash(p) ==
    /\ pc[p] # "idle" \/ rpc[p] # "idle" \/ p \in saw
    /\ Fault
    /\ \/ CutOff(p)
       \/ rpc[p] = "write" /\ p \in rhold /\ Apply(QueuedRecord, {}, {}) /\ UNCHANGED reports
    /\ EndTask(p)
    /\ saw' = saw \ {p}
    /\ rpc' = [rpc EXCEPT ![p] = "idle"]

\* _STALE_MILLISECONDS pass without a write; only a running job is asked.
GrowStale ==
    /\ rec.status = "running" /\ ~stale
    /\ stale' = TRUE
    /\ UNCHANGED <<rec, reports, taskVars, handlerVars, etags, faults>>

Task(p) ==
    \/ ReadClaim(p) \/ ClaimOk(p) \/ ClaimConflict(p) \/ Analyse(p) \/ StopHeartbeat(p)
    \/ FenceOk(p) \/ PutReport(p) \/ FinishOk(p) \/ GiveWay(p) \/ BeatOk(p) \/ BeatFails(p)

Poll(p) == GetJob(p) \/ Spawn(p)

Resume(p) == ResumeRead(p) \/ ResumeOk(p) \/ ResumeFails(p) \/ Handoff(p)

Failure(p) ==
    \/ ReadFails(p) \/ ClaimUnanswered(p) \/ WriteUnanswered(p) \/ PutReportFails(p) \/ Crash(p)

Next ==
    \/ GrowStale
    \/ \E p \in Replicas : Task(p) \/ BeatStart(p) \/ Poll(p) \/ Resume(p) \/ Failure(p)

Spec == Init /\ [][Next]_vars

\* A task's awaits end (the analysis by its timeout), time passes, and the buyer
\* goes on polling and resuming.
FairSpec ==
    /\ Spec
    /\ WF_vars(GrowStale)
    /\ \A p \in Replicas :
         /\ WF_vars(Task(p)) /\ WF_vars(Analyse(p))
         /\ WF_vars(Poll(p)) /\ WF_vars(Resume(p))

-----------------------------------------------------------------------------
(* What must hold.                                                         *)

Record == [status : {"queued", "running", "failed", "succeeded"},
           attempt : 0 .. MaxAttempts, owner : Owners \cup {None}, retry : BOOLEAN,
           report : Owners \cup {None}]

\* The types; the number of attempts never exceeds _MAX_EXECUTION_ATTEMPTS and
\* the claim loop never turns more than _CLAIM_DRIVE_ATTEMPTS times.
TypeOK ==
    /\ rec \in Record
    /\ stale \in BOOLEAN
    /\ reports \subseteq Owners
    /\ pc \in [Replicas -> Writing \cup {"idle", "read", "work", "stop", "put"}]
    /\ own \in [Replicas -> Owners \cup {None}]
    /\ drive \in [Replicas -> 1 .. Drives]
    /\ out \in [Replicas -> {"none", "report", "empty", "retryable", "fatal"}]
    /\ beat \in [Replicas -> {"off", "sleep", "write"}]
    /\ lost \in [Replicas -> BOOLEAN]
    /\ hold \subseteq Replicas /\ saw \subseteq Replicas /\ rhold \subseteq Replicas
    /\ rpc \in [Replicas -> {"idle", "write", "handoff"}]
    /\ faults \in Nat

\* The lease fences: a task that has claimed the job and whose next conditional
\* write would be applied is the owner the running record names, so no outcome
\* of a superseded attempt can land on a later one.
Claimed == {"work", "stop", "fence", "put", "fail", "succeed"}

HolderOwns ==
    \A p \in Replicas :
        p \in hold /\ pc[p] \in Claimed => rec.status = "running" /\ rec.owner = own[p]

\* Two tasks never run under one token, so at most one of them can write.
OneWriter ==
    \A p, q \in Replicas :
        /\ p \in hold /\ pc[p] \in Claimed
        /\ q \in hold /\ pc[q] \in Claimed
        => p = q

\* A superseded or duplicated worker can write no outcome.
LeaseFenced == HolderOwns /\ OneWriter

\* A job that has succeeded names a report that is in the store, and the report
\* of an attempt that lost its lease is never the one it names.
SucceededHasReport ==
    /\ rec.status = "succeeded" => rec.report \in reports
    /\ rec.status # "succeeded" => rec.report = None

\* A job in the queue can be claimed: resume_job never puts one there whose
\* attempts are used up, where no task would take it.
QueuedRunnable == rec.status = "queued" => rec.attempt < MaxAttempts

\* The record promises nothing it cannot keep: no success without its report, and
\* no place in the queue without an attempt.
RecordSound == SucceededHasReport /\ QueuedRunnable

\* The job as its buyer sees it: a failure that may be tried again, or one that
\* may not.
JobState == IF rec.status = "failed" /\ ~rec.retry THEN "over" ELSE rec.status

Job == INSTANCE PaidJob
         WITH state <- JobState, charged <- TRUE, paidAt <- 1, attempts <- rec.attempt,
              worker <- rec.owner, report <- rec.report, Workers <- Owners, Nobody <- None

\* The execution does what PaidJob promises from the queue on: every lease is paid
\* for with an attempt, only the worker who has the job decides its outcome, the
\* report is its own, and no late write, resume or takeover reopens a job that has
\* succeeded or failed for good.
ImplementsPaidWork == Job!WorkSpec

\* What makes the others inductive: the author of a claim or of a resume that
\* would be applied read a record that allows it, and lease tokens are unique.
Open ==
    /\ rec.attempt < MaxAttempts
    /\ JobState \in {"queued", "running", "failed"}

ReadersCurrent ==
    /\ \A p \in hold : pc[p] = "claim" => Open /\ rec.owner # own[p]
    /\ \A p \in rhold : rpc[p] = "write" => Open /\ rec.status # "queued"

Tokens ==
    /\ \A p \in Replicas : pc[p] # "idle" => own[p] \in Owners
    /\ \A p, q \in Replicas : own[p] = own[q] /\ own[p] \in Owners => p = q
    /\ \A p \in Replicas : pc[p] = "succeed" => own[p] \in reports

ExecutionInv ==
    TypeOK /\ HolderOwns /\ SucceededHasReport /\ QueuedRunnable /\ ReadersCurrent /\ Tokens

\* A queued job is picked up while its buyer polls.
QueuedGetsClaimed == rec.status = "queued" ~> rec.status # "queued"

\* A running job with attempts left does not stay with a dead worker: it ends,
\* or a resume takes it over.
RunningEnds ==
    \A n \in 1 .. MaxAttempts - 1 :
        rec.status = "running" /\ rec.attempt = n ~> rec.status # "running" \/ rec.attempt > n

\* No job is left lying: neither in the queue nor with a worker that has died.
JobMovesOn == QueuedGetsClaimed /\ RunningEnds
=============================================================================
