------------------------ MODULE X402ExecutionProofs ------------------------
(***************************************************************************)
(* Proofs about X402Execution, for any number of replicas, attempts, claim *)
(* turns and faults: the lease fences every outcome, a succeeded job has   *)
(* its report, a queued one can be claimed, and the whole implements       *)
(* PaidJob from the queue on.                                              *)
(***************************************************************************)
EXTENDS X402Execution, TLAPS

(* What the record may become in one write.                                *)
Sound(r) ==
    /\ r \in Record
    /\ r.status = "succeeded" => r.report \in reports
    /\ r.status # "succeeded" => r.report = None
    /\ r.status = "queued" => r.attempt < MaxAttempts

(* ... and how it relates to the one before: the same, or a step of        *)
(* PaidJob's Work.                                                         *)
StateOf(r) == IF r.status = "failed" /\ ~r.retry THEN "over" ELSE r.status

Taken(r) ==
    /\ Open
    /\ StateOf(r) = "running" /\ r.attempt = rec.attempt + 1
    /\ r.owner \in Owners \ {rec.owner} /\ r.report = rec.report

Requeued(r) ==
    /\ Open /\ JobState # "queued"
    /\ StateOf(r) = "queued" /\ r.owner = None
    /\ r.attempt = rec.attempt /\ r.report = rec.report

Failed(r) ==
    /\ JobState = "running"
    /\ StateOf(r) \in {"failed", "over"} /\ r.owner = None
    /\ r.attempt = rec.attempt /\ r.report = rec.report

Succeeded(r) ==
    /\ JobState = "running"
    /\ StateOf(r) = "succeeded" /\ r.owner = None
    /\ r.attempt = rec.attempt /\ r.report = rec.owner

Follows(r) == r = rec \/ Taken(r) \/ Requeued(r) \/ Failed(r) \/ Succeeded(r)

LEMMA SoundNow == ExecutionInv => Sound(rec) /\ Follows(rec)
  BY ExecutionAssumption
     DEF ExecutionInv, TypeOK, Record, Sound, Follows, SucceededHasReport, QueuedRunnable

(* A task that holds the ETag writes a sound record that follows the last. *)
LEMMA TaskWriteSound ==
    ASSUME ExecutionInv, NEW p \in Replicas, p \in hold, pc[p] \in Writing
    PROVE  Sound(TaskWrite(p)) /\ Follows(TaskWrite(p))
<1> USE ExecutionAssumption
<1>1. rec \in Record /\ own[p] \in Owners /\ rec.attempt \in 0 .. MaxAttempts
  BY DEF ExecutionInv, TypeOK, Tokens, Writing, Record
<1>2. CASE pc[p] = "claim"
  <2>1. /\ Open /\ rec.owner # own[p]
        /\ rec.attempt < MaxAttempts /\ rec.status # "succeeded" /\ rec.report = None
    BY <1>2 DEF ExecutionInv, ReadersCurrent, SucceededHasReport, Open, JobState
  <2>2. TaskWrite(p) = RunningRecord(own[p])
    BY <1>2 DEF TaskWrite
  <2>3. QED
    <3> DEFINE r == RunningRecord(own[p])
    <3>0. rec.attempt + 1 \in 0 .. MaxAttempts
      BY <1>1, <2>1
    <3>1. r \in Record
      BY <1>1, <3>0 DEF RunningRecord, Record
    <3>2. /\ r.status = "running" /\ r.attempt = rec.attempt + 1 /\ r.report = None
          /\ r.owner = own[p]
      BY <1>1, <2>1 DEF RunningRecord, Record
    <3> HIDE DEF r
    <3>3. Sound(r) /\ Taken(r)
      BY <1>1, <2>1, <3>1, <3>2 DEF Sound, Taken, StateOf
    <3>4. QED
      BY <2>2, <3>3 DEF Follows, r
<1>3. CASE pc[p] = "fence"
  <2>1. TaskWrite(p) = rec
    BY <1>3 DEF TaskWrite
  <2>2. QED
    BY <2>1, SoundNow
<1>4. CASE pc[p] = "fail"
  <2>1. rec.status = "running" /\ rec.report = None
    BY <1>4 DEF ExecutionInv, HolderOwns, Claimed, SucceededHasReport
  <2>2. TaskWrite(p) = FailedRecord(out[p])
    BY <1>4 DEF TaskWrite
  <2>3. CanRetry(out[p]) \in BOOLEAN
    BY DEF CanRetry
  <2>4. QED
    <3> DEFINE r == FailedRecord(out[p])
    <3>1. r \in Record
      BY <1>1, <2>1, <2>3 DEF FailedRecord, Record
    <3>2. r.status = "failed" /\ r.attempt = rec.attempt /\ r.owner = None /\ r.report = None
      BY <1>1, <2>1 DEF FailedRecord, Record
    <3> HIDE DEF r
    <3>3. Sound(r) /\ Failed(r)
      BY <1>1, <2>1, <3>1, <3>2 DEF Sound, Failed, StateOf, JobState
    <3>4. QED
      BY <2>2, <3>3 DEF Follows, r
<1>5. CASE pc[p] = "succeed"
  <2>1. rec.status = "running" /\ rec.owner = own[p] /\ own[p] \in reports
    BY <1>5 DEF ExecutionInv, HolderOwns, Claimed, Tokens
  <2>2. TaskWrite(p) = SucceededRecord(own[p])
    BY <1>5 DEF TaskWrite
  <2>3. QED
    <3> DEFINE r == SucceededRecord(own[p])
    <3>1. r \in Record
      BY <1>1, <2>1 DEF SucceededRecord, Record
    <3>2. /\ r.status = "succeeded" /\ r.attempt = rec.attempt
          /\ r.owner = None /\ r.report = own[p]
      BY <1>1, <2>1 DEF SucceededRecord, Record
    <3> HIDE DEF r
    <3>3. Sound(r) /\ Succeeded(r)
      BY <1>1, <2>1, <3>1, <3>2 DEF Sound, Succeeded, StateOf, JobState
    <3>4. QED
      BY <2>2, <3>3 DEF Follows, r
<1>6. QED
  BY <1>2, <1>3, <1>4, <1>5 DEF Writing

(* So does a resume_job that holds it.                                     *)
LEMMA ResumeWriteSound ==
    ASSUME ExecutionInv, NEW p \in rhold, rpc[p] = "write"
    PROVE  Sound(QueuedRecord) /\ Follows(QueuedRecord)
<1>1. /\ rec \in Record /\ Open /\ rec.status # "queued"
      /\ rec.attempt < MaxAttempts /\ rec.status # "succeeded" /\ rec.report = None
  BY DEF ExecutionInv, TypeOK, ReadersCurrent, SucceededHasReport, Open, JobState
<1> DEFINE r == QueuedRecord
<1>2. r \in Record
  BY <1>1 DEF QueuedRecord, Record
<1>3. r.status = "queued" /\ r.attempt = rec.attempt /\ r.owner = None /\ r.report = None
  BY <1>1 DEF QueuedRecord, Record
<1>4. rec.attempt \in Nat
  BY <1>1, ExecutionAssumption DEF Record
<1> HIDE DEF r
<1>5. Sound(r) /\ Requeued(r)
  BY <1>1, <1>2, <1>3, <1>4, ExecutionAssumption DEF Sound, Requeued, StateOf, JobState
<1>6. QED
  BY <1>5 DEF Follows, r
-----------------------------------------------------------------------------
(* The shared state after a step: the record is sound and follows the last *)
(* one, and reports are only added.                                        *)
SharedOK ==
    /\ Sound(rec') /\ Follows(rec')
    /\ stale' \in BOOLEAN
    /\ reports \subseteq reports' /\ reports' \subseteq Owners
    /\ hold' \subseteq Replicas /\ rhold' \subseteq Replicas
    /\ saw' \subseteq Replicas
    /\ faults' \in Nat

LEMMA SharedStep == ExecutionInv /\ Next => SharedOK
<1> SUFFICES ASSUME ExecutionInv, Next PROVE SharedOK
  OBVIOUS
<1> USE SoundNow, ExecutionAssumption DEF SharedOK
<1>0. /\ stale \in BOOLEAN /\ reports \subseteq Owners /\ faults \in Nat
      /\ hold \subseteq Replicas /\ rhold \subseteq Replicas /\ saw \subseteq Replicas
      /\ \A p \in Replicas : pc[p] # "idle" => own[p] \in Owners
  BY DEF ExecutionInv, TypeOK, Tokens
<1>1. CASE GrowStale
  BY <1>0, <1>1 DEF GrowStale, etags, handlerVars
<1>2. ASSUME NEW p \in Replicas,
             \/ ReadClaim(p) \/ ReadFails(p) \/ ClaimConflict(p) \/ Analyse(p)
             \/ StopHeartbeat(p) \/ GiveWay(p) \/ BeatStart(p)
      PROVE  SharedOK
  BY <1>0, <1>2 DEF ReadClaim, ReadFails, ClaimConflict, Analyse, StopHeartbeat, GiveWay,
                    BeatStart, Fault, etags, handlerVars
<1>3. ASSUME NEW p \in Replicas, PutReport(p) \/ PutReportFails(p) PROVE SharedOK
  BY <1>0, <1>3 DEF PutReport, PutReportFails, Fault, etags, handlerVars
<1>4. ASSUME NEW p \in Replicas, GetJob(p) \/ Spawn(p) \/ ResumeRead(p) PROVE SharedOK
  BY <1>0, <1>4 DEF GetJob, Spawn, ResumeRead, etags
<1>5. ASSUME NEW p \in Replicas,
             \/ ClaimOk(p) \/ FenceOk(p) \/ FinishOk(p)
             \/ ClaimUnanswered(p) \/ WriteUnanswered(p)
      PROVE  SharedOK
  <2>1. Sound(TaskWrite(p)) /\ Follows(TaskWrite(p))
    BY <1>5, TaskWriteSound DEF ClaimOk, FenceOk, FinishOk, ClaimUnanswered,
                                WriteUnanswered, Writing
  <2>2. CASE ClaimOk(p) \/ FenceOk(p) \/ FinishOk(p)
    BY <1>0, <2>1, <2>2 DEF ClaimOk, FenceOk, FinishOk, Apply, handlerVars
  <2>3. CASE ClaimUnanswered(p) \/ WriteUnanswered(p)
    <3>1. /\ Unanswered(TaskWrite(p), p)
          /\ reports' = reports /\ saw' = saw /\ faults' \in Nat
      BY <1>0, <2>3 DEF ClaimUnanswered, WriteUnanswered, Fault, handlerVars
    <3>2. CASE Apply(TaskWrite(p), {}, {})
      <4>1. rec' = TaskWrite(p) /\ stale' = FALSE /\ hold' = {} /\ rhold' = {}
        BY <3>2 DEF Apply
      <4>2. QED
        BY <1>0, <2>1, <3>1, <4>1
    <3>3. CASE Drop(p)
      BY <1>0, <3>1, <3>3 DEF Drop
    <3>4. QED
      BY <3>1, <3>2, <3>3 DEF Unanswered
  <2>4. QED
    BY <1>5, <2>2, <2>3
<1>6. ASSUME NEW p \in Replicas, BeatOk(p) \/ BeatFails(p) PROVE SharedOK
  <2>1. reports' = reports /\ saw' = saw /\ faults' \in Nat
    BY <1>0, <1>6 DEF BeatOk, BeatFails, Fault, handlerVars
  <2>2. \/ Apply(rec, {p}, {}) \/ Apply(rec, {}, {}) \/ Drop(p)
        \/ UNCHANGED <<rec, stale, etags>>
    BY <1>6 DEF BeatOk, BeatFails, Unanswered
  <2>3. CASE Apply(rec, {p}, {}) \/ Apply(rec, {}, {})
    BY <1>0, <2>1, <2>3 DEF Apply
  <2>4. CASE Drop(p) \/ UNCHANGED <<rec, stale, etags>>
    BY <1>0, <2>1, <2>4 DEF Drop, etags
  <2>5. QED
    BY <2>2, <2>3, <2>4
<1>7. ASSUME NEW p \in Replicas, ResumeOk(p) \/ ResumeFails(p) PROVE SharedOK
  <2>1. p \in rhold /\ rpc[p] = "write" => Sound(QueuedRecord) /\ Follows(QueuedRecord)
    BY ResumeWriteSound
  <2>2. reports' = reports /\ saw' = saw /\ faults' \in Nat
    BY <1>0, <1>7 DEF ResumeOk, ResumeFails, Fault
  <2>3. CASE rpc[p] = "write" /\ p \in rhold /\ Apply(QueuedRecord, {}, {})
    BY <1>0, <2>1, <2>2, <2>3 DEF Apply
  <2>4. CASE rec' = rec /\ stale' = stale /\ hold' = hold /\ rhold' \in {rhold, rhold \ {p}}
    BY <1>0, <2>2, <2>4
  <2>5. QED
    BY <1>7, <2>3, <2>4 DEF ResumeOk, ResumeFails, etags
<1>8. ASSUME NEW p \in Replicas, Handoff(p) \/ Crash(p) PROVE SharedOK
  <2>1. p \in rhold /\ rpc[p] = "write" => Sound(QueuedRecord) /\ Follows(QueuedRecord)
    BY ResumeWriteSound
  <2>2. p \in hold /\ pc[p] \in Writing => Sound(TaskWrite(p)) /\ Follows(TaskWrite(p))
    BY TaskWriteSound
  <2>3. saw' \subseteq Replicas /\ faults' \in Nat
    BY <1>0, <1>8 DEF Handoff, Crash, Fault
  <2>4. CASE CutOff(p)
    BY <1>0, <2>2, <2>3, <2>4 DEF CutOff, Drop, Apply
  <2>5. CASE rpc[p] = "write" /\ p \in rhold /\ Apply(QueuedRecord, {}, {}) /\ UNCHANGED reports
    BY <1>0, <2>1, <2>3, <2>5 DEF Apply
  <2>6. QED
    BY <1>8, <2>4, <2>5 DEF Handoff, Crash
<1>9. QED
  BY <1>1, <1>2, <1>3, <1>4, <1>5, <1>6, <1>7, <1>8 DEF Next, Task, Poll, Resume, Failure
-----------------------------------------------------------------------------
(* The tasks after a step.                                                 *)
TasksOK ==
    /\ pc \in [Replicas -> Writing \cup {"idle", "read", "work", "stop", "put"}]
    /\ own \in [Replicas -> Owners \cup {None}]
    /\ drive \in [Replicas -> 1 .. Drives]
    /\ out \in [Replicas -> {"none", "report", "empty", "retryable", "fatal"}]
    /\ beat \in [Replicas -> {"off", "sleep", "write"}]
    /\ lost \in [Replicas -> BOOLEAN]
    /\ Tokens

(* A task that ends gives up its token.                                    *)
LEMMA EndTaskKeeps ==
    ASSUME TasksOK, NEW p \in Replicas, EndTask(p), reports \subseteq reports'
    PROVE  TasksOK'
<1> USE ExecutionAssumption DEF EndTask, Goto
<1>1. /\ pc' \in [Replicas -> Writing \cup {"idle", "read", "work", "stop", "put"}]
      /\ own' \in [Replicas -> Owners \cup {None}]
      /\ drive' \in [Replicas -> 1 .. Drives]
      /\ out' \in [Replicas -> {"none", "report", "empty", "retryable", "fatal"}]
      /\ beat' \in [Replicas -> {"off", "sleep", "write"}]
      /\ lost' \in [Replicas -> BOOLEAN]
  BY DEF TasksOK
<1>2. Tokens'
  BY DEF TasksOK, Tokens
<1>3. QED
  BY <1>1, <1>2 DEF TasksOK

(* A new task has a token of its own.                                      *)
LEMMA NewTaskKeeps ==
    ASSUME TasksOK, NEW p \in Replicas, NewTask(p), reports \subseteq reports'
    PROVE  TasksOK'
<1> DEFINE o == CHOOSE w \in Unused : TRUE
<1>1. o \in Unused
  BY DEF NewTask
<1>2. o \in Owners /\ \A q \in Replicas : own[q] # o
  BY <1>1 DEF Unused
<1> HIDE DEF o
<1>3. own' = [own EXCEPT ![p] = o] /\ pc' = [pc EXCEPT ![p] = "read"]
  BY DEF NewTask, Goto, o
<1>4. Tokens'
  <2>1. \A q \in Replicas : /\ own'[q] = IF q = p THEN o ELSE own[q]
                            /\ pc'[q] = IF q = p THEN "read" ELSE pc[q]
    BY <1>3 DEF TasksOK
  <2>2. \A q \in Replicas : pc'[q] # "idle" => own'[q] \in Owners
    BY <1>2, <2>1 DEF TasksOK, Tokens
  <2>3. \A q, r \in Replicas : own'[q] = own'[r] /\ own'[q] \in Owners => q = r
    BY <1>2, <2>1 DEF TasksOK, Tokens
  <2>4. \A q \in Replicas : pc'[q] = "succeed" => own'[q] \in reports'
    BY <2>1 DEF TasksOK, Tokens
  <2>5. QED
    BY <2>2, <2>3, <2>4 DEF Tokens
<1>5. /\ drive' = [drive EXCEPT ![p] = 1]
      /\ out' = [out EXCEPT ![p] = "none"]
      /\ beat' = [beat EXCEPT ![p] = "off"]
      /\ lost' = [lost EXCEPT ![p] = FALSE]
  BY DEF NewTask
<1>6. QED
  BY <1>2, <1>3, <1>4, <1>5, ExecutionAssumption DEF TasksOK

(* A task that goes on keeps its token; it has stored its report before it *)
(* writes success.                                                         *)
LEMMA GoOn ==
    ASSUME TasksOK, NEW p \in Replicas, pc[p] # "idle",
           NEW where \in {"read", "claim", "work", "stop", "fence", "fail", "put", "succeed"},
           Goto(p, where), own' = own, reports \subseteq reports',
           where = "succeed" => own[p] \in reports'
    PROVE  /\ pc' \in [Replicas -> Writing \cup {"idle", "read", "work", "stop", "put"}]
           /\ Tokens'
  BY DEF TasksOK, Tokens, Goto, Writing

LEMMA NextDriveKeeps ==
    ASSUME TasksOK, NEW p \in Replicas, pc[p] # "idle", NextDrive(p), reports' = reports
    PROVE  TasksOK'
<1>1. CASE drive[p] < Drives
  <2>1. Goto(p, "read") /\ UNCHANGED <<own, out, beat, lost>>
        /\ drive' = [drive EXCEPT ![p] = @ + 1]
    BY <1>1 DEF NextDrive
  <2>2. drive' \in [Replicas -> 1 .. Drives]
    BY <1>1, <2>1, ExecutionAssumption DEF TasksOK
  <2>3. QED
    BY <2>1, <2>2, GoOn DEF TasksOK
<1>2. CASE ~(drive[p] < Drives)
  BY <1>2, EndTaskKeeps DEF NextDrive
<1>3. QED
  BY <1>1, <1>2

(* Every step keeps the tasks in order.                                    *)
LEMMA TasksStep == ExecutionInv /\ Next => TasksOK' /\ rpc' \in [Replicas -> {"idle", "write", "handoff"}]
<1> SUFFICES ASSUME ExecutionInv, Next
             PROVE  TasksOK' /\ rpc' \in [Replicas -> {"idle", "write", "handoff"}]
  OBVIOUS
<1>0. TasksOK /\ rpc \in [Replicas -> {"idle", "write", "handoff"}]
  BY DEF ExecutionInv, TypeOK, TasksOK
<1>1. reports \subseteq reports'
  BY SharedStep DEF SharedOK
<1>2. ASSUME UNCHANGED taskVars PROVE TasksOK'
  BY <1>0, <1>1, <1>2 DEF taskVars, TasksOK, Tokens
<1> USE <1>0, <1>1
<1>3. CASE GrowStale
  BY <1>2, <1>3 DEF GrowStale, handlerVars
<1>4. ASSUME NEW p \in Replicas, ReadClaim(p) PROVE TasksOK' /\ rpc' = rpc
  <2>1. rpc' = rpc /\ pc[p] # "idle"
    BY <1>4 DEF ReadClaim, handlerVars
  <2>2. CASE EndTask(p)
    BY <2>1, <2>2, EndTaskKeeps
  <2>3. CASE \/ StartWork(p) /\ UNCHANGED <<own, out, lost>>
             \/ Goto(p, "claim") /\ UNCHANGED <<own, drive, out, beat, lost>>
    <3>1. /\ pc' \in [Replicas -> Writing \cup {"idle", "read", "work", "stop", "put"}]
          /\ Tokens'
      BY <2>1, <2>3, GoOn DEF StartWork
    <3>2. QED
      BY <2>1, <2>3, <3>1, ExecutionAssumption DEF TasksOK, StartWork
  <2>4. QED
    BY <1>4, <2>2, <2>3 DEF ReadClaim
<1>5. ASSUME NEW p \in Replicas, ReadFails(p) \/ ClaimConflict(p) \/ ClaimUnanswered(p)
      PROVE  TasksOK' /\ rpc' = rpc
  BY <1>5, NextDriveKeeps DEF ReadFails, ClaimConflict, ClaimUnanswered, handlerVars
<1>6. ASSUME NEW p \in Replicas, ClaimOk(p) \/ Analyse(p) \/ FenceOk(p) \/ PutReport(p)
                                 \/ PutReportFails(p)
      PROVE  TasksOK' /\ rpc' = rpc
  <2>1. /\ pc' \in [Replicas -> Writing \cup {"idle", "read", "work", "stop", "put"}]
        /\ Tokens'
    BY <1>6, GoOn DEF ClaimOk, StartWork, Analyse, FenceOk, PutReport, PutReportFails
  <2>2. QED
    BY <1>6, <2>1, ExecutionAssumption
       DEF TasksOK, ClaimOk, StartWork, Analyse, FenceOk, PutReport, PutReportFails, handlerVars
<1>7. ASSUME NEW p \in Replicas, StopHeartbeat(p) PROVE TasksOK' /\ rpc' = rpc
  <2>1. rpc' = rpc /\ pc[p] # "idle"
    BY <1>7 DEF StopHeartbeat, handlerVars
  <2>2. CASE EndTask(p)
    BY <2>1, <2>2, EndTaskKeeps
  <2>3. CASE /\ Goto(p, "fence") \/ Goto(p, "fail")
             /\ beat' = [beat EXCEPT ![p] = "off"]
             /\ UNCHANGED <<own, drive, out, lost>>
    <3>1. /\ pc' \in [Replicas -> Writing \cup {"idle", "read", "work", "stop", "put"}]
          /\ Tokens'
      BY <2>1, <2>3, GoOn
    <3>2. QED
      BY <2>1, <2>3, <3>1 DEF TasksOK
  <2>4. QED
    BY <1>7, <2>2, <2>3 DEF StopHeartbeat
<1>8. ASSUME NEW p \in Replicas, FinishOk(p) \/ GiveWay(p) \/ WriteUnanswered(p)
      PROVE  TasksOK' /\ rpc' = rpc
  BY <1>8, EndTaskKeeps DEF FinishOk, GiveWay, WriteUnanswered, handlerVars
<1>9. ASSUME NEW p \in Replicas, BeatStart(p) \/ BeatOk(p) \/ BeatFails(p)
      PROVE  TasksOK' /\ rpc' = rpc
  <2>1. UNCHANGED <<pc, own, drive, out, rpc>>
    BY <1>9 DEF BeatStart, BeatOk, BeatFails, handlerVars
  <2>2. beat' \in [Replicas -> {"off", "sleep", "write"}] /\ lost' \in [Replicas -> BOOLEAN]
    BY <1>9 DEF BeatStart, BeatOk, BeatFails, TasksOK
  <2>3. QED
    BY <2>1, <2>2 DEF TasksOK, Tokens
<1>10. ASSUME NEW p \in Replicas, GetJob(p) PROVE TasksOK' /\ rpc' = rpc
  BY <1>2, <1>10 DEF GetJob
<1>11. ASSUME NEW p \in Replicas, Spawn(p) PROVE TasksOK' /\ rpc' = rpc
  BY <1>2, <1>11, NewTaskKeeps DEF Spawn
<1>12. ASSUME NEW p \in Replicas, ResumeRead(p) \/ ResumeOk(p) \/ ResumeFails(p)
       PROVE  TasksOK' /\ rpc' \in [Replicas -> {"idle", "write", "handoff"}]
  BY <1>2, <1>12 DEF ResumeRead, ResumeOk, ResumeFails
<1>13. ASSUME NEW p \in Replicas, Handoff(p)
       PROVE  TasksOK' /\ rpc' \in [Replicas -> {"idle", "write", "handoff"}]
  BY <1>13, NewTaskKeeps DEF Handoff
<1>14. ASSUME NEW p \in Replicas, Crash(p)
       PROVE  TasksOK' /\ rpc' \in [Replicas -> {"idle", "write", "handoff"}]
  BY <1>14, EndTaskKeeps DEF Crash
<1>15. QED
  BY <1>3, <1>4, <1>5, <1>6, <1>7, <1>8, <1>9, <1>10, <1>11, <1>12, <1>13, <1>14
     DEF Next, Task, Poll, Resume, Failure
-----------------------------------------------------------------------------
(* Who holds the ETag after a step.  A write that is applied leaves it to  *)
(* its author at most, and the author owns the lease it has written.       *)
LEMMA HoldersStep == ExecutionInv /\ Next => HolderOwns' /\ ReadersCurrent'
<1> SUFFICES ASSUME ExecutionInv, Next PROVE HolderOwns' /\ ReadersCurrent'
  OBVIOUS
<1>0. /\ HolderOwns /\ ReadersCurrent /\ TasksOK /\ TasksOK'
      /\ hold \subseteq Replicas /\ rhold \subseteq Replicas
      /\ rpc \in [Replicas -> {"idle", "write", "handoff"}]
      /\ rec \in Record
  BY TasksStep DEF ExecutionInv, TypeOK, TasksOK
<1> USE <1>0
<1>1. ASSUME NEW new, Apply(new, {}, {}) PROVE HolderOwns' /\ ReadersCurrent'
  BY <1>1 DEF Apply, HolderOwns, ReadersCurrent
<1>2. ASSUME NEW p \in Replicas, rec' = rec, rhold' = rhold, rpc' = rpc,
             hold' = hold \/ hold' = hold \ {p},
             \A q \in Replicas \ {p} : pc'[q] = pc[q] /\ own'[q] = own[q],
             \/ pc'[p] = "idle" \/ pc'[p] = "read"
             \/ own'[p] = own[p] /\ pc'[p] # "claim" /\ pc[p] \in Claimed
             \/ own'[p] = own[p] /\ pc'[p] = pc[p]
      PROVE  HolderOwns' /\ ReadersCurrent'
  <2>1. \A q \in Replicas : q \in hold' /\ pc'[q] \in Claimed =>
            q \in hold /\ pc[q] \in Claimed /\ own'[q] = own[q]
    BY <1>2 DEF Claimed
  <2>2. HolderOwns'
    BY <1>2, <2>1 DEF HolderOwns
  <2>3. \A q \in hold' : pc'[q] = "claim" => q \in hold /\ pc[q] = "claim" /\ own'[q] = own[q]
    BY <1>2 DEF Claimed
  <2>4. ReadersCurrent'
    BY <1>2, <2>3 DEF ReadersCurrent, Open, JobState
  <2>5. QED
    BY <2>2, <2>4
<1>3. ASSUME NEW p \in Replicas, rec' = rec, hold' = {p}, rhold' = {},
             pc[p] \in Claimed, p \in hold, own' = own, pc'[p] # "claim"
      PROVE  HolderOwns' /\ ReadersCurrent'
  BY <1>3 DEF HolderOwns, ReadersCurrent
<1>4. CASE GrowStale
  BY <1>4 DEF GrowStale, taskVars, handlerVars, etags, HolderOwns, ReadersCurrent, Open, JobState
<1>5. ASSUME NEW p \in Replicas, ReadClaim(p) PROVE HolderOwns' /\ ReadersCurrent'
  <2>1. rec' = rec /\ rhold' = rhold /\ rpc' = rpc /\ pc[p] = "read"
    BY <1>5 DEF ReadClaim, handlerVars
  <2>2. CASE /\ rec.status = "running" /\ rec.owner = own[p]
             /\ Goto(p, "work") /\ hold' = hold \cup {p} /\ own' = own
    BY <2>1, <2>2 DEF HolderOwns, ReadersCurrent, Open, JobState, Goto, TasksOK
  <2>3. CASE /\ rec.owner # own[p] /\ Claimable
             /\ Goto(p, "claim") /\ hold' = hold \cup {p} /\ own' = own
    <3>1. Open
      BY <2>3 DEF Claimable, Resumable, Open, JobState
    <3>2. pc' = [pc EXCEPT ![p] = "claim"]
      BY <2>3 DEF Goto
    <3>3. \A q \in Replicas : pc'[q] = IF q = p THEN "claim" ELSE pc[q]
      BY <3>2 DEF TasksOK
    <3>4. QED
      BY <2>1, <2>3, <3>1, <3>3 DEF HolderOwns, ReadersCurrent, Open, JobState, Claimed
  <2>4. CASE EndTask(p) /\ hold' = hold
    BY <1>2, <2>1, <2>4 DEF EndTask, Goto, TasksOK
  <2>5. QED
    BY <1>5, <2>2, <2>3, <2>4 DEF ReadClaim, StartWork
<1>6. ASSUME NEW p \in Replicas, ReadFails(p) \/ ClaimConflict(p) \/ ClaimUnanswered(p)
      PROVE  HolderOwns' /\ ReadersCurrent'
  <2>1. /\ rpc' = rpc
        /\ pc'[p] \in {"idle", "read"}
        /\ \A q \in Replicas \ {p} : pc'[q] = pc[q] /\ own'[q] = own[q]
    BY <1>6 DEF ReadFails, ClaimConflict, ClaimUnanswered, handlerVars, NextDrive, EndTask,
                Goto, TasksOK
  <2>2. CASE Apply(TaskWrite(p), {}, {})
    BY <1>1, <2>2
  <2>3. CASE rec' = rec /\ rhold' = rhold /\ (hold' = hold \/ hold' = hold \ {p})
    BY <1>2, <2>1, <2>3
  <2>4. QED
    BY <1>6, <2>2, <2>3 DEF ReadFails, ClaimConflict, ClaimUnanswered, Unanswered, Drop, etags
<1>7. ASSUME NEW p \in Replicas, ClaimOk(p) PROVE HolderOwns' /\ ReadersCurrent'
  <2>1. TaskWrite(p) = RunningRecord(own[p])
    BY <1>7 DEF ClaimOk, TaskWrite
  <2>2. /\ rec' = RunningRecord(own[p]) /\ hold' = {p} /\ rhold' = {}
        /\ own' = own /\ pc' = [pc EXCEPT ![p] = "work"]
    BY <1>7, <2>1 DEF ClaimOk, StartWork, Apply, Goto
  <2>3. rec'.status = "running" /\ rec'.owner = own[p]
    BY <2>2 DEF RunningRecord, Record
  <2>4. QED
    BY <2>2, <2>3 DEF HolderOwns, ReadersCurrent, TasksOK
<1>8. ASSUME NEW p \in Replicas, FenceOk(p) PROVE HolderOwns' /\ ReadersCurrent'
  <2>1. TaskWrite(p) = rec
    BY <1>8 DEF FenceOk, TaskWrite
  <2>2. /\ rec' = rec /\ hold' = {p} /\ rhold' = {} /\ p \in hold /\ pc[p] = "fence"
        /\ own' = own /\ pc' = [pc EXCEPT ![p] = "put"]
    BY <1>8, <2>1 DEF FenceOk, Apply, Goto
  <2>3. QED
    BY <1>3, <2>2 DEF TasksOK, Claimed
<1>9. ASSUME NEW p \in Replicas,
             Analyse(p) \/ StopHeartbeat(p) \/ PutReport(p) \/ PutReportFails(p) \/ GiveWay(p)
      PROVE  HolderOwns' /\ ReadersCurrent'
  <2>1. rec' = rec /\ hold' = hold /\ rhold' = rhold /\ rpc' = rpc
    BY <1>9 DEF Analyse, StopHeartbeat, PutReport, PutReportFails, GiveWay, etags, handlerVars
  <2>2. \A q \in Replicas \ {p} : pc'[q] = pc[q] /\ own'[q] = own[q]
    BY <1>9 DEF Analyse, StopHeartbeat, PutReport, PutReportFails, GiveWay, EndTask, Goto, TasksOK
  <2>3. \/ pc'[p] = "idle"
        \/ own'[p] = own[p] /\ pc'[p] # "claim" /\ pc[p] \in Claimed
    BY <1>9 DEF Analyse, StopHeartbeat, PutReport, PutReportFails, GiveWay, EndTask, Goto,
                TasksOK, Claimed
  <2>4. QED
    BY <1>2, <2>1, <2>2, <2>3
<1>10. ASSUME NEW p \in Replicas, FinishOk(p) PROVE HolderOwns' /\ ReadersCurrent'
  BY <1>1, <1>10 DEF FinishOk
<1>11. ASSUME NEW p \in Replicas, WriteUnanswered(p) PROVE HolderOwns' /\ ReadersCurrent'
  <2>1. EndTask(p) /\ rpc' = rpc /\ Unanswered(TaskWrite(p), p)
    BY <1>11 DEF WriteUnanswered, handlerVars
  <2>2. CASE Drop(p)
    BY <1>2, <2>1, <2>2 DEF Drop, EndTask, Goto, TasksOK
  <2>3. QED
    BY <1>1, <2>1, <2>2 DEF Unanswered
<1>12. ASSUME NEW p \in Replicas, BeatStart(p) \/ BeatOk(p) \/ BeatFails(p)
       PROVE  HolderOwns' /\ ReadersCurrent'
  <2>1. UNCHANGED <<pc, own, rpc>>
    BY <1>12 DEF BeatStart, BeatOk, BeatFails, handlerVars
  <2>2. CASE Apply(rec, {}, {})
    BY <1>1, <2>2
  <2>3. CASE p \in hold /\ Apply(rec, {p}, {})
    BY <2>1, <2>3 DEF Apply, HolderOwns, ReadersCurrent, Open, JobState
  <2>4. CASE rec' = rec /\ rhold' = rhold /\ (hold' = hold \/ hold' = hold \ {p})
    BY <1>2, <2>1, <2>4
  <2>5. QED
    BY <1>12, <2>2, <2>3, <2>4 DEF BeatStart, BeatOk, BeatFails, Unanswered, Drop, etags
<1>13. ASSUME NEW p \in Replicas, GetJob(p) PROVE HolderOwns' /\ ReadersCurrent'
  BY <1>13 DEF GetJob, taskVars, etags, HolderOwns, ReadersCurrent, Open, JobState
<1>14. ASSUME NEW p \in Replicas, Spawn(p) PROVE HolderOwns' /\ ReadersCurrent'
  <2>1. rec' = rec /\ hold' = hold /\ rhold' = rhold /\ rpc' = rpc
    BY <1>14 DEF Spawn, etags
  <2>2. CASE UNCHANGED taskVars
    BY <2>1, <2>2 DEF taskVars, HolderOwns, ReadersCurrent, Open, JobState
  <2>3. CASE NewTask(p)
    BY <1>2, <2>1, <2>3 DEF NewTask, Goto, TasksOK
  <2>4. QED
    BY <1>14, <2>2, <2>3 DEF Spawn
<1>15. ASSUME NEW p \in Replicas, ResumeRead(p) PROVE HolderOwns' /\ ReadersCurrent'
  <2>1. Open /\ rec.status # "queued"
    BY <1>15 DEF ResumeRead, Resumable, Open, JobState
  <2>2. QED
    BY <1>15, <2>1 DEF ResumeRead, taskVars, HolderOwns, ReadersCurrent, Open, JobState
<1>16. ASSUME NEW p \in Replicas, ResumeOk(p) \/ ResumeFails(p)
       PROVE  HolderOwns' /\ ReadersCurrent'
  <2>1. CASE Apply(QueuedRecord, {}, {})
    BY <1>1, <2>1
  <2>2. CASE rec' = rec /\ hold' = hold /\ (rhold' = rhold \/ rhold' = rhold \ {p})
             /\ rpc' = [rpc EXCEPT ![p] = "idle"] /\ UNCHANGED taskVars
    BY <2>2 DEF taskVars, HolderOwns, ReadersCurrent, Open, JobState
  <2>3. QED
    BY <1>16, <2>1, <2>2 DEF ResumeOk, ResumeFails, etags
<1>17. ASSUME NEW p \in Replicas, Handoff(p) \/ Crash(p) PROVE HolderOwns' /\ ReadersCurrent'
  <2>1. /\ rpc' = [rpc EXCEPT ![p] = "idle"]
        /\ pc'[p] = "idle" \/ pc'[p] = "read"
        /\ \A q \in Replicas \ {p} : pc'[q] = pc[q] /\ own'[q] = own[q]
    BY <1>17 DEF Handoff, Crash, NewTask, EndTask, Goto, TasksOK
  <2>2. CASE Drop(p)
    BY <2>1, <2>2 DEF Drop, HolderOwns, ReadersCurrent, Open, JobState, Claimed
  <2>3. CASE \E new : Apply(new, {}, {})
    BY <1>1, <2>3
  <2>4. QED
    BY <1>17, <2>2, <2>3 DEF Handoff, Crash, CutOff
<1>18. QED
  BY <1>4, <1>5, <1>6, <1>7, <1>8, <1>9, <1>10, <1>11, <1>12, <1>13, <1>14, <1>15, <1>16, <1>17
     DEF Next, Task, Poll, Resume, Failure
-----------------------------------------------------------------------------
(* The invariant holds initially and is kept by every step.                *)
LEMMA ExecutionInvInit == Init => ExecutionInv
<1> SUFFICES ASSUME Init PROVE ExecutionInv
  OBVIOUS
<1> USE ExecutionAssumption DEF Init
<1>1. TypeOK
  <2>1. 0 \in 0 .. MaxAttempts /\ 1 \in 1 .. Drives
    OBVIOUS
  <2>2. rec \in Record
    BY <2>1 DEF Record
  <2>3. QED
    BY <2>1, <2>2 DEF TypeOK
<1>2. QED
  BY <1>1 DEF ExecutionInv, HolderOwns, SucceededHasReport, QueuedRunnable, ReadersCurrent,
              Tokens, Claimed

LEMMA ExecutionInvStep == ExecutionInv /\ [Next]_vars => ExecutionInv'
<1> SUFFICES ASSUME ExecutionInv, [Next]_vars PROVE ExecutionInv'
  OBVIOUS
<1>1. CASE Next
  <2>1. SharedOK /\ TasksOK' /\ rpc' \in [Replicas -> {"idle", "write", "handoff"}]
        /\ HolderOwns' /\ ReadersCurrent'
    BY <1>1, SharedStep, TasksStep, HoldersStep
  <2>2. TypeOK'
    BY <2>1 DEF SharedOK, Sound, TasksOK, TypeOK
  <2>3. SucceededHasReport' /\ QueuedRunnable'
    BY <2>1 DEF SharedOK, Sound, SucceededHasReport, QueuedRunnable
  <2>4. QED
    BY <2>1, <2>2, <2>3 DEF ExecutionInv, TasksOK
<1>2. CASE UNCHANGED vars
  <2> USE <1>2 DEF vars, taskVars, handlerVars, etags
  <2>1. TypeOK' /\ SucceededHasReport' /\ QueuedRunnable'
    BY DEF ExecutionInv, TypeOK, SucceededHasReport, QueuedRunnable
  <2>2. HolderOwns' /\ ReadersCurrent' /\ Tokens'
    BY DEF ExecutionInv, HolderOwns, ReadersCurrent, Open, JobState, Tokens
  <2>3. QED
    BY <2>1, <2>2 DEF ExecutionInv
<1>3. QED
  BY <1>1, <1>2

LEMMA ExecutionAlways == Spec => []ExecutionInv
  BY ExecutionInvInit, ExecutionInvStep, PTL DEF Spec

(* The types, with attempts within _MAX_EXECUTION_ATTEMPTS and claim turns *)
(* within _CLAIM_DRIVE_ATTEMPTS.                                           *)
THEOREM ExecutionTypeCorrect == Spec => []TypeOK
<1>1. ExecutionInv => TypeOK
  BY DEF ExecutionInv
<1>2. QED
  BY <1>1, ExecutionAlways, PTL

(* The lease fences: the only task whose outcome can be written is the one *)
(* the running record names, and there is one at most.                     *)
THEOREM LeaseFences == Spec => []LeaseFenced
<1>1. ExecutionInv => LeaseFenced
  <2> SUFFICES ASSUME ExecutionInv PROVE HolderOwns /\ OneWriter
    BY DEF LeaseFenced
  <2>1. \A p \in Replicas : p \in hold /\ pc[p] \in Claimed => own[p] = rec.owner /\ own[p] \in Owners
    BY DEF ExecutionInv, HolderOwns, Tokens, Claimed
  <2>2. QED
    BY <2>1 DEF ExecutionInv, OneWriter, Tokens
<1>2. QED
  BY <1>1, ExecutionAlways, PTL

(* A succeeded job names a stored report, a queued one can be claimed.     *)
THEOREM OutcomesSound == Spec => []RecordSound
<1>1. ExecutionInv => RecordSound
  BY DEF ExecutionInv, RecordSound
<1>2. QED
  BY <1>1, ExecutionAlways, PTL

-----------------------------------------------------------------------------
(* The refinement of PaidJob: a write that follows the last record is a    *)
(* step of its Work.                                                       *)
LEMMA MappedState == JobState = StateOf(rec) /\ JobState' = StateOf(rec')
  BY DEF JobState, StateOf

LEMMA FollowsIsWork == Follows(rec') => [Job!Work]_(Job!vars)
<1> SUFFICES ASSUME Follows(rec') PROVE [Job!Work]_(Job!vars)
  OBVIOUS
<1>1. CASE rec' = rec
  BY <1>1 DEF Job!vars, JobState
<1>2. CASE Taken(rec')
  <2>1. Job!Claim
    BY <1>2, MappedState DEF Taken, Open, Job!Claim, Job!AttemptLeft, Job!money
  <2>2. QED
    BY <2>1 DEF Job!Work
<1>3. CASE Requeued(rec')
  <2>1. Job!Requeue
    BY <1>3, MappedState DEF Requeued, Open, Job!Requeue, Job!AttemptLeft, Job!money
  <2>2. QED
    BY <2>1 DEF Job!Work
<1>4. CASE Failed(rec')
  <2>1. Job!Fail
    BY <1>4, MappedState DEF Failed, Job!Fail, Job!money
  <2>2. QED
    BY <2>1 DEF Job!Work
<1>5. CASE Succeeded(rec')
  <2>1. Job!Succeed
    BY <1>5, MappedState DEF Succeeded, Job!Succeed, Job!money
  <2>2. QED
    BY <2>1 DEF Job!Work
<1>6. QED
  BY <1>1, <1>2, <1>3, <1>4, <1>5 DEF Follows

(* Whatever replicas, handlers and crashes do, the record goes through the *)
(* life PaidJob promises: success and a final failure are never left, each *)
(* lease is counted, and the report of a success is its worker's.          *)
THEOREM ExecutionImplementsWork == Spec => ImplementsPaidWork
<1>1. Init => Job!Queued
  BY DEF Init, JobState, Job!Queued
<1>2. ExecutionInv /\ [Next]_vars => [Job!Work]_(Job!vars)
  <2> SUFFICES ASSUME ExecutionInv, [Next]_vars PROVE [Job!Work]_(Job!vars)
    OBVIOUS
  <2>1. CASE Next
    BY <2>1, SharedStep, FollowsIsWork DEF SharedOK
  <2>2. CASE UNCHANGED vars
    BY <2>2 DEF vars, Job!vars, JobState
  <2>3. QED
    BY <2>1, <2>2
<1>3. QED
  BY <1>1, <1>2, ExecutionAlways, PTL
     DEF Spec, ImplementsPaidWork, Job!WorkSpec
=============================================================================
