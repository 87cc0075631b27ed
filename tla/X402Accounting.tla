--------------------------- MODULE X402Accounting ---------------------------
(***************************************************************************)
(* Competition accounting of one job (x402_job_service.py): once the job   *)
(* is settled and has left settling, every request handler that meets it   *)
(* looks for the durable accounting marker and, when there is none, starts *)
(* one background task per replica that reports the event and then creates *)
(* the marker with If-None-Match.  Reports may be lost, or accepted        *)
(* without an answer; the receiver deduplicates by event id.  The names    *)
(* differ from those of X402Settlement, with which this module is composed.*)
(***************************************************************************)
EXTENDS Integers, FiniteSets

CONSTANTS Replicas,     \* processes of the runtime
          Attempts,     \* accounting_retry_attempts
          Posts,        \* max_attempts of CompetitionReporter
          MaxLosses     \* bound on crashes, store errors and failed deliveries

ASSUME AccountingAssumption ==
    /\ Attempts \in Nat \ {0}
    /\ Posts \in Nat \ {0}
    /\ MaxLosses \in Nat

VARIABLES
    due,       \* the record is settled and no longer settling
    marker,    \* the accounting marker exists
    accepted,  \* the receiver has accepted the event
    saw,       \* replicas with a handler that found no marker
    task,      \* where the accounting task of each replica is
    turns,     \* its attempts so far
    posts,     \* the POSTs of its current report
    losses     \* faults left

accountingVars == <<due, marker, accepted, saw, task, turns, posts, losses>>

AccountingInit ==
    /\ due = FALSE /\ marker = FALSE /\ accepted = FALSE
    /\ saw = {}
    /\ task = [p \in Replicas |-> "idle"]
    /\ turns = [p \in Replicas |-> 0]
    /\ posts = [p \in Replicas |-> 0]
    /\ losses = MaxLosses

Loss == losses > 0 /\ losses' = losses - 1

\* X402Settlement queues the job.
Settle ==
    /\ ~due
    /\ due' = TRUE
    /\ UNCHANGED <<marker, accepted, saw, task, turns, posts, losses>>

\* _accounting_is_pending
Pending == due

\* _redrive_accounting of a handler: no marker, or a read of it that failed.
Redrive(p) ==
    /\ Pending /\ p \notin saw
    /\ \/ ~marker /\ UNCHANGED losses
       \/ Loss
    /\ saw' = saw \cup {p}
    /\ UNCHANGED <<due, marker, accepted, task, turns, posts>>

\* _spawn_accounting: at most one active task on a replica.
SpawnAccounting(p) ==
    /\ p \in saw
    /\ saw' = saw \ {p}
    /\ IF task[p] = "idle"
       THEN /\ task' = [task EXCEPT ![p] = "read"]
            /\ turns' = [turns EXCEPT ![p] = 1]
       ELSE UNCHANGED <<task, turns>>
    /\ UNCHANGED <<due, marker, accepted, posts, losses>>

-----------------------------------------------------------------------------
(* _run_accounting                                                         *)

TaskAt(p, where) == task' = [task EXCEPT ![p] = where]

End(p) ==
    /\ TaskAt(p, "idle")
    /\ turns' = [turns EXCEPT ![p] = 0]
    /\ posts' = [posts EXCEPT ![p] = 0]

\* Faulty variant: one attempt too many.
NextAttemptOnceMore(p) ==
    IF turns[p] <= Attempts
    THEN /\ TaskAt(p, "read")
         /\ turns' = [turns EXCEPT ![p] = @ + 1]
         /\ posts' = [posts EXCEPT ![p] = 0]
    ELSE End(p)

\* The next turn of the loop, or its end after the last.
NextAttempt(p) ==
    IF turns[p] < Attempts
    THEN /\ TaskAt(p, "read")
         /\ turns' = [turns EXCEPT ![p] = @ + 1]
         /\ posts' = [posts EXCEPT ![p] = 0]
    ELSE End(p)

\* The record and the marker are read; with a marker there is nothing to do.
ReadState(p) ==
    /\ task[p] = "read"
    /\ IF ~Pending \/ marker
       THEN End(p)
       ELSE TaskAt(p, "post") /\ UNCHANGED <<turns, posts>>
    /\ UNCHANGED <<due, marker, accepted, saw, losses>>

\* The report is accepted and answered.
PostAccepted(p) ==
    /\ task[p] = "post"
    /\ accepted' = TRUE
    /\ TaskAt(p, "mark")
    /\ UNCHANGED <<due, marker, saw, turns, posts, losses>>

\* Faulty variant: a delivery that failed counts as done.
PostFailsSilently(p) ==
    /\ task[p] = "post" /\ Loss
    /\ TaskAt(p, "mark")
    /\ UNCHANGED <<due, marker, accepted, saw, turns, posts>>

\* A 5xx or no answer: delivered or not; posted again while POSTs are left.
PostFails(p) ==
    /\ task[p] = "post" /\ Loss
    /\ accepted' \in {accepted, TRUE}
    /\ IF posts[p] + 1 < Posts
       THEN posts' = [posts EXCEPT ![p] = @ + 1] /\ UNCHANGED <<task, turns>>
       ELSE NextAttempt(p)
    /\ UNCHANGED <<due, marker, saw>>

\* A 4xx: not accepted, and not posted again in this attempt.
PostRefused(p) ==
    /\ task[p] = "post" /\ Loss
    /\ NextAttempt(p)
    /\ UNCHANGED <<due, marker, accepted, saw>>

\* Faulty variant: the task ends after the report and leaves no marker.
CreateMarkerForgotten(p) ==
    /\ task[p] = "mark"
    /\ End(p)
    /\ UNCHANGED <<due, marker, accepted, saw, losses>>

\* create_accounting_marker: created, or found.
CreateMarker(p) ==
    /\ task[p] = "mark"
    /\ marker' = TRUE
    /\ End(p)
    /\ UNCHANGED <<due, accepted, saw, losses>>

\* An error of a read, or of the marker's PUT, applied or not.
StoreFails(p) ==
    /\ task[p] \in {"read", "mark"} /\ Loss
    /\ marker' \in {marker, marker \/ task[p] = "mark"}
    /\ NextAttempt(p)
    /\ UNCHANGED <<due, accepted, saw>>

\* The process dies; a POST or a PUT under way may arrive.
Crash(p) ==
    /\ task[p] # "idle" \/ p \in saw
    /\ Loss
    /\ accepted' \in {accepted, accepted \/ task[p] = "post"}
    /\ marker' \in {marker, marker \/ task[p] = "mark"}
    /\ saw' = saw \ {p}
    /\ End(p)
    /\ UNCHANGED due

Task(p) == ReadState(p) \/ PostAccepted(p) \/ CreateMarker(p)

Failure(p) == PostFails(p) \/ PostRefused(p) \/ StoreFails(p) \/ Crash(p)

AccountingNext ==
    \/ Settle
    \/ \E p \in Replicas : Redrive(p) \/ SpawnAccounting(p) \/ Task(p) \/ Failure(p)

AccountingSpec == AccountingInit /\ [][AccountingNext]_accountingVars

\* A task's awaits end, and the buyer goes on polling.
AccountingFairSpec ==
    /\ AccountingSpec
    /\ \A p \in Replicas : WF_accountingVars(Task(p)) /\ WF_accountingVars(Redrive(p) \/ SpawnAccounting(p))

-----------------------------------------------------------------------------
(* What must hold.                                                         *)

\* The types; the loops stay within their bounds.
AccountingTypeOK ==
    /\ due \in BOOLEAN /\ marker \in BOOLEAN /\ accepted \in BOOLEAN
    /\ saw \subseteq Replicas
    /\ task \in [Replicas -> {"idle", "read", "post", "mark"}]
    /\ turns \in [Replicas -> 0 .. Attempts]
    /\ posts \in [Replicas -> 0 .. Posts - 1]
    /\ losses \in Nat

\* The marker, which stops every later report, is only there when the receiver
\* has the event, however many replicas report and fail; and the event is only
\* reported once the job is settled and has left settling.
MarkerMeansDelivered == /\ marker => accepted
                        /\ accepted => due

\* What makes it inductive: a task past its read knows that the event is due, one
\* past its report that the receiver has it.
TasksInformed ==
    \A p \in Replicas : /\ task[p] \in {"post", "mark"} => due
                        /\ task[p] = "mark" => accepted

\* At-least-once delivery: while the buyer polls, a settled job is reported.
EventuallyReported == due ~> marker /\ accepted
=============================================================================
