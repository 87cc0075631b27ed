------------------------------ MODULE PaidJob ------------------------------
(***************************************************************************)
(* What the paid job service promises: the life of one job as its buyer    *)
(* sees it, without handlers, leases, retries or crashes.  A buyer is      *)
(* charged once, only for a job that is open, and then gets work for it; a *)
(* job turned away was not charged.  Paid work is done by one worker at a  *)
(* time, each claim costs an attempt, and the report of a success is that  *)
(* of the worker who had the job.  X402Settlement implements this module   *)
(* up to the first claim, X402Execution from the queue on.                 *)
(***************************************************************************)
EXTENDS Integers

CONSTANTS MaxAttempts,  \* claims a job may cost
          Workers,
          Nobody

VARIABLES state,     \* absent, settling, paid, unpaid, queued, running, failed, over, succeeded
          charged,   \* the buyer's money has moved
          paidAt,    \* when the service took note of that, 0 before
          attempts,
          worker,    \* who has the job
          report     \* whose report is the job's

vars == <<state, charged, paidAt, attempts, worker, report>>
money == <<charged, paidAt>>
work == <<attempts, worker, report>>

Init ==
    /\ state = "absent" /\ charged = FALSE /\ paidAt = 0
    /\ attempts = 0 /\ worker = Nobody /\ report = Nobody

-----------------------------------------------------------------------------
(* The payment.                                                            *)

Open == state = "absent" /\ state' = "settling" /\ UNCHANGED <<money, work>>

Charge ==
    /\ state = "settling" /\ ~charged
    /\ charged' = TRUE
    /\ UNCHANGED <<state, paidAt, work>>

Accept ==
    /\ state = "settling" /\ charged
    /\ state' = "paid" /\ paidAt' \in Nat \ {0}
    /\ UNCHANGED <<charged, work>>

TurnAway ==
    /\ state = "settling" /\ ~charged
    /\ state' = "unpaid"
    /\ UNCHANGED <<money, work>>

Queue == state = "paid" /\ state' = "queued" /\ UNCHANGED <<money, work>>

Payment == Open \/ Charge \/ Accept \/ TurnAway \/ Queue

-----------------------------------------------------------------------------
(* The work.  A failed job may be tried again, one that is over may not.   *)

AttemptLeft == attempts < MaxAttempts

Claim ==
    /\ state \in {"queued", "running", "failed"} /\ AttemptLeft
    /\ state' = "running"
    /\ attempts' = attempts + 1
    /\ worker' \in Workers \ {worker}
    /\ UNCHANGED <<money, report>>

Requeue ==
    /\ state \in {"running", "failed"} /\ AttemptLeft
    /\ state' = "queued" /\ worker' = Nobody
    /\ UNCHANGED <<money, attempts, report>>

Fail ==
    /\ state = "running"
    /\ state' \in {"failed", "over"} /\ worker' = Nobody
    /\ UNCHANGED <<money, attempts, report>>

Succeed ==
    /\ state = "running"
    /\ state' = "succeeded" /\ worker' = Nobody /\ report' = worker
    /\ UNCHANGED <<money, attempts>>

Work == Claim \/ Requeue \/ Fail \/ Succeed

Spec == Init /\ [][Payment \/ Work]_vars

-----------------------------------------------------------------------------
\* The part from the queue on, for a job that has been paid.
Queued ==
    /\ state = "queued" /\ charged = TRUE /\ paidAt \in Nat \ {0}
    /\ attempts = 0 /\ worker = Nobody /\ report = Nobody

WorkSpec == Queued /\ [][Work]_vars
=============================================================================
