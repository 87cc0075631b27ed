------------------------- MODULE WalletRateLimiter -------------------------
(***************************************************************************)
(* The per-wallet admission record of x402_wallet_rate_limit.py: one S3    *)
(* object holds the reservations of one wallet, and any number of request  *)
(* handlers, on any replica, change it by read, local edit and conditional *)
(* PUT.  A handler may be cancelled or its process may die at every await, *)
(* and a PUT whose answer is an error may still have been applied.         *)
(*                                                                         *)
(* The list of entries is a set (the code depends on its order nowhere),   *)
(* and the ETag is the content: a conditional PUT applies when the object  *)
(* still holds what the handler read.                                      *)
(***************************************************************************)
EXTENDS Integers, FiniteSets

CONSTANTS Callers,      \* concurrent limiter calls
          Ids,          \* reservation ids (job ids) of this wallet
          NoId,         \* no reservation id
          Capacity,     \* _CAPACITY
          Window,       \* _WINDOW_MILLISECONDS, in clock ticks
          Second,       \* clock ticks in a second
          MaxAttempts,  \* max_attempts of the limiter
          MaxDelay,     \* longest time one attempt takes, in clock ticks
          MaxTime,      \* bound on the clock
          MaxHanded     \* bound on the reservations handed out or asked for

ASSUME LimiterAssumption ==
    /\ NoId \notin Ids
    /\ Capacity \in Nat \ {0}
    /\ Window \in Nat \ {0}
    /\ Second \in Nat \ {0}
    /\ MaxAttempts \in Nat \ {0}
    /\ MaxDelay \in Nat
    /\ MaxTime \in Nat
    /\ MaxHanded \in Nat

VARIABLES
    clock,      \* the wall clock of every replica
    stored,     \* the S3 object: exists, entries
    pc,         \* where each call is
    op,         \* reserve, commit, release or confirm
    tgt,        \* the reservation a call is about; at = 0 while reserving
    now,        \* the call's last clock reading
    snap,       \* the object as the call read it
    attempt,    \* the loop's attempt, from 1
    wait,       \* retry_after_seconds after a refusal (a refused call keeps
                \* its last clock reading and snapshot until its next call)
    \* history, never read by the code
    handed,     \* reservations returned with created_by_caller = True
    releases,   \* reservations whose release was called
    commits,    \* reservations whose commit was called
    committed   \* reservations whose commit returned normally

callVars == <<pc, op, tgt, now, snap, attempt, wait>>
histVars == <<handed, releases, commits, committed>>
vars == <<clock, stored, callVars, histVars>>

Entry == [id : Ids, at : Nat, st : {"reserved", "committed"}]
Reservation == [id : Ids, at : Nat]
Object == [exists : BOOLEAN, entries : SUBSET Entry]
NoObject == [exists |-> FALSE, entries |-> {}]
NoTarget == [id |-> NoId, at |-> 0]

Init ==
    /\ clock = 1
    /\ stored = NoObject
    /\ pc = [c \in Callers |-> "idle"]
    /\ op = [c \in Callers |-> "none"]
    /\ tgt = [c \in Callers |-> NoTarget]
    /\ now = [c \in Callers |-> 0]
    /\ snap = [c \in Callers |-> NoObject]
    /\ attempt = [c \in Callers |-> 1]
    /\ wait = [c \in Callers |-> 0]
    /\ handed = {} /\ releases = {} /\ commits = {} /\ committed = {}

-----------------------------------------------------------------------------
(* The pure parts.                                                         *)

\* Faulty variant: an entry leaves the window a tick early.
ActiveTooShort(es, t) == {e \in es : e.at > t - Window + 1}

\* _active_entries
Active(es, t) == {e \in es : e.at > t - Window}

\* _reservation_is_active
IsActive(r, t) == r.at > t - Window

\* The entry of a reservation: same id and same reservedAt.
Matching(es, r) == {e \in es : e.id = r.id /\ e.at = r.at}

\* Faulty variant: the wait is rounded down.
RetryAfterFloor(oldest, t) ==
    LET secs == (oldest + Window - t) \div Second
    IN IF secs > 1 THEN secs ELSE 1

\* retry_after: whole seconds from t until an entry of that age expires.
RetryAfter(oldest, t) ==
    LET secs == (oldest + Window - t + Second - 1) \div Second
    IN IF secs > 1 THEN secs ELSE 1

\* reserve admits a new id while the window holds fewer than _CAPACITY.
Room(es) == Cardinality(es) < Capacity

\* The entries reserve writes back; with the id present it only prunes.
ReserveTarget(es, id, t) ==
    IF \E e \in Active(es, t) : e.id = id
    THEN Active(es, t)
    ELSE Active(es, t) \cup {[id |-> id, at |-> t, st |-> "reserved"]}

\* Faulty variant: a commit that only prunes.
CommitTargetPruning(es, r, t) == Active(es, t)

CommitTarget(es, r, t) ==
    (Active(es, t) \ Matching(es, r))
        \cup {[e EXCEPT !.st = "committed"] : e \in Matching(Active(es, t), r)}

ReleaseTarget(es, r, t) == Active(es, t) \ Matching(es, r)

Target(c) ==
    CASE op[c] = "reserve" -> ReserveTarget(snap[c].entries, tgt[c].id, now[c])
      [] op[c] = "commit"  -> CommitTarget(snap[c].entries, tgt[c], now[c])
      [] op[c] = "release" -> ReleaseTarget(snap[c].entries, tgt[c], now[c])

-----------------------------------------------------------------------------
(* Control of one call.                                                    *)

Return(c) ==
    /\ pc' = [pc EXCEPT ![c] = "idle"]
    /\ wait' = [wait EXCEPT ![c] = 0]
    /\ now' = [now EXCEPT ![c] = 0]
    /\ snap' = [snap EXCEPT ![c] = NoObject]
    /\ attempt' = [attempt EXCEPT ![c] = 1]
    /\ tgt' = [tgt EXCEPT ![c] = NoTarget]
    /\ op' = [op EXCEPT ![c] = "none"]

Goto(c, where) ==
    /\ pc' = [pc EXCEPT ![c] = where]
    /\ UNCHANGED <<op, tgt, wait, attempt>>

\* Faulty variant: one attempt too many.
NextAttemptOnceMore(c) ==
    IF attempt[c] <= MaxAttempts
    THEN /\ pc' = [pc EXCEPT ![c] = "loop"]
         /\ attempt' = [attempt EXCEPT ![c] = @ + 1]
         /\ now' = [now EXCEPT ![c] = 0]
         /\ snap' = [snap EXCEPT ![c] = NoObject]
         /\ UNCHANGED <<op, tgt, wait>>
    ELSE Return(c)

\* The next turn of the loop, or WalletRateLimitUnavailable after the last.
NextAttempt(c) ==
    IF attempt[c] < MaxAttempts
    THEN /\ pc' = [pc EXCEPT ![c] = "loop"]
         /\ attempt' = [attempt EXCEPT ![c] = @ + 1]
         /\ now' = [now EXCEPT ![c] = 0]
         /\ snap' = [snap EXCEPT ![c] = NoObject]
         /\ UNCHANGED <<op, tgt, wait>>
    ELSE Return(c)

Start(c, o, r) ==
    /\ pc[c] = "idle"
    /\ pc' = [pc EXCEPT ![c] = "loop"]
    /\ op' = [op EXCEPT ![c] = o]
    /\ tgt' = [tgt EXCEPT ![c] = r]
    /\ wait' = [wait EXCEPT ![c] = 0]
    /\ now' = [now EXCEPT ![c] = 0]
    /\ snap' = [snap EXCEPT ![c] = NoObject]
    /\ attempt' = [attempt EXCEPT ![c] = 1]

Done(o, c, r) == IF op[c] = o THEN {r} ELSE {}

\* Calls.  The job service commits a reservation only when its payment is
\* settled and releases it only when its payment failed, so never both.
StartReserve(c, id) ==
    /\ Cardinality(handed) + Cardinality({d \in Callers : op[d] = "reserve"}) < MaxHanded
    /\ Start(c, "reserve", [id |-> id, at |-> 0])
    /\ UNCHANGED <<clock, stored, histVars>>

StartCommit(c, h) ==
    LET r == [id |-> h.id, at |-> h.at] IN
    /\ r \notin releases
    /\ Start(c, "commit", r)
    /\ commits' = commits \cup {r}
    /\ UNCHANGED <<clock, stored, handed, releases, committed>>

StartRelease(c, h) ==
    LET r == [id |-> h.id, at |-> h.at] IN
    /\ r \notin commits
    /\ Start(c, "release", r)
    /\ releases' = releases \cup {r}
    /\ UNCHANGED <<clock, stored, handed, commits, committed>>

StartConfirm(c, h) ==
    /\ Start(c, "confirm", [id |-> h.id, at |-> h.at])
    /\ UNCHANGED <<clock, stored, histVars>>

\* now = self._now(), before the read it is used with.
TakeNow(c) ==
    /\ pc[c] = "loop"
    /\ \/ /\ op[c] = "confirm" /\ ~IsActive(tgt[c], clock)
          /\ Return(c)
       \/ /\ op[c] = "confirm" => IsActive(tgt[c], clock)
          /\ now' = [now EXCEPT ![c] = clock]
          /\ Goto(c, IF op[c] = "confirm" THEN "check" ELSE "read")
          /\ UNCHANGED snap
    /\ UNCHANGED <<clock, stored, histVars>>

\* reserve: the read and the decision taken on it.
ReserveRead(c) ==
    LET act == Active(stored.entries, now[c])
        known == \E e \in act : e.id = tgt[c].id
    IN
    /\ pc[c] = "read" /\ op[c] = "reserve"
    /\ \/ /\ known /\ act = stored.entries
          /\ Return(c)
       \/ /\ ~known /\ ~Room(act)
          /\ pc' = [pc EXCEPT ![c] = "idle"]
          /\ \E oldest \in act :
                /\ \A e \in act : oldest.at <= e.at
                /\ wait' = [wait EXCEPT ![c] = RetryAfter(oldest.at, now[c])]
          /\ snap' = [snap EXCEPT ![c] = stored]
          /\ attempt' = [attempt EXCEPT ![c] = 1]
          /\ tgt' = [tgt EXCEPT ![c] = NoTarget]
          /\ op' = [op EXCEPT ![c] = "none"]
          /\ UNCHANGED now
       \/ /\ IF known THEN act # stored.entries ELSE Room(act)
          /\ snap' = [snap EXCEPT ![c] = stored]
          /\ Goto(c, "write")
          /\ UNCHANGED now
    /\ UNCHANGED <<clock, stored, histVars>>

\* _mutate: a commit that finds its entry missing inside the window fails, one
\* that finds it missing after the window succeeds; a release of a missing
\* entry still writes the pruned list back; no write when nothing changes,
\* and so none when there is no object.
MutateRead(c) ==
    LET found == Matching(Active(stored.entries, now[c]), tgt[c]) # {}
        lost == op[c] = "commit" /\ ~found
        same == stored.entries =
                  IF op[c] = "commit"
                  THEN CommitTarget(stored.entries, tgt[c], now[c])
                  ELSE ReleaseTarget(stored.entries, tgt[c], now[c])
    IN
    /\ pc[c] = "read" /\ op[c] \in {"commit", "release"}
    /\ \/ /\ lost /\ IsActive(tgt[c], now[c])
          /\ Return(c)
          /\ UNCHANGED committed
       \/ /\ IF lost THEN ~IsActive(tgt[c], now[c]) ELSE same
          /\ Return(c)
          /\ committed' = committed \cup Done("commit", c, tgt[c])
       \/ /\ ~lost /\ ~same
          /\ snap' = [snap EXCEPT ![c] = stored]
          /\ Goto(c, "write")
          /\ UNCHANGED <<now, committed>>
    /\ UNCHANGED <<clock, stored, handed, releases, commits>>

\* Faulty variant: a PUT without If-Match or If-None-Match.
PreconditionIgnored(c) == TRUE

\* The If-Match / If-None-Match condition of the PUT.
PreconditionHolds(c) == stored = snap[c]

Put(c) == stored' = [exists |-> TRUE, entries |-> Target(c)]

\* The PUT is applied and answered.  A reserve that only pruned returns the
\* entry it found, created_by_caller = False.
WriteOk(c) ==
    LET known == \E e \in Active(snap[c].entries, now[c]) : e.id = tgt[c].id IN
    /\ pc[c] = "write"
    /\ PreconditionHolds(c)
    /\ Put(c)
    /\ Return(c)
    /\ handed' = IF op[c] = "reserve" /\ ~known
                 THEN handed \cup {[id |-> tgt[c].id, at |-> now[c],
                                    by |-> c, wrote |-> clock]}
                 ELSE handed
    /\ committed' = committed \cup Done("commit", c, tgt[c])
    /\ UNCHANGED <<clock, releases, commits>>

\* JobConflict: the object changed, S3 answered 409 twice, or the client
\* library repeated a PUT that had been applied and the repetition got 412.
WriteConflict(c) ==
    /\ pc[c] = "write"
    /\ \/ UNCHANGED stored
       \/ PreconditionHolds(c) /\ Put(c)
    /\ NextAttempt(c)
    /\ UNCHANGED <<clock, histVars>>

\* Any other failure of the PUT, applied or not.  reserve and release give up,
\* commit reads its own write back (_read_commit_state takes a new clock
\* reading first).
WriteError(c) ==
    /\ pc[c] = "write"
    /\ \/ UNCHANGED stored
       \/ PreconditionHolds(c) /\ Put(c)
    /\ \/ /\ op[c] # "commit"
          /\ Return(c)
          /\ UNCHANGED committed
       \/ /\ op[c] = "commit" /\ ~IsActive(tgt[c], clock)
          /\ Return(c)
          /\ committed' = committed \cup {tgt[c]}
       \/ /\ op[c] = "commit" /\ IsActive(tgt[c], clock)
          /\ now' = [now EXCEPT ![c] = clock]
          /\ snap' = [snap EXCEPT ![c] = NoObject]
          /\ Goto(c, "check")
          /\ UNCHANGED committed
    /\ UNCHANGED <<clock, handed, releases, commits>>

\* _read_commit_state, for confirm and for commit after a failed PUT.
ReadCommitState(c) ==
    LET states == {e.st : e \in Matching(Active(stored.entries, now[c]), tgt[c])} IN
    /\ pc[c] = "check"
    /\ \/ /\ states = {} \/ (op[c] = "confirm" /\ states # {"reserved"})
          /\ Return(c)
          /\ UNCHANGED committed
       \/ /\ op[c] = "confirm" /\ states = {"reserved"}
          /\ Return(c)
          /\ UNCHANGED committed
       \/ /\ op[c] = "commit" /\ states = {"committed"}
          /\ Return(c)
          /\ committed' = committed \cup {tgt[c]}
       \/ /\ op[c] = "commit" /\ states = {"reserved"}
          /\ NextAttempt(c)
          /\ UNCHANGED committed
    /\ UNCHANGED <<clock, stored, handed, releases, commits>>

\* A read that fails for any reason other than a missing object.
ReadError(c) ==
    /\ pc[c] \in {"read", "check"}
    /\ Return(c)
    /\ UNCHANGED <<clock, stored, histVars>>

\* Cancellation or death of the caller's process; a PUT under way runs in a
\* thread of its own and may be applied.
Abandon(c) ==
    /\ pc[c] # "idle"
    /\ \/ UNCHANGED stored
       \/ pc[c] = "write" /\ PreconditionHolds(c) /\ Put(c)
    /\ Return(c)
    /\ UNCHANGED <<clock, histVars>>

\* Time passes; no attempt outlives MaxDelay.
Tick ==
    /\ clock < MaxTime
    /\ \A c \in Callers : pc[c] \in {"read", "write", "check"} => clock < now[c] + MaxDelay
    /\ clock' = clock + 1
    /\ UNCHANGED <<stored, callVars, histVars>>

Begin(c) ==
    \/ \E id \in Ids : StartReserve(c, id)
    \/ \E h \in handed : StartCommit(c, h) \/ StartRelease(c, h) \/ StartConfirm(c, h)

Step(c) ==
    \/ TakeNow(c) \/ ReserveRead(c) \/ MutateRead(c) \/ ReadCommitState(c) \/ ReadError(c)
    \/ WriteOk(c) \/ WriteConflict(c) \/ WriteError(c)

Next == Tick \/ \E c \in Callers : Begin(c) \/ Step(c) \/ Abandon(c)

Spec == Init /\ [][Next]_vars
-----------------------------------------------------------------------------
(* What must hold.                                                         *)

CallTypeOK ==
    /\ pc \in [Callers -> {"idle", "loop", "read", "write", "check"}]
    /\ op \in [Callers -> {"none", "reserve", "commit", "release", "confirm"}]
    /\ tgt \in [Callers -> Reservation \cup {NoTarget}]
    /\ now \in [Callers -> Nat]
    /\ snap \in [Callers -> Object]
    /\ attempt \in [Callers -> 1 .. MaxAttempts]
    /\ wait \in [Callers -> Nat]

HistTypeOK ==
    /\ handed \subseteq [id : Ids, at : Nat, by : Callers, wrote : Nat]
    /\ releases \subseteq Reservation
    /\ commits \subseteq Reservation
    /\ committed \subseteq Reservation

\* The types; a call past "loop" has a target, and no call is at more than
\* its last attempt (_mutate and reserve count attempts, confirm has one).
TypeOK ==
    /\ clock \in Nat
    /\ stored \in Object
    /\ CallTypeOK
    /\ HistTypeOK
    /\ \A c \in Callers : pc[c] # "idle" => tgt[c] \in Reservation /\ op[c] # "none"
    /\ \A c \in Callers : pc[c] = "write" => op[c] # "confirm"

ReservationOf(h) == [id |-> h.id, at |-> h.at]

\* A reservation some caller was given as its creator, still inside its
\* window and never released, is in the durable record: no concurrent
\* read-edit-PUT, no pruning and no failed answer loses it.
GrantBacked ==
    \A h \in handed :
        IsActive(h, clock) /\ ReservationOf(h) \notin releases
            => Matching(stored.entries, h) # {}

\* Of all the callers that hold an unexpired, unreleased reservation for one
\* job id, one is its creator: two handlers never both go on to create and
\* settle the same job on the strength of created_by_caller.
OneCreator ==
    \A g, h \in handed :
        /\ g.id = h.id
        /\ \A x \in {g, h} : IsActive(x, clock) /\ ReservationOf(x) \notin releases
        => g = h

\* commit() returned: while the reservation is inside its window the record
\* says committed, even when the PUT's answer was an error.
CommitDurable ==
    \A r \in committed :
        IsActive(r, clock)
            => {e.st : e \in Matching(stored.entries, r)} = {"committed"}

\* What callers of the limiter rely on, whatever conflicts, fails or dies: grants
\* stay, each has one creator, and commits that returned are durable.
AdmissionsKept == GrantBacked /\ OneCreator /\ CommitDurable

\* The inductive invariant behind the three: clock readings are never ahead,
\* and what the history says about commits and releases agrees with the calls.
Discipline ==
    /\ \A c \in Callers : now[c] <= clock
    /\ commits \cap releases = {}
    /\ committed \subseteq commits
    /\ \A c \in Callers : op[c] = "release" => tgt[c] \in releases
    /\ \A c \in Callers : op[c] = "commit" => tgt[c] \in commits
    /\ \A c \in Callers : pc[c] = "write" /\ op[c] = "commit"
           => Matching(Active(snap[c].entries, now[c]), tgt[c]) # {}

\* A call that has read its clock is no older than one attempt, and one that is
\* about to admit a new id found room for it.
Timely ==
    \A c \in Callers : pc[c] \in {"read", "write", "check"} => clock <= now[c] + MaxDelay

RoomSeen ==
    \A c \in Callers : pc[c] = "write" /\ op[c] = "reserve" =>
        \/ \E e \in Active(snap[c].entries, now[c]) : e.id = tgt[c].id
        \/ Cardinality(Active(snap[c].entries, now[c])) < Capacity

\* Two entries of the record have different ids.
UniqueIds == \A d, e \in stored.entries : d.id = e.id => d = e

\* The record holds at most Capacity entries, a grant was written within one
\* attempt of its reservedAt, and a refused call is over.
WithinCapacity == IsFiniteSet(stored.entries) /\ Cardinality(stored.entries) <= Capacity
GrantsTimely == \A h \in handed : h.wrote <= clock /\ h.wrote <= h.at + MaxDelay
RefusedIdle == \A c \in Callers : wait[c] > 0 => pc[c] = "idle"

LimiterInv == TypeOK /\ Discipline /\ GrantBacked /\ OneCreator /\ CommitDurable

\* The admissions in any real-time interval shorter than the window by the
\* longest attempt are at most Capacity (released ones given back).
RollingAdmissions ==
    \A h \in handed :
        Cardinality({g \in handed : /\ ReservationOf(g) \notin releases
                                    /\ g.wrote <= h.wrote
                                    /\ h.wrote - g.wrote < Window - MaxDelay}) <= Capacity

\* A refused caller that waits for retry_after seconds meets a record in which
\* at least one of the admissions that blocked it has left the window.
RetryAfterFrees ==
    \A c \in Callers :
        wait[c] > 0 =>
            Cardinality(Active(snap[c].entries, now[c] + wait[c] * Second)) < Capacity

\* The abstract limiter, with the stored entries as its state.
Limit == INSTANCE RateLimit WITH entries <- stored.entries

\* Every step of the detailed limiter, conditional PUTs, lost answers and
\* deaths included, is one atomic operation of RateLimit or changes nothing.
ImplementsRateLimit == Limit!Spec

\* What keeps the window within its capacity and the refusals truthful.
CapacityInv ==
    /\ LimiterInv /\ Timely /\ RoomSeen
    /\ WithinCapacity /\ GrantsTimely /\ RefusedIdle /\ IsFiniteSet(handed)
    /\ RollingAdmissions /\ RetryAfterFrees
=============================================================================
