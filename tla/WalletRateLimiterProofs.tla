---------------------- MODULE WalletRateLimiterProofs ----------------------
(***************************************************************************)
(* Proofs about WalletRateLimiter for any number of callers, any set of    *)
(* job ids, any capacity, window, clock bound and retry bound.             *)
(***************************************************************************)
EXTENDS WalletRateLimiter, FiniteSetTheorems, TLAPS

-----------------------------------------------------------------------------
(* The control operators keep the types of a call's variables.             *)

(* The object a call has not read yet is a well-typed one.                 *)
LEMMA NoObjectType == NoObject \in Object
  BY DEF NoObject, Object

(* A call that returns has well-typed, cleared local state.                *)
LEMMA ReturnType ==
    ASSUME CallTypeOK, NEW c \in Callers, Return(c)
    PROVE  /\ CallTypeOK'
           /\ pc' = [pc EXCEPT ![c] = "idle"]
           /\ \A d \in Callers \ {c} : tgt'[d] = tgt[d] /\ op'[d] = op[d]
  BY LimiterAssumption, NoObjectType DEF CallTypeOK, Return

(* Moving a call to another await keeps the types.                         *)
LEMMA GotoType ==
    ASSUME CallTypeOK, NEW c \in Callers,
           NEW w \in {"read", "write", "check"}, Goto(c, w),
           now' \in [Callers -> Nat], snap' \in [Callers -> Object]
    PROVE  /\ CallTypeOK'
           /\ pc' = [pc EXCEPT ![c] = w]
           /\ tgt' = tgt /\ op' = op
  BY DEF CallTypeOK, Goto

(* Starting the next attempt keeps the counter within MaxAttempts.         *)
LEMMA NextAttemptType ==
    ASSUME CallTypeOK, NEW c \in Callers, NextAttempt(c)
    PROVE  \/ /\ CallTypeOK'
              /\ pc' = [pc EXCEPT ![c] = "loop"]
              /\ tgt' = tgt /\ op' = op
           \/ /\ CallTypeOK'
              /\ pc' = [pc EXCEPT ![c] = "idle"]
              /\ \A d \in Callers \ {c} : tgt'[d] = tgt[d] /\ op'[d] = op[d]
<1>1. CASE attempt[c] < MaxAttempts
  <2>1. attempt' \in [Callers -> 1 .. MaxAttempts]
    BY <1>1, LimiterAssumption DEF CallTypeOK, NextAttempt
  <2>2. QED
    BY <1>1, <2>1, NoObjectType DEF CallTypeOK, NextAttempt
<1>2. CASE ~(attempt[c] < MaxAttempts)
  BY <1>2, ReturnType DEF NextAttempt
<1>3. QED
  BY <1>1, <1>2

(* Beginning a call gives it a target and clears the rest.                 *)
LEMMA StartType ==
    ASSUME CallTypeOK, NEW c \in Callers, NEW r \in Reservation,
           NEW o \in {"reserve", "commit", "release", "confirm"}, Start(c, o, r)
    PROVE  /\ CallTypeOK'
           /\ pc' = [pc EXCEPT ![c] = "loop"]
           /\ tgt' = [tgt EXCEPT ![c] = r] /\ op' = [op EXCEPT ![c] = o]
  BY LimiterAssumption, NoObjectType DEF CallTypeOK, Start

(* What a call writes back is a set of entries.                            *)
LEMMA TargetType ==
    ASSUME TypeOK, NEW c \in Callers, pc[c] = "write"
    PROVE  Target(c) \subseteq Entry
<1>1. snap[c].entries \subseteq Entry /\ tgt[c] \in Reservation /\ now[c] \in Nat
  BY DEF TypeOK, CallTypeOK, Object
<1>2. op[c] \in {"reserve", "commit", "release"}
  BY DEF TypeOK, CallTypeOK
<1>3. CASE op[c] = "reserve"
  BY <1>1, <1>3 DEF Target, ReserveTarget, Active, Entry, Reservation
<1>4. CASE op[c] = "commit"
  <2>1. \A e \in Entry : [e EXCEPT !.st = "committed"] \in Entry
    BY DEF Entry
  <2>2. QED
    BY <1>1, <1>4, <2>1 DEF Target, CommitTarget, Active, Matching
<1>5. CASE op[c] = "release"
  BY <1>1, <1>5 DEF Target, ReleaseTarget, Active
<1>6. QED
  BY <1>2, <1>3, <1>4, <1>5

(* A PUT, applied or not, leaves a well-typed object.                      *)
LEMMA PutType ==
    ASSUME TypeOK, NEW c \in Callers, pc[c] = "write", Put(c) \/ UNCHANGED stored
    PROVE  stored' \in Object
<1>1. CASE UNCHANGED stored
  BY <1>1 DEF TypeOK
<1>2. CASE Put(c)
  BY <1>2, TargetType DEF Put, Object
<1>3. QED
  BY <1>1, <1>2
-----------------------------------------------------------------------------

(* Every step of every call keeps the types.                               *)
LEMMA TypeStep == TypeOK /\ [Next]_vars => TypeOK'
<1> SUFFICES ASSUME TypeOK, [Next]_vars PROVE TypeOK'
  OBVIOUS
<1> USE DEF TypeOK
<1>1. CASE Tick
  BY <1>1, LimiterAssumption DEF Tick, callVars, histVars, CallTypeOK, HistTypeOK
<1>2. ASSUME NEW c \in Callers, NEW id \in Ids, StartReserve(c, id) PROVE TypeOK'
  <2>1. [id |-> id, at |-> 0] \in Reservation
    BY DEF Reservation
  <2>2. QED
    BY <1>2, <2>1, StartType DEF StartReserve, histVars, HistTypeOK, CallTypeOK
<1>3. ASSUME NEW c \in Callers, NEW h \in handed,
             \/ StartCommit(c, h) \/ StartRelease(c, h) \/ StartConfirm(c, h)
      PROVE TypeOK'
  <2>1. [id |-> h.id, at |-> h.at] \in Reservation
    BY DEF Reservation, HistTypeOK
  <2>2. CASE StartCommit(c, h)
    BY <2>1, <2>2, StartType DEF StartCommit, HistTypeOK, CallTypeOK
  <2>3. CASE StartRelease(c, h)
    BY <2>1, <2>3, StartType DEF StartRelease, HistTypeOK, CallTypeOK
  <2>4. CASE StartConfirm(c, h)
    BY <2>1, <2>4, StartType DEF StartConfirm, histVars, HistTypeOK, CallTypeOK
  <2>5. QED
    BY <1>3, <2>2, <2>3, <2>4
<1>4. ASSUME NEW c \in Callers, TakeNow(c) PROVE TypeOK'
  <2>1. CASE Return(c)
    BY <1>4, <2>1, ReturnType DEF TakeNow, histVars, HistTypeOK, CallTypeOK
  <2>2. CASE ~Return(c)
    <3>1. /\ now' = [now EXCEPT ![c] = clock] /\ snap' = snap
          /\ Goto(c, IF op[c] = "confirm" THEN "check" ELSE "read")
          /\ pc[c] = "loop" /\ UNCHANGED <<clock, stored, histVars>>
      BY <1>4, <2>2 DEF TakeNow
    <3>2. now' \in [Callers -> Nat] /\ snap' \in [Callers -> Object]
      BY <3>1 DEF CallTypeOK
    <3>3. CallTypeOK' /\ tgt' = tgt /\ op' = op
          /\ pc' = [pc EXCEPT ![c] = IF op[c] = "confirm" THEN "check" ELSE "read"]
      BY <3>1, <3>2, GotoType
    <3>4. QED
      BY <3>1, <3>3 DEF histVars, HistTypeOK, CallTypeOK
  <2>3. QED
    BY <2>1, <2>2
<1>5. ASSUME NEW c \in Callers, ReserveRead(c) PROVE TypeOK'
  <2> DEFINE act == Active(stored.entries, now[c])
  <2>1. pc[c] = "read" /\ op[c] = "reserve" /\ UNCHANGED <<clock, stored, histVars>>
    BY <1>5 DEF ReserveRead
  <2>2. CASE Return(c)
    BY <2>1, <2>2, ReturnType DEF histVars, HistTypeOK, CallTypeOK
  <2>3. CASE snap' = [snap EXCEPT ![c] = stored] /\ Goto(c, "write") /\ UNCHANGED now
    <3>1. snap' \in [Callers -> Object] /\ now' \in [Callers -> Nat]
      BY <2>3 DEF CallTypeOK
    <3>2. CallTypeOK' /\ tgt' = tgt /\ op' = op /\ pc' = [pc EXCEPT ![c] = "write"]
      BY <2>3, <3>1, GotoType
    <3>3. QED
      BY <2>1, <3>2 DEF histVars, HistTypeOK, CallTypeOK
  <2>4. CASE /\ pc' = [pc EXCEPT ![c] = "idle"]
             /\ \E oldest \in act :
                   wait' = [wait EXCEPT ![c] = RetryAfter(oldest.at, now[c])]
             /\ snap' = [snap EXCEPT ![c] = stored]
             /\ attempt' = [attempt EXCEPT ![c] = 1]
             /\ tgt' = [tgt EXCEPT ![c] = NoTarget]
             /\ op' = [op EXCEPT ![c] = "none"]
             /\ UNCHANGED now
    <3>1. PICK oldest \in act :
                 wait' = [wait EXCEPT ![c] = RetryAfter(oldest.at, now[c])]
      BY <2>4
    <3>2. oldest.at \in Nat /\ now[c] \in Nat
      BY <3>1 DEF CallTypeOK, Active, Object, Entry
    <3>3. RetryAfter(oldest.at, now[c]) \in Nat
      BY <3>2, LimiterAssumption DEF RetryAfter
    <3>4. CallTypeOK'
      BY <2>4, <3>1, <3>3, LimiterAssumption DEF CallTypeOK
    <3>5. QED
      BY <2>1, <2>4, <3>4 DEF histVars, HistTypeOK, CallTypeOK
  <2>5. QED
    BY <1>5, <2>2, <2>3, <2>4 DEF ReserveRead
<1>6. ASSUME NEW c \in Callers, MutateRead(c) PROVE TypeOK'
  <2>1. /\ pc[c] = "read" /\ op[c] \in {"commit", "release"}
        /\ UNCHANGED <<clock, stored, handed, releases, commits>>
        /\ committed' \in {committed, committed \cup {tgt[c]}}
    BY <1>6 DEF MutateRead, Done
  <2>2. HistTypeOK'
    BY <2>1 DEF HistTypeOK
  <2>3. CASE Return(c)
    BY <2>1, <2>2, <2>3, ReturnType DEF CallTypeOK
  <2>4. CASE snap' = [snap EXCEPT ![c] = stored] /\ Goto(c, "write") /\ UNCHANGED now
    <3>1. snap' \in [Callers -> Object] /\ now' \in [Callers -> Nat]
      BY <2>4 DEF CallTypeOK
    <3>2. CallTypeOK' /\ tgt' = tgt /\ op' = op /\ pc' = [pc EXCEPT ![c] = "write"]
      BY <2>4, <3>1, GotoType
    <3>3. QED
      BY <2>1, <2>2, <3>2 DEF CallTypeOK
  <2>5. QED
    BY <1>6, <2>3, <2>4 DEF MutateRead
<1>7. ASSUME NEW c \in Callers, WriteOk(c) PROVE TypeOK'
  <2>1. /\ pc[c] = "write" /\ Put(c) /\ Return(c)
        /\ UNCHANGED <<clock, releases, commits>>
        /\ committed' \in {committed, committed \cup {tgt[c]}}
        /\ handed' \in {handed, handed \cup {[id |-> tgt[c].id, at |-> now[c],
                                             by |-> c, wrote |-> clock]}}
    BY <1>7 DEF WriteOk, Done
  <2>2. HistTypeOK'
    BY <2>1 DEF HistTypeOK, CallTypeOK, Reservation
  <2>3. QED
    BY <2>1, <2>2, PutType, ReturnType DEF CallTypeOK
<1>8. ASSUME NEW c \in Callers, WriteConflict(c) PROVE TypeOK'
  <2>1. stored' \in Object
    BY <1>8, PutType DEF WriteConflict
  <2>2. QED
    BY <1>8, <2>1, NextAttemptType DEF WriteConflict, histVars, HistTypeOK, CallTypeOK
<1>9. ASSUME NEW c \in Callers, WriteError(c) PROVE TypeOK'
  <2>1. stored' \in Object
    BY <1>9, PutType DEF WriteError
  <2>2. /\ pc[c] = "write" /\ UNCHANGED <<clock, handed, releases, commits>>
        /\ committed' \in {committed, committed \cup {tgt[c]}}
    BY <1>9 DEF WriteError
  <2>3. HistTypeOK'
    BY <2>2 DEF HistTypeOK
  <2>4. CASE Return(c)
    BY <2>1, <2>2, <2>3, <2>4, ReturnType DEF CallTypeOK
  <2>5. CASE /\ now' = [now EXCEPT ![c] = clock]
             /\ snap' = [snap EXCEPT ![c] = NoObject]
             /\ Goto(c, "check")
    <3>1. snap' \in [Callers -> Object] /\ now' \in [Callers -> Nat]
      BY <2>5, NoObjectType DEF CallTypeOK
    <3>2. CallTypeOK' /\ tgt' = tgt /\ op' = op /\ pc' = [pc EXCEPT ![c] = "check"]
      BY <2>5, <3>1, GotoType
    <3>3. QED
      BY <2>1, <2>2, <2>3, <3>2 DEF CallTypeOK
  <2>6. QED
    BY <1>9, <2>4, <2>5 DEF WriteError
<1>10. ASSUME NEW c \in Callers, ReadCommitState(c) PROVE TypeOK'
  <2>1. /\ pc[c] = "check" /\ UNCHANGED <<clock, stored, handed, releases, commits>>
        /\ committed' \in {committed, committed \cup {tgt[c]}}
        /\ Return(c) \/ NextAttempt(c)
    BY <1>10 DEF ReadCommitState
  <2>2. HistTypeOK'
    BY <2>1 DEF HistTypeOK
  <2>3. CASE Return(c)
    BY <2>1, <2>2, <2>3, ReturnType DEF CallTypeOK
  <2>4. CASE NextAttempt(c)
    BY <2>1, <2>2, <2>4, NextAttemptType DEF CallTypeOK
  <2>5. QED
    BY <2>1, <2>3, <2>4
<1>11. ASSUME NEW c \in Callers, ReadError(c) PROVE TypeOK'
  BY <1>11, ReturnType DEF ReadError, histVars, HistTypeOK, CallTypeOK
<1>12. ASSUME NEW c \in Callers, Abandon(c) PROVE TypeOK'
  <2>1. stored' \in Object
    BY <1>12, PutType DEF Abandon
  <2>2. QED
    BY <1>12, <2>1, ReturnType DEF Abandon, histVars, HistTypeOK, CallTypeOK
<1>13. CASE UNCHANGED vars
  BY <1>13 DEF vars, callVars, histVars, CallTypeOK, HistTypeOK
<1>14. QED
  BY <1>1, <1>2, <1>3, <1>4, <1>5, <1>6, <1>7, <1>8, <1>9, <1>10, <1>11, <1>12, <1>13
  DEF Next, Begin, Step

(* Type correctness: no interleaving of calls, conflicts and deaths leaves *)
(* the declared types; the attempt counter never passes MaxAttempts and    *)
(* no call of confirm ever reaches a PUT.                                  *)
THEOREM TypeCorrect == Spec => []TypeOK
<1>1. Init => TypeOK
  BY LimiterAssumption, NoObjectType
  DEF Init, TypeOK, CallTypeOK, HistTypeOK
<1>2. QED
  BY <1>1, TypeStep, PTL DEF Spec
-----------------------------------------------------------------------------
(* What an applied PUT can do to the record.  The PUT is conditional, so   *)
(* it edits the record as it is, at an instant that is not in the future.  *)

States(es, r) == {e.st : e \in Matching(es, r)}

(* A conditional PUT keeps every reservation that is inside its window and *)
(* not released.                                                           *)
LEMMA PutKeeps ==
    ASSUME TypeOK, Discipline, NEW c \in Callers, pc[c] = "write",
           PreconditionHolds(c), Put(c),
           NEW r \in Reservation, IsActive(r, clock), r \notin releases,
           Matching(stored.entries, r) # {}
    PROVE  Matching(stored'.entries, r) # {}
<1>1. PICK e \in stored.entries : e.id = r.id /\ e.at = r.at
  BY DEF Matching
<1>2. e \in Entry /\ clock \in Nat /\ now[c] \in Nat /\ now[c] <= clock
      /\ tgt[c] \in Reservation
  BY DEF TypeOK, CallTypeOK, Object, Discipline
<1>3. e \in Active(snap[c].entries, now[c])
  BY <1>1, <1>2, LimiterAssumption DEF Active, IsActive, PreconditionHolds, Reservation
<1>4. stored'.entries = Target(c)
  BY DEF Put
<1>5. op[c] \in {"reserve", "commit", "release"}
  BY DEF TypeOK, CallTypeOK
<1>6. CASE op[c] = "reserve"
  BY <1>1, <1>3, <1>4, <1>6 DEF Target, ReserveTarget, Matching
<1>7. CASE op[c] = "commit"
  <2>1. CASE e \in Matching(snap[c].entries, tgt[c])
    <3>1. [e EXCEPT !.st = "committed"] \in stored'.entries
      BY <1>3, <1>4, <1>7, <2>1 DEF Target, CommitTarget, Matching
    <3>2. [e EXCEPT !.st = "committed"].id = r.id /\ [e EXCEPT !.st = "committed"].at = r.at
      BY <1>1, <1>2 DEF Entry
    <3>3. QED
      BY <3>1, <3>2 DEF Matching
  <2>2. CASE e \notin Matching(snap[c].entries, tgt[c])
    BY <1>1, <1>3, <1>4, <1>7, <2>2 DEF Target, CommitTarget, Matching
  <2>3. QED
    BY <2>1, <2>2
<1>8. CASE op[c] = "release"
  <2>1. tgt[c] \in releases
    BY <1>8 DEF Discipline
  <2>2. ~(e.id = tgt[c].id /\ e.at = tgt[c].at)
    BY <1>1, <1>2, <2>1 DEF Reservation
  <2>3. QED
    BY <1>1, <1>3, <1>4, <1>8, <2>2 DEF Target, ReleaseTarget, Matching
<1>9. QED
  BY <1>5, <1>6, <1>7, <1>8

(* A conditional PUT keeps a committed reservation inside its window       *)
(* committed.                                                              *)
LEMMA PutKeepsCommitted ==
    ASSUME TypeOK, Discipline, NEW c \in Callers, pc[c] = "write",
           PreconditionHolds(c), Put(c),
           NEW r \in Reservation, IsActive(r, clock), r \notin releases,
           States(stored.entries, r) = {"committed"}
    PROVE  States(stored'.entries, r) = {"committed"}
<1>1. Matching(stored.entries, r) # {}
  BY DEF States
<1>2. Matching(stored'.entries, r) # {}
  BY <1>1, PutKeeps
<1>3. \A e \in Matching(stored.entries, r) : e.st = "committed"
  BY DEF States
<1>4. ASSUME NEW f \in Matching(stored'.entries, r) PROVE f.st = "committed"
  <2>1. f \in Target(c) /\ f.id = r.id /\ f.at = r.at
    BY <1>4 DEF Put, Matching
  <2>2. op[c] \in {"reserve", "commit", "release"}
    BY DEF TypeOK, CallTypeOK
  <2>3. snap[c].entries = stored.entries /\ stored.entries \subseteq Entry
        /\ clock \in Nat /\ now[c] \in Nat /\ now[c] <= clock
    BY DEF PreconditionHolds, TypeOK, Object, Discipline, CallTypeOK
  <2>4. CASE op[c] = "reserve"
    <3>1. PICK e \in Matching(stored.entries, r) : TRUE
      BY <1>1
    <3>2. e \in Active(stored.entries, now[c])
      BY <3>1, <2>3, LimiterAssumption DEF Matching, Active, IsActive, Reservation
    <3>3. CASE f \in stored.entries
      BY <3>3, <2>1, <1>3 DEF Matching
    <3>4. CASE f \notin stored.entries
      <4>1. f.id = tgt[c].id /\ ~(\E d \in Active(stored.entries, now[c]) : d.id = tgt[c].id)
        BY <2>1, <2>3, <2>4, <3>4 DEF Target, ReserveTarget, Active
      <4>2. QED
        BY <4>1, <3>1, <3>2, <2>1 DEF Matching
    <3>5. QED
      BY <3>3, <3>4
  <2>5. CASE op[c] = "commit"
    <3>1. CASE f \in stored.entries
      BY <3>1, <2>1, <1>3 DEF Matching
    <3>2. CASE f \notin stored.entries
      <4>1. PICK e \in Matching(Active(stored.entries, now[c]), tgt[c]) :
                   f = [e EXCEPT !.st = "committed"]
        BY <2>1, <2>3, <2>5, <3>2 DEF Target, CommitTarget, Active
      <4>2. e \in Entry
        BY <4>1, <2>3 DEF Matching, Active
      <4>3. QED
        BY <4>1, <4>2 DEF Entry
    <3>3. QED
      BY <3>1, <3>2
  <2>6. CASE op[c] = "release"
    BY <2>1, <2>3, <2>6, <1>3 DEF Target, ReleaseTarget, Active, Matching
  <2>7. QED
    BY <2>2, <2>4, <2>5, <2>6
<1>5. QED
  BY <1>2, <1>4 DEF States
-----------------------------------------------------------------------------
(* What one step of the system can do to the record and to the history.    *)

(* Time never goes back, releases are never forgotten, and the record      *)
(* changes only by an applied conditional PUT.                             *)
LEMMA StepFacts ==
    ASSUME TypeOK, [Next]_vars
    PROVE  /\ clock' \in {clock, clock + 1}
           /\ releases \subseteq releases'
           /\ \/ stored' = stored
              \/ /\ UNCHANGED clock
                 /\ \E c \in Callers : pc[c] = "write" /\ PreconditionHolds(c) /\ Put(c)
<1>1. CASE Tick
  BY <1>1 DEF Tick, histVars
<1>2. ASSUME NEW c \in Callers, Begin(c) PROVE clock' = clock /\ stored' = stored
             /\ releases \subseteq releases'
  BY <1>2 DEF Begin, StartReserve, StartCommit, StartRelease, StartConfirm, histVars
<1>3. ASSUME NEW c \in Callers, Step(c) \/ Abandon(c)
      PROVE  /\ clock' = clock /\ releases' = releases
             /\ stored' = stored \/ (pc[c] = "write" /\ PreconditionHolds(c) /\ Put(c))
  BY <1>3 DEF Step, TakeNow, ReserveRead, MutateRead, ReadCommitState, ReadError,
              WriteOk, WriteConflict, WriteError, Abandon, histVars
<1>4. QED
  BY <1>1, <1>2, <1>3 DEF Next, vars, histVars

(* The only step that hands out a reservation is an applied reserve that   *)
(* found no active entry of its id.                                        *)
LEMMA HandedStep ==
    ASSUME TypeOK, [Next]_vars
    PROVE  \/ handed' = handed
           \/ \E c \in Callers :
                /\ pc[c] = "write" /\ op[c] = "reserve"
                /\ PreconditionHolds(c) /\ Put(c)
                /\ ~ \E e \in Active(snap[c].entries, now[c]) : e.id = tgt[c].id
                /\ handed' = handed \cup {[id |-> tgt[c].id, at |-> now[c],
                                           by |-> c, wrote |-> clock]}
                /\ UNCHANGED <<clock, releases>>
<1>1. CASE Tick \/ UNCHANGED vars
  BY <1>1 DEF Tick, histVars, vars
<1>2. ASSUME NEW c \in Callers, Begin(c) PROVE handed' = handed
  BY <1>2 DEF Begin, StartReserve, StartCommit, StartRelease, StartConfirm, histVars
<1>3. ASSUME NEW c \in Callers, Step(c) \/ Abandon(c), ~WriteOk(c)
      PROVE  handed' = handed
  BY <1>3 DEF Step, TakeNow, ReserveRead, MutateRead, ReadCommitState, ReadError,
              WriteConflict, WriteError, Abandon, histVars
<1>4. ASSUME NEW c \in Callers, WriteOk(c)
      PROVE  \/ handed' = handed
             \/ /\ pc[c] = "write" /\ op[c] = "reserve"
                /\ PreconditionHolds(c) /\ Put(c)
                /\ ~ \E e \in Active(snap[c].entries, now[c]) : e.id = tgt[c].id
                /\ handed' = handed \cup {[id |-> tgt[c].id, at |-> now[c],
                                           by |-> c, wrote |-> clock]}
                /\ UNCHANGED <<clock, releases>>
  BY <1>4 DEF WriteOk
<1>5. QED
  BY <1>1, <1>2, <1>3, <1>4 DEF Next
(* A commit that returns leaves its reservation committed, unless it has   *)
(* left the window.                                                        *)
LEMMA CommittedStep ==
    ASSUME TypeOK, Discipline, [Next]_vars
    PROVE  \/ committed' = committed
           \/ \E c \in Callers :
                /\ op[c] = "commit" /\ pc[c] # "idle"
                /\ committed' = committed \cup {tgt[c]}
                /\ UNCHANGED <<clock, releases, commits>>
                /\ IsActive(tgt[c], clock) => States(stored'.entries, tgt[c]) = {"committed"}
<1>1. CASE Tick \/ UNCHANGED vars
  BY <1>1 DEF Tick, histVars, vars
<1>2. ASSUME NEW c \in Callers, Begin(c) PROVE committed' = committed
  BY <1>2 DEF Begin, StartReserve, StartCommit, StartRelease, StartConfirm, histVars
<1>3. ASSUME NEW c \in Callers, TakeNow(c) \/ ReserveRead(c) \/ ReadError(c)
                                 \/ WriteConflict(c) \/ Abandon(c)
      PROVE  committed' = committed
  BY <1>3 DEF TakeNow, ReserveRead, ReadError, WriteConflict, Abandon, histVars
<1> DEFINE Effect(c) ==
             /\ op[c] = "commit" /\ pc[c] # "idle"
             /\ committed' = committed \cup {tgt[c]}
             /\ UNCHANGED <<clock, releases, commits>>
             /\ IsActive(tgt[c], clock) => States(stored'.entries, tgt[c]) = {"committed"}
<1>4. ASSUME NEW c \in Callers, MutateRead(c) PROVE committed' = committed \/ Effect(c)
  <2>1. CASE op[c] = "release"
    BY <1>4, <2>1 DEF MutateRead, Done
  <2>2. CASE op[c] = "commit" /\ committed' # committed
    <3>1. /\ committed' = committed \cup {tgt[c]} /\ pc[c] = "read"
          /\ UNCHANGED <<clock, stored, releases, commits>>
      BY <1>4, <2>2 DEF MutateRead, Done
    <3>2. \/ /\ Matching(Active(stored.entries, now[c]), tgt[c]) = {}
             /\ ~IsActive(tgt[c], now[c])
          \/ /\ Matching(Active(stored.entries, now[c]), tgt[c]) # {}
             /\ CommitTarget(stored.entries, tgt[c], now[c]) = stored.entries
      BY <1>4, <2>2 DEF MutateRead
    <3>3. /\ now[c] \in Nat /\ clock \in Nat /\ now[c] <= clock
          /\ tgt[c] \in Reservation /\ stored.entries \subseteq Entry
      BY <3>1 DEF TypeOK, CallTypeOK, Discipline, Object
    <3>4. CASE ~IsActive(tgt[c], now[c])
      <4>1. ~IsActive(tgt[c], clock)
        BY <3>3, <3>4, LimiterAssumption DEF IsActive, Reservation
      <4>2. QED
        BY <2>2, <3>1, <4>1
    <3>6. CASE /\ Matching(Active(stored.entries, now[c]), tgt[c]) # {}
               /\ CommitTarget(stored.entries, tgt[c], now[c]) = stored.entries
      <4>1. ASSUME NEW e \in Matching(stored.entries, tgt[c]) PROVE e.st = "committed"
        <5>1. PICK d \in Matching(Active(stored.entries, now[c]), tgt[c]) :
                     e = [d EXCEPT !.st = "committed"]
          BY <3>6, <4>1 DEF CommitTarget, Matching
        <5>2. d \in Entry
          BY <5>1, <3>3 DEF Matching, Active
        <5>3. QED
          BY <5>1, <5>2 DEF Entry
      <4>2. Matching(stored.entries, tgt[c]) # {}
        BY <3>6 DEF Matching, Active
      <4>3. States(stored.entries, tgt[c]) = {"committed"}
        BY <4>1, <4>2 DEF States
      <4>4. QED
        BY <2>2, <3>1, <4>3
    <3>7. QED
      BY <3>2, <3>4, <3>6
  <2>3. QED
    BY <1>4, <2>1, <2>2 DEF MutateRead
<1>5. ASSUME NEW c \in Callers, WriteOk(c) PROVE committed' = committed \/ Effect(c)
  <2>1. CASE op[c] # "commit"
    BY <1>5, <2>1 DEF WriteOk, Done
  <2>2. CASE op[c] = "commit"
    <3>1. /\ pc[c] = "write" /\ PreconditionHolds(c) /\ Put(c)
          /\ committed' = committed \cup {tgt[c]} /\ UNCHANGED <<clock, releases, commits>>
      BY <1>5, <2>2 DEF WriteOk, Done
    <3>2. ASSUME IsActive(tgt[c], clock), committed' # committed
          PROVE States(stored'.entries, tgt[c]) = {"committed"}
      <4>1. stored'.entries = CommitTarget(snap[c].entries, tgt[c], now[c])
        BY <2>2, <3>1 DEF Put, Target
      <4>2. PICK e \in Matching(Active(snap[c].entries, now[c]), tgt[c]) : TRUE
        BY <2>2, <3>1 DEF Discipline
      <4>3. snap[c].entries \subseteq Entry
        BY DEF TypeOK, CallTypeOK, Object
      <4>4. \A d \in Entry : /\ [d EXCEPT !.st = "committed"].st = "committed"
                             /\ [d EXCEPT !.st = "committed"].id = d.id
                             /\ [d EXCEPT !.st = "committed"].at = d.at
        BY DEF Entry
      <4>5. [e EXCEPT !.st = "committed"] \in Matching(stored'.entries, tgt[c])
        <5>1. e \in Entry /\ e.id = tgt[c].id /\ e.at = tgt[c].at
          BY <4>2, <4>3 DEF Matching, Active
        <5>2. [e EXCEPT !.st = "committed"] \in CommitTarget(snap[c].entries, tgt[c], now[c])
          BY <4>2 DEF CommitTarget
        <5>3. QED
          BY <4>1, <4>4, <5>1, <5>2 DEF Matching
      <4>6. \A f \in Matching(stored'.entries, tgt[c]) : f.st = "committed"
        <5> SUFFICES ASSUME NEW f \in Matching(stored'.entries, tgt[c])
                     PROVE  f.st = "committed"
          OBVIOUS
        <5>1. f \in CommitTarget(snap[c].entries, tgt[c], now[c])
              /\ f.id = tgt[c].id /\ f.at = tgt[c].at
          BY <4>1 DEF Matching
        <5>2. f \notin Active(snap[c].entries, now[c]) \ Matching(snap[c].entries, tgt[c])
          BY <5>1 DEF Matching, Active
        <5>3. PICK d \in Matching(Active(snap[c].entries, now[c]), tgt[c]) :
                     f = [d EXCEPT !.st = "committed"]
          BY <5>1, <5>2 DEF CommitTarget
        <5>4. d \in Entry
          BY <5>3, <4>3 DEF Matching, Active
        <5>5. QED
          BY <5>3, <5>4, <4>4
      <4>7. QED
        BY <4>5, <4>6 DEF States
    <3>3. QED
      BY <2>2, <3>1, <3>2
  <2>3. QED
    BY <2>1, <2>2
<1>6. ASSUME NEW c \in Callers, WriteError(c) PROVE committed' = committed \/ Effect(c)
  BY <1>6 DEF WriteError
<1>7. ASSUME NEW c \in Callers, ReadCommitState(c) PROVE committed' = committed \/ Effect(c)
  <2>1. CASE committed' # committed
    <3>1. /\ op[c] = "commit" /\ pc[c] = "check"
          /\ {e.st : e \in Matching(Active(stored.entries, now[c]), tgt[c])} = {"committed"}
          /\ committed' = committed \cup {tgt[c]}
          /\ UNCHANGED <<clock, stored, releases, commits>>
      BY <1>7, <2>1 DEF ReadCommitState
    <3>2. /\ now[c] \in Nat /\ clock \in Nat /\ now[c] <= clock
          /\ tgt[c] \in Reservation /\ stored.entries \subseteq Entry
      BY <3>1 DEF TypeOK, CallTypeOK, Discipline, Object
    <3>3. ASSUME IsActive(tgt[c], clock)
          PROVE  Matching(Active(stored.entries, now[c]), tgt[c])
                   = Matching(stored.entries, tgt[c])
      BY <3>2, <3>3, LimiterAssumption DEF Matching, Active, IsActive, Reservation, Entry
    <3>4. QED
      BY <3>1, <3>3 DEF States
  <2>2. QED
    BY <2>1
<1>8. QED
  BY <1>1, <1>2, <1>3, <1>4, <1>5, <1>6, <1>7 DEF Next, Step
(* What the history and the clock readings say of the calls is kept.       *)
LEMMA DisciplineStep ==
    ASSUME TypeOK, TypeOK', Discipline, [Next]_vars
    PROVE  Discipline'
<1> USE DEF TypeOK, CallTypeOK
<1>1. CASE Tick \/ UNCHANGED vars
  BY <1>1 DEF Tick, vars, callVars, histVars, Discipline
<1>2. ASSUME NEW c \in Callers, NEW id \in Ids, StartReserve(c, id) PROVE Discipline'
  BY <1>2, SMTT(40) DEF StartReserve, Start, histVars, Discipline
<1>3. ASSUME NEW c \in Callers, NEW h \in handed, StartCommit(c, h) PROVE Discipline'
  BY <1>3 DEF StartCommit, Start, Discipline
<1>4. ASSUME NEW c \in Callers, NEW h \in handed, StartRelease(c, h) PROVE Discipline'
  <2>1. /\ commits' \cap releases' = {} /\ commits' = commits /\ committed' = committed
        /\ releases' = releases \cup {[id |-> h.id, at |-> h.at]} /\ clock' = clock
    BY <1>4 DEF StartRelease, Discipline
  <2>2. Start(c, "release", [id |-> h.id, at |-> h.at])
    BY <1>4 DEF StartRelease
  <2>3. /\ now' = [now EXCEPT ![c] = 0]
        /\ op' = [op EXCEPT ![c] = "release"]
        /\ tgt' = [tgt EXCEPT ![c] = [id |-> h.id, at |-> h.at]]
        /\ pc' = [pc EXCEPT ![c] = "loop"]
        /\ snap' = [snap EXCEPT ![c] = NoObject]
    BY <2>2 DEF Start
  <2>4. QED
    BY <2>1, <2>3, SMTT(40) DEF Discipline
<1>5. ASSUME NEW c \in Callers, NEW h \in handed, StartConfirm(c, h) PROVE Discipline'
  BY <1>5 DEF StartConfirm, Start, histVars, Discipline
<1>6. ASSUME NEW c \in Callers, TakeNow(c) PROVE Discipline'
  BY <1>6 DEF TakeNow, Return, Goto, histVars, Discipline
<1>7. ASSUME NEW c \in Callers, ReserveRead(c) PROVE Discipline'
  BY <1>7 DEF ReserveRead, Return, Goto, histVars, Discipline
<1>8. ASSUME NEW c \in Callers, MutateRead(c) PROVE Discipline'
  <2>1. committed' \subseteq commits /\ UNCHANGED <<clock, commits, releases>>
    BY <1>8 DEF MutateRead, Done, Discipline
  <2>2. CASE Return(c)
    BY <2>1, <2>2 DEF Return, Discipline
  <2>3. CASE ~Return(c)
    <3>1. /\ snap' = [snap EXCEPT ![c] = stored] /\ now' = now /\ tgt' = tgt /\ op' = op
          /\ pc' = [pc EXCEPT ![c] = "write"]
          /\ op[c] = "commit" => Matching(Active(stored.entries, now[c]), tgt[c]) # {}
      BY <1>8, <2>3 DEF MutateRead, Goto
    <3>2. QED
      BY <2>1, <3>1 DEF Discipline
  <2>4. QED
    BY <2>2, <2>3
<1>9. ASSUME NEW c \in Callers, WriteOk(c) PROVE Discipline'
  <2>1. committed' \subseteq commits /\ UNCHANGED <<clock, commits, releases>>
    BY <1>9 DEF WriteOk, Done, Discipline
  <2>2. Return(c)
    BY <1>9 DEF WriteOk
  <2>3. QED
    BY <2>1, <2>2 DEF Return, Discipline
<1>10. ASSUME NEW c \in Callers, WriteConflict(c) PROVE Discipline'
  BY <1>10 DEF WriteConflict, NextAttempt, Return, histVars, Discipline
<1>11. ASSUME NEW c \in Callers, WriteError(c) PROVE Discipline'
  <2>1. committed' \subseteq commits /\ UNCHANGED <<clock, commits, releases>>
    BY <1>11 DEF WriteError, Discipline
  <2>2. CASE Return(c)
    BY <2>1, <2>2 DEF Return, Discipline
  <2>3. CASE ~Return(c)
    <3>1. /\ snap' = [snap EXCEPT ![c] = NoObject] /\ now' = [now EXCEPT ![c] = clock]
          /\ tgt' = tgt /\ op' = op /\ pc' = [pc EXCEPT ![c] = "check"]
      BY <1>11, <2>3 DEF WriteError, Goto
    <3>2. QED
      BY <2>1, <3>1 DEF Discipline
  <2>4. QED
    BY <2>2, <2>3
<1>12. ASSUME NEW c \in Callers, ReadCommitState(c) PROVE Discipline'
  BY <1>12, SMTT(40) DEF ReadCommitState, NextAttempt, Return, Discipline
<1>13. ASSUME NEW c \in Callers, ReadError(c) PROVE Discipline'
  BY <1>13 DEF ReadError, Return, histVars, Discipline
<1>14. ASSUME NEW c \in Callers, Abandon(c) PROVE Discipline'
  BY <1>14 DEF Abandon, Return, histVars, Discipline
<1>15. QED
  BY <1>1, <1>2, <1>3, <1>4, <1>5, <1>6, <1>7, <1>8, <1>9, <1>10, <1>11, <1>12, <1>13, <1>14
  DEF Next, Begin, Step
-----------------------------------------------------------------------------

(* The inductive invariant holds initially and every step keeps it.        *)
LEMMA LimiterInvInit == Init => LimiterInv
<1>1. Init => TypeOK
  BY LimiterAssumption, NoObjectType DEF Init, TypeOK, CallTypeOK, HistTypeOK
<1>2. Init => Discipline /\ GrantBacked /\ OneCreator /\ CommitDurable
  BY DEF Init, Discipline, GrantBacked, OneCreator, CommitDurable
<1>3. QED
  BY <1>1, <1>2 DEF LimiterInv

(* A reservation handed out earlier stays backed; a new one is backed by   *)
(* the entry its own PUT wrote.                                            *)
LEMMA GrantBackedStep ==
    ASSUME LimiterInv, TypeOK', [Next]_vars
    PROVE  GrantBacked'
<1>1. TypeOK /\ Discipline /\ GrantBacked
  BY DEF LimiterInv
<1>2. ASSUME NEW h \in handed, IsActive(h, clock'), ReservationOf(h) \notin releases'
      PROVE  Matching(stored'.entries, h) # {}
  <2> DEFINE r == ReservationOf(h)
  <2>1. /\ r \in Reservation /\ r.id = h.id /\ r.at = h.at /\ h.at \in Nat
    BY <1>1 DEF TypeOK, HistTypeOK, Reservation, ReservationOf
  <2>2. IsActive(r, clock) /\ r \notin releases /\ IsActive(h, clock)
    BY <1>1, <1>2, <2>1, StepFacts, LimiterAssumption DEF IsActive, TypeOK
  <2>3. Matching(stored.entries, r) # {}
    BY <1>1, <2>1, <2>2 DEF GrantBacked, Matching
  <2>4. Matching(stored'.entries, r) # {}
    BY <1>1, <2>1, <2>2, <2>3, StepFacts, PutKeeps
  <2>5. QED
    BY <2>1, <2>4 DEF Matching
<1>3. ASSUME NEW h \in handed', h \notin handed
      PROVE  Matching(stored'.entries, h) # {}
  <2>1. PICK c \in Callers :
          /\ op[c] = "reserve" /\ Put(c)
          /\ ~ \E e \in Active(snap[c].entries, now[c]) : e.id = tgt[c].id
          /\ h = [id |-> tgt[c].id, at |-> now[c], by |-> c, wrote |-> clock]
    BY <1>1, <1>3, HandedStep
  <2>2. [id |-> tgt[c].id, at |-> now[c], st |-> "reserved"] \in stored'.entries
    BY <2>1 DEF Put, Target, ReserveTarget
  <2>3. QED
    BY <2>1, <2>2 DEF Matching
<1>4. QED
  BY <1>2, <1>3 DEF GrantBacked

(* A second creator of one job would have found the first one's entry.     *)
LEMMA OneCreatorStep ==
    ASSUME LimiterInv, TypeOK', [Next]_vars
    PROVE  OneCreator'
<1>1. TypeOK /\ Discipline /\ GrantBacked /\ OneCreator
  BY DEF LimiterInv
<1>2. ASSUME NEW h \in handed, IsActive(h, clock')
      PROVE  IsActive(h, clock)
  <2>1. h.at \in Nat
    BY <1>1 DEF TypeOK, HistTypeOK
  <2>2. QED
    BY <1>1, <1>2, <2>1, StepFacts, LimiterAssumption DEF IsActive, TypeOK
<1>3. CASE handed' = handed
  BY <1>1, <1>2, <1>3, StepFacts DEF OneCreator
<1>4. ASSUME NEW c \in Callers,
             op[c] = "reserve", PreconditionHolds(c),
             ~ \E e \in Active(snap[c].entries, now[c]) : e.id = tgt[c].id,
             handed' = handed \cup {[id |-> tgt[c].id, at |-> now[c],
                                     by |-> c, wrote |-> clock]},
             UNCHANGED <<clock, releases>>
      PROVE  OneCreator'
  <2> DEFINE n == [id |-> tgt[c].id, at |-> now[c], by |-> c, wrote |-> clock]
  <2>1. ASSUME NEW g \in handed, g.id = n.id, IsActive(g, clock),
               ReservationOf(g) \notin releases
        PROVE  FALSE
    <3>1. PICK e \in Matching(stored.entries, g) : TRUE
      BY <1>1, <2>1 DEF GrantBacked
    <3>2. e \in stored.entries /\ e.id = tgt[c].id /\ e.at = g.at
      BY <2>1, <3>1 DEF Matching
    <3>3. g.at \in Nat /\ now[c] \in Nat /\ clock \in Nat /\ now[c] <= clock
      BY <1>1 DEF TypeOK, HistTypeOK, CallTypeOK, Discipline
    <3>4. e \in Active(snap[c].entries, now[c])
      BY <1>4, <2>1, <3>2, <3>3, LimiterAssumption DEF Active, IsActive, PreconditionHolds
    <3>5. QED
      BY <1>4, <3>2, <3>4
  <2>2. QED
    BY <1>1, <1>4, <2>1 DEF OneCreator
<1>5. QED
  BY <1>1, <1>3, <1>4, HandedStep

(* A reservation committed earlier stays committed.                        *)
LEMMA CommitDurableStep ==
    ASSUME LimiterInv, TypeOK', Discipline', [Next]_vars
    PROVE  CommitDurable'
<1>1. TypeOK /\ Discipline /\ CommitDurable
  BY DEF LimiterInv
<1>2. ASSUME NEW r \in committed, IsActive(r, clock')
      PROVE  States(stored'.entries, r) = {"committed"}
  <2>1. r \in Reservation /\ r \notin releases
    BY <1>1 DEF TypeOK, HistTypeOK, Discipline
  <2>2. IsActive(r, clock)
    BY <1>1, <1>2, <2>1, StepFacts, LimiterAssumption DEF IsActive, TypeOK, Reservation
  <2>3. States(stored.entries, r) = {"committed"}
    BY <1>1, <2>2 DEF CommitDurable, States
  <2>4. QED
    BY <1>1, <2>1, <2>2, <2>3, StepFacts, PutKeepsCommitted
<1>3. ASSUME NEW r \in committed', r \notin committed, IsActive(r, clock')
      PROVE  States(stored'.entries, r) = {"committed"}
  BY <1>1, <1>3, CommittedStep
<1>4. QED
  BY <1>2, <1>3 DEF CommitDurable, States

(* Every step keeps the inductive invariant.                               *)
LEMMA LimiterInvStep == LimiterInv /\ [Next]_vars => LimiterInv'
<1> SUFFICES ASSUME LimiterInv, [Next]_vars PROVE LimiterInv'
  OBVIOUS
<1>1. TypeOK' /\ Discipline'
  BY TypeStep, DisciplineStep DEF LimiterInv
<1>2. QED
  BY <1>1, GrantBackedStep, OneCreatorStep, CommitDurableStep DEF LimiterInv

(* Admission is sound across replicas, lost answers and deaths: a handed   *)
(* out reservation is never lost inside its window, it has one creator,    *)
(* and a commit that returned is durable.                                  *)
THEOREM AdmissionSound == Spec => []AdmissionsKept
<1>1. LimiterInv => AdmissionsKept
  BY DEF LimiterInv, AdmissionsKept
<1>2. QED
  BY <1>1, LimiterInvInit, LimiterInvStep, PTL DEF Spec

-----------------------------------------------------------------------------
(* The detailed limiter implements RateLimit.                              *)

(* An attempt works at an instant at most MaxDelay old.                    *)
LEMMA TimelyStep ==
    ASSUME TypeOK, Timely, [Next]_vars
    PROVE  Timely'
<1> USE LimiterAssumption DEF TypeOK, CallTypeOK, Timely
<1>1. CASE Tick \/ UNCHANGED vars
  BY <1>1 DEF Tick, vars, callVars
<1>2. ASSUME NEW c \in Callers, Begin(c) PROVE Timely'
  <2>1. clock' = clock /\ pc' = [pc EXCEPT ![c] = "loop"] /\ now' = [now EXCEPT ![c] = 0]
    BY <1>2 DEF Begin, StartReserve, StartCommit, StartRelease, StartConfirm, Start
  <2>2. QED
    BY <2>1
<1>3. ASSUME NEW c \in Callers, Return(c), UNCHANGED clock PROVE Timely'
  BY <1>3 DEF Return
<1>4. ASSUME NEW c \in Callers, NextAttempt(c), UNCHANGED clock PROVE Timely'
  BY <1>3, <1>4 DEF NextAttempt
<1>5. ASSUME NEW c \in Callers, NEW w \in {"read", "check"}, Goto(c, w),
             now' = [now EXCEPT ![c] = clock], UNCHANGED clock
      PROVE  Timely'
  BY <1>5 DEF Goto
<1>6. ASSUME NEW c \in Callers, pc[c] = "read", Goto(c, "write"), UNCHANGED <<now, clock>>
      PROVE  Timely'
  BY <1>6 DEF Goto
<1>7. ASSUME NEW c \in Callers, TakeNow(c) PROVE Timely'
  BY <1>3, <1>5, <1>7 DEF TakeNow
<1>8. ASSUME NEW c \in Callers, ReserveRead(c) PROVE Timely'
  <2>1. CASE pc' = [pc EXCEPT ![c] = "idle"] /\ UNCHANGED <<now, clock>>
    BY <2>1
  <2>2. QED
    BY <1>3, <1>6, <1>8, <2>1 DEF ReserveRead
<1>9. ASSUME NEW c \in Callers, MutateRead(c) PROVE Timely'
  BY <1>3, <1>6, <1>9 DEF MutateRead
<1>10. ASSUME NEW c \in Callers, WriteError(c) PROVE Timely'
  BY <1>3, <1>5, <1>10 DEF WriteError
<1>11. ASSUME NEW c \in Callers,
              \/ WriteOk(c) \/ WriteConflict(c) \/ ReadCommitState(c) \/ ReadError(c)
              \/ Abandon(c)
       PROVE  Timely'
  BY <1>3, <1>4, <1>11
  DEF WriteOk, WriteConflict, ReadCommitState, ReadError, Abandon
<1>12. QED
  BY <1>1, <1>2, <1>7, <1>8, <1>9, <1>10, <1>11 DEF Next, Step

(* A reserve reaches its PUT only with room for a new id.                  *)
LEMMA RoomSeenStep ==
    ASSUME TypeOK, RoomSeen, [Next]_vars
    PROVE  RoomSeen'
<1> USE DEF TypeOK, CallTypeOK, RoomSeen
<1>1. CASE Tick \/ UNCHANGED vars
  BY <1>1 DEF Tick, vars, callVars
<1>2. ASSUME NEW c \in Callers, NEW w \in {"idle", "loop", "read", "check"},
             pc' = [pc EXCEPT ![c] = w],
             \A d \in Callers \ {c} : /\ op'[d] = op[d] /\ tgt'[d] = tgt[d]
                                      /\ now'[d] = now[d] /\ snap'[d] = snap[d]
      PROVE  RoomSeen'
  BY <1>2
<1>3. ASSUME NEW c \in Callers, Begin(c) PROVE RoomSeen'
  <2>1. \E o, r : Start(c, o, r)
    BY <1>3 DEF Begin, StartReserve, StartCommit, StartRelease, StartConfirm
  <2>2. QED
    BY <1>2, <2>1 DEF Start
<1>4. ASSUME NEW c \in Callers, Return(c) PROVE RoomSeen'
  BY <1>2, <1>4 DEF Return
<1>5. ASSUME NEW c \in Callers, NextAttempt(c) PROVE RoomSeen'
  BY <1>2, <1>4, <1>5 DEF NextAttempt
<1>6. ASSUME NEW c \in Callers, TakeNow(c) PROVE RoomSeen'
  BY <1>2, <1>4, <1>6 DEF TakeNow, Goto
<1>7. ASSUME NEW c \in Callers, ReserveRead(c) PROVE RoomSeen'
  <2> DEFINE act == Active(stored.entries, now[c])
             known == \E e \in act : e.id = tgt[c].id
  <2>1. CASE /\ IF known THEN act # stored.entries ELSE Cardinality(act) < Capacity
             /\ snap' = [snap EXCEPT ![c] = stored] /\ Goto(c, "write") /\ UNCHANGED now
    <3>1. /\ known \/ Cardinality(act) < Capacity
          /\ pc' = [pc EXCEPT ![c] = "write"] /\ op' = op /\ tgt' = tgt /\ now' = now
          /\ snap' = [snap EXCEPT ![c] = stored]
      BY <2>1 DEF Goto
    <3>2. QED
      BY <3>1
  <2>2. CASE Return(c)
    BY <1>4, <2>2
  <2>3. CASE /\ pc' = [pc EXCEPT ![c] = "idle"]
             /\ snap' = [snap EXCEPT ![c] = stored]
             /\ tgt' = [tgt EXCEPT ![c] = NoTarget]
             /\ op' = [op EXCEPT ![c] = "none"]
             /\ UNCHANGED now
    BY <1>2, <2>3
  <2>4. QED
    BY <1>7, <2>1, <2>2, <2>3 DEF ReserveRead, Room
<1>8. ASSUME NEW c \in Callers, MutateRead(c) PROVE RoomSeen'
  <2>1. CASE /\ op[c] # "reserve" /\ snap' = [snap EXCEPT ![c] = stored]
             /\ Goto(c, "write") /\ UNCHANGED now
    BY <2>1 DEF Goto
  <2>2. QED
    BY <1>4, <1>8, <2>1 DEF MutateRead
<1>9. ASSUME NEW c \in Callers, WriteError(c) PROVE RoomSeen'
  <2>1. CASE /\ now' = [now EXCEPT ![c] = clock] /\ snap' = [snap EXCEPT ![c] = NoObject]
             /\ Goto(c, "check")
    BY <1>2, <2>1 DEF Goto
  <2>2. QED
    BY <1>4, <1>9, <2>1 DEF WriteError
<1>10. ASSUME NEW c \in Callers,
              \/ WriteOk(c) \/ WriteConflict(c) \/ ReadCommitState(c) \/ ReadError(c)
              \/ Abandon(c)
       PROVE  RoomSeen'
  BY <1>4, <1>5, <1>10
  DEF WriteOk, WriteConflict, ReadCommitState, ReadError, Abandon
<1>11. QED
  BY <1>1, <1>3, <1>6, <1>7, <1>8, <1>9, <1>10 DEF Next, Step

(* The record never holds two entries of one id.                           *)
LEMMA UniqueIdsStep ==
    ASSUME TypeOK, UniqueIds, [Next]_vars
    PROVE  UniqueIds'
<1>1. CASE stored' = stored
  BY <1>1 DEF UniqueIds
<1>2. ASSUME NEW c \in Callers, pc[c] = "write", PreconditionHolds(c), Put(c)
      PROVE  UniqueIds'
  <2>1. /\ stored'.entries = Target(c) /\ snap[c].entries = stored.entries
        /\ stored.entries \subseteq Entry
        /\ op[c] \in {"reserve", "commit", "release"}
    BY <1>2 DEF Put, PreconditionHolds, TypeOK, CallTypeOK, Object
  <2>2. CASE op[c] = "reserve"
    BY <2>1, <2>2 DEF Target, ReserveTarget, Active, UniqueIds
  <2>3. CASE op[c] = "release"
    BY <2>1, <2>3 DEF Target, ReleaseTarget, Active, UniqueIds
  <2>4. CASE op[c] = "commit"
    <3>1. \A e \in Entry : [e EXCEPT !.st = "committed"].id = e.id
      BY DEF Entry
    <3>2. ASSUME NEW f \in stored'.entries
          PROVE  \E e \in stored.entries :
                   /\ f.id = e.id
                   /\ f = IF e \in Matching(stored.entries, tgt[c])
                          THEN [e EXCEPT !.st = "committed"] ELSE e
      <4>1. f \in CommitTarget(stored.entries, tgt[c], now[c])
        BY <2>1, <2>4, <3>2 DEF Target
      <4>2. CASE f \in Active(stored.entries, now[c]) \ Matching(stored.entries, tgt[c])
        BY <4>2 DEF Active
      <4>3. CASE f \notin Active(stored.entries, now[c]) \ Matching(stored.entries, tgt[c])
        <5>1. PICK e \in Matching(Active(stored.entries, now[c]), tgt[c]) :
                     f = [e EXCEPT !.st = "committed"]
          BY <4>1, <4>3 DEF CommitTarget
        <5>2. e \in stored.entries /\ e \in Matching(stored.entries, tgt[c])
          BY <5>1 DEF Matching, Active
        <5>3. QED
          BY <2>1, <3>1, <5>1, <5>2
      <4>4. QED
        BY <4>2, <4>3
    <3>3. QED
      BY <3>2 DEF UniqueIds
  <2>5. QED
    BY <2>1, <2>2, <2>3, <2>4
<1>3. QED
  BY <1>1, <1>2, StepFacts
(* The instance's Cardinality is the one of FiniteSets.                    *)
LEMMA SameCardinality == \A S : Limit!Cardinality(S) = Cardinality(S)
  BY DEF Cardinality, Limit!Cardinality

(* An applied conditional PUT is one atomic operation of RateLimit.        *)
LEMMA PutRefines ==
    ASSUME TypeOK, Discipline, Timely, RoomSeen, UniqueIds,
           NEW c \in Callers, pc[c] = "write",
           PreconditionHolds(c), Put(c), UNCHANGED clock
    PROVE  Limit!Next
<1> DEFINE t == now[c]
           es == stored.entries
           act == Active(es, t)
<1>1. /\ t \in Nat /\ clock \in Nat /\ t <= clock /\ clock <= t + MaxDelay
      /\ snap[c].entries = es /\ es \subseteq Entry /\ tgt[c] \in Reservation
      /\ op[c] \in {"reserve", "commit", "release"}
  BY DEF TypeOK, CallTypeOK, Object, Discipline, Timely, PreconditionHolds
<1>2. t \in clock - MaxDelay .. clock /\ Limit!Recent(t)
  BY <1>1, LimiterAssumption DEF Limit!Recent
<1>3. act = Limit!Live(es, t)
  BY DEF Active, Limit!Live
<1>4. stored'.entries = Target(c)
  BY DEF Put
<1>5. CASE stored'.entries = act
  <2>1. Limit!Prune(t)
    BY <1>2, <1>3, <1>5 DEF Limit!Prune
  <2>2. QED
    BY <1>2, <2>1 DEF Limit!Next
<1>6. CASE op[c] = "reserve" /\ ~ \E e \in act : e.id = tgt[c].id
  <2>1. Cardinality(act) < Capacity
    BY <1>1, <1>6 DEF RoomSeen
  <2>2. stored'.entries = act \cup {[id |-> tgt[c].id, at |-> t, st |-> "reserved"]}
    BY <1>1, <1>4, <1>6 DEF Target, ReserveTarget
  <2>3. Limit!Admit(tgt[c].id, t)
    BY <1>2, <1>3, <1>6, <2>1, <2>2, SameCardinality DEF Limit!Admit
  <2>4. tgt[c].id \in Ids
    BY <1>1 DEF Reservation
  <2>5. QED
    BY <1>2, <2>3, <2>4 DEF Limit!Next
<1>7. CASE op[c] = "commit" \/ (op[c] = "release" /\ stored'.entries # act)
  <2>1. Matching(act, tgt[c]) # {}
    <3>1. CASE op[c] = "commit"
      BY <1>1, <3>1 DEF Discipline
    <3>2. CASE op[c] = "release" /\ stored'.entries # act
      BY <1>1, <1>4, <3>2 DEF Target, ReleaseTarget, Matching, Active
    <3>3. QED
      BY <1>7, <3>1, <3>2
  <2>2. PICK e \in act : e.id = tgt[c].id /\ e.at = tgt[c].at
    BY <2>1 DEF Matching
  <2>3. \A d \in es : (d.id = tgt[c].id /\ d.at = tgt[c].at) <=> d = e
    BY <2>2 DEF Active, UniqueIds
  <2>4. /\ Matching(act, tgt[c]) = {e}
        /\ act \ Matching(es, tgt[c]) = act \ {e}
    BY <2>2, <2>3 DEF Matching, Active
  <2>5. CASE op[c] = "commit"
    <3>1. stored'.entries = (act \ {e}) \cup {[e EXCEPT !.st = "committed"]}
      BY <1>1, <1>4, <2>4, <2>5 DEF Target, CommitTarget
    <3>2. Limit!Commit(e, t)
      BY <1>2, <1>3, <3>1 DEF Limit!Commit
    <3>3. QED
      BY <1>2, <1>3, <2>2, <3>2 DEF Limit!Next
  <2>6. CASE op[c] = "release"
    <3>1. stored'.entries = act \ {e}
      BY <1>1, <1>4, <2>4, <2>6 DEF Target, ReleaseTarget
    <3>2. Limit!Release(e, t)
      BY <1>2, <1>3, <3>1 DEF Limit!Release
    <3>3. QED
      BY <1>2, <1>3, <2>2, <3>2 DEF Limit!Next
  <2>7. QED
    BY <1>7, <2>5, <2>6
<1>8. CASE op[c] = "reserve" /\ \E e \in act : e.id = tgt[c].id
  BY <1>1, <1>4, <1>5, <1>8 DEF Target, ReserveTarget
<1>9. QED
  BY <1>1, <1>5, <1>6, <1>7, <1>8

(* Optimistic concurrency on the object store implements the atomic        *)
(* limiter: every behaviour of the calls is a behaviour of RateLimit.      *)
THEOREM LimiterRefines == Spec => ImplementsRateLimit
<1> DEFINE Inv == LimiterInv /\ Timely /\ RoomSeen /\ UniqueIds
<1>1. Init => Inv
  <2>1. Init => Timely /\ RoomSeen /\ UniqueIds
    BY DEF Init, Timely, RoomSeen, UniqueIds, NoObject
  <2>2. QED
    BY <2>1, LimiterInvInit
<1>2. Inv /\ [Next]_vars => Inv'
  BY LimiterInvStep, TimelyStep, RoomSeenStep, UniqueIdsStep DEF LimiterInv
<1>3. Init => Limit!Init
  BY DEF Init, Limit!Init, NoObject
<1>4. Inv /\ [Next]_vars => [Limit!Next]_(Limit!vars)
  <2> SUFFICES ASSUME Inv, [Next]_vars PROVE [Limit!Next]_(Limit!vars)
    OBVIOUS
  <2>1. TypeOK /\ Discipline
    BY DEF LimiterInv
  <2>2. CASE stored' = stored /\ clock' = clock
    BY <2>2 DEF Limit!vars
  <2>3. CASE stored' = stored /\ clock' = clock + 1
    <3>1. Limit!Tick
      BY <2>3 DEF Limit!Tick
    <3>2. QED
      BY <3>1 DEF Limit!Next
  <2>4. CASE /\ UNCHANGED clock
             /\ \E c \in Callers : pc[c] = "write" /\ PreconditionHolds(c) /\ Put(c)
    BY <2>1, <2>4, PutRefines
  <2>5. QED
    BY <2>1, <2>2, <2>3, <2>4, StepFacts
<1>5. QED
  BY <1>1, <1>2, <1>3, <1>4, PTL DEF Spec, ImplementsRateLimit, Limit!Spec

-----------------------------------------------------------------------------
(* The window stays within its capacity, and refusals are truthful.        *)

(* A conditional PUT leaves at most Capacity entries: a reserve adds one   *)
(* only where there is room, a commit replaces an entry.                   *)
LEMMA PutWithinCapacity ==
    ASSUME TypeOK, RoomSeen, WithinCapacity,
           NEW c \in Callers, pc[c] = "write", PreconditionHolds(c), Put(c)
    PROVE  WithinCapacity'
<1> DEFINE es == stored.entries
           act == Active(es, now[c])
<1>1. /\ stored'.entries = Target(c) /\ snap[c].entries = es
      /\ op[c] \in {"reserve", "commit", "release"}
  BY DEF Put, PreconditionHolds, TypeOK, CallTypeOK
<1>2. act \in SUBSET es
  BY DEF Active
<1>3. /\ IsFiniteSet(act) /\ Cardinality(act) \in Nat /\ Cardinality(act) <= Cardinality(es)
      /\ Cardinality(es) \in Nat
  <2> HIDE DEF es, act
  <2>1. IsFiniteSet(es)
    BY DEF es, WithinCapacity
  <2>2. QED
    BY <1>2, <2>1, FS_Subset, FS_CardinalityType
<1>4. Cardinality(act) <= Capacity
  BY <1>3, LimiterAssumption DEF WithinCapacity
<1>5. CASE stored'.entries = act
  BY <1>3, <1>4, <1>5 DEF WithinCapacity
<1>6. CASE op[c] = "reserve" /\ stored'.entries # act
  <2> DEFINE n == [id |-> tgt[c].id, at |-> now[c], st |-> "reserved"]
  <2>1. stored'.entries = act \cup {n} /\ Cardinality(act) < Capacity
    BY <1>1, <1>6 DEF Target, ReserveTarget, RoomSeen
  <2>2. IsFiniteSet(act \cup {n}) /\ Cardinality(act \cup {n}) <= Cardinality(act) + 1
    <3> HIDE DEF act, n
    <3>1. /\ IsFiniteSet(act \cup {n})
          /\ Cardinality(act \cup {n})
               = IF n \in act THEN Cardinality(act) ELSE Cardinality(act) + 1
      BY <1>3, FS_AddElement, Zenon
    <3>2. QED
      BY <1>3, <3>1
  <2>3. Cardinality(act \cup {n}) \in Nat
    BY <2>2, FS_CardinalityType
  <2>4. Cardinality(act \cup {n}) <= Capacity
    BY <1>3, <2>1, <2>2, <2>3, LimiterAssumption
  <2>5. QED
    BY <2>1, <2>2, <2>4 DEF WithinCapacity
<1>7. CASE op[c] = "commit"
  <2> DEFINE match == Matching(es, tgt[c])
             f == [e \in act |-> IF e \in match THEN [e EXCEPT !.st = "committed"] ELSE e]
             T == CommitTarget(es, tgt[c], now[c])
  <2>1. stored'.entries = T
    BY <1>1, <1>7 DEF Target
  <2>2. Matching(act, tgt[c]) = act \cap match
    BY DEF Matching, Active
  <2>3. \A e \in act : f[e] \in T
    BY <2>2 DEF CommitTarget
  <2>4. \A x \in T : \E e \in act : f[e] = x
    BY <2>2 DEF CommitTarget
  <2>5. f \in Surjection(act, T)
    BY <2>3, <2>4 DEF Surjection
  <2>6. IsFiniteSet(T) /\ Cardinality(T) <= Cardinality(act)
    <3> HIDE DEF f, act, T
    <3>1. QED
      BY <1>3, <2>5, FS_Surjection
  <2>7. Cardinality(T) \in Nat
    BY <2>6, FS_CardinalityType
  <2>8. Cardinality(T) <= Capacity
    BY <1>3, <1>4, <2>6, <2>7, LimiterAssumption
  <2>9. QED
    BY <2>1, <2>6, <2>8 DEF WithinCapacity
<1>8. CASE op[c] = "release"
  <2>1. stored'.entries \in SUBSET act
    BY <1>1, <1>8 DEF Target, ReleaseTarget
  <2>2. IsFiniteSet(stored'.entries) /\ Cardinality(stored'.entries) <= Cardinality(act)
        /\ Cardinality(stored'.entries) \in Nat
    <3> HIDE DEF act
    <3>1. QED
      BY <1>3, <2>1, FS_Subset, FS_CardinalityType
  <2>3. Cardinality(stored'.entries) <= Capacity
    BY <1>3, <1>4, <2>2, LimiterAssumption
  <2>4. QED
    BY <2>2, <2>3 DEF WithinCapacity
<1>9. QED
  BY <1>1, <1>5, <1>6, <1>7, <1>8

(* Every step keeps the record within its capacity.                        *)
LEMMA WithinCapacityStep ==
    ASSUME TypeOK, RoomSeen, WithinCapacity, [Next]_vars
    PROVE  WithinCapacity'
<1>1. CASE stored' = stored
  BY <1>1 DEF WithinCapacity
<1>2. QED
  BY <1>1, StepFacts, PutWithinCapacity

(* A grant is written within one attempt of its clock reading.             *)
LEMMA GrantsTimelyStep ==
    ASSUME TypeOK, Timely, GrantsTimely, [Next]_vars
    PROVE  GrantsTimely'
<1>1. /\ clock \in Nat /\ now \in [Callers -> Nat] /\ clock' \in {clock, clock + 1}
      /\ \A h \in handed : h.wrote \in Nat /\ h.at \in Nat
  BY StepFacts DEF TypeOK, CallTypeOK, HistTypeOK
<1>2. \A h \in handed : h.wrote <= clock' /\ h.wrote <= h.at + MaxDelay
  BY <1>1 DEF GrantsTimely
<1>3. ASSUME NEW h \in handed', h \notin handed
      PROVE  h.wrote <= clock' /\ h.wrote <= h.at + MaxDelay
  <2>1. PICK c \in Callers :
          /\ pc[c] = "write" /\ clock' = clock
          /\ h = [id |-> tgt[c].id, at |-> now[c], by |-> c, wrote |-> clock]
    BY <1>3, HandedStep
  <2>2. QED
    BY <1>1, <2>1 DEF Timely
<1>4. QED
  BY <1>2, <1>3 DEF GrantsTimely

(* The wait covers the rest of the window of the entry it was counted for. *)
LEMMA RetryAfterCovers ==
    ASSUME NEW a \in Nat, NEW t \in Nat
    PROVE  /\ RetryAfter(a, t) \in Nat
           /\ a + Window <= t + RetryAfter(a, t) * Second
<1> DEFINE x == a + Window - t
           q == (x + Second - 1) \div Second
<1>1. /\ x \in Int /\ Second \in Nat /\ Second > 0
  BY LimiterAssumption
<1>2. q \in Int /\ x <= q * Second
  <2> HIDE DEF x
  <2>1. ASSUME NEW m \in Int, NEW s \in Nat, s > 0
        PROVE  (m \div s) \in Int /\ m < s * (m \div s) + s
    BY <2>1
  <2>2. QED
    BY <1>1, <2>1
<1>3. RetryAfter(a, t) = IF q > 1 THEN q ELSE 1
  BY DEF RetryAfter
<1> HIDE DEF q
<1>4. CASE q > 1
  BY <1>1, <1>2, <1>3, <1>4, LimiterAssumption
<1>5. CASE ~(q > 1)
  <2>1. q * Second <= Second
    BY <1>1, <1>2, <1>5
  <2>2. QED
    BY <1>1, <1>2, <1>3, <1>5, <2>1, LimiterAssumption
<1>6. QED
  BY <1>4, <1>5

(* What a step does to a refusal: it stands, it is cleared, or the caller  *)
(* has just been refused on the record as it is.                           *)
LEMMA WaitStep ==
    ASSUME TypeOK, RefusedIdle, [Next]_vars, NEW d \in Callers
    PROVE  \/ wait'[d] = 0
           \/ /\ wait'[d] = wait[d] /\ now'[d] = now[d] /\ snap'[d] = snap[d]
              /\ pc'[d] = pc[d]
           \/ /\ pc'[d] = "idle" /\ now'[d] = now[d] /\ snap'[d] = stored
              /\ \E oldest \in Active(stored.entries, now[d]) :
                    wait'[d] = RetryAfter(oldest.at, now[d])
<1> DEFINE Same(c) == \A e \in Callers \ {c} :
                        /\ wait'[e] = wait[e] /\ now'[e] = now[e] /\ snap'[e] = snap[e]
                        /\ pc'[e] = pc[e]
<1> USE DEF TypeOK, CallTypeOK
<1>1. \A c \in Callers : pc[c] # "idle" => wait[c] = 0
  BY DEF RefusedIdle
<1>2. CASE Tick \/ UNCHANGED vars
  BY <1>2 DEF Tick, vars, callVars
<1>3. ASSUME NEW c \in Callers, Return(c) PROVE Same(c) /\ wait'[c] = 0
  BY <1>3 DEF Return
<1>4. ASSUME NEW c \in Callers, NextAttempt(c), pc[c] # "idle"
      PROVE  Same(c) /\ wait'[c] = 0
  BY <1>1, <1>3, <1>4 DEF NextAttempt
<1>5. ASSUME NEW c \in Callers, Begin(c) PROVE Same(c) /\ wait'[c] = 0
  <2>1. \E o, r : Start(c, o, r)
    BY <1>5 DEF Begin, StartReserve, StartCommit, StartRelease, StartConfirm
  <2>2. QED
    BY <2>1 DEF Start
<1>6. ASSUME NEW c \in Callers, NEW w, Goto(c, w), pc[c] # "idle",
             \E v : now' = [now EXCEPT ![c] = v], \E v : snap' = [snap EXCEPT ![c] = v]
      PROVE  Same(c) /\ wait'[c] = 0
  BY <1>1, <1>6 DEF Goto
<1>7. ASSUME NEW c \in Callers, TakeNow(c) PROVE Same(c) /\ wait'[c] = 0
  <2>1. UNCHANGED snap => snap' = [snap EXCEPT ![c] = snap[c]]
    OBVIOUS
  <2>2. QED
    BY <1>3, <1>6, <1>7, <2>1 DEF TakeNow
<1>8. ASSUME NEW c \in Callers, MutateRead(c) PROVE Same(c) /\ wait'[c] = 0
  <2>1. UNCHANGED now => now' = [now EXCEPT ![c] = now[c]]
    OBVIOUS
  <2>2. QED
    BY <1>3, <1>6, <1>8, <2>1 DEF MutateRead
<1>9. ASSUME NEW c \in Callers, WriteError(c) PROVE Same(c) /\ wait'[c] = 0
  BY <1>3, <1>6, <1>9 DEF WriteError
<1>10. ASSUME NEW c \in Callers,
              \/ WriteOk(c) \/ WriteConflict(c) \/ ReadCommitState(c) \/ ReadError(c)
              \/ Abandon(c)
       PROVE  Same(c) /\ wait'[c] = 0
  BY <1>3, <1>4, <1>10
  DEF WriteOk, WriteConflict, ReadCommitState, ReadError, Abandon
<1>11. ASSUME NEW c \in Callers, ReserveRead(c)
       PROVE  /\ Same(c)
              /\ \/ wait'[c] = 0
                 \/ /\ pc'[c] = "idle" /\ now'[c] = now[c] /\ snap'[c] = stored
                    /\ \E oldest \in Active(stored.entries, now[c]) :
                          wait'[c] = RetryAfter(oldest.at, now[c])
  <2> DEFINE act == Active(stored.entries, now[c])
  <2>1. CASE Return(c)
    BY <1>3, <2>1
  <2>2. CASE /\ pc' = [pc EXCEPT ![c] = "idle"]
             /\ \E oldest \in act : wait' = [wait EXCEPT ![c] = RetryAfter(oldest.at, now[c])]
             /\ snap' = [snap EXCEPT ![c] = stored]
             /\ UNCHANGED now
    <3>1. PICK oldest \in act : wait' = [wait EXCEPT ![c] = RetryAfter(oldest.at, now[c])]
      BY <2>2
    <3>2. wait'[c] = RetryAfter(oldest.at, now[c])
          /\ \A e \in Callers \ {c} : wait'[e] = wait[e]
      BY <3>1
    <3>3. Same(c) /\ pc'[c] = "idle" /\ now'[c] = now[c] /\ snap'[c] = stored
      BY <2>2, <3>2
    <3>4. QED
      BY <3>2, <3>3
  <2>3. CASE snap' = [snap EXCEPT ![c] = stored] /\ Goto(c, "write") /\ UNCHANGED now
    <3>1. now' = [now EXCEPT ![c] = now[c]]
      BY <2>3
    <3>2. pc[c] # "idle"
      BY <1>11 DEF ReserveRead
    <3>3. QED
      BY <1>6, <2>3, <3>1, <3>2
  <2>4. QED
    BY <1>11, <2>1, <2>2, <2>3 DEF ReserveRead
<1>12. QED
  BY <1>2, <1>5, <1>7, <1>8, <1>9, <1>10, <1>11 DEF Next, Step

(* A refusal made on a record within its capacity is truthful: when the    *)
(* oldest blocking entry has left the window there is room.                *)
LEMMA RetryAfterFreesStep ==
    ASSUME TypeOK, TypeOK', WithinCapacity, RefusedIdle, RetryAfterFrees, [Next]_vars
    PROVE  RefusedIdle' /\ RetryAfterFrees'
<1>1. ASSUME NEW d \in Callers, NEW oldest \in Active(stored.entries, now[d]),
             wait'[d] = RetryAfter(oldest.at, now[d]),
             now'[d] = now[d], snap'[d] = stored
      PROVE  Cardinality(Active(snap'[d].entries, now'[d] + wait'[d] * Second)) < Capacity
  <2> DEFINE es == stored.entries
             left == Active(es, now[d] + wait'[d] * Second)
  <2>1. oldest \in es /\ oldest.at \in Nat /\ now[d] \in Nat
    BY DEF TypeOK, CallTypeOK, Object, Entry, Active
  <2>2. wait'[d] \in Nat /\ oldest.at + Window <= now[d] + wait'[d] * Second
    BY <1>1, <2>1, RetryAfterCovers
  <2>3. wait'[d] * Second \in Nat
    BY <2>2, LimiterAssumption
  <2>4. oldest \notin left
    BY <2>1, <2>2, <2>3, LimiterAssumption DEF Active
  <2>5. left \in SUBSET es /\ left # es
    BY <2>1, <2>4 DEF Active
  <2>6. Cardinality(left) \in Nat /\ Cardinality(es) \in Nat
        /\ Cardinality(left) <= Cardinality(es) /\ Cardinality(left) # Cardinality(es)
    <3> HIDE DEF left, es
    <3>1. IsFiniteSet(es)
      BY DEF es, WithinCapacity
    <3>2. QED
      BY <2>5, <3>1, FS_Subset, FS_CardinalityType
  <2>7. Cardinality(left) < Capacity
    BY <2>6, LimiterAssumption DEF WithinCapacity
  <2>8. QED
    BY <1>1, <2>7
<1>2. ASSUME NEW d \in Callers, wait'[d] > 0
      PROVE  /\ pc'[d] = "idle"
             /\ Cardinality(Active(snap'[d].entries, now'[d] + wait'[d] * Second)) < Capacity
  BY <1>1, <1>2, WaitStep DEF RefusedIdle, RetryAfterFrees
<1>3. QED
  BY <1>2 DEF RefusedIdle, RetryAfterFrees

(* Grants that are each in the record, under an id of their own, are no    *)
(* more than its entries.                                                  *)
LEMMA GrantsCounted ==
    ASSUME NEW es, IsFiniteSet(es), Cardinality(es) <= Capacity,
           NEW S,
           \A g \in S : Matching(es, g) # {},
           \A g, h \in S : g.id = h.id => g = h
    PROVE  Cardinality(S) <= Capacity
<1> DEFINE f == [g \in S |-> CHOOSE e \in es : e.id = g.id /\ e.at = g.at]
<1>1. \A g \in S : \E e \in es : e.id = g.id /\ e.at = g.at
  BY DEF Matching
<1>2. \A g \in S : f[g] \in es /\ f[g].id = g.id
  BY <1>1
<1>3. f \in Injection(S, es)
  <2>1. f \in [S -> es]
    BY <1>2
  <2>2. \A g, h \in S : f[g] = f[h] => g = h
    <3> HIDE DEF f
    <3>1. QED
      BY <1>2
  <2>3. DOMAIN f = S
    OBVIOUS
  <2>4. QED
    BY <2>1, <2>2, <2>3 DEF Injection, IsInjective
<1>4. IsFiniteSet(S) /\ Cardinality(S) <= Cardinality(es)
  <2> HIDE DEF f
  <2>1. QED
    BY <1>3, FS_Injection
<1>5. Cardinality(S) \in Nat /\ Cardinality(es) \in Nat
  BY <1>4, FS_CardinalityType
<1>6. QED
  BY <1>4, <1>5, LimiterAssumption

(* A grant that is written joins those its own PUT has counted; the older  *)
(* counts only lose released grants.                                       *)
LEMMA RollingAdmissionsStep ==
    ASSUME TypeOK, TypeOK', GrantBacked', OneCreator', GrantsTimely, GrantsTimely',
           WithinCapacity', IsFiniteSet(handed), RollingAdmissions, [Next]_vars
    PROVE  IsFiniteSet(handed)' /\ RollingAdmissions'
<1> DEFINE Near(h, H, R) == {g \in H : /\ ReservationOf(g) \notin R
                                       /\ g.wrote <= h.wrote
                                       /\ h.wrote - g.wrote < Window - MaxDelay}
<1>1. releases \subseteq releases'
  BY StepFacts
<1>2. \A h \in handed : /\ IsFiniteSet(Near(h, handed, releases))
                        /\ Cardinality(Near(h, handed, releases)) \in Nat
                        /\ Cardinality(Near(h, handed, releases)) <= Capacity
  <2> SUFFICES ASSUME NEW h \in handed
               PROVE  /\ IsFiniteSet(Near(h, handed, releases))
                      /\ Cardinality(Near(h, handed, releases)) \in Nat
                      /\ Cardinality(Near(h, handed, releases)) <= Capacity
    OBVIOUS
  <2>1. Near(h, handed, releases) \in SUBSET handed
    OBVIOUS
  <2>2. IsFiniteSet(Near(h, handed, releases))
    BY <2>1, FS_Subset, Zenon
  <2>3. Cardinality(Near(h, handed, releases)) \in Nat
    BY <2>2, FS_CardinalityType, Zenon
  <2>4. QED
    BY <2>2, <2>3, Zenon DEF RollingAdmissions
<1>3. CASE handed' = handed
  <2>1. ASSUME NEW h \in handed
        PROVE  Cardinality(Near(h, handed', releases')) <= Capacity
    <3> DEFINE A == Near(h, handed', releases')
               B == Near(h, handed, releases)
    <3>1. A \in SUBSET B
      BY <1>1, <1>3
    <3>2. IsFiniteSet(B) /\ Cardinality(B) \in Nat /\ Cardinality(B) <= Capacity
      BY <1>2, Zenon
    <3>3. Cardinality(A) \in Nat /\ Cardinality(A) <= Cardinality(B)
      <4> HIDE DEF A, B
      <4>1. QED
        BY <3>1, <3>2, FS_Subset, FS_CardinalityType
    <3>4. Cardinality(A) <= Capacity
      <4> HIDE DEF A, B
      <4>1. QED
        BY <3>2, <3>3, LimiterAssumption
    <3>5. QED
      BY <3>4
  <2>2. \A h \in handed' : Cardinality(Near(h, handed', releases')) <= Capacity
    BY <1>3, <2>1, Zenon
  <2>3. QED
    BY <1>3, <2>2, Zenon DEF RollingAdmissions
<1>4. ASSUME NEW n, n.wrote = clock,
             handed' = handed \cup {n}, UNCHANGED <<clock, releases>>
      PROVE  IsFiniteSet(handed)' /\ RollingAdmissions'
  <2>1. IsFiniteSet(handed')
    BY <1>4, FS_AddElement, Zenon
  <2>2. /\ clock \in Nat
        /\ \A g \in handed' : /\ g.wrote \in Nat /\ g.at \in Nat
                               /\ g.wrote <= clock /\ g.wrote <= g.at + MaxDelay
    BY <1>4 DEF TypeOK, HistTypeOK, GrantsTimely
  <2>3. ASSUME NEW h \in handed'
        PROVE  Cardinality(Near(h, handed', releases')) <= Capacity
    <3> DEFINE A == Near(h, handed', releases')
    <3>1. CASE h.wrote = clock
      <4>1. \A g \in A : g \in handed' /\ ReservationOf(g) \notin releases' /\ IsActive(g, clock')
        BY <1>4, <2>2, <3>1, LimiterAssumption DEF IsActive
      <4>2. Cardinality(A) <= Capacity
        <5> HIDE DEF A
        <5>1. \A g \in A : Matching(stored'.entries, g) # {}
          BY <4>1 DEF GrantBacked
        <5>2. \A g, k \in A : g.id = k.id => g = k
          BY <4>1 DEF OneCreator
        <5>3. IsFiniteSet(stored'.entries) /\ Cardinality(stored'.entries) <= Capacity
          BY DEF WithinCapacity
        <5>4. QED
          BY <5>1, <5>2, <5>3, GrantsCounted, Zenon
      <4>3. QED
        BY <4>2
    <3>2. CASE h.wrote # clock
      <4>1. h \in handed
        BY <1>4, <3>2
      <4>2. A = Near(h, handed, releases)
        BY <1>4, <2>2, <3>2
      <4>3. QED
        BY <1>2, <4>1, <4>2, Zenon
    <3>3. QED
      BY <3>1, <3>2
  <2>4. QED
    BY <2>1, <2>3, Zenon DEF RollingAdmissions
<1>5. QED
  <2>1. handed' # handed => \E n : /\ n.wrote = clock /\ handed' = handed \cup {n}
                                   /\ UNCHANGED <<clock, releases>>
    BY HandedStep
  <2>2. QED
    BY <1>3, <1>4, <2>1

(* Every step keeps the invariant of the window.                           *)
LEMMA CapacityInvStep == CapacityInv /\ [Next]_vars => CapacityInv'
<1> SUFFICES ASSUME CapacityInv, [Next]_vars PROVE CapacityInv'
  OBVIOUS
<1> USE DEF CapacityInv
<1>1. LimiterInv' /\ TypeOK /\ TypeOK' /\ GrantBacked' /\ OneCreator'
  BY LimiterInvStep DEF LimiterInv
<1>2. Timely' /\ RoomSeen'
  BY <1>1, TimelyStep, RoomSeenStep
<1>3. WithinCapacity' /\ GrantsTimely'
  BY <1>1, WithinCapacityStep, GrantsTimelyStep
<1>4. RefusedIdle' /\ RetryAfterFrees'
  BY <1>1, RetryAfterFreesStep
<1>5. IsFiniteSet(handed)' /\ RollingAdmissions'
  BY <1>1, <1>3, RollingAdmissionsStep
<1>6. QED
  BY <1>1, <1>2, <1>3, <1>4, <1>5

(* The first state has nothing to count.                                   *)
LEMMA CapacityInvInit == Init => CapacityInv
<1> SUFFICES ASSUME Init PROVE CapacityInv
  OBVIOUS
<1>1. IsFiniteSet({}) /\ Cardinality({}) = 0
  BY FS_EmptySet
<1>2. stored.entries = {} /\ handed = {}
  BY DEF Init, NoObject
<1>3. WithinCapacity /\ GrantsTimely /\ IsFiniteSet(handed) /\ RollingAdmissions
  BY <1>1, <1>2, LimiterAssumption DEF WithinCapacity, GrantsTimely, RollingAdmissions
<1>4. Timely /\ RoomSeen /\ RefusedIdle /\ RetryAfterFrees
  BY DEF Init, Timely, RoomSeen, RefusedIdle, RetryAfterFrees
<1>5. QED
  BY <1>3, <1>4, LimiterInvInit DEF CapacityInv

(* The point of the limiter: in any real-time interval shorter than the    *)
(* window by the longest attempt at most Capacity reservations that are    *)
(* not given back are granted, however many replicas race for them.        *)
THEOREM CapacityKept == Spec => []RollingAdmissions
<1>1. CapacityInv => RollingAdmissions
  BY DEF CapacityInv
<1>2. QED
  BY <1>1, CapacityInvInit, CapacityInvStep, PTL DEF Spec

(* A refused caller that waits as it was told meets a window in which one  *)
(* of the admissions that blocked it has expired.                          *)
THEOREM RefusalsTruthful == Spec => []RetryAfterFrees
<1>1. CapacityInv => RetryAfterFrees
  BY DEF CapacityInv
<1>2. QED
  BY <1>1, CapacityInvInit, CapacityInvStep, PTL DEF Spec
=============================================================================
