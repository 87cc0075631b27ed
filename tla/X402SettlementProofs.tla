------------------------ MODULE X402SettlementProofs ------------------------
(***************************************************************************)
(* Proofs about X402Settlement, for any number of request handlers, faults *)
(* and reservations and any clock.  What the record says, and that it is   *)
(* final, rests on the conditional writes alone (RecordInv); that one      *)
(* handler settles at a time on a settler being faster than its lease      *)
(* (LeaseInv); that a failed payment was not charged on both (MoneyInv).   *)
(* Then the refinement of PaidJob, the accounting of the job, and payment, *)
(* work and accounting composed on one record.                             *)
(***************************************************************************)
EXTENDS X402Settlement, X402Accounting, TLAPS

PCs == Leased \cup Writing \cup {"idle", "observe", "lease", "reread",
                                 "commit", "release", "pendread"}

(* What the step of one handler leaves alone.                              *)
Others(h) ==
    \A g \in Handlers \ {h} :
        /\ pc'[g] = pc[g] /\ snap'[g] = snap[g] /\ now'[g] = now[g]
        /\ mine'[g] = mine[g] /\ req'[g] = req[g]

LocalType ==
    /\ pc \in [Handlers -> PCs]
    /\ snap \in [Handlers -> Record]
    /\ now \in [Handlers -> Nat]
    /\ mine \in [Handlers -> Nat]
    /\ req \in [Handlers -> (Handlers \X Nat) \cup {NoReq}]
    /\ tries \in [Handlers -> 0 .. PendingTries]
    /\ asked \in [Handlers -> BOOLEAN]

SharedType ==
    /\ clock \in Nat
    /\ rec \in Record
    /\ gen \in Nat /\ slot \in {"none", "reserved", "committed"} /\ open \in BOOLEAN
    /\ live \subseteq Handlers \X Nat
    /\ landed \in (Handlers \X Nat) \cup {NoReq}
    /\ method \in Methods /\ rotated \in BOOLEAN
    /\ faults \in Nat

LEMMA TypeSplit == TypeOK <=> SharedType /\ LocalType
  BY DEF TypeOK, SharedType, LocalType, PCs

LEMMA NoRecType == NoRec \in Record /\ ~NoRec.exists
  BY DEF NoRec, Record

(* A call that ends leaves nothing of itself behind.                       *)
LEMMA FinishLocal ==
    ASSUME LocalType, NEW h \in Handlers, Finish(h)
    PROVE  /\ LocalType' /\ Others(h)
           /\ pc'[h] = "idle" /\ snap'[h] = NoRec /\ now'[h] = 0 /\ mine'[h] = 0
           /\ req'[h] = NoReq
<1>1. /\ pc' = [pc EXCEPT ![h] = "idle"]
      /\ snap' = [snap EXCEPT ![h] = NoRec]
      /\ now' = [now EXCEPT ![h] = 0]
      /\ mine' = [mine EXCEPT ![h] = 0]
      /\ req' = [req EXCEPT ![h] = NoReq]
      /\ tries' = [tries EXCEPT ![h] = 0]
      /\ asked' = [asked EXCEPT ![h] = FALSE]
  BY DEF Finish, Goto
<1>2. NoRec \in Record /\ 0 \in 0 .. PendingTries /\ "idle" \in PCs
  BY NoRecType, SettlementAssumption DEF PCs
<1>3. LocalType'
  BY <1>1, <1>2, Zenon DEF LocalType
<1>4. QED
  BY <1>1, <1>3 DEF LocalType, Others

LEMMA GotoLocal ==
    ASSUME LocalType, NEW h \in Handlers, NEW where \in PCs, Goto(h, where)
    PROVE  /\ pc' \in [Handlers -> PCs]
           /\ pc'[h] = where /\ \A g \in Handlers \ {h} : pc'[g] = pc[g]
  BY DEF LocalType, Goto
-----------------------------------------------------------------------------
(* The record.  What a handler writes over the record it has read.         *)

(* What the record may become in one step.                                 *)
Evolves(r) ==
    /\ r \in Record /\ RecordShape(r) /\ r.gen <= gen
    /\ Precedes(rec, r)
    /\ rec.pay = "settled" => r.settledAt = rec.settledAt
    /\ rec.status = "running" => r.status = "running"

LEMMA PrecedesSelf == ASSUME NEW r \in Record PROVE Precedes(r, r)
  BY DEF Precedes, Record

LEMMA PrecedesTrans ==
    ASSUME NEW q \in Record, NEW r \in Record, NEW s \in Record, Precedes(q, r), Precedes(r, s)
    PROVE  Precedes(q, s)
  BY DEF Precedes, Record, Settling

(* The fields of each record that is written.                              *)
LEMMA CreatedFields ==
    ASSUME TypeOK, NEW h \in Handlers
    PROVE  LET r == CreatedRecord(h) IN
           /\ r \in Record
           /\ r.exists /\ r.pay = "settling" /\ r.status = "settling" /\ r.rate = "reserved"
           /\ r.settledAt = 0 /\ r.gen = mine[h] /\ r.lease = now[h] + Lease
  BY SettlementAssumption DEF TypeOK, CreatedRecord, Record

LEMMA ClaimedFields ==
    ASSUME TypeOK, NEW h \in Handlers
    PROVE  LET r == ClaimedRecord(h) s == snap[h] IN
           /\ r \in Record
           /\ r.exists = s.exists /\ r.pay = s.pay /\ r.status = s.status /\ r.rate = s.rate
           /\ r.settledAt = s.settledAt /\ r.gen = s.gen /\ r.lease = now[h] + Lease
<1>1. snap[h] \in Record /\ now[h] + Lease \in Nat
  BY SettlementAssumption DEF TypeOK
<1>2. QED
  BY <1>1 DEF ClaimedRecord, Record

LEMMA SettledFields ==
    ASSUME TypeOK, clock > 0, NEW h \in Handlers
    PROVE  LET r == SettledRecord(h) s == snap[h] IN
           /\ r \in Record
           /\ r.exists = s.exists /\ r.pay = "settled" /\ r.status = "settling" /\ r.rate = s.rate
           /\ r.settledAt > 0 /\ r.gen = s.gen
<1>1. snap[h] \in Record /\ clock \in Nat /\ clock + Lease \in Nat
  BY SettlementAssumption DEF TypeOK
<1> DEFINE at == IF snap[h].settledAt > 0 THEN snap[h].settledAt ELSE clock
<1>2. at \in Nat /\ at > 0
  BY <1>1 DEF Record
<1> HIDE DEF at
<1>3. SettledRecord(h) = [snap[h] EXCEPT !.pay = "settled", !.status = "settling", !.pend = FALSE,
                                         !.settledAt = at, !.lease = clock + Lease]
  BY <1>1 DEF SettledRecord, at, Record
<1>4. QED
  BY <1>1, <1>2, <1>3, ZenonT(60) DEF Record

LEMMA FailedFields ==
    ASSUME TypeOK, NEW h \in Handlers
    PROVE  LET r == FailedRecord(h) s == snap[h] IN
           /\ r \in Record
           /\ r.exists = s.exists /\ r.pay = "failed" /\ r.status = "failed" /\ r.rate = s.rate
           /\ r.settledAt = s.settledAt /\ r.gen = s.gen
  BY DEF TypeOK, FailedRecord, Record

LEMMA PendingFields ==
    ASSUME TypeOK, NEW h \in Handlers
    PROVE  LET r == PendingRecord(h) s == snap[h] IN
           /\ r \in Record
           /\ r.exists = s.exists /\ r.pay = "settling" /\ r.status = "settling" /\ r.rate = s.rate
           /\ r.settledAt = s.settledAt /\ r.gen = s.gen /\ r.lease = s.lease
  BY DEF TypeOK, PendingRecord, Record

LEMMA QueuedFields ==
    ASSUME TypeOK, NEW h \in Handlers
    PROVE  LET r == QueuedRecord(h) s == snap[h] IN
           /\ r \in Record
           /\ r.exists = s.exists /\ r.pay = s.pay /\ r.status = "queued" /\ r.rate = "committed"
           /\ r.settledAt = s.settledAt /\ r.gen = s.gen
  BY DEF TypeOK, QueuedRecord, Record

LEMMA ReleasedFields ==
    ASSUME TypeOK, NEW h \in Handlers
    PROVE  LET r == ReleasedRecord(h) s == snap[h] IN
           /\ r \in Record
           /\ r.exists = s.exists /\ r.pay = s.pay /\ r.status = s.status /\ r.rate = "released"
           /\ r.settledAt = s.settledAt /\ r.gen = s.gen
  BY DEF TypeOK, ReleasedRecord, Record
(* What one handler knows.                                                 *)
HandlerOK(h) ==
    /\ SnapShape(h) /\ Precedes(snap[h], rec) /\ SlotSeen(h)
    /\ pc[h] = "mark" => Paid

(* A handler that holds the ETag writes a record that follows the last,    *)
(* agrees with the admission, and is settled only if the money has moved.  *)
WriteOK(h, r) ==
    /\ Evolves(r) /\ RateMatches(r) /\ r.exists
    /\ r.pay = "settled" => Paid
    /\ pc[h] \in {"create", "claim", "pend"} => Settling(r)
    /\ pc[h] = "mark" => r.pay = "settled" /\ r.status = "settling"
    /\ pc[h] = "fail" => r.pay = "failed" /\ r.rate = "reserved"

LEMMA WriteGood ==
    ASSUME RecordInv, NEW h \in Handlers, pc[h] \in Writing, PreconditionHolds(h)
    PROVE  WriteOK(h, Write(h))
<1>0. /\ TypeOK /\ clock > 0 /\ RecordShape(rec) /\ rec.gen <= gen /\ RateMatches(rec)
      /\ rec.pay = "settled" => Paid
      /\ HandlerOK(h) /\ rec = snap[h] /\ rec \in Record
  BY DEF RecordInv, PreconditionHolds, HandlerOK, RateAgrees, TypeOK
<1> USE <1>0
<1>1. CASE pc[h] = "create"
  <2> DEFINE r == CreatedRecord(h)
  <2>1. Write(h) = r
    BY <1>1 DEF Write
  <2>2. rec = NoRec /\ ~rec.exists /\ rec.pay = "none" /\ rec.status = "none"
    BY <1>1 DEF HandlerOK, SnapShape, OnNothing, NoRec
  <2>3. /\ r \in Record
        /\ r.exists /\ r.pay = "settling" /\ r.status = "settling" /\ r.rate = "reserved"
        /\ r.settledAt = 0 /\ r.gen = mine[h]
    BY CreatedFields
  <2> HIDE DEF r
  <2>4. mine[h] > 0 /\ mine[h] <= gen /\ (InWindow(mine[h]) => slot = "reserved")
    BY <1>1, <2>2 DEF HandlerOK, SlotSeen
  <2>5. Evolves(r)
    BY <2>2, <2>3, <2>4 DEF Evolves, Precedes, RecordShape, Settling
  <2>6. RateMatches(r)
    BY <2>3, <2>4 DEF RateMatches
  <2>7. QED
    BY <1>1, <2>1, <2>3, <2>5, <2>6 DEF WriteOK, Settling
<1>2. ASSUME pc[h] \in OnReservation
      PROVE  /\ Settling(rec) /\ rec.exists /\ rec.rate = "reserved" /\ rec.settledAt = 0
             /\ rec.gen > 0 /\ (InWindow(rec.gen) => slot = "reserved")
             /\ rec.pay = "settling" /\ rec.status = "settling"
  BY <1>2 DEF HandlerOK, SnapShape, RecordShape, RateMatches, Settling, NoRec
<1>3. CASE pc[h] \in {"claim", "pend"}
  <2> DEFINE r == Write(h)
  <2>1. /\ r \in Record
        /\ r.exists = rec.exists /\ r.pay = "settling" /\ r.status = "settling" /\ r.rate = rec.rate
        /\ r.settledAt = rec.settledAt /\ r.gen = rec.gen /\ rec.lease <= r.lease
    <3>1. CASE pc[h] = "claim"
      <4>1. r = ClaimedRecord(h) /\ snap[h].lease <= now[h] /\ now[h] <= now[h] + Lease
        BY <3>1, SettlementAssumption DEF Write, HandlerOK, SnapShape, TypeOK
      <4>2. QED
        BY <1>2, <3>1, <4>1, ClaimedFields, SettlementAssumption DEF OnReservation, Record, TypeOK
    <3>2. CASE pc[h] = "pend"
      BY <3>2, PendingFields DEF Write, Record
    <3>3. QED
      BY <1>3, <3>1, <3>2
  <2> HIDE DEF r
  <2>2. Evolves(r)
    BY <1>2, <1>3, <2>1 DEF Evolves, Precedes, RecordShape, Settling, OnReservation
  <2>3. RateMatches(r)
    BY <1>2, <1>3, <2>1 DEF RateMatches, OnReservation
  <2>4. QED
    BY <1>2, <1>3, <2>1, <2>2, <2>3 DEF WriteOK, Settling, OnReservation, r
<1>4. CASE pc[h] = "mark"
  <2> DEFINE r == SettledRecord(h)
  <2>1. /\ Write(h) = r /\ r \in Record
        /\ r.exists = rec.exists /\ r.pay = "settled" /\ r.status = "settling"
        /\ r.rate = rec.rate /\ r.settledAt > 0 /\ r.gen = rec.gen
    BY <1>4, SettledFields DEF Write
  <2> HIDE DEF r
  <2>2. Evolves(r)
    BY <1>2, <1>4, <2>1 DEF Evolves, Precedes, RecordShape, Settling, OnReservation
  <2>3. RateMatches(r)
    BY <1>2, <1>4, <2>1 DEF RateMatches, OnReservation, Settling
  <2>4. QED
    BY <1>2, <1>4, <2>1, <2>2, <2>3 DEF WriteOK, HandlerOK, OnReservation
<1>5. CASE pc[h] = "fail"
  <2> DEFINE r == FailedRecord(h)
  <2>1. /\ Write(h) = r /\ r \in Record
        /\ r.exists = rec.exists /\ r.pay = "failed" /\ r.status = "failed"
        /\ r.rate = rec.rate /\ r.gen = rec.gen
    BY <1>5, FailedFields DEF Write
  <2> HIDE DEF r
  <2>2. Evolves(r)
    BY <1>2, <1>5, <2>1 DEF Evolves, Precedes, RecordShape, Settling, OnReservation
  <2>3. RateMatches(r)
    BY <1>2, <1>5, <2>1 DEF RateMatches, OnReservation, Settling
  <2>4. QED
    BY <1>2, <1>5, <2>1, <2>2, <2>3 DEF WriteOK, OnReservation
<1>6. CASE pc[h] = "finalize"
  <2> DEFINE r == QueuedRecord(h)
  <2>1. /\ Write(h) = r /\ r \in Record
        /\ r.exists = rec.exists /\ r.pay = rec.pay /\ r.status = "queued"
        /\ r.rate = "committed" /\ r.settledAt = rec.settledAt /\ r.gen = rec.gen
    BY <1>6, QueuedFields DEF Write
  <2>2. /\ rec.pay = "settled" /\ rec.status = "settling" /\ rec.exists /\ rec.gen > 0
        /\ rec.settledAt > 0 /\ (InWindow(rec.gen) => slot = "committed")
    BY <1>6 DEF HandlerOK, SnapShape, SlotSeen, RecordShape, OnSettled, NoRec, Settling
  <2> HIDE DEF r
  <2>3. Evolves(r)
    BY <2>1, <2>2 DEF Evolves, Precedes, RecordShape, Settling
  <2>4. RateMatches(r)
    BY <2>1, <2>2 DEF RateMatches, Settling
  <2>5. QED
    BY <1>6, <2>1, <2>2, <2>3, <2>4 DEF WriteOK
<1>7. CASE pc[h] = "unrate"
  <2> DEFINE r == ReleasedRecord(h)
  <2>1. /\ Write(h) = r /\ r \in Record
        /\ r.exists = rec.exists /\ r.pay = rec.pay /\ r.status = rec.status
        /\ r.rate = "released" /\ r.gen = rec.gen
    BY <1>7, ReleasedFields DEF Write
  <2>2. /\ rec.pay = "failed" /\ rec.status = "failed" /\ rec.exists /\ rec.gen > 0
        /\ (InWindow(rec.gen) => slot = "none")
    BY <1>7 DEF HandlerOK, SnapShape, SlotSeen, RecordShape, OnFailed, NoRec, Settling
  <2> HIDE DEF r
  <2>3. Evolves(r)
    BY <2>1, <2>2 DEF Evolves, Precedes, RecordShape, Settling
  <2>4. RateMatches(r)
    BY <2>1, <2>2 DEF RateMatches, Settling
  <2>5. QED
    BY <1>7, <2>1, <2>2, <2>3, <2>4 DEF WriteOK
<1>8. QED
  BY <1>1, <1>3, <1>4, <1>5, <1>6, <1>7 DEF Writing
-----------------------------------------------------------------------------
(* RecordInv is inductive.  It is about the shared state and one handler   *)
(* at a time.                                                              *)
SharedOK ==
    /\ SharedType /\ clock > 0
    /\ RecordShape(rec) /\ rec.gen <= gen
    /\ rec.pay = "settled" => Paid
    /\ RateMatches(rec)

LEMMA RecordSplit ==
    RecordInv <=> SharedOK /\ LocalType /\ \A h \in Handlers : HandlerOK(h)
  BY TypeSplit DEF RecordInv, SharedOK, HandlerOK, RateAgrees

LEMMA RecordJoin ==
    ASSUME SharedOK', LocalType', \A h \in Handlers : HandlerOK(h)'
    PROVE  RecordInv'
  BY DEF RecordInv, SharedOK, HandlerOK, RateAgrees, TypeOK, SharedType, LocalType, PCs

(* A handler that does not move keeps what it knows while the record       *)
(* evolves and nothing but the end of a window, or a new reservation,      *)
(* happens to the admission.                                               *)
LEMMA Frame ==
    ASSUME RecordInv, NEW g \in Handlers,
           pc'[g] = pc[g], snap'[g] = snap[g], now'[g] = now[g], mine'[g] = mine[g],
           rec' \in Record, Precedes(rec, rec'), Paid => Paid',
           gen' \in Nat, gen <= gen',
           \A x \in Nat : x <= gen /\ x = gen' /\ open' => x = gen /\ open /\ slot' = slot
    PROVE  HandlerOK(g)'
<1>0. /\ HandlerOK(g) /\ SharedOK /\ snap[g] \in Record /\ mine[g] \in Nat
      /\ rec \in Record /\ gen \in Nat
  BY RecordSplit DEF LocalType, SharedOK, SharedType
<1>1. SnapShape(g)'
  BY <1>0 DEF HandlerOK, SnapShape
<1>2. Precedes(snap'[g], rec')
  BY <1>0, PrecedesTrans DEF HandlerOK
<1>3. snap[g].gen <= gen /\ snap[g].gen \in Nat
  <2>1. CASE snap[g].exists
    BY <1>0, <2>1 DEF HandlerOK, SharedOK, Precedes, Record
  <2>2. CASE ~snap[g].exists
    BY <1>0, <2>2 DEF HandlerOK, SnapShape, RecordShape, NoRec
  <2>3. QED
    BY <2>1, <2>2
<1>4. rec.exists => rec'.exists
  BY DEF Precedes
<1>5. SlotSeen(g)'
  BY <1>0, <1>3, <1>4 DEF HandlerOK, SlotSeen, InWindow
<1>6. QED
  BY <1>0, <1>1, <1>2, <1>5 DEF HandlerOK

(* A step of one handler that leaves the admission and the money alone and *)
(* writes, if anything, the record it may write.                           *)
Writes(h) == rec' = rec \/ (pc[h] \in Writing /\ PreconditionHolds(h) /\ rec' = Write(h))

LEMMA EvolvesNow == RecordInv => Evolves(rec) /\ RateMatches(rec)
  BY PrecedesSelf DEF RecordInv, Evolves, TypeOK, RateAgrees

LEMMA WritesEvolve ==
    ASSUME RecordInv, NEW h \in Handlers, Writes(h)
    PROVE  Evolves(rec') /\ RateMatches(rec') /\ (rec'.pay = "settled" => Paid)
<1>1. CASE rec' = rec
  BY <1>1, EvolvesNow DEF RecordInv
<1>2. CASE pc[h] \in Writing /\ PreconditionHolds(h) /\ rec' = Write(h)
  BY <1>2, WriteGood DEF WriteOK
<1>3. QED
  BY <1>1, <1>2 DEF Writes

LEMMA HandlerKeeps ==
    ASSUME RecordInv, NEW h \in Handlers, Writes(h),
           UNCHANGED <<clock, gen, slot, open, landed, method, rotated>>,
           live' \subseteq Handlers \X Nat, faults' \in Nat,
           LocalType', Others(h), HandlerOK(h)'
    PROVE  RecordInv'
<1>1. SharedOK /\ gen \in Nat
  BY RecordSplit DEF SharedOK, SharedType
<1>2. Evolves(rec') /\ RateMatches(rec') /\ (rec'.pay = "settled" => Paid)
  BY WritesEvolve
<1>3. SharedOK'
  BY <1>1, <1>2 DEF SharedOK, SharedType, Evolves, RateMatches, InWindow, Paid
<1>4. ASSUME NEW g \in Handlers PROVE HandlerOK(g)'
  <2>1. CASE g = h
    BY <2>1
  <2>2. CASE g # h
    BY <1>1, <1>2, <2>2, Frame DEF Others, Evolves, Paid
  <2>3. QED
    BY <2>1, <2>2
<1>5. QED
  BY <1>3, <1>4, RecordJoin
(* The call ends.                                                          *)
LEMMA FinishKeeps ==
    ASSUME RecordInv, NEW h \in Handlers, Finish(h), Writes(h),
           UNCHANGED <<clock, gen, slot, open, landed, live, method, rotated>>,
           faults' \in Nat
    PROVE  RecordInv'
<1>1. SharedType /\ LocalType
  BY RecordSplit DEF SharedOK
<1>2. /\ LocalType' /\ Others(h)
      /\ pc'[h] = "idle" /\ snap'[h] = NoRec /\ mine'[h] = 0
  BY <1>1, FinishLocal
<1>3. HandlerOK(h)'
  BY <1>1, <1>2, NoRecType
     DEF HandlerOK, SnapShape, RecordShape, Precedes, SlotSeen, SharedType,
         OnReservation, OnSettled, OnFailed
<1>4. QED
  BY <1>1, <1>2, <1>3, HandlerKeeps DEF SharedType

(* It goes on with the reservation it has.                                 *)
LEMMA MoveKeeps ==
    ASSUME RecordInv, NEW h \in Handlers, Writes(h),
           pc[h] \in OnReservation, NEW where \in OnReservation, Goto(h, where),
           UNCHANGED <<clock, gen, slot, open, landed, method, rotated, snap, mine>>,
           live' \subseteq Handlers \X Nat, faults' \in Nat,
           \/ now' = now
           \/ now' = [now EXCEPT ![h] = clock],
           \/ req' = req
           \/ req' = [req EXCEPT ![h] = <<h, clock + Land>>],
           \/ asked' = asked
           \/ asked' = [asked EXCEPT ![h] = TRUE],
           tries' \in [Handlers -> 0 .. PendingTries],
           where = "claim" => snap[h].lease <= now'[h],
           where = "mark" => Paid
    PROVE  RecordInv'
<1>0. /\ SharedOK /\ SharedType /\ LocalType /\ HandlerOK(h)
      /\ clock \in Nat /\ clock + Land \in Nat
  BY RecordSplit, SettlementAssumption DEF SharedOK, SharedType
<1>1. where \in PCs
  BY DEF OnReservation, PCs, Leased, Writing
<1>2. pc' \in [Handlers -> PCs] /\ pc'[h] = where /\ \A g \in Handlers \ {h} : pc'[g] = pc[g]
  BY <1>0, <1>1, GotoLocal
<1>3. now' \in [Handlers -> Nat] /\ \A g \in Handlers \ {h} : now'[g] = now[g]
  BY <1>0 DEF LocalType
<1>4. /\ req' \in [Handlers -> (Handlers \X Nat) \cup {NoReq}]
      /\ \A g \in Handlers \ {h} : req'[g] = req[g]
  BY <1>0 DEF LocalType
<1>5. asked' \in [Handlers -> BOOLEAN]
  BY <1>0, Zenon DEF LocalType
<1>6. LocalType' /\ Others(h)
  BY <1>0, <1>2, <1>3, <1>4, <1>5 DEF LocalType, Others
<1>7. Precedes(rec, rec') /\ rec' \in Record
  BY WritesEvolve DEF Evolves
<1>8. SnapShape(h)'
  BY <1>0, <1>2 DEF HandlerOK, SnapShape, OnReservation, OnSettled, OnFailed, OnNothing
<1>9. Precedes(snap[h], rec')
  BY <1>0, <1>7, PrecedesTrans DEF HandlerOK, SharedType, LocalType
<1>10. SlotSeen(h)'
  BY <1>0, <1>2 DEF HandlerOK, SlotSeen, OnReservation
<1>11. HandlerOK(h)'
  BY <1>2, <1>8, <1>9, <1>10 DEF HandlerOK, Paid
<1>12. QED
  BY <1>6, <1>11, HandlerKeeps

(* It goes on with a record it has just read or written.                   *)
LEMMA AdoptKeeps ==
    ASSUME RecordInv, NEW h \in Handlers, Writes(h), rec'.exists,
           NEW where \in {"confirm", "chain", "ask", "pend", "commit", "release"}, Goto(h, where),
           snap' = [snap EXCEPT ![h] = rec'],
           UNCHANGED <<clock, gen, slot, open, landed, live, method, rotated>>,
           UNCHANGED <<now, mine, req, asked>>, faults' \in Nat,
           tries' \in [Handlers -> 0 .. PendingTries],
           where \in OnReservation => Settling(rec'),
           where = "commit" => rec'.pay = "settled" /\ rec'.status = "settling",
           where = "release" => rec'.pay = "failed" /\ rec'.rate = "reserved"
    PROVE  RecordInv'
<1>0. SharedOK /\ SharedType /\ LocalType /\ HandlerOK(h)
  BY RecordSplit DEF SharedOK
<1>1. where \in PCs
  BY DEF PCs, Leased, Writing
<1>2. pc' \in [Handlers -> PCs] /\ pc'[h] = where /\ \A g \in Handlers \ {h} : pc'[g] = pc[g]
  BY <1>0, <1>1, GotoLocal
<1>3. Evolves(rec')
  BY WritesEvolve
<1>4. /\ snap' \in [Handlers -> Record] /\ snap'[h] = rec'
      /\ \A g \in Handlers \ {h} : snap'[g] = snap[g]
  BY <1>0, <1>3 DEF LocalType, Evolves
<1>5. LocalType' /\ Others(h)
  BY <1>0, <1>2, <1>4 DEF LocalType, Others
<1>6. SnapShape(h)'
  BY <1>2, <1>3, <1>4 DEF Evolves, SnapShape, OnReservation, OnSettled, OnFailed, OnNothing
<1>7. Precedes(snap'[h], rec')
  BY <1>3, <1>4, PrecedesSelf DEF Evolves
<1>8. SlotSeen(h)'
  BY <1>0, <1>2 DEF HandlerOK, SlotSeen
<1>9. HandlerOK(h)'
  BY <1>2, <1>6, <1>7, <1>8 DEF HandlerOK
<1>10. QED
  BY <1>0, <1>5, <1>9, HandlerKeeps DEF SharedType
LEMMA ReconcileKeeps ==
    ASSUME RecordInv, NEW h \in Handlers, Reconcile(h, rec), UNCHANGED <<clock, shared, faults>>
    PROVE  RecordInv'
<1>0. SharedOK /\ SharedType /\ LocalType /\ Writes(h) /\ faults \in Nat
  BY RecordSplit DEF SharedOK, SharedType, Writes, shared
<1>1. CASE AfterReconcile(rec) = "idle"
  BY <1>0, <1>1, FinishKeeps DEF Reconcile, shared
<1>2. CASE AfterReconcile(rec) # "idle"
  <2>1. /\ AfterReconcile(rec) \in {"commit", "release"} /\ rec.exists
        /\ AfterReconcile(rec) = "commit" => rec.pay = "settled" /\ rec.status = "settling"
        /\ AfterReconcile(rec) = "release" => rec.pay = "failed" /\ rec.rate = "reserved"
    BY <1>0, <1>2 DEF AfterReconcile, SharedOK, RecordShape, NoRec, Settling
  <2>2. /\ Goto(h, AfterReconcile(rec)) /\ snap' = [snap EXCEPT ![h] = rec']
        /\ UNCHANGED <<now, mine, req, tries, asked>> /\ rec' = rec
        /\ UNCHANGED <<clock, gen, slot, open, landed, live, method, rotated, faults>>
    BY <1>2 DEF Reconcile, shared
  <2>3. tries' \in [Handlers -> 0 .. PendingTries] /\ AfterReconcile(rec) \notin OnReservation
    BY <1>0, <2>1, <2>2 DEF LocalType, OnReservation
  <2>4. QED
    BY <1>0, <2>1, <2>2, <2>3, AdoptKeeps
<1>3. QED
  BY <1>1, <1>2

LEMMA ReadJobKeeps ==
    ASSUME RecordInv, NEW h \in Handlers, ReadJob(h)
    PROVE  RecordInv'
<1>0. /\ SharedOK /\ SharedType /\ LocalType /\ HandlerOK(h) /\ faults \in Nat
      /\ Writes(h) /\ UNCHANGED <<clock, shared, faults>> /\ pc[h] = "read"
  BY RecordSplit DEF SharedOK, SharedType, Writes, shared, ReadJob
<1>1. CASE Finish(h)
  BY <1>0, <1>1, FinishKeeps DEF shared
<1>2. CASE Goto(h, "reserve") /\ UNCHANGED <<snap, now, mine, req, tries, asked>>
  <2>1. /\ pc' \in [Handlers -> PCs] /\ pc'[h] = "reserve"
        /\ \A g \in Handlers \ {h} : pc'[g] = pc[g]
    BY <1>0, <1>2, GotoLocal DEF PCs, Leased
  <2>2. LocalType' /\ Others(h)
    BY <1>0, <1>2, <2>1 DEF LocalType, Others
  <2>3. HandlerOK(h)'
    BY <1>0, <1>2, <2>1
       DEF HandlerOK, SnapShape, Precedes, SlotSeen, shared, OnReservation, OnSettled, OnFailed,
           OnNothing
  <2>4. QED
    BY <1>0, <2>2, <2>3, HandlerKeeps DEF shared, SharedType
<1>3. CASE /\ rec.exists /\ Settling(rec)
           /\ Goto(h, "confirm") /\ snap' = [snap EXCEPT ![h] = rec]
           /\ UNCHANGED <<now, mine, req, tries, asked>>
  BY <1>0, <1>3, AdoptKeeps DEF shared, LocalType
<1>4. CASE Reconcile(h, rec)
  BY <1>0, <1>4, ReconcileKeeps
<1>5. QED
  BY <1>1, <1>2, <1>3, <1>4 DEF ReadJob

(* The slot changes only for the reservation of the record, once that has  *)
(* an outcome.                                                             *)
LEMMA SlotFrame ==
    ASSUME RecordInv, NEW g \in Handlers,
           pc'[g] = pc[g], snap'[g] = snap[g], now'[g] = now[g], mine'[g] = mine[g],
           UNCHANGED <<rec, gen, open, landed>>, rec.exists,
           \/ slot' = slot
           \/ slot' = "committed" /\ rec.pay = "settled"
           \/ slot' = "none" /\ rec.pay = "failed"
    PROVE  HandlerOK(g)'
<1>0. HandlerOK(g)
  BY RecordSplit
<1>1. SnapShape(g)' /\ Precedes(snap'[g], rec')
  BY <1>0 DEF HandlerOK, SnapShape
<1>2. /\ pc[g] = "finalize" => rec.pay = "settled"
      /\ pc[g] = "unrate" => rec.pay = "failed"
  BY <1>0 DEF HandlerOK, SnapShape, Precedes, RecordShape, NoRec, OnSettled, OnFailed
<1>3. SlotSeen(g)'
  BY <1>0, <1>2 DEF HandlerOK, SlotSeen, InWindow
<1>4. QED
  BY <1>0, <1>1, <1>3 DEF HandlerOK, Paid

LEMMA ReserveKeeps ==
    ASSUME RecordInv, NEW h \in Handlers, Reserve(h)
    PROVE  RecordInv'
<1>0. /\ SharedOK /\ SharedType /\ LocalType /\ HandlerOK(h) /\ faults \in Nat /\ Writes(h)
      /\ UNCHANGED <<clock, rec, landed, live, method, rotated, faults>> /\ pc[h] = "reserve"
      /\ gen \in Nat /\ rec \in Record
  BY RecordSplit DEF SharedOK, SharedType, Writes, shared, Reserve
<1>1. CASE /\ gen' = gen + 1 /\ slot' = "reserved" /\ open' = TRUE
           /\ mine' = [mine EXCEPT ![h] = gen + 1]
           /\ Goto(h, "create")
           /\ UNCHANGED <<snap, now, req, tries, asked>>
  <2>1. /\ pc' \in [Handlers -> PCs] /\ pc'[h] = "create"
        /\ \A g \in Handlers \ {h} : pc'[g] = pc[g]
    BY <1>0, <1>1, GotoLocal DEF PCs, Leased
  <2>2. mine' \in [Handlers -> Nat] /\ mine'[h] = gen + 1 /\ \A g \in Handlers \ {h} : mine'[g] = mine[g]
    BY <1>0, <1>1 DEF LocalType
  <2>3. LocalType' /\ Others(h)
    BY <1>0, <1>1, <2>1, <2>2 DEF LocalType, Others
  <2>4. HandlerOK(h)'
    BY <1>0, <1>1, <2>1, <2>2
       DEF HandlerOK, SnapShape, Precedes, SlotSeen, OnReservation, OnSettled, OnFailed, OnNothing
  <2>5. ASSUME NEW g \in Handlers, g # h PROVE HandlerOK(g)'
    <3>1. Precedes(rec, rec') /\ (Paid => Paid')
      BY <1>0, PrecedesSelf DEF Paid
    <3>2. QED
      BY <1>0, <1>1, <2>3, <2>5, <3>1, Frame DEF Others
  <2>6. SharedOK'
    BY <1>0, <1>1 DEF SharedOK, SharedType, RateMatches, InWindow, Paid, Record
  <2>7. QED
    BY <2>3, <2>4, <2>5, <2>6, RecordJoin
<1>2. CASE Goto(h, "observe") /\ UNCHANGED <<gen, slot, open, snap, now, mine, req, tries, asked>>
  <2>1. /\ pc' \in [Handlers -> PCs] /\ pc'[h] = "observe"
        /\ \A g \in Handlers \ {h} : pc'[g] = pc[g]
    BY <1>0, <1>2, GotoLocal DEF PCs, Leased
  <2>2. LocalType' /\ Others(h)
    BY <1>0, <1>2, <2>1 DEF LocalType, Others
  <2>3. HandlerOK(h)'
    BY <1>0, <1>2, <2>1
       DEF HandlerOK, SnapShape, Precedes, SlotSeen, OnReservation, OnSettled, OnFailed, OnNothing
  <2>4. QED
    BY <1>0, <1>2, <2>2, <2>3, HandlerKeeps DEF SharedType
<1>3. CASE Finish(h) /\ UNCHANGED <<gen, slot, open>>
  BY <1>0, <1>3, FinishKeeps
<1>4. QED
  BY <1>1, <1>2, <1>3 DEF Reserve
LEMMA SlotKeeps ==
    ASSUME RecordInv, NEW h \in Handlers, CommitSlot(h) \/ ReleaseSlot(h)
    PROVE  RecordInv'
<1>0. /\ SharedOK /\ SharedType /\ LocalType /\ HandlerOK(h) /\ faults \in Nat /\ Writes(h)
      /\ UNCHANGED <<clock, rec, gen, open, landed, live, method, rotated, faults>>
  BY RecordSplit DEF SharedOK, SharedType, Writes, CommitSlot, ReleaseSlot
<1>1. CASE Finish(h) /\ UNCHANGED slot
  BY <1>0, <1>1, FinishKeeps
<1>2. ASSUME NEW where \in {"finalize", "unrate"}, Goto(h, where),
             UNCHANGED <<snap, now, mine, req, tries, asked>>,
             where = "finalize" =>
                /\ pc[h] = "commit"
                /\ slot' = IF InWindow(snap[h].gen) THEN "committed" ELSE slot
                /\ InWindow(snap[h].gen) => slot # "none",
             where = "unrate" => /\ pc[h] = "release"
                                 /\ slot' = IF InWindow(snap[h].gen) THEN "none" ELSE slot
      PROVE  RecordInv'
  <2>1. /\ pc' \in [Handlers -> PCs] /\ pc'[h] = where
        /\ \A g \in Handlers \ {h} : pc'[g] = pc[g]
    BY <1>0, <1>2, GotoLocal DEF PCs, Writing
  <2>2. LocalType' /\ Others(h)
    BY <1>0, <1>2, <2>1 DEF LocalType, Others
  <2>3. /\ snap[h].exists /\ rec.exists /\ rec.gen = snap[h].gen /\ rec.pay = snap[h].pay
        /\ where = "finalize" => rec.pay = "settled"
        /\ where = "unrate" => rec.pay = "failed"
    BY <1>0, <1>2 DEF HandlerOK, SnapShape, Precedes, RecordShape, NoRec, OnSettled, OnFailed
  <2>4. SnapShape(h)' /\ Precedes(snap'[h], rec')
    BY <1>0, <1>2, <2>1
       DEF HandlerOK, SnapShape, OnReservation, OnSettled, OnFailed, OnNothing
  <2>5. SlotSeen(h)'
    BY <1>0, <1>2, <2>1 DEF HandlerOK, SlotSeen, InWindow
  <2>6. HandlerOK(h)'
    BY <2>1, <2>4, <2>5 DEF HandlerOK
  <2>7. ASSUME NEW g \in Handlers, g # h PROVE HandlerOK(g)'
    BY <1>0, <1>2, <2>2, <2>3, <2>7, SlotFrame DEF Others
  <2>8. SharedOK'
    <3>1. rec.pay = "settled" => rec.rate # "released"
      BY <1>0 DEF SharedOK, RecordShape, NoRec
    <3>2. rec.pay = "failed" => rec.rate # "committed" /\ ~Settling(rec)
      BY <1>0 DEF SharedOK, RecordShape, NoRec, Settling
    <3>3. slot' \in {"none", "reserved", "committed"}
      BY <1>0, <1>2 DEF SharedType
    <3>4. RateMatches(rec)'
      BY <1>0, <1>2, <2>3, <3>1, <3>2 DEF SharedOK, RateMatches, InWindow, Settling
    <3>5. QED
      BY <1>0, <3>3, <3>4 DEF SharedOK, SharedType, Paid
  <2>9. QED
    BY <2>2, <2>6, <2>7, <2>8, RecordJoin
<1>3. QED
  BY <1>1, <1>2 DEF CommitSlot, ReleaseSlot

(* The settlement call and what leads to it.                               *)
LEMMA SettleKeeps ==
    ASSUME RecordInv, NEW h \in Handlers,
           \/ Confirm(h) \/ CheckLease(h) \/ ReadChain(h) \/ CheckSupported(h) \/ Verify(h)
           \/ PostSettle(h) \/ AnswerSettled(h) \/ AnswerRejected(h) \/ AnswerPending(h)
           \/ PendingReadFails(h)
    PROVE  RecordInv'
<1>0. /\ SharedOK /\ SharedType /\ LocalType /\ HandlerOK(h) /\ faults \in Nat
      /\ tries \in [Handlers -> 0 .. PendingTries] /\ live \subseteq Handlers \X Nat
      /\ clock \in Nat /\ snap[h] \in Record
  BY RecordSplit DEF SharedOK, SharedType, LocalType
<1> USE <1>0 DEF Writes, OnReservation
<1>1. CASE Confirm(h)
  BY <1>1, FinishKeeps, MoveKeeps DEF Confirm, shared
<1>2. CASE CheckLease(h)
  <2>1. CASE Finish(h)
    BY <1>2, <2>1, FinishKeeps DEF CheckLease, shared
  <2>2. CASE /\ ~LeaseHeld(snap[h], clock) /\ now' = [now EXCEPT ![h] = clock]
             /\ Goto(h, "claim") /\ UNCHANGED <<snap, mine, req, tries, asked>>
    <3>1. now'[h] = clock /\ snap[h].lease <= clock
      BY <2>2 DEF LeaseHeld, LocalType, Record
    <3>2. QED
      BY <1>2, <2>2, <3>1, MoveKeeps DEF CheckLease, shared
  <2>3. QED
    BY <1>2, <2>1, <2>2 DEF CheckLease
<1>3. CASE ReadChain(h)
  BY <1>3, MoveKeeps DEF ReadChain, shared
<1>4. CASE CheckSupported(h)
  BY <1>4, MoveKeeps DEF CheckSupported, shared
<1>5. CASE Verify(h)
  BY <1>5, MoveKeeps DEF Verify, shared
<1>6. CASE PostSettle(h)
  <2>1. live' \subseteq Handlers \X Nat
    BY <1>6, SettlementAssumption DEF PostSettle
  <2>2. QED
    BY <1>6, <2>1, MoveKeeps DEF PostSettle
<1>7. CASE AnswerSettled(h)
  BY <1>7, MoveKeeps DEF AnswerSettled, shared
<1>8. CASE AnswerRejected(h)
  <2>1. live' \subseteq Handlers \X Nat
    BY <1>8 DEF AnswerRejected
  <2>2. QED
    BY <1>8, <2>1, MoveKeeps DEF AnswerRejected
<1>9. CASE AnswerPending(h)
  <2>1. tries' \in [Handlers -> 0 .. PendingTries] /\ faults' \in Nat
    BY <1>9, SettlementAssumption DEF AnswerPending
  <2>2. QED
    BY <1>9, <2>1, MoveKeeps DEF AnswerPending, shared
<1>10. CASE PendingReadFails(h)
  <2>1. faults' \in Nat
    BY <1>10 DEF PendingReadFails
  <2>2. CASE Finish(h)
    BY <1>10, <2>1, <2>2, FinishKeeps DEF PendingReadFails, shared
  <2>3. CASE /\ tries[h] > 1 /\ tries' = [tries EXCEPT ![h] = @ - 1] /\ Goto(h, "pend")
             /\ UNCHANGED <<snap, now, mine, req, asked>>
    <3>1. tries' \in [Handlers -> 0 .. PendingTries]
      BY <2>3, SettlementAssumption
    <3>2. QED
      BY <1>10, <2>1, <2>3, <3>1, MoveKeeps DEF PendingReadFails, shared
  <2>4. QED
    BY <1>10, <2>2, <2>3 DEF PendingReadFails
<1>11. QED
  BY <1>1, <1>2, <1>3, <1>4, <1>5, <1>6, <1>7, <1>8, <1>9, <1>10
(* The conditional writes, answered and unanswered.                        *)
LEMMA PutKeeps ==
    ASSUME RecordInv, NEW h \in Handlers, PutOk(h)
    PROVE  RecordInv'
<1>0. /\ SharedOK /\ LocalType /\ faults \in Nat /\ pc[h] \in Writing
      /\ tries \in [Handlers -> 0 .. PendingTries]
      /\ UNCHANGED <<clock, gen, slot, open, landed, live, method, rotated, faults>>
      /\ rec' = Write(h) /\ Writes(h) /\ WriteOK(h, rec')
  BY RecordSplit, WriteGood DEF SharedOK, SharedType, LocalType, PutOk, Writes
<1>1. CASE Finish(h)
  BY <1>0, <1>1, FinishKeeps
<1>2. CASE /\ AfterPut(h) # "idle" /\ Goto(h, AfterPut(h))
           /\ snap' = [snap EXCEPT ![h] = Write(h)]
           /\ UNCHANGED <<now, mine, req, tries, asked>>
  <2>1. /\ AfterPut(h) \in {"confirm", "chain", "ask", "commit", "release"}
        /\ AfterPut(h) \in OnReservation => pc[h] \in {"create", "claim"}
        /\ AfterPut(h) = "commit" => pc[h] = "mark"
        /\ AfterPut(h) = "release" => pc[h] = "fail"
    BY <1>0, <1>2 DEF AfterPut, Writing, OnReservation
  <2>2. QED
    BY <1>0, <1>2, <2>1, AdoptKeeps DEF WriteOK
<1>3. QED
  BY <1>1, <1>2 DEF PutOk

LEMMA GiveWayKeeps ==
    ASSUME RecordInv, NEW h \in Handlers, PutConflict(h) \/ PutFalseConflict(h)
    PROVE  RecordInv'
<1>0. /\ SharedOK /\ SharedType /\ LocalType /\ HandlerOK(h) /\ pc[h] \in Writing /\ GiveWay(h)
      /\ UNCHANGED <<clock, gen, slot, open, landed, live, method, rotated>>
      /\ faults' \in Nat /\ Writes(h)
      /\ tries \in [Handlers -> 0 .. PendingTries] /\ live \subseteq Handlers \X Nat
  BY RecordSplit DEF SharedOK, SharedType, LocalType, PutConflict, PutFalseConflict, Writes, shared
<1>1. CASE Finish(h)
  BY <1>0, <1>1, FinishKeeps
<1>2. CASE /\ AfterConflict(h) # "idle" /\ Goto(h, AfterConflict(h))
           /\ UNCHANGED <<snap, now, mine, req, tries, asked>>
  <2>1. CASE pc[h] = "create"
    <3>1. AfterConflict(h) = "observe"
      BY <2>1 DEF AfterConflict
    <3>2. /\ pc' \in [Handlers -> PCs] /\ pc'[h] = "observe"
          /\ \A g \in Handlers \ {h} : pc'[g] = pc[g]
      BY <1>0, <1>2, <3>1, GotoLocal DEF PCs
    <3>3. LocalType' /\ Others(h)
      BY <1>0, <1>2, <3>2 DEF LocalType, Others
    <3>4. HandlerOK(h)'
      BY <1>0, <1>2, <2>1, <3>2, NoRecType
         DEF HandlerOK, SnapShape, Precedes, SlotSeen, OnReservation, OnSettled, OnFailed, OnNothing
    <3>5. QED
      BY <1>0, <3>3, <3>4, HandlerKeeps
  <2>2. CASE pc[h] \in {"claim", "pend"}
    <3>1. AfterConflict(h) \in {"reread", "pendread"}
      BY <2>2 DEF AfterConflict
    <3>2. QED
      BY <1>0, <1>2, <2>2, <3>1, MoveKeeps DEF OnReservation
  <2>3. QED
    BY <1>0, <1>2, <2>1, <2>2 DEF AfterConflict, Writing
<1>3. QED
  BY <1>0, <1>1, <1>2 DEF GiveWay

LEMMA PendingRereadKeeps ==
    ASSUME RecordInv, NEW h \in Handlers, PendingReread(h)
    PROVE  RecordInv'
<1>0. /\ SharedOK /\ LocalType /\ faults \in Nat /\ Writes(h)
      /\ tries \in [Handlers -> 0 .. PendingTries]
      /\ UNCHANGED <<clock, rec, gen, slot, open, landed, live, method, rotated, faults>>
  BY RecordSplit DEF SharedOK, SharedType, LocalType, PendingReread, Writes, shared
<1>1. CASE Finish(h)
  BY <1>0, <1>1, FinishKeeps
<1>2. CASE /\ Settling(rec) /\ tries[h] > 1
           /\ snap' = [snap EXCEPT ![h] = rec]
           /\ tries' = [tries EXCEPT ![h] = @ - 1]
           /\ Goto(h, "pend")
           /\ UNCHANGED <<now, mine, req, asked>>
  <2>1. tries' \in [Handlers -> 0 .. PendingTries]
    BY <1>0, <1>2, SettlementAssumption
  <2>2. rec.exists
    BY <1>0, <1>2 DEF SharedOK, RecordShape, Settling, NoRec
  <2>3. QED
    BY <1>0, <1>2, <2>1, <2>2, AdoptKeeps
<1>3. QED
  BY <1>1, <1>2 DEF PendingReread

LEMMA StartKeeps ==
    ASSUME RecordInv, NEW h \in Handlers, Start(h)
    PROVE  RecordInv'
<1>0. /\ SharedOK /\ SharedType /\ LocalType /\ HandlerOK(h) /\ faults \in Nat /\ Writes(h)
      /\ UNCHANGED <<clock, rec, gen, slot, open, landed, live, method, rotated, faults>>
      /\ UNCHANGED <<snap, mine, req, tries, asked>> /\ pc[h] = "idle" /\ Goto(h, "read")
      /\ now' = [now EXCEPT ![h] = clock]
  BY RecordSplit DEF SharedOK, SharedType, Start, Writes, shared
<1>1. /\ pc' \in [Handlers -> PCs] /\ pc'[h] = "read"
      /\ \A g \in Handlers \ {h} : pc'[g] = pc[g]
  BY <1>0, GotoLocal DEF PCs, Leased
<1>2. LocalType' /\ Others(h)
  BY <1>0, <1>1 DEF LocalType, Others, SharedType
<1>3. HandlerOK(h)'
  BY <1>0, <1>1
     DEF HandlerOK, SnapShape, Precedes, SlotSeen, OnReservation, OnSettled, OnFailed, OnNothing
<1>4. QED
  BY <1>0, <1>2, <1>3, HandlerKeeps DEF SharedType

LEMMA DieKeeps ==
    ASSUME RecordInv, NEW h \in Handlers, Die(h) \/ Observe(h)
    PROVE  RecordInv'
<1>0. SharedType
  BY RecordSplit DEF SharedOK
<1>1. /\ Finish(h) /\ faults' \in Nat /\ Writes(h)
      /\ UNCHANGED <<clock, gen, slot, open, landed, live, method, rotated>>
  BY <1>0 DEF Die, Observe, Writes, shared, SharedType
<1>2. QED
  BY <1>1, FinishKeeps

(* What happens around the handlers.                                       *)
LEMMA WorldKeeps ==
    ASSUME RecordInv, Tick \/ CloseWindow \/ LandSettlement \/ Rotate \/ Execute
    PROVE  RecordInv'
<1>0. /\ SharedOK /\ SharedType /\ LocalType /\ UNCHANGED local /\ faults' = faults
      /\ rec \in Record /\ gen \in Nat
  BY RecordSplit DEF SharedOK, SharedType, Tick, CloseWindow, LandSettlement, Rotate, Execute
<1>1. LocalType'
  BY <1>0 DEF LocalType, local
<1>2. SharedType'
  <2>1. CASE Tick
    BY <1>0, <2>1 DEF Tick, SharedType
  <2>2. CASE CloseWindow \/ Rotate
    BY <1>0, <2>2 DEF CloseWindow, Rotate, SharedType
  <2>3. CASE LandSettlement
    BY <1>0, <2>3 DEF LandSettlement, SharedType
  <2>4. CASE Execute
    BY <1>0, <2>4 DEF Execute, SharedType, Record
  <2>5. QED
    BY <2>1, <2>2, <2>3, <2>4
<1>3. /\ Evolves(rec') /\ (Paid => Paid') /\ gen' = gen
      /\ (open' => open /\ slot' = slot) /\ clock' >= clock
      /\ (rec'.pay = "settled" => Paid') /\ (rec'.pay = rec.pay /\ rec'.rate = rec.rate)
      /\ rec'.exists = rec.exists /\ rec'.gen = rec.gen /\ (Settling(rec') => Settling(rec))
  <2>1. CASE Tick \/ CloseWindow \/ Rotate
    BY <1>0, <2>1, EvolvesNow DEF Tick, CloseWindow, Rotate, Paid, SharedOK, SharedType
  <2>2. CASE LandSettlement
    <3>1. Paid'
      BY <1>0, <2>2 DEF LandSettlement, Paid, NoReq, SharedType
    <3>2. QED
      BY <1>0, <2>2, <3>1, EvolvesNow DEF LandSettlement, SharedType
  <2>3. CASE Execute
    <3>1. /\ rec' \in Record /\ rec'.status = "running" /\ rec'.pay = rec.pay
          /\ rec'.exists = rec.exists /\ rec'.rate = rec.rate /\ rec'.lease = rec.lease
          /\ rec'.settledAt = rec.settledAt /\ rec'.gen = rec.gen
      BY <1>0, <2>3 DEF Execute, Record
    <3>2. rec.status = "queued" /\ UNCHANGED <<clock, gen, slot, open, landed>>
      BY <2>3 DEF Execute
    <3>3. /\ rec.exists /\ rec.gen > 0 /\ rec.pay = "settled" /\ rec.settledAt > 0
          /\ rec.rate = "committed" /\ rec.gen <= gen
      BY <1>0, <3>2 DEF SharedOK, RecordShape, Settling, NoRec
    <3>4. Evolves(rec')
      BY <3>1, <3>2, <3>3 DEF Evolves, RecordShape, Precedes, Settling
    <3>5. QED
      BY <1>0, <3>1, <3>2, <3>4 DEF SharedOK, Paid, Settling, SharedType
  <2>4. QED
    BY <2>1, <2>2, <2>3
<1>4. ASSUME NEW g \in Handlers PROVE HandlerOK(g)'
  BY <1>0, <1>3, Frame DEF local, Evolves
<1>5. SharedOK'
  BY <1>0, <1>2, <1>3 DEF SharedOK, Evolves, RateMatches, InWindow, SharedType
<1>6. QED
  BY <1>1, <1>4, <1>5, RecordJoin

LEMMA RecordInit == Init => RecordInv
<1> SUFFICES ASSUME Init PROVE RecordInv
  OBVIOUS
<1> USE SettlementAssumption, NoRecType DEF Init
<1>1. SharedOK
  <2>1. open \in BOOLEAN /\ rotated \in BOOLEAN
    BY Zenon
  <2>2. SharedType
    BY <2>1 DEF SharedType
  <2>3. QED
    BY <2>2 DEF SharedOK, RecordShape, RateMatches, NoRec
<1>2. LocalType
  BY DEF LocalType, PCs
<1>3. ASSUME NEW h \in Handlers PROVE HandlerOK(h)
  BY DEF HandlerOK, SnapShape, RecordShape, Precedes, SlotSeen, OnReservation, OnSettled, OnFailed
<1>4. QED
  BY <1>1, <1>2, <1>3, RecordSplit

LEMMA RecordStep == RecordInv /\ [Next]_vars => RecordInv'
<1> SUFFICES ASSUME RecordInv, [Next]_vars PROVE RecordInv'
  OBVIOUS
<1>1. CASE UNCHANGED vars
  BY <1>1 DEF vars, shared, local, RecordInv, TypeOK, RateAgrees, RateMatches, InWindow, Paid,
              SnapShape, SlotSeen
<1>2. CASE Tick \/ CloseWindow \/ LandSettlement \/ Rotate \/ Execute
  BY <1>2, WorldKeeps
<1>3. ASSUME NEW h \in Handlers, Start(h) \/ Step(h) \/ Fault(h) PROVE RecordInv'
  <2>1. CASE Reread(h)
    BY <2>1, ReconcileKeeps DEF Reread
  <2>2. QED
    BY <1>3, <2>1, StartKeeps, ReadJobKeeps, ReserveKeeps, SlotKeeps, SettleKeeps, PutKeeps,
       GiveWayKeeps, PendingRereadKeeps, DieKeeps DEF Step, Fault
<1>4. QED
  BY <1>1, <1>2, <1>3 DEF Next
(* What one step may do to the record.                                     *)
LEMMA RecordEvolves == RecordInv /\ [Next]_vars => Evolves(rec')
<1> SUFFICES ASSUME RecordInv, [Next]_vars PROVE Evolves(rec')
  OBVIOUS
<1>1. CASE rec' = rec
  BY <1>1, EvolvesNow
<1>2. ASSUME NEW h \in Handlers, pc[h] \in Writing, PreconditionHolds(h), rec' = Write(h)
      PROVE  Evolves(rec')
  BY <1>2, WriteGood DEF WriteOK
<1>3. CASE Execute
  <2>1. rec \in Record /\ RecordShape(rec) /\ rec.gen <= gen
    BY DEF RecordInv, TypeOK
  <2>2. /\ rec' \in Record /\ rec'.status = "running" /\ rec'.pay = rec.pay
        /\ rec'.exists = rec.exists /\ rec'.rate = rec.rate /\ rec'.lease = rec.lease
        /\ rec'.settledAt = rec.settledAt /\ rec'.gen = rec.gen
    BY <1>3, <2>1 DEF Execute, Record
  <2>3. /\ rec.exists /\ rec.gen > 0 /\ rec.pay = "settled" /\ rec.settledAt > 0
        /\ rec.rate = "committed"
    BY <1>3, <2>1 DEF Execute, RecordShape, Settling, NoRec
  <2>4. QED
    BY <2>1, <2>2, <2>3 DEF Evolves, RecordShape, Precedes, Settling
<1>4. ASSUME NEW h \in Handlers, Start(h) \/ Step(h) \/ Fault(h) PROVE Evolves(rec')
  <2>1. \/ rec' = rec
        \/ pc[h] \in Writing /\ PreconditionHolds(h) /\ rec' = Write(h)
    BY <1>4 DEF Start, Step, Fault, ReadJob, Reserve, Confirm, CommitSlot, ReleaseSlot, CheckLease,
                Reread, ReadChain, CheckSupported, Verify, PostSettle, AnswerSettled,
                AnswerRejected, PendingReread, PutOk, PutConflict, Observe, AnswerPending,
                PendingReadFails, PutFalseConflict, Die, shared
  <2>2. QED
    BY <1>1, <1>2, <2>1
<1>5. QED
  BY <1>1, <1>3, <1>4 DEF Next, Tick, CloseWindow, LandSettlement, Rotate, vars, shared

LEMMA RecordAlways == Spec => []RecordInv
  BY RecordInit, RecordStep, PTL DEF Spec

(* The record never says more than the chain: however many handlers carry  *)
(* the proof, die, lose answers, take over or come late, and however slow  *)
(* they are, a job that is queued or worked on has been paid for, its      *)
(* admission is committed and the time of its settlement recorded.         *)
THEOREM WorkIsPaid == Spec => []WorkOnlyIfPaid
<1>1. RecordInv => WorkOnlyIfPaid
  BY DEF RecordInv, WorkOnlyIfPaid, RecordShape, Settling, NoRec
<1>2. QED
  BY <1>1, RecordAlways, PTL

(* The record and the wallet's admission agree while the reservation is    *)
(* inside its window: create_job, confirm, commit and release, each an     *)
(* await apart from the write of the record, never leave a settling job    *)
(* without a reservation or a paid one without its place.                  *)
THEOREM RateSound == Spec => [](TypeOK /\ RateAgrees)
<1>1. RecordInv => TypeOK /\ RateAgrees
  BY DEF RecordInv
<1>2. QED
  BY <1>1, RecordAlways, PTL

(* The outcome of a payment is final and work is not undone: If-Match on   *)
(* the record is enough, whatever a late handler still believes.           *)
THEOREM OutcomesFinal == Spec => OutcomeFinal
<1>1. RecordInv /\ [Next]_vars =>
        [/\ rec.pay = "settled" => rec'.pay = "settled" /\ rec'.settledAt = rec.settledAt
         /\ rec.pay = "failed" => rec'.pay = "failed"
         /\ rec.status = "running" => rec'.status = "running"]_vars
  BY RecordEvolves DEF Evolves, Precedes, RecordInv, RecordShape, NoRec
<1>2. QED
  BY <1>1, RecordAlways, PTL DEF Spec, OutcomeFinal
-----------------------------------------------------------------------------
(* The lease.  A settler that is done within its lease is the only one.    *)

LEMMA LeaseFacts ==
    ASSUME RecordInv, LeaseInv, NEW h \in Handlers
    PROVE  /\ LocalType /\ SharedType /\ HandlerOK(h) /\ LeaseSeen(h)
           /\ pc[h] \in PCs /\ snap[h] \in Record /\ snap[h].lease \in Nat
           /\ now[h] \in Nat /\ mine[h] \in Nat /\ clock \in Nat
           /\ rec \in Record /\ rec.lease \in Nat
  BY RecordSplit DEF LeaseInv, SharedOK, SharedType, LocalType, Record

(* A handler that writes does not take the lease from an owner.            *)
LEMMA OwnerStays ==
    ASSUME RecordInv, LeaseInv, SettlesInTime,
           NEW g \in Handlers, NEW h \in Handlers, g # h, Owner(g), Writes(h)
    PROVE  Settling(rec') /\ rec'.lease = rec.lease
<1>0. /\ LeaseSeen(g) /\ Settling(rec) /\ rec.lease = snap[g].lease
      /\ snap[g].lease = now[g] + Lease /\ clock <= now[g] + Stall
      /\ clock \in Nat /\ now[g] \in Nat /\ now[h] \in Nat /\ HandlerOK(h) /\ LeaseSeen(h)
  BY LeaseFacts DEF LeaseSeen, Owner, Leased
<1>1. CASE rec' = rec
  BY <1>0, <1>1
<1>2. ASSUME pc[h] \in Writing, PreconditionHolds(h), rec' = Write(h)
      PROVE  Settling(rec') /\ rec'.lease = rec.lease
  <2>1. rec = snap[h]
    BY <1>2 DEF PreconditionHolds
  <2>2. pc[h] \notin {"create", "finalize", "unrate"}
    BY <1>0, <2>1 DEF HandlerOK, SnapShape, OnNothing, OnSettled, OnFailed, Settling, NoRec
  <2>3. pc[h] # "claim"
    BY <1>0, <2>1, SettlementAssumption DEF HandlerOK, SnapShape, LeaseSeen, SettlesInTime
  <2>4. pc[h] \notin {"mark", "fail"}
    BY <1>0, <2>1 DEF LeaseInv, Deciding
  <2>5. pc[h] = "pend"
    BY <1>2, <2>2, <2>3, <2>4 DEF Writing
  <2>6. rec' = PendingRecord(h)
    BY <1>2, <2>5 DEF Write
  <2>7. QED
    BY <2>1, <2>6, PendingFields DEF Settling, RecordInv
<1>3. QED
  BY <1>1, <1>2 DEF Writes

LEMMA LeaseFrame ==
    ASSUME RecordInv, LeaseInv, SettlesInTime,
           NEW h \in Handlers, Writes(h), Others(h), clock' = clock,
           NEW g \in Handlers, g # h
    PROVE  LeaseSeen(g)' /\ (Deciding(g)' <=> Deciding(g)) /\ snap'[g] = snap[g]
<1>1. LeaseSeen(g) /\ (Owner(g) => Settling(rec') /\ rec'.lease = rec.lease)
  BY LeaseFacts, OwnerStays
<1>2. /\ pc'[g] = pc[g] /\ snap'[g] = snap[g] /\ now'[g] = now[g] /\ mine'[g] = mine[g]
  BY DEF Others
<1>3. QED
  BY <1>1, <1>2 DEF LeaseSeen, Owner, Deciding

(* A step in which no handler begins to decide.                            *)
LEMMA LeaseKeeps ==
    ASSUME RecordInv, LeaseInv, SettlesInTime,
           NEW h \in Handlers, Writes(h), Others(h), clock' = clock, LeaseSeen(h)',
           Deciding(h)' => Deciding(h) /\ snap'[h].lease = snap[h].lease
    PROVE  LeaseInv'
<1>1. ASSUME NEW g \in Handlers, g # h
      PROVE  LeaseSeen(g)' /\ (Deciding(g)' <=> Deciding(g)) /\ snap'[g] = snap[g]
  BY <1>1, LeaseFrame
<1>2. \A g \in Handlers : LeaseSeen(g)'
  BY <1>1
<1>3. ASSUME NEW f \in Handlers, NEW g \in Handlers, f # g, Deciding(f)', Deciding(g)'
      PROVE  snap'[f].lease # snap'[g].lease
  <2>1. /\ Deciding(f) /\ snap'[f].lease = snap[f].lease
        /\ Deciding(g) /\ snap'[g].lease = snap[g].lease
    BY <1>1, <1>3
  <2>2. QED
    BY <1>3, <2>1 DEF LeaseInv
<1>4. QED
  BY <1>2, <1>3 DEF LeaseInv

LEMMA LeaseFinish ==
    ASSUME RecordInv, LeaseInv, SettlesInTime, NEW h \in Handlers, Finish(h), Writes(h),
           clock' = clock
    PROVE  LeaseInv'
<1>1. LocalType /\ clock \in Nat
  BY LeaseFacts
<1>2. Others(h) /\ pc'[h] = "idle" /\ now'[h] = 0 /\ mine'[h] = 0
  BY <1>1, FinishLocal
<1>3. LeaseSeen(h)' /\ ~Deciding(h)'
  BY <1>1, <1>2 DEF LeaseSeen, Owner, Deciding, Leased
<1>4. QED
  BY <1>2, <1>3, LeaseKeeps

(* A handler goes on without a new lease.                                  *)
OwnerPCs == {"chain", "ask", "verify", "settle", "await"}

GoesOn(h, where) ==
    /\ where \in PCs /\ Goto(h, where) /\ Writes(h) /\ clock' = clock
    /\ \A g \in Handlers \ {h} :
         snap'[g] = snap[g] /\ now'[g] = now[g] /\ mine'[g] = mine[g] /\ req'[g] = req[g]
    /\ \/ now'[h] = now[h] /\ (where \in Leased => pc[h] \in Leased)
       \/ now'[h] = clock
    /\ where \in {"idle", "read", "reserve", "lease", "claim", "confirm"} => mine'[h] = 0
    /\ where \in {"mark", "fail"} => Deciding(h) /\ snap'[h] = snap[h]
    /\ where \in OwnerPCs => /\ Owner(h) /\ snap'[h] = snap[h] /\ now'[h] = now[h]
                             /\ rec' = rec

LEMMA LeaseMove ==
    ASSUME RecordInv, LeaseInv, SettlesInTime, NEW h \in Handlers, NEW where, GoesOn(h, where)
    PROVE  LeaseInv'
<1>0. LocalType /\ LeaseSeen(h) /\ clock \in Nat /\ now[h] \in Nat
  BY LeaseFacts
<1>1. pc'[h] = where /\ \A g \in Handlers \ {h} : pc'[g] = pc[g]
  BY <1>0, GotoLocal DEF GoesOn
<1>2. Others(h)
  BY <1>1 DEF Others, GoesOn
<1>3. Deciding(h)' => Deciding(h) /\ snap'[h].lease = snap[h].lease
  BY <1>1 DEF GoesOn, Deciding, Owner, OwnerPCs
<1>4. Owner(h)' => Owner(h) /\ snap'[h] = snap[h] /\ now'[h] = now[h] /\ rec' = rec
  BY <1>1 DEF GoesOn, Owner, OwnerPCs
<1>5. LeaseSeen(h)'
  BY <1>0, <1>1, <1>4, SettlementAssumption DEF LeaseSeen, GoesOn
<1>6. QED
  BY <1>2, <1>3, <1>5, LeaseKeeps DEF GoesOn

(* A handler that has written a reservation, or a claim, has a lease that  *)
(* nobody decides under.                                                   *)
LEMMA LeaseTaken ==
    ASSUME RecordInv, LeaseInv, SettlesInTime, NEW h \in Handlers, PutOk(h),
           pc[h] \in {"create", "claim"}
    PROVE  LeaseInv'
<1>0. /\ LocalType /\ HandlerOK(h) /\ LeaseSeen(h) /\ rec = snap[h] /\ clock' = clock
      /\ clock \in Nat /\ now[h] \in Nat /\ TypeOK /\ Writes(h) /\ rec' = Write(h)
  BY LeaseFacts DEF PutOk, PreconditionHolds, RecordInv, Writes
<1>1. AfterPut(h) \in {"confirm", "chain", "ask"} /\ (AfterPut(h) = "confirm" => pc[h] = "create")
  BY DEF AfterPut
<1>2. /\ Goto(h, AfterPut(h)) /\ snap' = [snap EXCEPT ![h] = Write(h)]
      /\ UNCHANGED <<now, mine, req, tries, asked>>
  BY <1>1 DEF PutOk
<1>3. /\ pc'[h] = AfterPut(h) /\ snap'[h] = Write(h)
      /\ \A g \in Handlers \ {h} : pc'[g] = pc[g] /\ snap'[g] = snap[g]
  BY <1>0, <1>1, <1>2, GotoLocal DEF LocalType, PCs, Leased
<1>4. Others(h)
  BY <1>2, <1>3 DEF Others
<1>5. Write(h).lease = now[h] + Lease /\ Settling(Write(h))
  <2>1. CASE pc[h] = "create"
    BY <1>0, <2>1, CreatedFields DEF Write, Settling
  <2>2. CASE pc[h] = "claim"
    BY <1>0, <2>2, ClaimedFields DEF Write, Settling, HandlerOK, SnapShape, OnReservation
  <2>3. QED
    BY <2>1, <2>2
<1>6. LeaseSeen(h)'
  BY <1>0, <1>1, <1>2, <1>3, <1>5 DEF LeaseSeen, Leased
<1>7. ASSUME NEW g \in Handlers, g # h
      PROVE  LeaseSeen(g)' /\ (Deciding(g)' <=> Deciding(g)) /\ snap'[g] = snap[g]
  BY <1>0, <1>4, <1>7, LeaseFrame
<1>8. ASSUME NEW g \in Handlers, g # h, Deciding(g)
      PROVE  snap[g].lease < now[h] + Lease
  <2>1. HandlerOK(g) /\ snap[g] \in Record /\ snap[g].lease \in Nat
    BY LeaseFacts
  <2>2. Settling(snap[g]) /\ snap[g].exists
    BY <1>8, <2>1 DEF HandlerOK, SnapShape, RecordShape, Deciding, Owner, OnReservation, Settling,
                      NoRec
  <2>3. rec.exists
    BY <2>1, <2>2 DEF HandlerOK, Precedes
  <2>4. pc[h] = "claim"
    BY <1>0, <2>3 DEF HandlerOK, SnapShape, OnNothing, NoRec
  <2>5. Settling(rec) /\ rec.lease <= now[h] /\ rec.lease \in Nat
    BY <1>0, <2>4, LeaseFacts DEF HandlerOK, SnapShape, OnReservation
  <2>6. snap[g].lease <= rec.lease
    BY <2>1, <2>2, <2>5 DEF HandlerOK, Precedes
  <2>7. QED
    BY <1>0, <2>1, <2>5, <2>6, SettlementAssumption
<1>9. ASSUME NEW f \in Handlers, NEW g \in Handlers, f # g, Deciding(f)', Deciding(g)'
      PROVE  snap'[f].lease # snap'[g].lease
  <2>1. ASSUME NEW k \in Handlers, k # h, Deciding(k)' PROVE snap'[k].lease < now[h] + Lease
    BY <1>7, <1>8, <2>1
  <2>2. ASSUME NEW k \in Handlers PROVE snap[k].lease \in Nat
    BY LeaseFacts
  <2>3. CASE f = h \/ g = h
    BY <1>0, <1>3, <1>5, <1>7, <1>9, <2>1, <2>2, <2>3, SettlementAssumption
  <2>4. CASE f # h /\ g # h
    BY <1>7, <1>9, <2>4 DEF LeaseInv
  <2>5. QED
    BY <2>3, <2>4
<1>10. QED
  BY <1>6, <1>7, <1>9 DEF LeaseInv

LEMMA LeaseHandler ==
    ASSUME RecordInv, LeaseInv, SettlesInTime, NEW h \in Handlers, Start(h) \/ Step(h) \/ Fault(h)
    PROVE  LeaseInv'
<1>0. /\ LocalType /\ HandlerOK(h) /\ LeaseSeen(h) /\ clock \in Nat /\ now[h] \in Nat
      /\ mine[h] \in Nat
  BY LeaseFacts
<1> USE <1>0 DEF PCs, Leased, Writing, OwnerPCs
<1>1. ASSUME Finish(h), Writes(h), clock' = clock PROVE LeaseInv'
  BY <1>1, LeaseFinish
<1>2. CASE Start(h)
  <2>1. now'[h] = clock /\ mine[h] = 0 /\ pc'[h] = "read"
    BY <1>2 DEF Start, Goto, LocalType, LeaseSeen
  <2>2. GoesOn(h, "read")
    BY <1>2, <2>1 DEF GoesOn, LocalType, Owner, Deciding, Start, Writes, shared
  <2>3. QED
    BY <2>2, LeaseMove
<1>3. ASSUME NEW r, Reconcile(h, r), UNCHANGED <<clock, rec>> PROVE LeaseInv'
  <2>1. CASE Finish(h)
    BY <1>1, <1>3, <2>1 DEF Writes
  <2>2. CASE /\ AfterReconcile(r) # "idle" /\ Goto(h, AfterReconcile(r))
             /\ snap' = [snap EXCEPT ![h] = r] /\ UNCHANGED <<now, mine, req, tries, asked>>
    <3>1. AfterReconcile(r) \in {"commit", "finalize", "release"}
      BY <2>2 DEF AfterReconcile
    <3>2. pc'[h] = AfterReconcile(r) /\ \A g \in Handlers \ {h} : snap'[g] = snap[g]
      BY <2>2, <3>1, GotoLocal DEF LocalType
    <3>3. GoesOn(h, AfterReconcile(r))
      BY <1>3, <2>2, <3>1, <3>2 DEF GoesOn, LocalType, Owner, Deciding, Writes
    <3>4. QED
      BY <3>3, LeaseMove
  <2>3. QED
    BY <1>3, <2>1, <2>2 DEF Reconcile
<1>4. CASE ReadJob(h)
  <2>0. mine[h] = 0 /\ UNCHANGED <<clock, rec>> /\ Writes(h)
    BY <1>4 DEF ReadJob, LeaseSeen, shared, Writes
  <2>1. CASE Finish(h)
    BY <1>1, <2>0, <2>1
  <2>2. CASE Goto(h, "reserve") /\ UNCHANGED <<snap, now, mine, req, tries, asked>>
    <3>1. pc'[h] = "reserve"
      BY <2>2, GotoLocal
    <3>2. GoesOn(h, "reserve")
      BY <1>4, <2>0, <2>2, <3>1 DEF GoesOn, LocalType, Owner, Deciding, ReadJob
    <3>3. QED
      BY <3>2, LeaseMove
  <2>3. CASE /\ Goto(h, "confirm") /\ snap' = [snap EXCEPT ![h] = rec]
             /\ UNCHANGED <<now, mine, req, tries, asked>>
    <3>1. pc'[h] = "confirm" /\ \A g \in Handlers \ {h} : snap'[g] = snap[g]
      BY <2>3, GotoLocal DEF LocalType
    <3>2. GoesOn(h, "confirm")
      BY <1>4, <2>0, <2>3, <3>1 DEF GoesOn, LocalType, Owner, Deciding, ReadJob
    <3>3. QED
      BY <3>2, LeaseMove
  <2>4. QED
    BY <1>3, <1>4, <2>0, <2>1, <2>2, <2>3 DEF ReadJob
<1>5. CASE Reserve(h)
  <2>0. mine[h] = 0 /\ UNCHANGED <<clock, rec>> /\ Writes(h)
    BY <1>5 DEF Reserve, LeaseSeen, Writes
  <2>1. CASE Finish(h)
    BY <1>1, <2>0, <2>1
  <2>2. CASE /\ mine' = [mine EXCEPT ![h] = gen + 1] /\ Goto(h, "create")
             /\ UNCHANGED <<snap, now, req, tries, asked>>
    <3>1. pc'[h] = "create" /\ \A g \in Handlers \ {h} : mine'[g] = mine[g]
      BY <2>2, GotoLocal DEF LocalType
    <3>2. GoesOn(h, "create")
      BY <1>5, <2>0, <2>2, <3>1 DEF GoesOn, LocalType, Owner, Deciding, Reserve
    <3>3. QED
      BY <3>2, LeaseMove
  <2>3. CASE Goto(h, "observe") /\ UNCHANGED <<snap, now, mine, req, tries, asked>>
    <3>1. pc'[h] = "observe"
      BY <2>3, GotoLocal
    <3>2. GoesOn(h, "observe")
      BY <2>0, <2>3, <3>1 DEF GoesOn, LocalType, Owner, Deciding
    <3>3. QED
      BY <3>2, LeaseMove
  <2>4. QED
    BY <1>5, <2>1, <2>2, <2>3 DEF Reserve
<1>6. CASE Confirm(h)
  <2>0. UNCHANGED <<clock, rec>> /\ Writes(h)
    BY <1>6 DEF Confirm, shared, Writes
  <2>1. CASE Finish(h)
    BY <1>1, <2>0, <2>1
  <2>2. CASE /\ Goto(h, IF mine[h] > 0 THEN "ask" ELSE "lease")
             /\ UNCHANGED <<snap, now, mine, req, tries, asked>>
    <3>1. pc'[h] = IF mine[h] > 0 THEN "ask" ELSE "lease"
      BY <2>2, GotoLocal
    <3>2. GoesOn(h, IF mine[h] > 0 THEN "ask" ELSE "lease")
      BY <1>6, <2>0, <2>2, <3>1 DEF GoesOn, LocalType, Owner, Deciding, Confirm
    <3>3. QED
      BY <3>2, LeaseMove
  <2>3. QED
    BY <1>6, <2>1, <2>2 DEF Confirm
<1>7. CASE CommitSlot(h) \/ ReleaseSlot(h)
  <2>0. UNCHANGED <<clock, rec>> /\ Writes(h)
    BY <1>7 DEF CommitSlot, ReleaseSlot, Writes
  <2>1. CASE Finish(h)
    BY <1>1, <2>0, <2>1
  <2>2. ASSUME NEW where \in {"finalize", "unrate"}, Goto(h, where),
               UNCHANGED <<snap, now, mine, req, tries, asked>>
        PROVE  LeaseInv'
    <3>1. pc'[h] = where
      BY <2>2, GotoLocal
    <3>2. GoesOn(h, where)
      BY <2>0, <2>2, <3>1 DEF GoesOn, LocalType, Owner, Deciding
    <3>3. QED
      BY <3>2, LeaseMove
  <2>3. QED
    BY <1>7, <2>1, <2>2 DEF CommitSlot, ReleaseSlot
<1>8. CASE CheckLease(h)
  <2>0. UNCHANGED <<clock, rec>> /\ Writes(h) /\ mine[h] = 0
    BY <1>8 DEF CheckLease, LeaseSeen, shared, Writes
  <2>1. CASE Finish(h)
    BY <1>1, <2>0, <2>1
  <2>2. CASE /\ now' = [now EXCEPT ![h] = clock] /\ Goto(h, "claim")
             /\ UNCHANGED <<snap, mine, req, tries, asked>>
    <3>1. pc'[h] = "claim" /\ now'[h] = clock
      BY <2>2, GotoLocal DEF LocalType
    <3>2. GoesOn(h, "claim")
      BY <2>0, <2>2, <3>1 DEF GoesOn, LocalType, Owner, Deciding
    <3>3. QED
      BY <3>2, LeaseMove
  <2>3. QED
    BY <1>8, <2>1, <2>2 DEF CheckLease
<1>9. CASE Reread(h)
  BY <1>3, <1>9 DEF Reread, shared
<1>10. CASE ReadChain(h) \/ CheckSupported(h) \/ Verify(h) \/ PostSettle(h) \/ AnswerSettled(h)
            \/ AnswerRejected(h) \/ AnswerPending(h)
  <2>0. /\ UNCHANGED <<clock, rec>> /\ Writes(h) /\ UNCHANGED <<snap, now, mine>>
        /\ pc[h] \in {"chain", "ask", "verify", "settle", "await"}
    BY <1>10 DEF ReadChain, CheckSupported, Verify, PostSettle, AnswerSettled, AnswerRejected,
                 AnswerPending, shared, Writes
  <2>1. \A g \in Handlers \ {h} : req'[g] = req[g]
    BY <1>10 DEF ReadChain, CheckSupported, Verify, PostSettle, AnswerSettled, AnswerRejected,
                 AnswerPending, LocalType
  <2>2. ASSUME NEW where \in {"ask", "verify", "settle", "await", "mark", "fail", "pend"},
               Goto(h, where)
        PROVE  LeaseInv'
    <3>1. pc'[h] = where
      BY <2>2, GotoLocal
    <3>2. GoesOn(h, where)
      BY <2>0, <2>1, <2>2, <3>1 DEF GoesOn, LocalType, Owner, Deciding
    <3>3. QED
      BY <3>2, LeaseMove
  <2>3. QED
    BY <1>10, <2>2 DEF ReadChain, CheckSupported, Verify, PostSettle, AnswerSettled, AnswerRejected,
                       AnswerPending
<1>11. CASE PendingReread(h) \/ PendingReadFails(h)
  <2>0. UNCHANGED <<clock, rec>> /\ Writes(h)
    BY <1>11 DEF PendingReread, PendingReadFails, shared, Writes
  <2>1. CASE Finish(h)
    BY <1>1, <2>0, <2>1
  <2>2. CASE /\ snap' = [snap EXCEPT ![h] = rec] \/ snap' = snap
             /\ Goto(h, "pend") /\ UNCHANGED <<now, mine, req, asked>>
    <3>1. pc'[h] = "pend" /\ \A g \in Handlers \ {h} : snap'[g] = snap[g]
      BY <2>2, GotoLocal DEF LocalType
    <3>2. GoesOn(h, "pend")
      BY <2>0, <2>2, <3>1 DEF GoesOn, LocalType, Owner, Deciding
    <3>3. QED
      BY <3>2, LeaseMove
  <2>3. QED
    BY <1>11, <2>1, <2>2 DEF PendingReread, PendingReadFails
<1>12. CASE PutOk(h)
  <2>0. clock' = clock /\ Writes(h) /\ pc[h] \in Writing
    BY <1>12 DEF PutOk, Writes
  <2>1. CASE pc[h] \in {"create", "claim"}
    BY <1>12, <2>1, LeaseTaken
  <2>2. CASE Finish(h)
    BY <1>1, <2>0, <2>2
  <2>3. CASE pc[h] \in {"mark", "fail"} /\ ~Finish(h)
    <3>1. AfterPut(h) \in {"commit", "release"}
      BY <2>3 DEF AfterPut
    <3>2. /\ Goto(h, AfterPut(h)) /\ snap' = [snap EXCEPT ![h] = Write(h)]
          /\ UNCHANGED <<now, mine, req, tries, asked>>
      BY <1>12, <2>3 DEF PutOk
    <3>3. pc'[h] = AfterPut(h) /\ \A g \in Handlers \ {h} : snap'[g] = snap[g]
      BY <3>1, <3>2, GotoLocal DEF LocalType
    <3>4. GoesOn(h, AfterPut(h))
      BY <2>0, <3>1, <3>2, <3>3 DEF GoesOn, LocalType, Owner, Deciding
    <3>5. QED
      BY <3>4, LeaseMove
  <2>4. CASE pc[h] \in {"pend", "finalize", "unrate"}
    BY <1>12, <2>2, <2>4 DEF PutOk, AfterPut
  <2>5. QED
    BY <2>0, <2>1, <2>2, <2>3, <2>4
<1>13. CASE PutConflict(h) \/ PutFalseConflict(h)
  <2>0. clock' = clock /\ Writes(h) /\ pc[h] \in Writing /\ GiveWay(h)
    BY <1>13 DEF PutConflict, PutFalseConflict, shared, Writes
  <2>1. CASE Finish(h)
    BY <1>1, <2>0, <2>1
  <2>2. CASE /\ AfterConflict(h) # "idle" /\ Goto(h, AfterConflict(h))
             /\ UNCHANGED <<snap, now, mine, req, tries, asked>>
    <3>1. AfterConflict(h) \in {"observe", "reread", "pendread"}
      BY <2>0, <2>2 DEF AfterConflict
    <3>2. pc'[h] = AfterConflict(h)
      BY <2>2, <3>1, GotoLocal
    <3>3. GoesOn(h, AfterConflict(h))
      BY <2>0, <2>2, <3>1, <3>2 DEF GoesOn, LocalType, Owner, Deciding
    <3>4. QED
      BY <3>3, LeaseMove
  <2>3. QED
    BY <2>0, <2>1, <2>2 DEF GiveWay
<1>14. CASE Observe(h) \/ Die(h)
  BY <1>1, <1>14 DEF Observe, Die, Writes, shared
<1>15. QED
  BY <1>2, <1>4, <1>5, <1>6, <1>7, <1>8, <1>9, <1>10, <1>11, <1>12, <1>13, <1>14
     DEF Step, Fault
LEMMA LeaseWorld ==
    ASSUME RecordInv, LeaseInv, Tick \/ CloseWindow \/ LandSettlement \/ Rotate \/ Execute
    PROVE  LeaseInv'
<1>0. UNCHANGED local
  BY DEF Tick, CloseWindow, LandSettlement, Rotate, Execute
<1>1. ASSUME NEW h \in Handlers PROVE LeaseSeen(h)'
  <2>0. /\ LeaseSeen(h) /\ clock \in Nat /\ now[h] \in Nat
        /\ pc'[h] = pc[h] /\ now'[h] = now[h] /\ mine'[h] = mine[h] /\ snap'[h] = snap[h]
    BY <1>0, LeaseFacts DEF local
  <2>1. CASE Tick
    <3>1. /\ clock' = clock + 1 /\ rec' = rec
          /\ pc[h] \in Leased => clock < now[h] + Stall
      BY <2>1 DEF Tick
    <3>2. QED
      BY <2>0, <3>1, SettlementAssumption DEF LeaseSeen, Owner
  <2>2. CASE CloseWindow \/ LandSettlement \/ Rotate
    BY <2>0, <2>2 DEF CloseWindow, LandSettlement, Rotate, LeaseSeen, Owner
  <2>3. CASE Execute
    BY <2>0, <2>3 DEF Execute, LeaseSeen, Owner, Settling
  <2>4. QED
    BY <2>1, <2>2, <2>3
<1>2. ASSUME NEW h \in Handlers PROVE snap'[h] = snap[h] /\ (Deciding(h)' <=> Deciding(h))
  BY <1>0 DEF local, Deciding, Owner
<1>3. QED
  BY <1>1, <1>2 DEF LeaseInv

LEMMA LeaseInit == Init => LeaseInv
  BY SettlementAssumption DEF Init, LeaseInv, LeaseSeen, Owner, Deciding, Leased

LEMMA LeaseStep ==
    ASSUME SettlesInTime
    PROVE  RecordInv /\ LeaseInv /\ [Next]_vars => LeaseInv'
<1> SUFFICES ASSUME RecordInv, LeaseInv, [Next]_vars PROVE LeaseInv'
  OBVIOUS
<1>1. CASE UNCHANGED vars
  BY <1>1 DEF vars, shared, local, LeaseInv, LeaseSeen, Owner, Deciding
<1>2. CASE Tick \/ CloseWindow \/ LandSettlement \/ Rotate \/ Execute
  BY <1>2, LeaseWorld
<1>3. QED
  BY <1>1, <1>2, LeaseHandler DEF Next

LEMMA LeaseAlways == ASSUME SettlesInTime PROVE Spec => []LeaseInv
  BY RecordAlways, LeaseInit, LeaseStep, PTL DEF Spec

(* The lease of 120 s admits one handler at a time to the facilitator, as  *)
(* long as a handler is done settling within it.                           *)
THEOREM LeaseAdmitsOne == ASSUME SettlesInTime PROVE Spec => []OneSettler
<1>1. RecordInv /\ LeaseInv => OneSettler
  <2> SUFFICES ASSUME RecordInv, LeaseInv, NEW g \in Handlers, NEW h \in Handlers,
                      pc[g] \in {"verify", "settle", "await"},
                      pc[h] \in {"verify", "settle", "await"}, g # h
               PROVE  FALSE
    BY DEF OneSettler
  <2>1. Owner(g) /\ Owner(h) /\ Deciding(g) /\ Deciding(h)
    BY DEF Owner, Deciding
  <2>2. QED
    BY <2>1 DEF LeaseInv, LeaseSeen
<1>2. QED
  BY <1>1, RecordAlways, LeaseAlways, PTL
-----------------------------------------------------------------------------
(* The money.  A payment recorded as failed has not been charged.          *)

MoneyShared ==
    /\ rotated => method \in Rotating
    /\ ~rec.exists => ~Paid /\ live = {}
    /\ Settling(rec) => \A r \in live : r[2] <= rec.lease
    /\ rec.pay = "failed" => NeverLands

Inv == RecordInv /\ LeaseInv /\ MoneyInv

LEMMA MoneyFacts ==
    ASSUME Inv, NEW h \in Handlers
    PROVE  /\ MoneyShared /\ MoneySeen(h) /\ LeaseSeen(h) /\ HandlerOK(h)
           /\ RecordInv /\ LeaseInv /\ LocalType /\ SharedType
           /\ snap[h] \in Record /\ snap[h].lease \in Nat /\ rec \in Record /\ rec.lease \in Nat
           /\ now[h] \in Nat /\ mine[h] \in Nat /\ clock \in Nat
           /\ live \subseteq Handlers \X Nat /\ \A r \in live : r[2] \in Nat
  BY LeaseFacts DEF Inv, MoneyInv, MoneyShared, SharedType

(* A handler about to record an outcome, and an owner, exclude each other  *)
(* under one lease.                                                        *)
LEMMA Exclusive ==
    ASSUME Inv, NEW g \in Handlers, NEW h \in Handlers, g # h, Owner(h)
    PROVE  /\ ~Owner(g)
           /\ ~(pc[g] = "fail" /\ rec.lease = snap[g].lease)
  BY DEF Inv, LeaseInv, LeaseSeen, Deciding

(* The record that is written does not bring back the lease of a handler   *)
(* that has lost it.                                                       *)
LEMMA LeaseNotRevived ==
    ASSUME Inv, NEW g \in Handlers, NEW h \in Handlers, Writes(h), pc[g] = "fail",
           Settling(rec'), rec'.lease = snap[g].lease
    PROVE  Settling(rec) /\ rec.lease = snap[g].lease
<1>0. HandlerOK(g) /\ HandlerOK(h) /\ RecordInv /\ TypeOK
  BY MoneyFacts DEF RecordInv
<1>1. Settling(snap[g]) /\ snap[g].exists /\ rec.exists
  BY <1>0 DEF HandlerOK, SnapShape, OnReservation, RecordShape, Precedes, Settling, NoRec
<1>2. CASE rec' = rec
  BY <1>2
<1>3. ASSUME pc[h] \in Writing, PreconditionHolds(h), rec' = Write(h)
      PROVE  Settling(rec) /\ rec.lease = snap[g].lease
  <2>1. rec = snap[h] /\ WriteOK(h, rec')
    BY <1>0, <1>3, WriteGood DEF PreconditionHolds
  <2>2. Settling(rec)
    BY <1>1, <2>1 DEF WriteOK, Evolves, Precedes
  <2>3. snap[g].lease <= rec.lease
    BY <1>0, <1>1, <2>2 DEF HandlerOK, Precedes
  <2>4. CASE pc[h] = "claim"
    <3>1. rec'.lease = now[h] + Lease /\ rec.lease <= now[h]
      BY <1>0, <1>3, <2>1, <2>4, ClaimedFields DEF Write, HandlerOK, SnapShape
    <3>2. QED
      BY <2>3, <3>1, MoneyFacts, SettlementAssumption
  <2>5. CASE pc[h] = "pend"
    BY <1>0, <1>3, <2>1, <2>2, <2>5, PendingFields DEF Write
  <2>6. pc[h] # "create"
    BY <1>0, <1>1, <2>1 DEF HandlerOK, SnapShape, OnNothing, NoRec
  <2>7. pc[h] \notin {"mark", "fail", "finalize", "unrate"}
    <3>1. pc[h] \notin {"mark", "fail"}
      BY <2>1 DEF WriteOK, Settling
    <3>2. pc[h] \notin {"finalize", "unrate"}
      BY <1>0, <2>1, <2>2 DEF HandlerOK, SnapShape, OnSettled, OnFailed, Settling
    <3>3. QED
      BY <3>1, <3>2
  <2>8. QED
    BY <1>3, <2>4, <2>5, <2>6, <2>7 DEF Writing
<1>4. QED
  BY <1>2, <1>3 DEF Writes

(* What is written keeps to what has happened to the money.                *)
LEMMA MoneyWrites ==
    ASSUME Inv, NEW h \in Handlers, Writes(h),
           UNCHANGED <<clock, landed, live, method, rotated>>
    PROVE  MoneyShared'
<1>0. MoneyShared /\ MoneySeen(h) /\ HandlerOK(h) /\ RecordInv /\ TypeOK
  BY MoneyFacts DEF RecordInv
<1>1. CASE rec' = rec
  BY <1>0, <1>1 DEF MoneyShared, NeverLands, Quiet, Paid
<1>2. ASSUME pc[h] \in Writing, PreconditionHolds(h), rec' = Write(h)
      PROVE  MoneyShared'
  <2>1. rec = snap[h] /\ WriteOK(h, rec') /\ rec'.exists
    BY <1>0, <1>2, WriteGood DEF PreconditionHolds, WriteOK
  <2>2. Settling(rec') => \A r \in live : r[2] <= rec'.lease
    <3>1. CASE rec.exists
      BY <1>0, <2>1, <3>1, MoneyFacts DEF WriteOK, Evolves, Precedes, MoneyShared, Record
    <3>2. CASE ~rec.exists
      BY <1>0, <3>2 DEF MoneyShared
    <3>3. QED
      BY <3>1, <3>2
  <2>3. rec'.pay = "failed" => NeverLands
    <3>1. CASE pc[h] = "fail"
      BY <1>0, <2>1, <3>1 DEF MoneySeen, HandlerOK, SnapShape, OnReservation
    <3>2. CASE pc[h] = "unrate"
      BY <1>0, <2>1, <3>2 DEF MoneyShared, HandlerOK, SnapShape, OnFailed
    <3>3. CASE pc[h] = "finalize"
      BY <2>1, <3>3, <1>0 DEF WriteOK, Evolves, Precedes, HandlerOK, SnapShape, OnSettled,
                              RecordShape, NoRec
    <3>4. CASE pc[h] \in {"create", "claim", "pend", "mark"}
      BY <2>1, <3>4 DEF WriteOK, Settling
    <3>5. QED
      BY <1>2, <3>1, <3>2, <3>3, <3>4 DEF Writing
  <2>4. QED
    BY <1>0, <2>1, <2>2, <2>3 DEF MoneyShared, NeverLands, Quiet, Paid
<1>3. QED
  BY <1>1, <1>2 DEF Writes

(* The other handlers, when one of them moves.                             *)
LEMMA MoneyFrame ==
    ASSUME Inv, LandsInTime, NEW h \in Handlers, Writes(h), Others(h),
           UNCHANGED <<clock, landed, method>>,
           \/ live' \subseteq live
           \/ Owner(h) /\ rec' = rec,
           NEW g \in Handlers, g # h
    PROVE  MoneySeen(g)'
<1>0. /\ MoneySeen(g)
      /\ pc'[g] = pc[g] /\ snap'[g] = snap[g] /\ mine'[g] = mine[g] /\ req'[g] = req[g]
  BY MoneyFacts DEF Others
<1>1. pc[g] = "fail" /\ Settling(rec') /\ rec'.lease = snap[g].lease
        => Settling(rec) /\ rec.lease = snap[g].lease
  BY LeaseNotRevived
<1>2. CASE live' \subseteq live
  BY <1>0, <1>1, <1>2 DEF MoneySeen, Owner, Quiet, NeverLands, Paid, VerifiesFirst
<1>3. CASE Owner(h) /\ rec' = rec
  <2>1. /\ ~Owner(g)
        /\ ~(pc[g] = "fail" /\ rec.lease = snap[g].lease)
    BY <1>3, Exclusive
  <2>2. QED
    BY <1>0, <1>3, <2>1 DEF MoneySeen, Owner
<1>4. QED
  BY <1>2, <1>3

(* The step of a handler touches no other handler, neither clock nor       *)
(* chain, and the record only as Writes allows.                            *)
LEMMA HandlerLocal ==
    ASSUME LocalType, NEW h \in Handlers, Start(h) \/ Step(h) \/ Fault(h)
    PROVE  Others(h) /\ Writes(h) /\ UNCHANGED <<clock, landed, method, rotated>>
<1>1. ASSUME Finish(h) PROVE Others(h)
  BY <1>1, FinishLocal
<1>2. ASSUME NEW where, Goto(h, where),
             snap' = snap \/ (\E r : snap' = [snap EXCEPT ![h] = r]),
             now' = now \/ now' = [now EXCEPT ![h] = clock],
             mine' = mine \/ mine' = [mine EXCEPT ![h] = gen + 1],
             req' = req \/ req' = [req EXCEPT ![h] = <<h, clock + Land>>]
      PROVE  Others(h)
  BY <1>2 DEF Others, Goto, LocalType
<1>3. CASE Start(h)
  BY <1>2, <1>3 DEF Start, Writes, shared
<1>4. ASSUME NEW r, Reconcile(h, r) PROVE Others(h)
  <2>1. CASE Finish(h)
    BY <1>1, <2>1
  <2>2. CASE ~Finish(h)
    <3>1. /\ Goto(h, AfterReconcile(r)) /\ snap' = [snap EXCEPT ![h] = r]
          /\ UNCHANGED <<now, mine, req>>
      BY <1>4, <2>2 DEF Reconcile
    <3>2. QED
      BY <1>2, <3>1
  <2>3. QED
    BY <2>1, <2>2
<1>5. CASE ReadJob(h)
  BY <1>1, <1>2, <1>4, <1>5 DEF ReadJob, Writes, shared
<1>6. CASE Reserve(h)
  BY <1>1, <1>2, <1>6 DEF Reserve, Writes
<1>7. CASE Confirm(h)
  BY <1>1, <1>2, <1>7 DEF Confirm, Writes, shared
<1>8. CASE CommitSlot(h) \/ ReleaseSlot(h)
  BY <1>1, <1>2, <1>8 DEF CommitSlot, ReleaseSlot, Writes
<1>9. CASE CheckLease(h)
  BY <1>1, <1>2, <1>9 DEF CheckLease, Writes, shared
<1>10. CASE Reread(h)
  BY <1>4, <1>10 DEF Reread, Writes, shared
<1>11. CASE ReadChain(h) \/ CheckSupported(h) \/ AnswerSettled(h) \/ AnswerPending(h)
  BY <1>2, <1>11 DEF ReadChain, CheckSupported, AnswerSettled, AnswerPending, Writes, shared
<1>12. CASE Verify(h) \/ PostSettle(h) \/ AnswerRejected(h)
  BY <1>2, <1>12 DEF Verify, PostSettle, AnswerRejected, Writes, shared
<1>13. CASE PendingReread(h) \/ PendingReadFails(h)
  BY <1>1, <1>2, <1>13 DEF PendingReread, PendingReadFails, Writes, shared
<1>14. CASE PutOk(h)
  BY <1>1, <1>2, <1>14 DEF PutOk, Writes
<1>15. CASE PutConflict(h) \/ PutFalseConflict(h)
  BY <1>1, <1>2, <1>15 DEF PutConflict, PutFalseConflict, GiveWay, Writes, shared
<1>16. CASE Observe(h) \/ Die(h)
  BY <1>1, <1>16 DEF Observe, Die, Writes, shared
<1>17. QED
  BY <1>3, <1>5, <1>6, <1>7, <1>8, <1>9, <1>10, <1>11, <1>12, <1>13, <1>14, <1>15, <1>16
     DEF Step, Fault

(* A handler is done with the money when it is neither an owner nor about  *)
(* to record a failure.                                                    *)
LEMMA MoneyKeeps ==
    ASSUME Inv, LandsInTime, NEW h \in Handlers, Start(h) \/ Step(h) \/ Fault(h),
           live' = live, MoneySeen(h)'
    PROVE  MoneyInv'
<1>1. Others(h) /\ Writes(h) /\ UNCHANGED <<clock, landed, method, rotated>>
  BY MoneyFacts, HandlerLocal
<1>2. MoneyShared'
  BY <1>1, MoneyWrites
<1>3. \A g \in Handlers : MoneySeen(g)'
  BY <1>1, MoneyFrame
<1>4. QED
  BY <1>2, <1>3 DEF MoneyInv, MoneyShared

LEMMA MoneyDone ==
    ASSUME NEW h \in Handlers, pc'[h] \notin OwnerPCs \cup {"fail"},
           pc'[h] = "confirm" => ~(mine'[h] > 0)
    PROVE  MoneySeen(h)'
  BY DEF MoneySeen, Owner, OwnerPCs

(* An owner goes on to ask the facilitator, or gives up, with what it has  *)
(* learned from chain and facilitator.                                     *)
LEMMA MoneyAsks ==
    ASSUME Inv, LandsInTime, NEW h \in Handlers,
           \/ ReadChain(h) \/ CheckSupported(h) \/ Verify(h)
           \/ (Confirm(h) /\ mine[h] > 0 /\ ~Finish(h))
    PROVE  MoneySeen(h)'
<1>0. /\ MoneySeen(h) /\ MoneyShared /\ LocalType /\ SharedType /\ LeaseSeen(h)
      /\ clock \in Nat /\ now[h] \in Nat /\ mine[h] \in Nat
  BY MoneyFacts
<1>1. UNCHANGED <<clock, rec, landed, live, method, snap, now, mine, req>>
  BY DEF ReadChain, CheckSupported, Verify, Confirm, shared
<1>2. Owner(h) /\ pc[h] # "await" /\ Quiet
  BY <1>0 DEF ReadChain, CheckSupported, Verify, Confirm, Owner, MoneySeen
<1>3. Quiet' /\ (Paid' <=> Paid) /\ (VerifiesFirst(h)' <=> VerifiesFirst(h))
  BY <1>1, <1>2 DEF Quiet, Paid, VerifiesFirst
<1>4. CASE ReadChain(h)
  <2>1. pc'[h] = IF Paid THEN "mark" ELSE IF now[h] >= ValidBefore THEN "fail" ELSE "ask"
    BY <1>0, <1>4 DEF ReadChain, Goto, LocalType
  <2>2. QED
    BY <1>2, <1>3, <2>1 DEF MoneySeen, NeverLands, Owner
<1>5. CASE CheckSupported(h)
  <2>1. pc'[h] = IF rotated THEN "fail" ELSE IF VerifiesFirst(h) THEN "verify" ELSE "settle"
    BY <1>0, <1>5 DEF CheckSupported, Goto, LocalType
  <2>2. rotated => VerifiesFirst(h)
    BY <1>0, SettlementAssumption DEF MoneyShared, LandsInTime, VerifiesFirst, SharedType
  <2>3. VerifiesFirst(h) => ~Paid
    BY <1>0, <1>2, <1>5 DEF MoneySeen, CheckSupported
  <2>4. QED
    BY <1>2, <1>3, <2>1, <2>2, <2>3 DEF MoneySeen, NeverLands, Owner
<1>6. CASE Verify(h)
  <2>1. pc'[h] = "settle" \/ pc'[h] = "fail"
    BY <1>0, <1>6 DEF Verify, Goto, LocalType
  <2>2. ~Paid
    BY <1>0, <1>2, <1>6 DEF MoneySeen, Verify
  <2>3. QED
    BY <1>2, <1>3, <2>1, <2>2 DEF MoneySeen, NeverLands, Owner
<1>7. CASE Confirm(h) /\ mine[h] > 0 /\ ~Finish(h)
  <2>1. pc'[h] = "ask" /\ pc[h] = "confirm"
    BY <1>0, <1>7 DEF Confirm, Goto, LocalType
  <2>2. VerifiesFirst(h) => ~Paid
    BY <1>0, <1>2, <2>1 DEF MoneySeen
  <2>3. QED
    BY <1>2, <1>3, <2>1, <2>2 DEF MoneySeen, NeverLands, Owner
<1>8. QED
  BY <1>4, <1>5, <1>6, <1>7

(* /settle is sent within the lease, so it is decided within the lease.    *)
LEMMA MoneyPosts ==
    ASSUME Inv, LandsInTime, NEW h \in Handlers, PostSettle(h)
    PROVE  MoneyInv'
<1>0. /\ MoneySeen(h) /\ MoneyShared /\ LocalType /\ SharedType /\ LeaseSeen(h)
      /\ clock \in Nat /\ now[h] \in Nat /\ rec.lease \in Nat
  BY MoneyFacts
<1>1. /\ Others(h) /\ Writes(h) /\ UNCHANGED <<clock, landed, method, rotated>>
      /\ rec' = rec /\ mine' = mine
  BY <1>0, HandlerLocal DEF Step, PostSettle
<1>2. /\ pc[h] = "settle" /\ pc'[h] = "await" /\ req'[h] = <<h, clock + Land>>
      /\ live' = live \cup {<<h, clock + Land>>}
  BY <1>0 DEF PostSettle, Goto, LocalType
<1>3. /\ Owner(h) /\ Quiet /\ Settling(rec) /\ rec.lease = now[h] + Lease
      /\ clock <= now[h] + Stall
  BY <1>0, <1>2 DEF Owner, MoneySeen, LeaseSeen, Leased
<1>4. clock + Land <= rec.lease
  BY <1>0, <1>3, SettlementAssumption DEF LandsInTime
<1>5. \A r \in live' : r[2] <= rec.lease
  BY <1>0, <1>2, <1>3, <1>4 DEF MoneyShared
<1>6. MoneyShared'
  BY <1>0, <1>1, <1>3, <1>5 DEF MoneyShared, RecordInv, Settling, RecordShape, NoRec, Inv
<1>7. MoneySeen(h)'
  BY <1>0, <1>1, <1>2, <1>3 DEF MoneySeen, Quiet, Paid, VerifiesFirst, Owner
<1>8. \A g \in Handlers : MoneySeen(g)'
  BY <1>1, <1>3, <1>7, MoneyFrame
<1>9. QED
  BY <1>6, <1>8 DEF MoneyInv, MoneyShared

(* A request the facilitator rejected was not the one that landed.         *)
LEMMA MoneyRejected ==
    ASSUME Inv, LandsInTime, NEW h \in Handlers, AnswerRejected(h)
    PROVE  MoneyInv'
<1>0. MoneySeen(h) /\ MoneyShared /\ LocalType /\ SharedType /\ LeaseSeen(h)
  BY MoneyFacts
<1>1. /\ Others(h) /\ Writes(h) /\ UNCHANGED <<clock, landed, method, rotated>>
      /\ rec' = rec /\ mine' = mine /\ snap' = snap /\ live' = live \ {req[h]}
  BY <1>0, HandlerLocal DEF Step, AnswerRejected
<1>2. pc[h] = "await" /\ pc'[h] = "fail"
  BY <1>0 DEF AnswerRejected, Goto, LocalType
<1>3. ~Paid
  BY <1>0, <1>2 DEF AnswerRejected, MoneySeen
<1>4. \A r \in live' : r[2] <= clock
  BY <1>0, <1>1, <1>2 DEF MoneySeen
<1>5. NeverLands'
  BY <1>1, <1>3, <1>4 DEF NeverLands, Quiet, Paid
<1>6. MoneyShared'
  BY <1>0, <1>1, <1>5 DEF MoneyShared, Paid
<1>7. MoneySeen(h)'
  BY <1>2, <1>5 DEF MoneySeen, Owner
<1>8. \A g \in Handlers : MoneySeen(g)'
  BY <1>1, <1>7, MoneyFrame
<1>9. QED
  BY <1>6, <1>8 DEF MoneyInv, MoneyShared

(* A new job starts with nothing paid and nothing asked for; a claim takes *)
(* over when every request of the lease before it is decided.              *)
LEMMA MoneyTaken ==
    ASSUME Inv, LandsInTime, NEW h \in Handlers, PutOk(h), pc[h] \in {"create", "claim"}
    PROVE  MoneySeen(h)'
<1>0. /\ MoneySeen(h) /\ MoneyShared /\ LocalType /\ SharedType /\ LeaseSeen(h) /\ HandlerOK(h)
      /\ clock \in Nat /\ now[h] \in Nat /\ rec.lease \in Nat /\ \A r \in live : r[2] \in Nat
  BY MoneyFacts
<1>1. /\ rec = snap[h] /\ UNCHANGED <<clock, landed, live, method>>
      /\ AfterPut(h) \in {"confirm", "chain", "ask"}
  BY DEF PutOk, PreconditionHolds, AfterPut
<1>2. Goto(h, AfterPut(h)) /\ mine' = mine
  BY <1>1 DEF PutOk
<1>3. pc'[h] = AfterPut(h)
  BY <1>0, <1>2 DEF Goto, LocalType
<1>4. Quiet' /\ (Paid' <=> Paid) /\ (VerifiesFirst(h)' <=> VerifiesFirst(h))
  <2>1. Quiet
    <3>1. CASE pc[h] = "create"
      BY <1>0, <1>1, <3>1 DEF HandlerOK, SnapShape, OnNothing, NoRec, MoneyShared, Quiet
    <3>2. CASE pc[h] = "claim"
      <4>1. Settling(rec) /\ rec.lease <= now[h] /\ now[h] <= clock
        BY <1>0, <1>1, <3>2 DEF HandlerOK, SnapShape, OnReservation, LeaseSeen
      <4>2. QED
        BY <1>0, <4>1 DEF MoneyShared, Quiet
    <3>3. QED
      BY <3>1, <3>2
  <2>2. QED
    BY <1>1, <1>2, <2>1 DEF Quiet, Paid, VerifiesFirst
<1>5. CASE pc[h] = "create"
  <2>1. ~Paid /\ pc'[h] = "confirm"
    BY <1>0, <1>1, <1>3, <1>5 DEF HandlerOK, SnapShape, OnNothing, NoRec, MoneyShared, AfterPut
  <2>2. QED
    BY <1>4, <2>1 DEF MoneySeen, Owner
<1>6. CASE pc[h] = "claim"
  <2>1. pc'[h] = IF method = "eip3009" THEN "chain" ELSE "ask"
    BY <1>3, <1>6 DEF AfterPut
  <2>2. mine[h] = 0
    BY <1>0, <1>6 DEF LeaseSeen
  <2>3. QED
    BY <1>4, <2>1, <2>2 DEF MoneySeen, VerifiesFirst
<1>7. QED
  BY <1>5, <1>6

LEMMA MoneyHandler ==
    ASSUME Inv, LandsInTime, NEW h \in Handlers, Start(h) \/ Step(h) \/ Fault(h)
    PROVE  MoneyInv'
<1>0. LocalType /\ LeaseSeen(h) /\ mine[h] \in Nat
  BY MoneyFacts
<1>1. CASE PostSettle(h)
  BY <1>1, MoneyPosts
<1>2. CASE AnswerRejected(h)
  BY <1>2, MoneyRejected
<1>3. CASE ~PostSettle(h) /\ ~AnswerRejected(h)
  <2>1. live' = live
    BY <1>3 DEF Start, Step, Fault, ReadJob, Reserve, Confirm, CommitSlot, ReleaseSlot, CheckLease,
                Reread, ReadChain, CheckSupported, Verify, AnswerSettled, PendingReread, PutOk,
                PutConflict, Observe, AnswerPending, PendingReadFails, PutFalseConflict, Die, shared
  <2> DEFINE Done == /\ pc'[h] \notin OwnerPCs \cup {"fail"}
                     /\ pc'[h] = "confirm" => ~(mine'[h] > 0)
  <2>2. ASSUME Finish(h) PROVE Done
    BY <1>0, <2>2, FinishLocal DEF OwnerPCs
  <2>3. ASSUME NEW where, Goto(h, where) PROVE pc'[h] = where
    BY <1>0, <2>3 DEF Goto, LocalType
  <2>4. ASSUME NEW r, Reconcile(h, r) PROVE Done
    <3>1. CASE Finish(h)
      BY <2>2, <3>1
    <3>2. CASE ~Finish(h)
      <4>1. AfterReconcile(r) # "idle" /\ Goto(h, AfterReconcile(r))
        BY <2>4, <3>2 DEF Reconcile
      <4>2. QED
        BY <2>3, <4>1 DEF AfterReconcile, OwnerPCs
    <3>3. QED
      BY <3>1, <3>2
  <2>5. ASSUME Done PROVE MoneyInv'
    BY <2>1, <2>5, MoneyDone, MoneyKeeps
  <2>6. CASE Start(h) \/ CommitSlot(h) \/ ReleaseSlot(h) \/ AnswerSettled(h) \/ AnswerPending(h)
    BY <2>2, <2>3, <2>5, <2>6
       DEF Start, CommitSlot, ReleaseSlot, AnswerSettled, AnswerPending, OwnerPCs
  <2>7. CASE ReadJob(h)
    <3>1. ASSUME Goto(h, "confirm"), mine' = mine PROVE Done
      BY <1>0, <2>3, <2>7, <3>1 DEF ReadJob, LeaseSeen, OwnerPCs
    <3>2. Done
      BY <2>2, <2>3, <2>4, <2>7, <3>1 DEF ReadJob, OwnerPCs
    <3>3. QED
      BY <2>5, <3>2
  <2>8. CASE Reserve(h) \/ CheckLease(h) \/ PendingReread(h) \/ PendingReadFails(h)
    BY <2>2, <2>3, <2>5, <2>8
       DEF Reserve, CheckLease, PendingReread, PendingReadFails, OwnerPCs
  <2>9. CASE Confirm(h)
    <3>1. CASE Finish(h)
      BY <2>2, <2>5, <3>1
    <3>2. CASE ~Finish(h) /\ mine[h] > 0
      BY <2>1, <2>9, <3>2, MoneyAsks, MoneyKeeps
    <3>3. CASE ~Finish(h) /\ ~(mine[h] > 0)
      BY <2>3, <2>5, <2>9, <3>3 DEF Confirm, OwnerPCs
    <3>4. QED
      BY <3>1, <3>2, <3>3
  <2>10. CASE Reread(h)
    BY <2>4, <2>5, <2>10 DEF Reread
  <2>11. CASE ReadChain(h) \/ CheckSupported(h) \/ Verify(h)
    BY <2>1, <2>11, MoneyAsks, MoneyKeeps
  <2>12. CASE PutOk(h)
    <3>1. CASE Finish(h)
      BY <2>2, <2>5, <3>1
    <3>2. CASE pc[h] \in {"create", "claim"}
      BY <2>1, <2>12, <3>2, MoneyTaken, MoneyKeeps
    <3>3. CASE ~Finish(h) /\ pc[h] \notin {"create", "claim"}
      <4>1. Goto(h, AfterPut(h)) /\ AfterPut(h) \in {"commit", "release"}
        BY <2>12, <3>3 DEF PutOk, AfterPut, Writing
      <4>2. QED
        BY <2>3, <2>5, <4>1 DEF OwnerPCs
    <3>4. QED
      BY <3>1, <3>2, <3>3
  <2>13. CASE PutConflict(h) \/ PutFalseConflict(h)
    <3>1. CASE Finish(h)
      BY <2>2, <2>5, <3>1
    <3>2. CASE ~Finish(h)
      <4>1. Goto(h, AfterConflict(h)) /\ AfterConflict(h) \in {"observe", "reread", "pendread"}
        BY <2>13, <3>2 DEF PutConflict, PutFalseConflict, GiveWay, AfterConflict, Writing
      <4>2. QED
        BY <2>3, <2>5, <4>1 DEF OwnerPCs
    <3>3. QED
      BY <3>1, <3>2
  <2>14. CASE Observe(h) \/ Die(h)
    BY <2>2, <2>5, <2>14 DEF Observe, Die
  <2>15. QED
    BY <1>3, <2>6, <2>7, <2>8, <2>9, <2>10, <2>11, <2>12, <2>13, <2>14 DEF Step, Fault
<1>4. QED
  BY <1>1, <1>2, <1>3

(* The chain and the clock.  Only a request that is still with the         *)
(* facilitator lands.                                                      *)
LEMMA MoneyWorld ==
    ASSUME Inv, Tick \/ CloseWindow \/ LandSettlement \/ Rotate \/ Execute
    PROVE  MoneyInv'
<1>0. /\ UNCHANGED <<local, method>> /\ MoneyShared /\ SharedType /\ clock \in Nat
      /\ rec \in Record /\ RecordShape(rec)
      /\ \A r \in live : r[2] \in Nat
  BY DEF Tick, CloseWindow, LandSettlement, Rotate, Execute, Inv, RecordInv, TypeOK, MoneyInv,
         MoneyShared, SharedType
<1>1. ASSUME NEW h \in Handlers
      PROVE  /\ MoneySeen(h) /\ pc'[h] = pc[h] /\ snap'[h] = snap[h]
             /\ (Owner(h)' <=> Owner(h)) /\ (VerifiesFirst(h)' <=> VerifiesFirst(h))
             /\ req'[h] = req[h]
  BY <1>0, MoneyFacts DEF local, Owner, VerifiesFirst
<1>2. CASE Tick
  <2>1. /\ clock' = clock + 1 /\ live' \subseteq live /\ UNCHANGED <<rec, landed, rotated>>
    BY <1>2 DEF Tick
  <2>2. (Quiet => Quiet') /\ (Paid' <=> Paid) /\ (NeverLands => NeverLands')
    BY <1>0, <2>1, SettlementAssumption DEF Quiet, Paid, NeverLands
  <2>3. MoneyShared'
    BY <1>0, <2>1, <2>2 DEF MoneyShared
  <2>4. ASSUME NEW h \in Handlers PROVE MoneySeen(h)'
    BY <1>0, <1>1, <2>1, <2>2 DEF MoneySeen
  <2>5. QED
    BY <2>3, <2>4 DEF MoneyInv, MoneyShared
<1>3. CASE CloseWindow \/ Rotate
  <2>1. /\ UNCHANGED <<clock, live, rec, landed>> /\ (rotated' => rotated \/ method \in Rotating)
    BY <1>3 DEF CloseWindow, Rotate
  <2>2. (Quiet' <=> Quiet) /\ (Paid' <=> Paid) /\ (NeverLands' <=> NeverLands)
    BY <2>1 DEF Quiet, Paid, NeverLands
  <2>3. MoneyShared'
    BY <1>0, <2>1, <2>2 DEF MoneyShared
  <2>4. ASSUME NEW h \in Handlers PROVE MoneySeen(h)'
    BY <1>0, <1>1, <2>1, <2>2 DEF MoneySeen
  <2>5. QED
    BY <2>3, <2>4 DEF MoneyInv, MoneyShared
<1>4. CASE Execute
  <2>1. /\ UNCHANGED <<clock, live, landed, rotated>> /\ rec.status = "queued"
        /\ rec' = [rec EXCEPT !.status = "running"]
    BY <1>4 DEF Execute
  <2>2. rec'.exists = rec.exists /\ rec'.pay = rec.pay /\ ~Settling(rec')
    BY <1>0, <2>1 DEF Record, Settling
  <2>3. (Quiet' <=> Quiet) /\ (Paid' <=> Paid) /\ (NeverLands' <=> NeverLands)
    BY <2>1 DEF Quiet, Paid, NeverLands
  <2>4. MoneyShared'
    BY <1>0, <2>1, <2>2, <2>3 DEF MoneyShared
  <2>5. ASSUME NEW h \in Handlers PROVE MoneySeen(h)'
    BY <1>0, <1>1, <2>1, <2>2, <2>3 DEF MoneySeen
  <2>6. QED
    BY <2>4, <2>5 DEF MoneyInv, MoneyShared
<1>5. CASE LandSettlement
  <2>1. /\ UNCHANGED <<clock, live, rec, rotated>> /\ ~Paid /\ clock < ValidBefore
        /\ \E r \in live : clock < r[2] /\ landed' = r
    BY <1>5 DEF LandSettlement
  <2>2. ~Quiet /\ ~NeverLands /\ live # {}
    BY <1>0, <2>1, SettlementAssumption DEF Quiet, NeverLands
  <2>3. MoneyShared'
    BY <1>0, <2>1, <2>2 DEF MoneyShared
  <2>4. ASSUME NEW h \in Handlers PROVE MoneySeen(h)'
    <3>1. ~(Owner(h) /\ pc[h] # "await")
          /\ ~(pc[h] = "fail" /\ Settling(rec) /\ rec.lease = snap[h].lease)
      BY <1>1, <2>2 DEF MoneySeen
    <3>2. pc[h] = "await" => landed' = req[h]
      BY <1>0, <1>1, <2>1 DEF MoneySeen
    <3>3. QED
      BY <1>0, <1>1, <2>1, <3>1, <3>2 DEF MoneySeen
  <2>5. QED
    BY <2>3, <2>4 DEF MoneyInv, MoneyShared
<1>6. QED
  BY <1>2, <1>3, <1>4, <1>5

LEMMA MoneyInit == Init => MoneyInv
  BY NoRecType DEF Init, MoneyInv, MoneySeen, Owner, NoRec, Settling, Paid

LEMMA MoneyStep ==
    ASSUME LandsInTime
    PROVE  RecordInv /\ LeaseInv /\ MoneyInv /\ [Next]_vars => MoneyInv'
<1> SUFFICES ASSUME Inv, [Next]_vars PROVE MoneyInv'
  BY DEF Inv
<1>1. CASE UNCHANGED vars
  BY <1>1 DEF vars, shared, local, Inv, MoneyInv, MoneySeen, Owner, VerifiesFirst, Quiet, NeverLands,
              Paid
<1>2. CASE Tick \/ CloseWindow \/ LandSettlement \/ Rotate \/ Execute
  BY <1>2, MoneyWorld
<1>3. QED
  BY <1>1, <1>2, MoneyHandler DEF Next

LEMMA MoneyAlways == ASSUME LandsInTime PROVE Spec => []MoneyInv
<1>1. SettlesInTime
  BY DEF LandsInTime
<1>2. QED
  BY <1>1, RecordAlways, LeaseAlways, MoneyInit, MoneyStep, PTL DEF Spec

(* The record follows the money.  A settler that is done, and its request  *)
(* decided, within its lease, and a Permit2 requirement that stays         *)
(* supported, are enough for: whoever is recorded as failed was not        *)
(* charged and never will be, and work is done for money that has moved -  *)
(* through lost answers, late landings, deaths and takeovers.              *)
THEOREM PaymentsHonoured == ASSUME LandsInTime PROVE Spec => []PaymentHonoured
<1>1. MoneyInv /\ RecordInv => FailedMeansUnpaid
  BY SettlementAssumption
     DEF MoneyInv, RecordInv, TypeOK, FailedMeansUnpaid, NeverLands, Quiet
<1>2. QED
  BY <1>1, RecordAlways, MoneyAlways, WorkIsPaid, PTL DEF PaymentHonoured
-----------------------------------------------------------------------------
(* The settlement implements PaidJob.  The mapping sees the record through *)
(* its state, its claims and the time of the payment.                      *)

StateOf(r) ==
    CASE ~r.exists -> "absent"
      [] r.exists /\ Settling(r) -> "settling"
      [] r.exists /\ r.pay = "settled" /\ r.status = "settling" -> "paid"
      [] r.exists /\ r.pay = "failed" -> "unpaid"
      [] OTHER -> r.status

ClaimsOf(r) == IF r.status = "running" THEN 1 ELSE 0

LEMMA Mapped ==
    /\ JobState = StateOf(rec) /\ JobState' = StateOf(rec')
    /\ Claims = ClaimsOf(rec) /\ Claims' = ClaimsOf(rec')
  BY DEF JobState, StateOf, Claims, ClaimsOf, Settling

(* What each conditional write makes of the job.                           *)
Moves(r) ==
    \/ StateOf(rec) = "absent" /\ StateOf(r) = "settling" /\ r.settledAt = rec.settledAt
    \/ StateOf(rec) = "settling" /\ StateOf(r) = "settling" /\ r.settledAt = rec.settledAt
    \/ StateOf(rec) = "settling" /\ StateOf(r) = "paid" /\ r.settledAt > 0
    \/ StateOf(rec) = "settling" /\ StateOf(r) = "unpaid" /\ r.settledAt = rec.settledAt
    \/ StateOf(rec) = "paid" /\ StateOf(r) = "queued" /\ r.settledAt = rec.settledAt
    \/ StateOf(rec) = "unpaid" /\ StateOf(r) = "unpaid" /\ r.settledAt = rec.settledAt

LEMMA WriteMoves ==
    ASSUME RecordInv, NEW h \in Handlers, pc[h] \in Writing, PreconditionHolds(h)
    PROVE  LET r == Write(h) IN
           /\ r \in Record /\ Moves(r) /\ r.status # "running" /\ rec.status # "running"
<1>1. TypeOK /\ clock > 0 /\ SnapShape(h) /\ rec = snap[h] /\ rec \in Record
  BY DEF RecordInv, PreconditionHolds, TypeOK
<1>2. CASE pc[h] = "create"
  <2>1. Write(h) = CreatedRecord(h)
    BY <1>2 DEF Write
  <2>2. ~rec.exists /\ rec.settledAt = 0 /\ rec.status = "none"
    BY <1>1, <1>2 DEF SnapShape, OnNothing, NoRec
  <2> QED BY <1>1, <2>1, <2>2, CreatedFields DEF Moves, StateOf, Settling
<1>3. ASSUME pc[h] \in OnReservation
      PROVE  rec.exists /\ rec.pay = "settling" /\ rec.status = "settling" /\ StateOf(rec) = "settling"
  BY <1>1, <1>3 DEF SnapShape, RecordShape, Settling, NoRec, StateOf
<1>4. CASE pc[h] = "claim"
  <2>1. Write(h) = ClaimedRecord(h)
    BY <1>4 DEF Write
  <2> QED BY <1>1, <1>3, <1>4, <2>1, ClaimedFields DEF Moves, StateOf, Settling, OnReservation
<1>5. CASE pc[h] = "pend"
  <2>1. Write(h) = PendingRecord(h)
    BY <1>5 DEF Write
  <2> QED BY <1>1, <1>3, <1>5, <2>1, PendingFields DEF Moves, StateOf, Settling, OnReservation
<1>6. CASE pc[h] = "mark"
  <2>1. Write(h) = SettledRecord(h)
    BY <1>6 DEF Write
  <2> QED BY <1>1, <1>3, <1>6, <2>1, SettledFields DEF Moves, StateOf, Settling, OnReservation
<1>7. CASE pc[h] = "fail"
  <2>1. Write(h) = FailedRecord(h)
    BY <1>7 DEF Write
  <2> QED BY <1>1, <1>3, <1>7, <2>1, FailedFields DEF Moves, StateOf, Settling, OnReservation
<1>8. CASE pc[h] = "finalize"
  <2>1. Write(h) = QueuedRecord(h)
    BY <1>8 DEF Write
  <2>2. rec.exists /\ rec.pay = "settled" /\ rec.status = "settling"
    BY <1>1, <1>8 DEF SnapShape, RecordShape, OnSettled, Settling, NoRec
  <2> QED BY <1>1, <2>1, <2>2, QueuedFields DEF Moves, StateOf, Settling
<1>9. CASE pc[h] = "unrate"
  <2>1. Write(h) = ReleasedRecord(h)
    BY <1>9 DEF Write
  <2>2. rec.exists /\ rec.pay = "failed" /\ rec.status = "failed"
    BY <1>1, <1>9 DEF SnapShape, RecordShape, OnFailed, Settling, NoRec
  <2> QED BY <1>1, <2>1, <2>2, ReleasedFields DEF Moves, StateOf, Settling
<1> QED BY <1>2, <1>4, <1>5, <1>6, <1>7, <1>8, <1>9 DEF Writing

(* Every write is a step of the payment, or shows nothing to the buyer.    *)
LEMMA WriteIsPayment ==
    ASSUME Inv, Inv', NEW h \in Handlers, pc[h] \in Writing, PreconditionHolds(h),
           rec' = Write(h), landed' = landed
    PROVE  [Job!Payment]_(Job!vars)
<1>1. /\ rec' \in Record /\ Moves(rec') /\ ClaimsOf(rec) = 0 /\ ClaimsOf(rec') = 0
      /\ rec'.settledAt \in Nat
  BY WriteMoves DEF Inv, ClaimsOf, Record
<1>2. /\ rec'.pay = "settled" => Paid'
      /\ rec'.pay = "failed" => ~Paid'
      /\ Paid' = Paid
  BY DEF Inv, RecordInv, MoneyInv, NeverLands, Paid
<1>3. /\ StateOf(rec') = "paid" => Paid
      /\ StateOf(rec') = "unpaid" => ~Paid
  BY <1>1, <1>2 DEF StateOf, Settling, Record
<1>4. JobState = StateOf(rec) /\ JobState' = StateOf(rec') /\ Claims = 0 /\ Claims' = 0
  BY <1>1, Mapped
<1> QED
  BY <1>1, <1>2, <1>3, <1>4
     DEF Moves, Job!Payment, Job!Open, Job!Accept, Job!TurnAway, Job!Queue, Job!vars, Job!money, Job!work

(* The steps of the settlement but for the worker's claim.                 *)
PaymentStep ==
    \/ Tick \/ CloseWindow \/ LandSettlement \/ Rotate
    \/ \E h \in Handlers : Start(h) \/ Step(h) \/ Fault(h)

(* Money that moves, or a write.                                           *)
LEMMA PaymentStepIsPayment ==
    ASSUME Inv, Inv', PaymentStep
    PROVE  [Job!Payment]_(Job!vars)
<1>1. CASE rec' = rec /\ landed' = landed
  BY <1>1, Mapped DEF Job!vars, Paid
<1>2. CASE LandSettlement
  <2>1. PICK r \in live : clock < r[2] /\ landed' = r
    BY <1>2 DEF LandSettlement
  <2>2. ~Paid /\ clock < ValidBefore /\ rec' = rec
    BY <1>2 DEF LandSettlement
  <2>3. /\ rec.exists /\ rec.pay # "settled" /\ RecordShape(rec)
        /\ clock \in Nat /\ r[2] \in Nat
    BY <2>1, <2>2 DEF Inv, RecordInv, MoneyInv, TypeOK
  <2>4. rec.pay # "failed"
    BY <2>1, <2>2, <2>3, SettlementAssumption DEF Inv, MoneyInv, NeverLands, Quiet
  <2>5. Settling(rec)
    BY <2>3, <2>4 DEF RecordShape, NoRec
  <2>6. JobState = "settling" /\ JobState' = "settling" /\ Claims' = Claims
    BY <2>2, <2>3, <2>5, Mapped DEF StateOf, Settling
  <2>7. Paid' = TRUE
    <3>1. r \in Handlers \X Nat
      BY <2>1 DEF Inv, RecordInv, TypeOK
    <3> QED BY <2>1, <3>1 DEF Paid, NoReq
  <2> QED BY <2>2, <2>6, <2>7 DEF Job!Payment, Job!Charge, Job!work
<1>3. ASSUME NEW h \in Handlers, Start(h) \/ Step(h) \/ Fault(h)
      PROVE  [Job!Payment]_(Job!vars)
  <2>1. /\ landed' = landed
        /\ \/ rec' = rec
           \/ pc[h] \in Writing /\ PreconditionHolds(h) /\ rec' = Write(h)
    BY <1>3 DEF Start, Step, Fault, ReadJob, Reserve, Confirm, CommitSlot, ReleaseSlot, CheckLease,
                Reread, ReadChain, CheckSupported, Verify, PostSettle, AnswerSettled,
                AnswerRejected, PendingReread, PutOk, PutConflict, Observe, AnswerPending,
                PendingReadFails, PutFalseConflict, Die, shared
  <2> QED BY <1>1, <2>1, WriteIsPayment
<1> QED
  BY <1>1, <1>2, <1>3 DEF PaymentStep, Tick, CloseWindow, Rotate

(* The first claim.                                                        *)
LEMMA StepIsPayment ==
    ASSUME Inv, Inv', [Next]_vars
    PROVE  [Job!Payment \/ Job!Work]_(Job!vars)
<1>1. CASE UNCHANGED vars
  BY <1>1, Mapped DEF Job!vars, Paid, vars, shared
<1>2. CASE PaymentStep
  BY <1>2, PaymentStepIsPayment
<1>3. CASE Execute
  <2>1. rec \in Record /\ RecordShape(rec) /\ rec.status = "queued" /\ landed' = landed
    BY <1>3 DEF Execute, Inv, RecordInv, TypeOK
  <2>2. rec.exists /\ rec.pay = "settled"
    BY <2>1 DEF RecordShape, Settling, NoRec
  <2>3. /\ rec'.status = "running" /\ rec'.exists = rec.exists /\ rec'.pay = rec.pay
        /\ rec'.settledAt = rec.settledAt
    BY <1>3, <2>1 DEF Execute, Record
  <2>4. /\ JobState = "queued" /\ JobState' = "running" /\ Claims = 0 /\ Claims' = 1
        /\ Paid' = Paid
    BY <2>1, <2>2, <2>3, Mapped DEF StateOf, ClaimsOf, Settling, Paid
  <2> QED BY <2>3, <2>4 DEF Job!Work, Job!Claim, Job!AttemptLeft, Job!money
<1> QED
  BY <1>1, <1>2, <1>3 DEF Next, PaymentStep

(* The settlement keeps the promise of PaidJob: handlers that overlap, die *)
(* and come late, lost answers and late landings show the buyer nothing    *)
(* but a job that is opened, charged once, and then queued, or turned away *)
(* without a charge.                                                       *)
THEOREM SettlementImplementsJob == ASSUME LandsInTime PROVE Spec => ImplementsPaidJob
<1>1. ASSUME Init PROVE Job!Init
  <2>1. rec = NoRec /\ landed = NoReq
    BY <1>1 DEF Init
  <2>2. JobState = "absent" /\ Claims = 0 /\ rec.settledAt = 0
    BY <2>1 DEF JobState, Claims, NoRec
  <2>3. Paid = FALSE
    BY <2>1 DEF Paid
  <2> QED BY <2>2, <2>3 DEF Job!Init
<1>2. SettlesInTime
  BY DEF LandsInTime
<1>3. Spec => []Inv
  BY <1>2, RecordAlways, LeaseAlways, MoneyAlways, PTL DEF Inv
<1> QED BY <1>1, <1>3, StepIsPayment, PTL DEF Spec, ImplementsPaidJob, Job!Spec

-----------------------------------------------------------------------------
(* Competition accounting of the job.  Any number of replicas run the      *)
(* tasks of X402Accounting over the record of this job; `due' is what they *)
(* see of it.  First the accounting by itself, whatever makes the job due, *)
(* then together with the settlement.                                      *)

AccountingInv == AccountingTypeOK /\ MarkerMeansDelivered /\ TasksInformed

\* The end of a task, and the next turn of its loop, keep the counters in range
\* and leave the task idle or before its read.
LEMMA NextAttemptTyped ==
    ASSUME AccountingTypeOK, NEW p \in Replicas, NextAttempt(p) \/ End(p)
    PROVE  /\ task' \in [Replicas -> {"idle", "read", "post", "mark"}]
           /\ turns' \in [Replicas -> 0 .. Attempts]
           /\ posts' \in [Replicas -> 0 .. Posts - 1]
           /\ task'[p] \in {"idle", "read"}
           /\ \A q \in Replicas : q # p => task'[q] = task[q]
  BY AccountingAssumption DEF AccountingTypeOK, NextAttempt, End, TaskAt

LEMMA AccountingInvInit == AccountingInit => AccountingInv
<1> SUFFICES ASSUME AccountingInit PROVE AccountingInv
  OBVIOUS
<1>1. AccountingTypeOK
  <2>1. due \in BOOLEAN /\ marker \in BOOLEAN /\ accepted \in BOOLEAN
    BY Zenon DEF AccountingInit
  <2>2. 0 \in 0 .. Attempts /\ 0 \in 0 .. Posts - 1 /\ MaxLosses \in Nat
    BY AccountingAssumption
  <2> QED BY <2>1, <2>2, Zenon DEF AccountingInit, AccountingTypeOK
<1>2. MarkerMeansDelivered /\ TasksInformed
  BY DEF AccountingInit, MarkerMeansDelivered, TasksInformed
<1> QED BY <1>1, <1>2 DEF AccountingInv

\* One case per action.
LEMMA AccountingInvStep == AccountingInv /\ [AccountingNext]_accountingVars => AccountingInv'
<1> SUFFICES ASSUME AccountingInv, [AccountingNext]_accountingVars PROVE AccountingInv'
  OBVIOUS
<1> USE AccountingAssumption DEF AccountingInv
<1>1. CASE Settle
  BY <1>1 DEF Settle, AccountingTypeOK, MarkerMeansDelivered, TasksInformed
<1>2. CASE UNCHANGED accountingVars
  BY <1>2 DEF accountingVars, AccountingTypeOK, MarkerMeansDelivered, TasksInformed
<1>3. ASSUME NEW p \in Replicas, Redrive(p) PROVE AccountingInv'
  BY <1>3 DEF Redrive, Loss, AccountingTypeOK, MarkerMeansDelivered, TasksInformed
<1>4. ASSUME NEW p \in Replicas, SpawnAccounting(p) PROVE AccountingInv'
  BY <1>4
     DEF SpawnAccounting, AccountingTypeOK, MarkerMeansDelivered, TasksInformed
<1>5. ASSUME NEW p \in Replicas, ReadState(p) PROVE AccountingInv'
  <2>1. CASE End(p) /\ UNCHANGED <<due, marker, accepted, saw, losses>>
    BY <2>1, NextAttemptTyped DEF AccountingTypeOK, MarkerMeansDelivered, TasksInformed
  <2>2. CASE /\ Pending /\ TaskAt(p, "post")
             /\ UNCHANGED <<turns, posts, due, marker, accepted, saw, losses>>
    BY <2>2 DEF Pending, TaskAt, AccountingTypeOK, MarkerMeansDelivered, TasksInformed
  <2> QED BY <1>5, <2>1, <2>2 DEF ReadState
<1>6. ASSUME NEW p \in Replicas, PostAccepted(p) PROVE AccountingInv'
  BY <1>6 DEF PostAccepted, TaskAt, AccountingTypeOK, MarkerMeansDelivered, TasksInformed
<1>7. ASSUME NEW p \in Replicas, CreateMarker(p) PROVE AccountingInv'
  BY <1>7, NextAttemptTyped DEF CreateMarker, AccountingTypeOK, MarkerMeansDelivered, TasksInformed
<1>8. ASSUME NEW p \in Replicas, PostFails(p) PROVE AccountingInv'
  <2>1. accepted' \in BOOLEAN /\ (accepted => accepted') /\ due
    <3>1. CASE accepted' = accepted
      BY <1>8, <3>1 DEF PostFails, AccountingTypeOK, TasksInformed
    <3>2. CASE accepted' = TRUE
      BY <1>8, <3>2 DEF PostFails, AccountingTypeOK, TasksInformed
    <3> QED BY <1>8, <3>1, <3>2 DEF PostFails
  <2>2. CASE posts' = [posts EXCEPT ![p] = @ + 1] /\ posts[p] + 1 < Posts
               /\ UNCHANGED <<task, turns>>
    BY <1>8, <2>1, <2>2
       DEF PostFails, Loss, AccountingTypeOK, MarkerMeansDelivered, TasksInformed
  <2>3. CASE NextAttempt(p)
    BY <1>8, <2>1, <2>3, NextAttemptTyped
       DEF PostFails, Loss, AccountingTypeOK, MarkerMeansDelivered, TasksInformed
  <2> QED BY <1>8, <2>2, <2>3 DEF PostFails
<1>9. ASSUME NEW p \in Replicas, PostRefused(p) PROVE AccountingInv'
  BY <1>9, NextAttemptTyped
     DEF PostRefused, Loss, AccountingTypeOK, MarkerMeansDelivered, TasksInformed
<1>10. ASSUME NEW p \in Replicas, StoreFails(p) PROVE AccountingInv'
  <2>1. marker' \in BOOLEAN /\ (marker' => accepted)
    BY <1>10 DEF StoreFails, AccountingTypeOK, MarkerMeansDelivered, TasksInformed
  <2> QED BY <1>10, <2>1, NextAttemptTyped
          DEF StoreFails, Loss, AccountingTypeOK, MarkerMeansDelivered, TasksInformed
<1>11. ASSUME NEW p \in Replicas, Crash(p) PROVE AccountingInv'
  <2>1. marker' \in BOOLEAN /\ (marker' => accepted)
    BY <1>11 DEF Crash, AccountingTypeOK, MarkerMeansDelivered, TasksInformed
  <2>2. accepted' \in BOOLEAN /\ (accepted => accepted') /\ (accepted' => due)
    BY <1>11 DEF Crash, AccountingTypeOK, MarkerMeansDelivered, TasksInformed
  <2> QED BY <1>11, <2>1, <2>2, NextAttemptTyped
          DEF Crash, Loss, AccountingTypeOK, MarkerMeansDelivered, TasksInformed
<1> QED
  BY <1>1, <1>2, <1>3, <1>4, <1>5, <1>6, <1>7, <1>8, <1>9, <1>10, <1>11
     DEF AccountingNext, Task, Failure

\* However many replicas report the event of a job, lose answers and crash, the
\* marker that stops all later reports exists only when the receiver has the
\* event, and nothing is reported before the job is settled; the retry loops of
\* _run_accounting and of CompetitionReporter stay within their bounds.
THEOREM AccountingSound == AccountingSpec => [](AccountingTypeOK /\ MarkerMeansDelivered)
<1>1. AccountingInv => AccountingTypeOK /\ MarkerMeansDelivered
  BY DEF AccountingInv
<1> QED BY <1>1, AccountingInvInit, AccountingInvStep, PTL DEF AccountingSpec

\* _accounting_is_pending on the record of the settlement.
Due == rec.pay = "settled" /\ rec.status # "settling" /\ rec.settledAt > 0

AccountingTasks == <<marker, accepted, saw, task, turns, posts, losses>>

AccountingStepOf(p) ==
    Redrive(p) \/ SpawnAccounting(p) \/ Task(p) \/ Failure(p)

\* The job as a whole: the handlers settle it, and the replicas account for it
\* with what they see of its record.
ComposedNext ==
    \/ [Next]_vars /\ due' = Due' /\ UNCHANGED AccountingTasks
    \/ (\E p \in Replicas : AccountingStepOf(p)) /\ UNCHANGED vars

ComposedSpec == Init /\ AccountingInit /\ [][ComposedNext]_<<vars, accountingVars>>

\* A job that is to be accounted for stays so: no handler that still believes
\* the job to be settling can put it back.
LEMMA DueStays == RecordInv /\ [Next]_vars /\ Due => Due'
<1> SUFFICES ASSUME RecordInv, [Next]_vars, Due PROVE Due'
  OBVIOUS
<1>1. CASE rec' = rec
  BY <1>1 DEF Due
<1>2. ASSUME NEW h \in Handlers, pc[h] \in Writing PROVE ~PreconditionHolds(h)
  <2>1. SnapShape(h)
    BY DEF RecordInv
  <2> QED BY <1>2, <2>1 DEF SnapShape, PreconditionHolds, Due, Writing, OnReservation, OnSettled,
             OnFailed, OnNothing, Settling, NoRec
<1>3. CASE Execute
  <2>1. rec \in Record
    BY DEF RecordInv, TypeOK
  <2> QED BY <1>3, <2>1 DEF Execute, Due, Record
<1>4. ASSUME NEW h \in Handlers, Start(h) \/ Step(h) \/ Fault(h) PROVE rec' = rec
  BY <1>2, <1>4 DEF Start, Step, Fault, ReadJob, Reserve, Confirm, CommitSlot, ReleaseSlot, CheckLease,
              Reread, ReadChain, CheckSupported, Verify, PostSettle, AnswerSettled,
              AnswerRejected, PendingReread, PutOk, PutConflict, Observe, AnswerPending,
              PendingReadFails, PutFalseConflict, Die, shared
<1> QED
  BY <1>1, <1>3, <1>4 DEF Next, Tick, CloseWindow, LandSettlement, Rotate, vars, shared

\* The settlement does to the accounting what Settle stands for, once.
LEMMA ComposedStep ==
    ASSUME RecordInv, due = Due, [ComposedNext]_<<vars, accountingVars>>
    PROVE  [Next]_vars /\ [AccountingNext]_accountingVars /\ due' = Due'
<1>1. CASE [Next]_vars /\ due' = Due' /\ UNCHANGED AccountingTasks
  <2>1. CASE due' = due
    BY <1>1, <2>1 DEF AccountingTasks, accountingVars
  <2>2. CASE due' # due
    <3>1. Due \in BOOLEAN /\ Due' \in BOOLEAN
      BY DEF Due
    <3>2. ~due /\ due' = TRUE
      BY <1>1, <2>2, <3>1, DueStays
    <3> QED BY <1>1, <3>2 DEF AccountingTasks, AccountingNext, Settle
  <2> QED BY <2>1, <2>2
<1>2. CASE (\E p \in Replicas : AccountingStepOf(p)) /\ UNCHANGED vars
  <2>1. AccountingNext
    BY <1>2 DEF AccountingStepOf, AccountingNext
  <2>2. due' = due
    BY <1>2 DEF AccountingStepOf, Redrive, SpawnAccounting, Task, Failure,
                ReadState, PostAccepted, CreateMarker, PostFails,
                PostRefused, StoreFails, Crash
  <2> QED BY <1>2, <2>1, <2>2 DEF vars, shared, Due
<1>3. CASE UNCHANGED <<vars, accountingVars>>
  BY <1>3 DEF vars, shared, Due, accountingVars
<1> QED BY <1>1, <1>2, <1>3 DEF ComposedNext

ComposedInv == RecordInv /\ due = Due

LEMMA ComposedAlways == ComposedSpec => []ComposedInv
<1>1. ASSUME Init, AccountingInit PROVE ComposedInv
  <2>1. rec.pay = "none"
    BY <1>1 DEF Init, NoRec
  <2>2. Due = FALSE
    BY <2>1 DEF Due
  <2>3. due = FALSE
    BY <1>1, Zenon DEF AccountingInit
  <2> QED BY <1>1, <2>2, <2>3, RecordInit DEF ComposedInv
<1>2. ComposedInv /\ [ComposedNext]_<<vars, accountingVars>> => ComposedInv'
  BY ComposedStep, RecordStep DEF ComposedInv
<1> QED BY <1>1, <1>2, PTL DEF ComposedSpec

\* The two modules fit together.  Run over the same record, the settlement is as
\* X402Settlement has it, and what the accounting sees of the record is what
\* X402Accounting takes for given: the job falls due at most once and stays due,
\* whatever late handlers and the worker write.
THEOREM ComposedImplementsBoth == ComposedSpec => Spec /\ AccountingSpec
<1>1. ComposedInv /\ [ComposedNext]_<<vars, accountingVars>> => [Next]_vars /\ [AccountingNext]_accountingVars
  BY ComposedStep DEF ComposedInv
<1> QED BY <1>1, ComposedAlways, PTL DEF ComposedSpec, Spec, AccountingSpec

\* A competition event that any replica has reported, or marked as reported, is
\* that of a payment that has moved on chain.
THEOREM ReportedMeansPaid == ComposedSpec => [](marker \/ accepted => Paid)
<1>1. ComposedInv /\ MarkerMeansDelivered => (marker \/ accepted => Paid)
  BY DEF MarkerMeansDelivered, ComposedInv, Due, RecordInv
<1> QED BY <1>1, ComposedAlways, ComposedImplementsBoth, AccountingSound, PTL
-----------------------------------------------------------------------------
(* The job as a whole.  Its payment, its work (X402Execution over the same *)
(* record, on the replicas that also account for it) and its accounting:   *)
(* the work begins when the settlement has queued the job, and the first   *)
(* claim is the one X402Settlement knows as Execute.                       *)

CONSTANTS Owners, None, Outcomes, MaxAttempts, Drives, MaxCrashes

VARIABLES work, stale, reports, worker, own, drive, out, beat, lost, hold, polled, resume,
          rhold, crashes

Exec == INSTANCE X402ExecutionProofs
          WITH rec <- work, pc <- worker, saw <- polled, rpc <- resume, faults <- crashes,
               MaxFaults <- MaxCrashes

workVars == <<work, stale, reports, worker, own, drive, out, beat, lost, hold, polled, resume,
              rhold, crashes>>

\* What X402Execution assumes of its constants.
ExecutionConstants ==
    /\ None \notin Owners
    /\ Outcomes \subseteq {"report", "empty", "retryable", "fatal"}
    /\ MaxAttempts \in Nat \ {0}
    /\ Drives \in Nat \ {0}
    /\ MaxCrashes \in Nat

InQueue == rec.status \in {"queued", "running"}

WorkStep ==
    /\ InQueue /\ Exec!Next
    /\ IF rec.status = "queued" /\ work'.status # "queued" THEN Execute ELSE UNCHANGED vars

JobNext ==
    \/ ((PaymentStep /\ UNCHANGED workVars) \/ WorkStep) /\ due' = Due' /\ UNCHANGED AccountingTasks
    \/ (\E p \in Replicas : AccountingStepOf(p)) /\ UNCHANGED <<vars, workVars>>

JobSpec ==
    Init /\ Exec!Init /\ AccountingInit /\ [][JobNext]_<<vars, workVars, accountingVars>>

\* Each component does in the whole what it does by itself.
LEMMA JobStepOfEach ==
    ASSUME [JobNext]_<<vars, workVars, accountingVars>>
    PROVE  [ComposedNext]_<<vars, accountingVars>> /\ [Exec!Next]_(Exec!vars)
<1>1. PaymentStep \/ Execute => Next
  BY DEF PaymentStep, Next
<1>2. UNCHANGED workVars => UNCHANGED Exec!vars
  BY DEF workVars, Exec!vars, Exec!taskVars, Exec!handlerVars, Exec!etags
<1>3. CASE PaymentStep /\ UNCHANGED workVars /\ due' = Due' /\ UNCHANGED AccountingTasks
  BY <1>1, <1>2, <1>3 DEF ComposedNext
<1>4. CASE WorkStep /\ due' = Due' /\ UNCHANGED AccountingTasks
  BY <1>1, <1>4 DEF ComposedNext, WorkStep
<1>5. CASE (\E p \in Replicas : AccountingStepOf(p)) /\ UNCHANGED <<vars, workVars>>
  BY <1>2, <1>5 DEF ComposedNext
<1>6. CASE UNCHANGED <<vars, workVars, accountingVars>>
  BY <1>2, <1>6
<1> QED BY <1>3, <1>4, <1>5, <1>6 DEF JobNext

\* Payment, work and accounting of a job fit together: what each of the three
\* modules takes for given of the others is what the others do.
THEOREM JobImplementsParts == JobSpec => Spec /\ Exec!Spec /\ AccountingSpec
<1>1. JobSpec => ComposedSpec /\ Exec!Spec
  BY JobStepOfEach, PTL DEF JobSpec, ComposedSpec, Exec!Spec
<1> QED BY <1>1, ComposedImplementsBoth


\* A job that has been queued rests: no late handler changes its record and no
\* request lands.  No handler claims it.
LEMMA QueuedRests ==
    ASSUME Inv, PaymentStep
    PROVE  /\ InQueue => rec' = rec /\ landed' = landed
           /\ rec' # rec => rec'.status # "running"
<1>1. ASSUME NEW h \in Handlers, pc[h] \in Writing, PreconditionHolds(h)
      PROVE  ~InQueue /\ Write(h).status # "running"
  <2>1. Moves(Write(h)) /\ Write(h).status # "running" /\ rec.status # "running"
    BY <1>1, WriteMoves DEF Inv
  <2>2. rec.status # "queued"
    BY <2>1 DEF Moves, StateOf, Settling, Inv, RecordInv, RecordShape, NoRec
  <2> QED BY <2>1, <2>2 DEF InQueue
<1>2. InQueue => Paid
  BY DEF InQueue, Inv, RecordInv, RecordShape, Settling, NoRec
<1>3. ASSUME NEW h \in Handlers, Start(h) \/ Step(h) \/ Fault(h)
      PROVE  /\ landed' = landed
             /\ \/ rec' = rec
                \/ pc[h] \in Writing /\ PreconditionHolds(h) /\ rec' = Write(h)
  BY <1>3 DEF Start, Step, Fault, ReadJob, Reserve, Confirm, CommitSlot, ReleaseSlot, CheckLease,
              Reread, ReadChain, CheckSupported, Verify, PostSettle, AnswerSettled,
              AnswerRejected, PendingReread, PutOk, PutConflict, Observe, AnswerPending,
              PendingReadFails, PutFalseConflict, Die, shared
<1>4. CASE Tick \/ CloseWindow \/ LandSettlement \/ Rotate
  BY <1>2, <1>4 DEF Tick, CloseWindow, LandSettlement, Rotate
<1> QED BY <1>1, <1>3, <1>4 DEF PaymentStep

\* Before the job is queued nothing is known to its workers, and until its first
\* claim the two records agree on where it is.
NotBegun(w) ==
    w.status = "queued" /\ w.attempt = 0 /\ w.owner = None /\ ~w.retry /\ w.report = None

Linked ==
    /\ ~InQueue => NotBegun(work)
    /\ rec.status = "queued" => work.status = "queued"

LEMMA LinkedInit == Init /\ Exec!Init => Linked
  BY DEF Init, Exec!Init, Linked, NotBegun, InQueue, NoRec

LEMMA LinkedStep ==
    ASSUME Inv, Linked, [JobNext]_<<vars, workVars, accountingVars>>
    PROVE  Linked'
<1>1. CASE PaymentStep /\ UNCHANGED workVars
  <2>1. work' = work
    BY <1>1 DEF workVars
  <2>2. InQueue => rec' = rec
    BY <1>1, QueuedRests
  <2> QED BY <2>1, <2>2 DEF Linked, InQueue, NotBegun
<1>2. CASE WorkStep
  <2>1. CASE Execute
    <3>1. rec'.status = "running"
      BY <2>1 DEF Execute, Inv, RecordInv, TypeOK, Record
    <3> QED BY <3>1 DEF Linked, InQueue
  <2>2. CASE ~(rec.status = "queued" /\ work'.status # "queued") /\ UNCHANGED vars
    <3>1. InQueue /\ rec' = rec
      BY <1>2, <2>2 DEF WorkStep, vars, shared
    <3> QED BY <2>2, <3>1 DEF Linked, InQueue
  <2> QED BY <1>2, <2>1, <2>2 DEF WorkStep
<1>3. CASE UNCHANGED <<vars, workVars>>
  BY <1>3 DEF vars, shared, workVars, Linked, InQueue, NotBegun
<1> QED BY <1>1, <1>2, <1>3 DEF JobNext

\* The job as its buyer sees it: the payment, and from the queue on the work.
WholeStateOf(r, w) ==
    IF r.status \in {"queued", "running"} THEN Exec!StateOf(w) ELSE StateOf(r)

WholeState == WholeStateOf(rec, work)

Whole == INSTANCE PaidJob
           WITH state <- WholeState, charged <- Paid, paidAt <- rec.settledAt,
                attempts <- work.attempt, worker <- work.owner, report <- work.report,
                Workers <- Owners, Nobody <- None

LEMMA WholeMapped ==
    WholeState = WholeStateOf(rec, work) /\ WholeState' = WholeStateOf(rec', work')
  BY DEF WholeState, WholeStateOf, Exec!StateOf, StateOf, Settling

\* A step of the payment is one of PaidJob, or hidden.
LEMMA PaymentOfWhole ==
    ASSUME Inv, Inv', Linked, PaymentStep, UNCHANGED workVars
    PROVE  [Whole!Payment]_(Whole!vars)
<1>1. work' = work
  BY DEF workVars
<1>2. CASE InQueue
  <2>1. rec' = rec /\ Paid' = Paid
    BY <1>2, QueuedRests DEF Paid
  <2> QED BY <1>1, <2>1, WholeMapped DEF Whole!vars
<1>3. CASE ~InQueue
  <2>1. NotBegun(work) /\ Exec!StateOf(work) = "queued"
    BY <1>3 DEF Linked, NotBegun, Exec!StateOf
  <2>2. rec.status # "running" /\ rec'.status # "running"
    BY <1>3, QueuedRests DEF InQueue
  <2>3. rec'.status = "queued" => StateOf(rec') = "queued"
    BY DEF Inv, RecordInv, RecordShape, Settling, NoRec, StateOf
  <2>4. WholeState = JobState /\ WholeState' = JobState'
    BY <1>1, <1>3, <2>1, <2>2, <2>3, Mapped, WholeMapped DEF WholeStateOf, InQueue
  <2>5. Job!Payment \/ UNCHANGED Job!vars
    BY PaymentStepIsPayment
  <2>6. CASE Job!Payment
    <3>1. Whole!Payment
      BY <1>1, <2>4, <2>6
         DEF Job!Payment, Job!Open, Job!Charge, Job!Accept, Job!TurnAway, Job!Queue, Job!money, Job!work,
             Whole!Payment, Whole!Open, Whole!Charge, Whole!Accept, Whole!TurnAway, Whole!Queue,
             Whole!money, Whole!work
    <3> QED BY <3>1
  <2>7. CASE UNCHANGED Job!vars
    BY <1>1, <2>4, <2>7 DEF Job!vars, Whole!vars
  <2> QED BY <2>5, <2>6, <2>7
<1> QED BY <1>2, <1>3

\* So is a step of the work.
LEMMA WorkOfWhole ==
    ASSUME ExecutionConstants, Inv, Linked, Exec!ExecutionInv, WorkStep
    PROVE  [Whole!Work]_(Whole!vars)
<1>1. InQueue /\ InQueue' /\ rec'.settledAt = rec.settledAt /\ Paid' = Paid
  <2>1. CASE Execute
    BY <2>1 DEF Execute, InQueue, Inv, RecordInv, TypeOK, Record, Paid
  <2>2. CASE UNCHANGED vars /\ InQueue
    BY <2>2 DEF vars, shared, InQueue, Paid
  <2> QED BY <2>1, <2>2 DEF WorkStep
<1>2. /\ WholeState = Exec!StateOf(work) /\ WholeState' = Exec!StateOf(work')
      /\ Exec!JobState = Exec!StateOf(work)
  BY <1>1, WholeMapped DEF WholeStateOf, InQueue, Exec!JobState, Exec!StateOf
<1>3. Exec!Follows(work')
  BY Exec!SharedStep DEF WorkStep, ExecutionConstants, Exec!SharedOK
<1>4. CASE work' = work
  BY <1>1, <1>2, <1>4 DEF Whole!vars
<1>5. CASE Exec!Taken(work')
  <2>1. Whole!Claim
    BY <1>1, <1>2, <1>5 DEF Exec!Taken, Exec!Open, Whole!Claim, Whole!AttemptLeft, Whole!money
  <2> QED BY <2>1 DEF Whole!Work
<1>6. CASE Exec!Requeued(work')
  <2>1. Whole!Requeue
    BY <1>1, <1>2, <1>6 DEF Exec!Requeued, Exec!Open, Whole!Requeue, Whole!AttemptLeft, Whole!money
  <2> QED BY <2>1 DEF Whole!Work
<1>7. CASE Exec!Failed(work')
  <2>1. Whole!Fail
    BY <1>1, <1>2, <1>7 DEF Exec!Failed, Whole!Fail, Whole!money
  <2> QED BY <2>1 DEF Whole!Work
<1>8. CASE Exec!Succeeded(work')
  <2>1. Whole!Succeed
    BY <1>1, <1>2, <1>8 DEF Exec!Succeeded, Whole!Succeed, Whole!money
  <2> QED BY <2>1 DEF Whole!Work
<1> QED BY <1>3, <1>4, <1>5, <1>6, <1>7, <1>8 DEF Exec!Follows

\* The service as a whole keeps the promise of PaidJob: with any number of
\* handlers, replicas, tasks, deaths and lost answers a buyer is charged at most
\* once and only for an open job, a paid job is worked on by one worker at a time
\* within its attempts, and ends with that worker's report, with a failure, or is
\* turned away uncharged.
THEOREM JobImplementsPaidJob ==
    ASSUME LandsInTime, ExecutionConstants PROVE JobSpec => Whole!Spec
<1>1. ASSUME Init, Exec!Init PROVE Whole!Init
  <2>1. rec = NoRec /\ landed = NoReq /\ NotBegun(work)
    BY <1>1 DEF Init, Exec!Init, NotBegun
  <2>2. WholeState = "absent" /\ rec.settledAt = 0 /\ Paid = FALSE
    BY <2>1 DEF WholeState, WholeStateOf, StateOf, NoRec, Paid
  <2> QED BY <2>1, <2>2 DEF Whole!Init, NotBegun
<1>2. JobSpec => []Inv
  <2>1. SettlesInTime
    BY DEF LandsInTime
  <2> QED BY <2>1, JobImplementsParts, RecordAlways, LeaseAlways, MoneyAlways, PTL DEF Inv
<1>3. JobSpec => []Exec!ExecutionInv
  BY JobImplementsParts, Exec!ExecutionAlways, PTL DEF ExecutionConstants
<1>4. JobSpec => []Linked
  BY <1>2, LinkedInit, LinkedStep, PTL DEF JobSpec
<1>5. ASSUME Inv, Inv', Linked, Exec!ExecutionInv,
             [JobNext]_<<vars, workVars, accountingVars>>
      PROVE  [Whole!Payment \/ Whole!Work]_(Whole!vars)
  <2>1. CASE PaymentStep /\ UNCHANGED workVars
    BY <1>5, <2>1, PaymentOfWhole
  <2>2. CASE WorkStep
    BY <1>5, <2>2, WorkOfWhole
  <2>3. CASE UNCHANGED <<vars, workVars>>
    BY <2>3, WholeMapped DEF vars, shared, workVars, Whole!vars, Paid
  <2> QED BY <1>5, <2>1, <2>2, <2>3 DEF JobNext
<1> QED BY <1>1, <1>2, <1>3, <1>4, <1>5, PTL DEF JobSpec, Whole!Spec
=============================================================================
