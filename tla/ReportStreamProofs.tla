------------------------- MODULE ReportStreamProofs -------------------------
(***************************************************************************)
(* Proofs about ReportStream, for any number of events and calls:          *)
(* StreamInv is inductive, and the safety properties follow from it.       *)
(***************************************************************************)
EXTENDS ReportStream, SequenceTheorems, TLAPS

LEMMA SeqFacts ==
    ASSUME NEW S, NEW s \in Seq(S)
    PROVE  /\ Len(s) \in Nat /\ DOMAIN s = 1..Len(s) /\ \A i \in 1..Len(s) : s[i] \in S
           /\ (s = <<>> <=> Len(s) = 0)
  BY LenProperties, ElementOfSeq, EmptySeq

LEMMA AppendFacts ==
    ASSUME NEW S, NEW s \in Seq(S), NEW e \in S
    PROVE  /\ Append(s, e) \in Seq(S) /\ Len(Append(s, e)) = Len(s) + 1
           /\ DOMAIN Append(s, e) = 1..(Len(s) + 1)
           /\ \A i \in 1..Len(s) : Append(s, e)[i] = s[i]
           /\ Append(s, e)[Len(s) + 1] = e
  BY AppendProperties, LenProperties

LEMMA TailFacts ==
    ASSUME NEW S, NEW s \in Seq(S), s # <<>>
    PROVE  /\ Head(s) = s[1] /\ Len(s) > 0 /\ Tail(s) \in Seq(S)
           /\ Len(Tail(s)) = Len(s) - 1 /\ DOMAIN Tail(s) = 1..(Len(s) - 1)
           /\ \A i \in 1..(Len(s) - 1) : Tail(s)[i] = s[i + 1]
<1>1. Tail(s) \in Seq(S) /\ Len(Tail(s)) = Len(s) - 1
      /\ \A i \in 1..Len(Tail(s)) : Tail(s)[i] = s[i + 1]
  BY HeadTailProperties
<1>2. Head(s) = s[1] /\ Len(s) \in Nat /\ Len(s) > 0
  BY SeqFacts
<1>3. DOMAIN Tail(s) = 1..(Len(s) - 1)
  BY <1>1, SeqFacts
<1>4. QED
  BY <1>1, <1>2, <1>3
-----------------------------------------------------------------------------
(* The texts collected, one event further.                                 *)
OneMore(ts, n, e) ==
    /\ ts \in Seq(1..MaxEvents)
    /\ \A i, j \in DOMAIN ts : i < j => ts[i] < ts[j]
    /\ {ts[i] : i \in DOMAIN ts} =
         {k \in 1..n : said[k] \in Texts} \cup (IF e \in Texts THEN {n + 1} ELSE {})

LEMMA CollectFacts ==
    ASSUME NEW n \in Nat, n + 1 <= MaxEvents, parts \in Seq(1..MaxEvents), AllTexts(parts, n),
           NEW e
    PROVE  OneMore(Collect(e, n + 1), n, e)
<1> DEFINE ts == Collect(e, n + 1)
<1> SUFFICES OneMore(ts, n, e)
  OBVIOUS
<1>a. ts = Collect(e, n + 1)
  OBVIOUS
<1> HIDE DEF ts
<1>0. /\ Len(parts) \in Nat /\ DOMAIN parts = 1..Len(parts)
      /\ \A i \in 1..Len(parts) : parts[i] \in 1..MaxEvents
  BY SeqFacts
<1>1. \A i \in DOMAIN parts : parts[i] \in 1..n
  BY DEF AllTexts
<1>2. CASE e \in Texts
  <2>1. n + 1 \in 1..MaxEvents
    BY StreamAssumption
  <2>2. ts = Append(parts, n + 1)
    BY <1>2, <1>a DEF Collect
  <2>3. /\ ts \in Seq(1..MaxEvents) /\ DOMAIN ts = 1..(Len(parts) + 1)
        /\ \A i \in 1..Len(parts) : ts[i] = parts[i]
        /\ ts[Len(parts) + 1] = n + 1
    <3> DEFINE us == Append(parts, n + 1)
    <3>1. /\ us \in Seq(1..MaxEvents) /\ DOMAIN us = 1..(Len(parts) + 1)
          /\ \A i \in 1..Len(parts) : us[i] = parts[i]
          /\ us[Len(parts) + 1] = n + 1
      BY <2>1, AppendFacts
    <3> HIDE DEF us
    <3>2. ts = us
      BY <2>2 DEF us
    <3>3. QED
      BY <3>1, <3>2
  <2>4. ASSUME NEW i \in DOMAIN ts, NEW j \in DOMAIN ts, i < j PROVE ts[i] < ts[j]
    <3>1. i \in 1..Len(parts) /\ ts[i] = parts[i] /\ parts[i] \in 1..n
      BY <1>0, <1>1, <2>3, <2>4
    <3>2. CASE j \in 1..Len(parts)
      BY <1>0, <2>3, <2>4, <3>1, <3>2 DEF AllTexts
    <3>3. CASE j = Len(parts) + 1
      BY <2>3, <3>1, <3>3
    <3>4. QED
      BY <1>0, <2>3, <3>2, <3>3
  <2>5. {ts[i] : i \in DOMAIN ts} = {parts[i] : i \in DOMAIN parts} \cup {n + 1}
    <3>1. ASSUME NEW i \in DOMAIN ts PROVE ts[i] \in {parts[k] : k \in DOMAIN parts} \cup {n + 1}
      BY <1>0, <2>3
    <3>2. ASSUME NEW i \in DOMAIN parts PROVE i \in DOMAIN ts /\ ts[i] = parts[i]
      BY <1>0, <2>3
    <3>3. Len(parts) + 1 \in DOMAIN ts
      BY <1>0, <2>3
    <3>4. QED
      BY <2>3, <3>1, <3>2, <3>3
  <2>6. QED
    BY <1>2, <2>3, <2>4, <2>5 DEF AllTexts, OneMore
<1>3. CASE e \notin Texts
  BY <1>3, <1>a DEF Collect, AllTexts, OneMore
<1>4. QED
  BY <1>2, <1>3

LEMMA StreamFacts ==
    ASSUME StreamInv
    PROVE  /\ said \in Seq(Events) /\ Len(said) \in 0..MaxEvents /\ MaxEvents \in Nat
           /\ DOMAIN said = 1..Len(said) /\ \A i \in 1..Len(said) : said[i] \in Events
           /\ queue \in Seq(Exc..MaxEvents) /\ Len(queue) \in Nat /\ DOMAIN queue = 1..Len(queue)
           /\ parts \in Seq(1..MaxEvents) /\ \A i \in DOMAIN parts : parts[i] \in 1..Len(said)
           /\ (queue = <<>> <=> Len(queue) = 0)
  BY SeqFacts, StreamAssumption DEF StreamInv, TypeOK

(* One event more: nothing that was said before it changes.                *)
LEMMA SaidGrows ==
    ASSUME StreamInv, NEW e \in Events, Len(said) + 1 <= MaxEvents, said' = Append(said, e)
    PROVE  /\ said' \in Seq(Events) /\ Len(said') = Len(said) + 1
           /\ DOMAIN said' = 1..(Len(said) + 1)
           /\ \A i \in 1..Len(said) : said'[i] = said[i]
           /\ said'[Len(said) + 1] = e
           /\ \A i \in DOMAIN parts : parts[i] \in DOMAIN said'
           /\ \A n \in 0..Len(said) : Collected(n) => AllTexts(parts, n)' \/ parts' # parts
<1>1. /\ said' \in Seq(Events) /\ Len(said') = Len(said) + 1
      /\ DOMAIN said' = 1..(Len(said) + 1)
      /\ \A i \in 1..Len(said) : said'[i] = said[i]
      /\ said'[Len(said) + 1] = e
  BY StreamFacts, AppendFacts
<1>2. \A i \in DOMAIN parts : parts[i] \in DOMAIN said'
  BY <1>1, StreamFacts
<1>3. ASSUME NEW n \in 0..Len(said), Collected(n), parts' = parts PROVE AllTexts(parts, n)'
  <2>1. {k \in 1..n : said'[k] \in Texts} = {k \in 1..n : said[k] \in Texts}
    BY <1>1, StreamFacts
  <2>2. QED
    BY <1>3, <2>1 DEF Collected, AllTexts
<1>4. QED
  BY <1>1, <1>2, <1>3

LEMMA SameTexts ==
    ASSUME UNCHANGED <<said, parts>>
    PROVE  \A n : Collected(n)' <=> Collected(n)
  BY DEF Collected, AllTexts

(* A new call begins with nothing said, queued or collected.               *)
LEMMA OpenKeeps == ASSUME StreamInv, Open PROVE StreamInv'
<1>0. /\ pc' = "read" /\ runner' = "running" /\ failed' = FALSE /\ outcome = "none"
      /\ said' = <<>> /\ queue' = <<>> /\ parts' = <<>>
      /\ UNCHANGED <<path, call, next, outcome, report>>
  BY DEF Open, StreamInv
<1>1. /\ \A S : <<>> \in Seq(S)
      /\ Len(<<>>) = 0 /\ DOMAIN <<>> = {}
  BY EmptySeq
<1>2. TypeOK'
  <2>1. /\ said' \in Seq(Events) /\ queue' \in Seq(Exc..MaxEvents) /\ parts' \in Seq(1..MaxEvents)
        /\ Len(said') = 0 /\ DOMAIN parts' = {}
    BY <1>0, <1>1
  <2>2. failed' \in BOOLEAN /\ runner' \in {"off", "running", "cancelled"}
    BY <1>0
  <2>3. QED
    BY <1>0, <2>1, <2>2, StreamAssumption DEF StreamInv, TypeOK
<1>3. Marks' = 0 /\ Taken' = 0
  BY <1>0, <1>1 DEF Marks, Taken
<1>4. QueueInv'
  BY <1>0, <1>1, <1>3 DEF QueueInv
<1>5. Collected(0)'
  BY <1>0, <1>1 DEF Collected, AllTexts
<1>6. Reading'
  BY <1>0, <1>1, <1>3, <1>4, <1>5 DEF Reading
<1>7. QED
  BY <1>0, <1>2, <1>6
     DEF StreamInv, RunnerStopped, WholeReport, NoLimitedReport, ValidatedOnly

(* The runner emits.                                                       *)
LEMMA EmitKeeps == ASSUME StreamInv, NEW e \in Events, Emit(e) PROVE StreamInv'
<1>0. /\ Len(said) + 1 <= MaxEvents /\ said' = Append(said, e) /\ Len(said) \in Nat
      /\ UNCHANGED <<path, call, failed, report>>
      /\ pc \in {"read", "closing"} /\ runner \in {"running", "cancelled"} /\ outcome # "report"
  BY StreamFacts DEF Emit, StreamInv, RunnerStopped, TypeOK
<1>1. /\ said' \in Seq(Events) /\ Len(said') = Len(said) + 1
      /\ DOMAIN said' = 1..(Len(said) + 1)
      /\ \A i \in 1..Len(said) : said'[i] = said[i]
      /\ said'[Len(said) + 1] = e
      /\ \A i \in DOMAIN parts : parts[i] \in DOMAIN said'
  BY <1>0, SaidGrows
<1>2. CASE path = "x402"
  <2>1. queue' = Append(queue, Len(said) + 1) /\ UNCHANGED <<pc, next, runner, parts, outcome>>
    BY <1>2 DEF Emit
  <2>2. Len(said) + 1 \in Exc..MaxEvents
    BY <1>0, StreamFacts DEF Exc
  <2>3. /\ queue' \in Seq(Exc..MaxEvents) /\ Len(queue') = Len(queue) + 1
        /\ DOMAIN queue' = 1..(Len(queue) + 1)
        /\ \A i \in 1..Len(queue) : queue'[i] = queue[i]
        /\ queue'[Len(queue) + 1] = Len(said) + 1
    <3>1. queue \in Seq(Exc..MaxEvents)
      BY StreamFacts
    <3>2. QED
      BY <2>1, <2>2, <3>1, AppendFacts
  <2>4. TypeOK'
    BY <1>0, <1>1, <2>1, <2>3 DEF StreamInv, TypeOK
  <2>5. ASSUME pc = "read" PROVE Reading'
    <3>1. /\ runner = "running" /\ QueueInv /\ Collected(Taken) /\ ~failed
      BY <1>0, <1>2, <2>5 DEF StreamInv, Reading
    <3>2. Marks = 0 /\ Marks' = 0 /\ Taken' = Taken /\ Taken = Len(said) - Len(queue)
          /\ Len(queue) \in Nat
      <4>1. Marks = 0 /\ Marks' = 0 /\ Len(queue) \in Nat
        BY <2>1, <3>1, StreamFacts DEF Marks
      <4>2. QED
        BY <1>0, <1>1, <2>3, <4>1 DEF Taken
    <3>3. QueueInv'
      BY <1>0, <1>1, <2>1, <2>3, <3>1, <3>2, StreamFacts DEF QueueInv
    <3>4. Taken \in 0..Len(said)
      BY <1>0, <3>1, <3>2 DEF QueueInv
    <3>5. AllTexts(parts, Taken)' \/ parts' # parts
      BY <1>0, <3>1, <3>4, <3>2, SaidGrows
    <3>6. Collected(Taken)'
      BY <1>1, <2>1, <3>1, <3>2, <3>4, <3>5 DEF Collected
    <3>7. QED
      BY <1>0, <1>2, <2>1, <3>1, <3>3, <3>6 DEF Reading
  <2>6. QED
    BY <1>0, <2>1, <2>4, <2>5
       DEF StreamInv, RunnerStopped, WholeReport, NoLimitedReport, ValidatedOnly
<1>3. CASE path = "erc8183"
  <2>0. path # "x402" /\ pc = "read" /\ Reading /\ Collected(Len(said)) /\ runner = "running" /\ ~failed
    BY <1>0, <1>3 DEF StreamInv, Reading
  <2>1. /\ IF LimitSeen(e) THEN Finish("failed") /\ runner' = "off"
           ELSE UNCHANGED <<pc, next, outcome, runner>>
        /\ parts' = Collect(e, Len(said) + 1) /\ queue' = queue
    BY <2>0 DEF Emit
  <2>2. /\ parts' \in Seq(1..MaxEvents)
        /\ \A i, j \in DOMAIN parts' : i < j => parts'[i] < parts'[j]
        /\ {parts'[i] : i \in DOMAIN parts'} =
             {k \in 1..Len(said) : said[k] \in Texts}
               \cup (IF e \in Texts THEN {Len(said) + 1} ELSE {})
    <3>1. parts \in Seq(1..MaxEvents) /\ AllTexts(parts, Len(said))
      BY <2>0, StreamFacts DEF Collected
    <3>2. OneMore(parts', Len(said), e)
      BY <1>0, <2>1, <3>1, CollectFacts
    <3>3. QED
      BY <3>2 DEF OneMore
  <2>3. {k \in 1..(Len(said) + 1) : said'[k] \in Texts} =
             {k \in 1..Len(said) : said[k] \in Texts}
               \cup (IF e \in Texts THEN {Len(said) + 1} ELSE {})
    BY <1>0, <1>1
  <2>4. AllTexts(parts, Len(said))'
    BY <1>1, <2>2, <2>3 DEF AllTexts
  <2>5. \A i \in DOMAIN parts' : parts'[i] \in DOMAIN said'
    BY <1>1, <2>2, <2>3
  <2>6. TypeOK'
    BY <1>0, <1>1, <2>1, <2>2, <2>5 DEF StreamInv, TypeOK, Finish
  <2>7. CASE LimitSeen(e)
    BY <1>0, <2>0, <2>1, <2>6, <2>7
       DEF StreamInv, RunnerStopped, WholeReport, NoLimitedReport, ValidatedOnly, Finish
  <2>8. CASE ~LimitSeen(e)
    <3>1. Collected(Len(said))'
      BY <1>0, <1>1, <2>0, <2>4, <2>8 DEF Collected, LimitSeen
    <3>2. Reading'
      BY <1>0, <1>3, <2>0, <2>1, <2>8, <3>1 DEF Reading
    <3>3. QED
      BY <1>0, <2>0, <2>1, <2>6, <2>8, <3>2
         DEF StreamInv, RunnerStopped, WholeReport, NoLimitedReport, ValidatedOnly
  <2>9. QED
    BY <2>7, <2>8
<1>4. QED
  BY <1>2, <1>3, StreamAssumption DEF StreamInv, TypeOK

(* The runner ends or raises: its marks follow its last event.             *)
LEMMA EndKeeps == ASSUME StreamInv, End \/ Raise PROVE StreamInv'
<1>0. /\ UNCHANGED <<path, call, said, parts, report>> /\ runner' = "off"
      /\ pc \in {"read", "closing"} /\ runner \in {"running", "cancelled"} /\ outcome # "report"
      /\ failed' \in BOOLEAN
  BY DEF End, Raise, StreamInv, RunnerStopped, TypeOK
<1>1. \A n : Collected(n)' <=> Collected(n)
  BY <1>0, SameTexts
<1>2. /\ queue \in Seq(Exc..MaxEvents) /\ Len(queue) \in Nat /\ DOMAIN queue = 1..Len(queue)
      /\ Done \in Exc..MaxEvents /\ Exc \in Exc..MaxEvents /\ Len(said) \in Nat
  BY StreamFacts DEF Done, Exc
<1>3. CASE path = "x402"
  <2>0. UNCHANGED <<pc, next, outcome>>
    BY <1>3 DEF End, Raise
  <2>1. CASE End
    <3>1. queue' = Append(queue, Done) /\ failed' = failed
      BY <1>3, <2>1 DEF End
    <3>2. /\ queue' \in Seq(Exc..MaxEvents) /\ Len(queue') = Len(queue) + 1
          /\ DOMAIN queue' = 1..(Len(queue) + 1)
          /\ \A i \in 1..Len(queue) : queue'[i] = queue[i]
          /\ queue'[Len(queue) + 1] = Done
      BY <1>2, <3>1, AppendFacts
    <3>3. TypeOK'
      BY <1>0, <2>0, <3>1, <3>2 DEF StreamInv, TypeOK
    <3>4. ASSUME pc = "read" PROVE Reading'
      <4>1. runner = "running" /\ ~failed /\ QueueInv /\ Collected(Taken)
        BY <1>0, <1>3, <3>4 DEF StreamInv, Reading
      <4>2. Marks = 0 /\ Marks' = 1
        BY <1>0, <3>1, <4>1 DEF Marks
      <4>3. Taken' = Taken /\ Taken = Len(said) - Len(queue)
        BY <1>0, <1>2, <3>2, <4>2 DEF Taken
      <4>4. QueueInv'
        BY <1>0, <1>2, <3>2, <4>1, <4>2, <4>3 DEF QueueInv
      <4>5. Collected(Taken)'
        BY <1>0, <4>1, <4>3 DEF Collected, AllTexts
      <4>6. QED
        BY <1>0, <1>3, <4>4, <4>5 DEF Reading
    <3>5. QED
      BY <1>0, <1>3, <2>0, <3>3, <3>4
         DEF StreamInv, RunnerStopped, WholeReport, NoLimitedReport, ValidatedOnly
  <2>2. CASE Raise
    <3> DEFINE q == Append(queue, Exc)
    <3>1. queue' = Append(q, Done) /\ failed' = TRUE
      BY <1>3, <2>2 DEF Raise
    <3>2. /\ q \in Seq(Exc..MaxEvents) /\ Len(q) = Len(queue) + 1
          /\ \A i \in 1..Len(queue) : q[i] = queue[i]
          /\ q[Len(queue) + 1] = Exc
      BY <1>2, AppendFacts
    <3> HIDE DEF q
    <3>3. /\ queue' \in Seq(Exc..MaxEvents) /\ Len(queue') = Len(queue) + 2
          /\ DOMAIN queue' = 1..(Len(queue) + 2)
          /\ \A i \in 1..Len(q) : queue'[i] = q[i]
          /\ queue'[Len(queue) + 2] = Done
      BY <1>2, <3>1, <3>2, AppendFacts
    <3>4. /\ \A i \in 1..Len(queue) : queue'[i] = queue[i]
          /\ queue'[Len(queue) + 1] = Exc
      BY <1>2, <3>2, <3>3
    <3>5. TypeOK'
      BY <1>0, <2>0, <3>3 DEF StreamInv, TypeOK
    <3>6. ASSUME pc = "read" PROVE Reading'
      <4>1. runner = "running" /\ QueueInv /\ Collected(Taken)
        BY <1>0, <1>3, <3>6 DEF StreamInv, Reading
      <4>2. Marks = 0 /\ Marks' = 2
        BY <1>0, <3>1, <4>1 DEF Marks
      <4>3. Taken' = Taken /\ Taken = Len(said) - Len(queue)
        BY <1>0, <1>2, <3>3, <4>2 DEF Taken
      <4>4. QueueInv'
        BY <1>0, <1>2, <3>3, <3>4, <4>1, <4>2, <4>3 DEF QueueInv
      <4>5. Collected(Taken)'
        BY <1>0, <4>1, <4>3 DEF Collected, AllTexts
      <4>6. QED
        BY <1>0, <1>3, <4>4, <4>5 DEF Reading
    <3>7. QED
      BY <1>0, <1>3, <2>0, <3>5, <3>6
         DEF StreamInv, RunnerStopped, WholeReport, NoLimitedReport, ValidatedOnly
  <2>3. QED
    BY <2>1, <2>2
<1>4. CASE path = "erc8183"
  <2>0. path # "x402" /\ pc = "read" /\ ~failed /\ Collected(Len(said))
    BY <1>0, <1>4 DEF StreamInv, Reading
  <2>1. CASE End
    <3>1. pc' = "render" /\ UNCHANGED <<queue, next, failed, outcome>>
      BY <2>0, <2>1 DEF End
    <3>2. TypeOK'
      BY <1>0, <3>1 DEF StreamInv, TypeOK
    <3>3. Collected(Len(said))'
      BY <1>0, <2>0 DEF Collected, AllTexts
    <3>4. QED
      BY <1>0, <2>0, <3>1, <3>2, <3>3
         DEF StreamInv, RunnerStopped, WholeReport, NoLimitedReport, ValidatedOnly
  <2>2. CASE Raise
    <3>1. pc' = "done" /\ outcome' = "failed" /\ UNCHANGED <<queue, next>>
      BY <2>0, <2>2 DEF Raise, Finish
    <3>2. TypeOK'
      BY <1>0, <3>1 DEF StreamInv, TypeOK
    <3>3. QED
      BY <1>0, <3>1, <3>2
         DEF StreamInv, RunnerStopped, WholeReport, NoLimitedReport, ValidatedOnly
  <2>3. QED
    BY <2>1, <2>2
<1>5. QED
  BY <1>3, <1>4, StreamAssumption DEF StreamInv, TypeOK

(* A cancelled task stops; the consumer waits for that and leaves.         *)
LEMMA CloseKeeps == ASSUME StreamInv, Cancelled \/ Closed PROVE StreamInv'
<1>1. CASE Cancelled
  <2>0. /\ pc = "closing" /\ runner' = "off" /\ queue' = Append(queue, Done)
        /\ UNCHANGED <<path, call, pc, next, failed, said, parts, outcome, report>>
    BY <1>1 DEF Cancelled, StreamInv
  <2>1. queue' \in Seq(Exc..MaxEvents)
    <3>1. queue \in Seq(Exc..MaxEvents) /\ Done \in Exc..MaxEvents
      BY StreamFacts DEF Done, Exc
    <3>2. QED
      BY <2>0, <3>1, AppendFacts
  <2>2. TypeOK'
    BY <2>0, <2>1 DEF StreamInv, TypeOK
  <2>3. QED
    BY <2>0, <2>2 DEF StreamInv, RunnerStopped, WholeReport, NoLimitedReport, ValidatedOnly
<1>2. CASE Closed
  <2>0. /\ pc = "closing" /\ runner = "off" /\ pc' = "done" /\ next' = "none"
        /\ UNCHANGED <<path, call, runner, failed, said, queue, parts, outcome, report>>
        /\ outcome # "report"
    BY <1>2 DEF Closed, StreamInv
  <2>1. TypeOK'
    BY <2>0 DEF StreamInv, TypeOK
  <2>2. QED
    BY <2>0, <2>1 DEF StreamInv, RunnerStopped, WholeReport, NoLimitedReport, ValidatedOnly
<1>3. QED
  BY <1>1, <1>2

(* The consumer leaves its loop without a report.                          *)
LEMMA LeaveKeeps ==
    ASSUME StreamInv, path = "x402", pc = "read",
           NEW result \in {"analysis_failed", "too_many_users", "analysis_timeout"},
           Leave("done", result), queue' \in Seq(Exc..MaxEvents),
           UNCHANGED <<path, call, failed, said, parts, report>>
    PROVE  StreamInv'
<1>0. /\ outcome' = result /\ pc' \in {"closing", "done"}
      /\ pc' = "done" => runner' = "off" /\ next' = next
      /\ pc' = "closing" => runner' = "cancelled" /\ next' = "done"
  BY DEF Leave, StreamInv, Reading, TypeOK
<1>1. TypeOK'
  BY <1>0 DEF StreamInv, TypeOK
<1>2. QED
  BY <1>0, <1>1 DEF StreamInv, RunnerStopped, WholeReport, NoLimitedReport, ValidatedOnly

(* One turn of the loop.  The end mark comes after every event, and after  *)
(* an exception, so who sees it first has the whole of a run that ended.   *)
LEMMA TakeKeeps == ASSUME StreamInv, Take PROVE StreamInv'
<1>0. /\ path = "x402" /\ pc = "read" /\ queue # <<>> /\ queue' = Tail(queue)
      /\ UNCHANGED <<path, call, failed, said, report>> /\ outcome = "none"
      /\ runner # "cancelled" /\ (runner = "running" => ~failed) /\ QueueInv /\ Collected(Taken)
  BY DEF Take, StreamInv, Reading
<1>1. /\ Len(said) \in 0..MaxEvents /\ MaxEvents \in Nat
      /\ queue \in Seq(Exc..MaxEvents) /\ DOMAIN queue = 1..Len(queue) /\ Len(queue) \in Nat
      /\ parts \in Seq(1..MaxEvents) /\ \A i \in 1..Len(said) : said[i] \in Events
  BY StreamFacts
<1>2. /\ Head(queue) = queue[1] /\ Len(queue) > 0 /\ queue' \in Seq(Exc..MaxEvents)
      /\ Len(queue') = Len(queue) - 1 /\ DOMAIN queue' = 1..(Len(queue) - 1)
      /\ \A i \in 1..(Len(queue) - 1) : queue'[i] = queue[i + 1]
  BY <1>0, <1>1, TailFacts
<1>3. Marks \in {0, 1, 2} /\ Taken \in Nat /\ Taken = Len(said) + Marks - Len(queue)
      /\ Marks <= Len(queue)
  BY <1>0, <1>1 DEF Marks, Taken, QueueInv
<1>4. queue[1] = IF 1 <= Len(queue) - Marks THEN Taken + 1
                 ELSE IF Len(queue) = 1 THEN Done ELSE Exc
  BY <1>0, <1>1, <1>2 DEF QueueInv
<1>5. CASE IsEnd(queue[1]) /\ Leave("render", outcome) /\ UNCHANGED parts
  <2>1. Len(queue) = 1 /\ Marks = 1
    BY <1>1, <1>2, <1>3, <1>4, <1>5, SMTT(40) DEF IsEnd, Done, Exc
  <2>2. runner = "off" /\ ~failed /\ Taken = Len(said)
    BY <1>0, <1>1, <1>3, <2>1 DEF Marks, StreamInv, TypeOK
  <2>3. pc' = "render" /\ UNCHANGED <<next, runner, outcome, parts>>
    BY <1>5, <2>2 DEF Leave
  <2>4. TypeOK'
    BY <1>0, <1>2, <2>3 DEF StreamInv, TypeOK
  <2>5. Collected(Len(said))'
    BY <1>0, <2>2, <2>3 DEF Collected, AllTexts
  <2>6. QED
    BY <1>0, <2>2, <2>3, <2>4, <2>5
       DEF StreamInv, RunnerStopped, WholeReport, NoLimitedReport, ValidatedOnly
<1>6. CASE (\E result \in {"analysis_failed", "too_many_users"} : Leave("done", result))
             /\ UNCHANGED parts
  BY <1>0, <1>2, <1>6, LeaveKeeps
<1>7. CASE /\ queue[1] > 0 /\ ~LimitSeen(said[queue[1]])
           /\ parts' = Collect(said[queue[1]], queue[1])
           /\ UNCHANGED <<pc, next, runner, outcome>>
  <2>1. queue[1] = Taken + 1 /\ 1 <= Len(queue) - Marks
    BY <1>1, <1>3, <1>4, <1>7 DEF Done, Exc
  <2>2. Taken + 1 \in 1..Len(said) /\ Taken + 1 <= MaxEvents
    BY <1>1, <1>3, <2>1
  <2>3. Marks' = Marks /\ Taken' = Taken + 1
    <3>1. Marks' = Marks
      BY <1>0, <1>7 DEF Marks
    <3>2. QED
      BY <1>0, <1>1, <1>2, <1>3, <3>1 DEF Taken
  <2>4. QueueInv'
    <3>1. 0 <= Taken' /\ Marks' <= Len(queue')
      BY <1>1, <1>2, <1>3, <2>1, <2>3
    <3>2. ASSUME NEW i \in DOMAIN queue'
          PROVE  queue'[i] = IF i <= Len(queue') - Marks' THEN Taken' + i
                             ELSE IF i = Len(queue') THEN Done ELSE Exc
      <4>1. /\ i \in 1..(Len(queue) - 1) /\ i + 1 \in DOMAIN queue /\ queue'[i] = queue[i + 1]
        BY <1>1, <1>2
      <4>2. queue[i + 1] = IF i + 1 <= Len(queue) - Marks THEN Taken + (i + 1)
                           ELSE IF i + 1 = Len(queue) THEN Done ELSE Exc
        BY <1>0, <4>1 DEF QueueInv
      <4>3. /\ i + 1 <= Len(queue) - Marks <=> i <= Len(queue') - Marks'
            /\ i + 1 = Len(queue) <=> i = Len(queue')
            /\ Taken' + i = Taken + (i + 1)
        <5>1. /\ i \in Int /\ Len(queue) \in Int /\ Marks \in Int /\ Taken \in Int
              /\ Len(queue') = Len(queue) - 1 /\ Marks' = Marks /\ Taken' = Taken + 1
          BY <1>1, <1>2, <1>3, <2>3, <4>1
        <5>2. QED
          BY <5>1
      <4>4. QED
        BY <4>1, <4>2, <4>3
    <3>3. QED
      BY <3>1, <3>2 DEF QueueInv
  <2>5. OneMore(parts', Taken, said[Taken + 1])
    <3>1. AllTexts(parts, Taken) /\ Taken \in Nat /\ Taken + 1 <= MaxEvents
      BY <1>0, <1>3, <2>2 DEF Collected
    <3>2. QED
      BY <1>1, <1>7, <2>1, <3>1, CollectFacts
  <2>6. {k \in 1..(Taken + 1) : said[k] \in Texts} =
          {k \in 1..Taken : said[k] \in Texts}
            \cup (IF said[Taken + 1] \in Texts THEN {Taken + 1} ELSE {})
    BY <1>3
  <2>7. AllTexts(parts, Taken)'
    BY <1>0, <2>3, <2>5, <2>6 DEF OneMore, AllTexts
  <2>8. \A k \in 1..(Taken + 1) : said[k] # "limited"
    BY <1>0, <1>3, <1>7, <2>1 DEF Collected, LimitSeen
  <2>9. Collected(Taken)'
    BY <1>0, <2>3, <2>7, <2>8 DEF Collected
  <2>10. parts' \in Seq(1..MaxEvents) /\ \A i \in DOMAIN parts' : parts'[i] \in DOMAIN said
    BY <2>2, <2>5, <2>6, <1>1, StreamFacts DEF OneMore
  <2>11. TypeOK'
    BY <1>0, <1>2, <1>7, <2>10 DEF StreamInv, TypeOK
  <2>12. Reading'
    BY <1>0, <1>7, <2>4, <2>9 DEF Reading
  <2>13. QED
    BY <1>0, <1>7, <2>11, <2>12
       DEF StreamInv, RunnerStopped, WholeReport, NoLimitedReport, ValidatedOnly
<1>8. QED
  BY <1>2, <1>5, <1>6, <1>7 DEF Take

(* What has been collected is delivered, or another call is made.          *)
LEMMA RenderKeeps == ASSUME StreamInv, Render \/ Validate PROVE StreamInv'
<1>0. /\ pc = "render" /\ runner = "off" /\ ~failed /\ Collected(Len(said)) /\ outcome = "none"
      /\ UNCHANGED <<path, next, runner, failed, said, queue, parts>>
      /\ path \in {"x402", "erc8183"} /\ DOMAIN said = 1..Len(said)
  BY StreamAssumption, StreamFacts DEF Render, Validate, StreamInv, RunnerStopped, TypeOK
<1>1. ASSUME NEW texts, NEW checked \in {"validated", "raw", "safe"}, Deliver(texts, checked),
             checked # "safe" => texts = parts,
             path = "erc8183" => \/ checked = "validated" /\ Conforms
                                 \/ checked = "safe" /\ texts = <<>>
      PROVE  StreamInv'
  <2>1. /\ pc' = "done" /\ outcome' = "report" /\ call' = call
        /\ report'.texts = texts /\ report'.checked = checked
    BY <1>1 DEF Deliver
  <2>2. TypeOK'
    BY <1>0, <2>1 DEF StreamInv, TypeOK
  <2>3. WholeReport'
    BY <1>0, <1>1, <2>1 DEF WholeReport, Collected, AllTexts
  <2>4. NoLimitedReport'
    BY <1>0, <2>1 DEF NoLimitedReport, Collected
  <2>5. ValidatedOnly'
    BY <1>0, <1>1, <2>1 DEF ValidatedOnly, Conforms
  <2>6. QED
    BY <1>0, <2>1, <2>2, <2>3, <2>4, <2>5 DEF StreamInv, RunnerStopped
<1>2. ASSUME pc' = "open", UNCHANGED <<outcome, report>>, call' = call + 1,
             call < IF path = "x402" THEN Calls ELSE 2
      PROVE  StreamInv'
  <2>1. TypeOK'
    BY <1>0, <1>2, StreamAssumption DEF StreamInv, TypeOK
  <2>2. QED
    BY <1>0, <1>2, <2>1 DEF StreamInv, RunnerStopped, WholeReport, NoLimitedReport, ValidatedOnly
<1>3. ASSUME pc' = "done", outcome' = "analysis_empty_response", UNCHANGED <<call, report>>
      PROVE  StreamInv'
  <2>1. TypeOK'
    BY <1>0, <1>3 DEF StreamInv, TypeOK
  <2>2. QED
    BY <1>0, <1>3, <2>1 DEF StreamInv, RunnerStopped, WholeReport, NoLimitedReport, ValidatedOnly
<1>4. CASE Render
  BY <1>0, <1>1, <1>2, <1>3, <1>4 DEF Render, Again
<1>5. CASE Validate
  BY <1>0, <1>1, <1>2, <1>5 DEF Validate, Again, LastResort
<1>6. QED
  BY <1>4, <1>5

LEMMA StreamInit == Init => StreamInv
<1> SUFFICES ASSUME Init PROVE StreamInv
  OBVIOUS
<1>1. /\ said \in Seq(Events) /\ queue \in Seq(Exc..MaxEvents) /\ parts \in Seq(1..MaxEvents)
      /\ Len(said) = 0 /\ DOMAIN parts = {}
  BY EmptySeq DEF Init
<1>2. failed \in BOOLEAN /\ report.checked = "none"
  BY DEF Init, NoReport
<1>3. TypeOK
  BY <1>1, <1>2, StreamAssumption DEF Init, TypeOK
<1>4. QED
  BY <1>3 DEF Init, StreamInv, RunnerStopped, WholeReport, NoLimitedReport, ValidatedOnly

LEMMA StreamStep == StreamInv /\ [Next]_vars => StreamInv'
<1> SUFFICES ASSUME StreamInv, [Next]_vars PROVE StreamInv'
  OBVIOUS
<1>1. CASE UNCHANGED vars
  BY <1>1 DEF vars, StreamInv, TypeOK, RunnerStopped, WholeReport, NoLimitedReport, ValidatedOnly,
              Reading, QueueInv, Collected, AllTexts, Marks, Taken
<1>2. CASE Timeout
  BY <1>2, StreamFacts, LeaveKeeps DEF Timeout
<1>3. QED
  BY <1>1, <1>2, OpenKeeps, EmitKeeps, EndKeeps, CloseKeeps, TakeKeeps, RenderKeeps DEF Next

LEMMA StreamAlways == Spec => []StreamInv
  BY StreamInit, StreamStep, PTL DEF Spec

(* A report that is delivered is all that a run of the model said, in      *)
(* order, and the run came to its end; no provider had refused its data;   *)
(* and an ERC-8183 delivery conforms to the schema or holds nothing that   *)
(* the model said.                                                         *)
THEOREM ReportsSound == Spec => []ReportSound
<1>1. StreamInv => ReportSound
  BY DEF StreamInv, ReportSound
<1>2. QED
  BY <1>1, StreamAlways, PTL

(* The task of the runner has stopped before the next call and before any  *)
(* result: on an end, an error, a refusal and a timeout alike.             *)
THEOREM RunnersStop == Spec => []RunnerStopped
<1>1. StreamInv => RunnerStopped
  BY DEF StreamInv
<1>2. QED
  BY <1>1, StreamAlways, PTL
=============================================================================
