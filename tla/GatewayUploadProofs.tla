------------------------ MODULE GatewayUploadProofs ------------------------
(***************************************************************************)
(* Proofs about GatewayUpload, for any number of submissions, gateways and *)
(* addresses, any answers of the resolver and any timeout: UploadInv is    *)
(* inductive, and the safety properties follow from it.                    *)
(***************************************************************************)
EXTENDS GatewayUpload, SequenceTheorems, TLAPS

(* Answers of the resolver.                                                *)
LEMMA AnswerIsSeq ==
    ASSUME NEW a \in Answers
    PROVE  /\ a \in Seq(Public \cup Private) /\ Len(a) \in 0..MaxAddresses
           /\ DOMAIN a = 1..Len(a)
<1>1. PICK n \in 0..MaxAddresses : a \in [1..n -> Public \cup Private]
  BY DEF Answers
<1>2. n \in Nat
  BY UploadAssumption
<1>3. a \in Seq(Public \cup Private)
  BY <1>1, <1>2, SeqDef
<1>4. Len(a) = n
  BY <1>1, <1>2, <1>3, LenProperties
<1>5. QED
  BY <1>1, <1>3, <1>4

LEMMA EmptyAnswer == <<>> \in Answers /\ DOMAIN <<>> = {}
<1>1. <<>> \in [1..0 -> Public \cup Private]
  BY DEF Answers
<1>2. 0 \in 0..MaxAddresses
  BY UploadAssumption
<1>3. QED
  BY <1>1, <1>2 DEF Answers

LEMMA TailAnswer ==
    ASSUME NEW a \in Answers, a # <<>>
    PROVE  /\ Tail(a) \in Answers /\ Head(a) = a[1] /\ 1 \in DOMAIN a
           /\ \A i \in DOMAIN Tail(a) : i + 1 \in DOMAIN a /\ Tail(a)[i] = a[i + 1]
<1>1. /\ a \in Seq(Public \cup Private) /\ Len(a) \in 0..MaxAddresses
      /\ DOMAIN a = 1..Len(a)
  BY AnswerIsSeq
<1>2. /\ Head(a) = a[1] /\ Tail(a) \in Seq(Public \cup Private)
      /\ Len(Tail(a)) = Len(a) - 1 /\ \A i \in 1..Len(Tail(a)) : Tail(a)[i] = a[i + 1]
  BY <1>1, HeadTailProperties
<1>3. Len(a) \in Nat /\ Len(a) > 0 /\ MaxAddresses \in Nat
  BY <1>1, LenProperties, EmptySeq, UploadAssumption
<1>4. DOMAIN Tail(a) = 1..(Len(a) - 1) /\ Len(a) - 1 \in 0..MaxAddresses
  BY <1>1, <1>2, <1>3, LenProperties
<1>5. Tail(a) \in [1..(Len(a) - 1) -> Public \cup Private]
  BY <1>2, <1>4, LenProperties
<1>6. Tail(a) \in Answers
  BY <1>4, <1>5 DEF Answers
<1>7. QED
  BY <1>1, <1>2, <1>3, <1>4, <1>6
-----------------------------------------------------------------------------
(* One submission moves, the lock, the factory and the resolver do not.    *)
LEMMA RequestKeeps ==
    ASSUME UploadInv, NEW t \in Threads, NEW r \in Request, Set(t, r), RequestOK(t, r),
           req[t].pc = "idle" <=> r.pc = "idle", UNCHANGED <<lock, factory, dns>>
    PROVE  UploadInv'
<1>1. /\ req' \in [Threads -> Request] /\ req'[t] = r
      /\ \A s \in Threads \ {t} : req'[s] = req[s]
  BY DEF Set, UploadInv, TypeOK
<1>2. TypeOK'
  BY <1>1 DEF UploadInv, TypeOK
<1>3. LockInv'
  BY <1>1 DEF UploadInv, LockInv, FactoryRestored
<1>4. \A s \in Threads : RequestOK(s, req[s])'
  BY <1>1 DEF UploadInv, RequestOK
<1>5. QED
  BY <1>2, <1>3, <1>4 DEF UploadInv

LEMMA RequestFacts ==
    ASSUME UploadInv, NEW t \in Threads
    PROVE  /\ req[t] \in Request /\ RequestOK(t, req[t]) /\ LockInv
           /\ factory \in Origins \cup {Default} /\ dns \in [Origins -> Answers]
           /\ Gateway[t] \in Origins \cup {Default}
  BY UploadAssumption DEF UploadInv, TypeOK

(* A request whose socket is done with may move on or fail.                *)
LEMMA StepGood ==
    ASSUME UploadInv, NEW t \in Threads, NEW where \in {"uploaded", "submitted", "failed"},
           req[t].pc \in {"workflow", "upload", "connect", "uploaded"},
           where # "failed" => req[t].prov = Gateway[t],
           Step(t, where), UNCHANGED <<lock, factory, dns>>
    PROVE  UploadInv'
<1> DEFINE r == [req[t] EXCEPT !.pc = where]
<1>1. req[t] \in Request /\ RequestOK(t, req[t])
  BY RequestFacts
<1>2. r \in Request
  BY <1>1 DEF Request, States
<1>3. RequestOK(t, r)
  BY <1>1 DEF RequestOK, SocketSeen, Request
<1>4. Set(t, r) /\ r.pc # "idle"
  BY <1>1 DEF Step, Request
<1>5. QED
  BY <1>2, <1>3, <1>4, RequestKeeps
-----------------------------------------------------------------------------
(* submit_result: the lock and the factory.                                *)
(* A submission begins afresh, and leaves at most a refused response.      *)
LEMMA NoRequestOK ==
    ASSUME NEW t \in Threads
    PROVE  NoRequest \in Request /\ RequestOK(t, NoRequest) /\ NoRequest.pc = "idle"
<1>0. /\ <<>> \in Answers /\ DOMAIN <<>> = {}
      /\ 0 \in 0..(2 * Timeout) /\ 0 \in 0..(MaxBytes + 1) /\ 0 <= Timeout
  BY EmptyAnswer, UploadAssumption
<1>1. NoRequest \in Request
  BY <1>0 DEF NoRequest, Request, States
<1>2. /\ NoRequest.pc = "idle" /\ NoRequest.saved = Default /\ NoRequest.left = <<>>
      /\ NoRequest.pinned = {} /\ NoRequest.peer = {} /\ NoRequest.elapsed = 0
      /\ NoRequest.closed = FALSE /\ NoRequest.refs = 0 /\ NoRequest.raw = "none"
  BY DEF NoRequest
<1>3. RequestOK(t, NoRequest)
  BY <1>0, <1>2 DEF RequestOK, SocketSeen
<1>4. QED
  BY <1>1, <1>2, <1>3

LEMMA FreshOK ==
    ASSUME NEW t \in Threads,
           NEW r \in {[NoRequest EXCEPT !.pc = "workflow"],
                      [NoRequest EXCEPT !.pc = "workflow", !.saved = Default]}
    PROVE  r \in Request /\ RequestOK(t, r) /\ r.pc = "workflow"
<1>1. NoRequest \in Request /\ RequestOK(t, NoRequest)
  BY NoRequestOK
<1>2. /\ NoRequest.saved = Default /\ NoRequest.peer = {} /\ NoRequest.closed = FALSE
      /\ NoRequest.refs = 0 /\ NoRequest.raw = "none"
  BY DEF NoRequest
<1>3. /\ r \in Request /\ r.pc = "workflow" /\ r.saved = Default /\ r.left = NoRequest.left
      /\ r.pinned = NoRequest.pinned /\ r.peer = {} /\ r.elapsed = NoRequest.elapsed
      /\ r.closed = FALSE /\ r.refs = 0 /\ r.raw = "none"
  BY <1>1, <1>2 DEF Request, States
<1>4. RequestOK(t, r)
  BY <1>1, <1>3 DEF RequestOK, SocketSeen
<1>5. QED
  BY <1>3, <1>4

LEMMA RemainsOK ==
    ASSUME NEW t \in Threads, NEW r \in Request,
           r.raw = "open" => r.refused /\ r.closed /\ r.refs = 1
    PROVE  Remains(r) \in Request /\ RequestOK(t, Remains(r)) /\ Remains(r).pc = "idle"
<1>1. /\ NoRequest \in Request /\ RequestOK(t, NoRequest) /\ NoRequest.pc = "idle"
  BY NoRequestOK
<1>2. CASE r.raw # "open"
  BY <1>1, <1>2 DEF Remains
<1>3. CASE r.raw = "open"
  <2> DEFINE p == [NoRequest EXCEPT !.raw = "open", !.closed = r.closed, !.refs = r.refs,
                                    !.refused = r.refused]
  <2>1. /\ p \in Request /\ p.pc = "idle" /\ p.saved = NoRequest.saved
        /\ p.pinned = NoRequest.pinned /\ p.peer = NoRequest.peer /\ p.left = NoRequest.left
        /\ p.elapsed = NoRequest.elapsed
        /\ p.raw = "open" /\ p.closed /\ p.refs = 1 /\ p.refused
    BY <1>1, <1>3 DEF Request
  <2>2. Remains(r) = p
    BY <1>3 DEF Remains
  <2> HIDE DEF p
  <2>3. RequestOK(t, p)
    BY <1>1, <2>1 DEF RequestOK, SocketSeen
  <2>4. QED
    BY <2>1, <2>2, <2>3
<1>4. QED
  BY <1>2, <1>3

LEMMA EnterKeeps == ASSUME UploadInv, NEW t \in Threads, Enter(t) PROVE UploadInv'
<1>0. /\ req[t] \in Request /\ RequestOK(t, req[t]) /\ LockInv
      /\ Gateway[t] \in Origins \cup {Default} /\ lock = {} /\ req[t].pc = "idle"
      /\ factory = Default /\ lock' = {t} /\ dns' = dns
  BY RequestFacts DEF Enter, LockNeeded, LockInv, FactoryRestored
<1>1. factory' = Gateway[t]
  BY <1>0 DEF Enter
<1>2. PICK r \in Request : Set(t, r) /\ RequestOK(t, r) /\ r.pc = "workflow"
  <2> DEFINE saving == [NoRequest EXCEPT !.pc = "workflow", !.saved = factory]
             plain == [NoRequest EXCEPT !.pc = "workflow"]
  <2>1. saving \in Request /\ RequestOK(t, saving) /\ saving.pc = "workflow"
    BY <1>0, FreshOK
  <2>2. plain \in Request /\ RequestOK(t, plain) /\ plain.pc = "workflow"
    BY FreshOK
  <2>3. Set(t, saving) \/ Set(t, plain)
    BY DEF Enter
  <2> HIDE DEF saving, plain
  <2>4. QED
    BY <2>1, <2>2, <2>3
<1>3. /\ req' \in [Threads -> Request] /\ req'[t] = r
      /\ \A s \in Threads \ {t} : req'[s] = req[s]
  BY <1>2 DEF Set, UploadInv, TypeOK
<1>4. TypeOK'
  BY <1>0, <1>1, <1>3 DEF UploadInv, TypeOK
<1>5. LockInv'
  BY <1>0, <1>1, <1>2, <1>3 DEF LockInv, FactoryRestored
<1>6. \A s \in Threads : RequestOK(s, req[s])'
  BY <1>2, <1>3 DEF UploadInv, RequestOK
<1>7. QED
  BY <1>4, <1>5, <1>6 DEF UploadInv

LEMMA LeaveKeeps == ASSUME UploadInv, NEW t \in Threads, Leave(t) PROVE UploadInv'
<1>0. /\ req[t] \in Request /\ RequestOK(t, req[t]) /\ LockInv /\ lock \subseteq Threads
      /\ req[t].pc \in {"submitted", "failed"} /\ dns' = dns
  BY RequestFacts DEF Leave, UploadInv, TypeOK
<1>1. lock = {t} /\ factory = Gateway[t] /\ lock' = {}
  BY <1>0 DEF LockInv, Leave, Unlock
<1>2. factory' = Default
  BY <1>0, <1>1 DEF Leave, Restore, RequestOK
<1>3. req[t].raw = "open" => req[t].refused /\ req[t].closed /\ req[t].refs = 1
  BY <1>0 DEF RequestOK, SocketSeen
<1>4. PICK r \in Request : Set(t, r) /\ RequestOK(t, r) /\ r.pc = "idle"
  BY <1>0, <1>3, RemainsOK DEF Leave
<1>5. /\ req' \in [Threads -> Request] /\ req'[t] = r
      /\ \A s \in Threads \ {t} : req'[s] = req[s]
  BY <1>4 DEF Set, UploadInv, TypeOK
<1>6. TypeOK'
  BY <1>0, <1>1, <1>2, <1>5 DEF UploadInv, TypeOK
<1>7. LockInv'
  BY <1>0, <1>1, <1>2, <1>4, <1>5 DEF LockInv, FactoryRestored
<1>8. \A s \in Threads : RequestOK(s, req[s])'
  BY <1>4, <1>5 DEF UploadInv, RequestOK
<1>9. QED
  BY <1>6, <1>7, <1>8 DEF UploadInv

(* The storage of a submission: the factory it finds is its own.           *)
LEMMA MakeProviderKeeps == ASSUME UploadInv, NEW t \in Threads, MakeProvider(t) PROVE UploadInv'
<1>0. /\ req[t] \in Request /\ RequestOK(t, req[t]) /\ LockInv /\ req[t].pc = "workflow"
      /\ factory \in Origins \cup {Default} /\ dns \in [Origins -> Answers]
      /\ UNCHANGED <<lock, factory, dns>>
  BY RequestFacts DEF MakeProvider
<1>1. factory = Gateway[t]
  BY <1>0 DEF LockInv
<1>2. CASE factory = Default /\ Set(t, [req[t] EXCEPT !.pc = "upload", !.prov = factory])
  <2>1. [req[t] EXCEPT !.pc = "upload", !.prov = factory] \in Request
    BY <1>0 DEF Request, States
  <2>2. RequestOK(t, [req[t] EXCEPT !.pc = "upload", !.prov = factory])
    BY <1>0, <1>1 DEF RequestOK, SocketSeen, Request
  <2>3. [req[t] EXCEPT !.pc = "upload", !.prov = factory].pc = "upload"
    BY <1>0 DEF Request
  <2>4. QED
    BY <1>0, <1>2, <2>1, <2>2, <2>3, RequestKeeps
<1>3. CASE /\ factory # Default /\ \A i \in DOMAIN dns[factory] : dns[factory][i] \in Public
           /\ Set(t, [req[t] EXCEPT !.pc = "connect", !.prov = factory, !.left = dns[factory],
                                    !.pinned = {dns[factory][i] : i \in DOMAIN dns[factory]},
                                    !.elapsed = 0, !.raw = "none"])
  <2> DEFINE addresses == {dns[factory][i] : i \in DOMAIN dns[factory]}
             r == [req[t] EXCEPT !.pc = "connect", !.prov = factory, !.left = dns[factory],
                                 !.pinned = addresses, !.elapsed = 0, !.raw = "none"]
  <2>0. dns[factory] \in Answers /\ addresses \subseteq Public /\ 0 \in 0..(2 * Timeout)
    BY <1>0, <1>3, UploadAssumption
  <2>1. req[t].peer = {}
    BY <1>0 DEF RequestOK
  <2>2. r \in Request
    BY <1>0, <2>0 DEF Request, States
  <2>3. RequestOK(t, r)
    BY <1>0, <1>1, <2>0, <2>1, UploadAssumption DEF RequestOK, SocketSeen, Request
  <2>4. QED
    BY <1>0, <1>3, <2>2, <2>3, RequestKeeps DEF Request
<1>4. CASE Step(t, "failed")
  BY <1>0, <1>4, StepGood
<1>5. QED
  BY <1>2, <1>3, <1>4 DEF MakeProvider
-----------------------------------------------------------------------------
(* The upload.  Time: an operation is given what is left of the timeout.   *)
LEMMA TookGood ==
    ASSUME NEW t \in Threads, NEW r \in Request, RequestOK(t, r), NEW d \in 0..Remaining(r)
    PROVE  Took(r, d) \in Request /\ RequestOK(t, Took(r, d)) /\ Took(r, d).pc = r.pc
<1>1. /\ r.elapsed \in Nat /\ r.elapsed <= Timeout /\ Timeout \in Nat
  BY UploadAssumption DEF Request, RequestOK
<1>2. d \in Nat /\ r.elapsed + d <= Timeout /\ r.elapsed + d \in 0..(2 * Timeout)
  BY <1>1 DEF Remaining
<1>3. QED
  BY <1>1, <1>2 DEF Took, Request, RequestOK, SocketSeen

(* Connection attempts: the addresses tried are the ones validated.        *)
LEMMA ConnectKeeps == ASSUME UploadInv, NEW t \in Threads, Connect(t) PROVE UploadInv'
<1> DEFINE r == req[t]
           tried == [r EXCEPT !.left = IF @ = <<>> THEN @ ELSE Tail(@)]
<1>0. /\ r \in Request /\ RequestOK(t, r) /\ r.pc = "connect" /\ r.left # <<>>
      /\ r.left \in Answers /\ UNCHANGED <<lock, factory, dns>>
  BY RequestFacts DEF Connect, NextPeer, Request
<1>1. /\ Tail(r.left) \in Answers /\ Head(r.left) \in r.pinned
      /\ \A i \in DOMAIN Tail(r.left) : Tail(r.left)[i] \in r.pinned
  BY <1>0, TailAnswer DEF RequestOK
<1>2. tried = [r EXCEPT !.left = Tail(r.left)]
  BY <1>0 DEF Request
<1>3. tried \in Request /\ RequestOK(t, tried)
  BY <1>0, <1>1, <1>2 DEF Request, RequestOK, SocketSeen
<1>4. tried.pc = "connect" /\ tried.elapsed = r.elapsed /\ Head(r.left) \in tried.pinned
  BY <1>0, <1>1, <1>2 DEF Request
<1>5. PICK d \in 0..Remaining(r) :
        LET q == Took(tried, d)
        IN  \/ Late(q) /\ Set(t, [CloseRaw(q) EXCEPT !.pc = "failed"])
            \/ ~Late(q) /\ Set(t, CloseRaw(q))
            \/ ~Late(q) /\ Set(t, [q EXCEPT !.pc = "exchange", !.peer = {Head(r.left)},
                                            !.raw = "open"])
  BY DEF Connect, NextPeer
<1> DEFINE q == Took(tried, d)
<1>6. /\ q \in Request /\ RequestOK(t, q) /\ q.pc = "connect" /\ Head(r.left) \in q.pinned
  <2>1. d \in 0..Remaining(tried)
    BY <1>4 DEF Remaining
  <2>2. q \in Request /\ RequestOK(t, q) /\ q.pc = "connect"
    BY <1>3, <1>4, <2>1, TookGood
  <2>3. q.pinned = tried.pinned
    BY <1>3 DEF Took, Request
  <2>4. QED
    BY <1>4, <2>2, <2>3
<1> HIDE DEF q, tried
<1>7. CASE Set(t, [CloseRaw(q) EXCEPT !.pc = "failed"])
  <2>1. [CloseRaw(q) EXCEPT !.pc = "failed"] \in Request
    BY <1>6 DEF CloseRaw, Request, States
  <2>2. RequestOK(t, [CloseRaw(q) EXCEPT !.pc = "failed"])
    BY <1>6 DEF CloseRaw, Request, RequestOK, SocketSeen
  <2>3. [CloseRaw(q) EXCEPT !.pc = "failed"].pc # "idle"
    BY <1>6 DEF CloseRaw, Request
  <2>4. QED
    BY <1>0, <1>7, <2>1, <2>2, <2>3, RequestKeeps
<1>8. CASE Set(t, CloseRaw(q))
  <2>1. CloseRaw(q) \in Request
    BY <1>6 DEF CloseRaw, Request, States
  <2>2. RequestOK(t, CloseRaw(q)) /\ CloseRaw(q).pc # "idle"
    BY <1>6 DEF CloseRaw, Request, RequestOK, SocketSeen
  <2>3. QED
    BY <1>0, <1>8, <2>1, <2>2, RequestKeeps
<1>9. CASE Set(t, [q EXCEPT !.pc = "exchange", !.peer = {Head(r.left)}, !.raw = "open"])
  <2> DEFINE p == [q EXCEPT !.pc = "exchange", !.peer = {Head(r.left)}, !.raw = "open"]
  <2>1. p \in Request
    BY <1>6 DEF Request, States
  <2>2. RequestOK(t, p) /\ p.pc # "idle"
    BY <1>6 DEF Request, RequestOK, SocketSeen
  <2>3. QED
    BY <1>0, <1>9, <2>1, <2>2, RequestKeeps
<1>10. QED
  BY <1>5, <1>7, <1>8, <1>9 DEF q

(* What the operations of _DeadlineSocket leave alone, and what they do.   *)
Same(q, p) ==
    /\ p.saved = q.saved /\ p.prov = q.prov /\ p.pinned = q.pinned /\ p.peer = q.peer
    /\ p.left = q.left /\ p.elapsed = q.elapsed

LEMMA AcquireFields ==
    ASSUME NEW q \in Request, q.refs = 0
    PROVE  /\ AcquireMakefile(q) \in Request /\ Same(q, AcquireMakefile(q))
           /\ AcquireMakefile(q).refs = 1 /\ AcquireMakefile(q).raw = q.raw
           /\ AcquireMakefile(q).closed = q.closed
  BY DEF AcquireMakefile, Request, Same

LEMMA ReleaseFields ==
    ASSUME NEW q \in Request, q.closed
    PROVE  /\ ReleaseMakefile(q) \in Request /\ Same(q, ReleaseMakefile(q))
           /\ ReleaseMakefile(q).refs = 0 /\ ReleaseMakefile(q).raw = "closed"
           /\ ReleaseMakefile(q).pc = q.pc
<1> DEFINE p == [q EXCEPT !.refs = IF @ > 0 THEN @ - 1 ELSE @]
<1>1. p \in Request /\ Same(q, p) /\ p.refs = 0 /\ p.closed /\ p.pc = q.pc
  BY DEF Request, Same
<1>2. ReleaseMakefile(q) = CloseRaw(p)
  BY <1>1 DEF ReleaseMakefile
<1> HIDE DEF p
<1>3. QED
  BY <1>1, <1>2 DEF CloseRaw, Request, Same

LEMMA CloseFields ==
    ASSUME NEW q \in Request, ~q.closed
    PROVE  /\ CloseSocket(q) \in Request /\ Same(q, CloseSocket(q))
           /\ CloseSocket(q).refs = q.refs /\ CloseSocket(q).closed
           /\ CloseSocket(q).raw = IF q.refs = 0 THEN "closed" ELSE q.raw
<1> DEFINE p == [q EXCEPT !.closed = TRUE]
<1>1. p \in Request /\ Same(q, p) /\ p.refs = q.refs /\ p.closed /\ p.raw = q.raw
  BY DEF Request, Same
<1>2. CloseSocket(q) = IF q.refs = 0 THEN CloseRaw(p) ELSE p
  BY DEF CloseSocket
<1> HIDE DEF p
<1>3. QED
  BY <1>1, <1>2 DEF CloseRaw, Request, Same

LEMMA AbortFields ==
    ASSUME NEW q \in Request
    PROVE  Abort(q) \in Request /\ Same(q, Abort(q)) /\ Abort(q).closed
<1> DEFINE p == [q EXCEPT !.closed = TRUE]
<1>1. p \in Request /\ Same(q, p) /\ p.closed
  BY DEF Request, Same
<1>2. Abort(q) = CloseRaw(p)
  BY DEF Abort
<1> HIDE DEF p
<1>3. QED
  BY <1>1, <1>2 DEF CloseRaw, Request, Same

(* A request that is done with its socket.                                 *)
LEMMA SocketEnds ==
    ASSUME UploadInv, NEW t \in Threads, req[t].pc \in {"exchange", "read"},
           UNCHANGED <<lock, factory, dns>>,
           NEW q \in Request, RequestOK(t, q), q.pc = req[t].pc,
           NEW p \in Request, Same(q, p), p.raw = "closed", p.refs = 0,
           NEW where \in {"failed", "uploaded"}, Set(t, [p EXCEPT !.pc = where])
    PROVE  UploadInv'
<1> DEFINE r == [p EXCEPT !.pc = where]
<1>1. /\ r \in Request /\ Same(p, r) /\ r.pc = where
      /\ r.refs = p.refs /\ r.raw = p.raw /\ r.closed = p.closed
  BY DEF Request, States, Same
<1> HIDE DEF r
<1>2. RequestOK(t, r)
  BY <1>1 DEF Same, RequestOK, SocketSeen
<1>3. QED
  BY <1>1, <1>2, RequestKeeps DEF r

(* The request is sent; the HTTP client closes the socket under the stream *)
(* of the response, which keeps it open.                                   *)
LEMMA ExchangeKeeps == ASSUME UploadInv, NEW t \in Threads, Exchange(t) PROVE UploadInv'
<1>0. /\ req[t] \in Request /\ RequestOK(t, req[t]) /\ req[t].pc = "exchange"
      /\ UNCHANGED <<lock, factory, dns>>
  BY RequestFacts DEF Exchange
<1>1. PICK d \in 0..Remaining(req[t]) :
        LET q == Took(req[t], d)
            response == CloseSocket(AcquireMakefile(q))
        IN  \/ Set(t, [ReleaseMakefile(Abort(AcquireMakefile(q))) EXCEPT !.pc = "failed"])
            \/ Set(t, [CloseSocket(q) EXCEPT !.pc = "failed"])
            \/ Set(t, [response EXCEPT !.pc = "failed", !.refused = TRUE])
            \/ Set(t, [response EXCEPT !.pc = "read"])
  BY DEF Exchange
<1> DEFINE q == Took(req[t], d)
           held == AcquireMakefile(q)
           response == CloseSocket(held)
<1>2. q \in Request /\ RequestOK(t, q) /\ q.pc = "exchange"
  BY <1>0, TookGood
<1> HIDE DEF q
<1>3. q.raw = "open" /\ ~q.closed /\ q.refs = 0
  BY <1>2 DEF Request, RequestOK, SocketSeen
<1>4. held \in Request /\ Same(q, held) /\ held.refs = 1 /\ held.raw = "open" /\ ~held.closed
  BY <1>2, <1>3, AcquireFields
<1> HIDE DEF held
<1>5. /\ response \in Request /\ Same(held, response) /\ response.refs = 1 /\ response.closed
      /\ response.raw = "open"
  BY <1>4, CloseFields
<1> HIDE DEF response
<1>6. CASE Set(t, [ReleaseMakefile(Abort(held)) EXCEPT !.pc = "failed"])
  <2> DEFINE p == ReleaseMakefile(Abort(held))
  <2>1. Abort(held) \in Request /\ Same(held, Abort(held)) /\ Abort(held).closed
    BY <1>4, AbortFields
  <2>2. p \in Request /\ Same(Abort(held), p) /\ p.raw = "closed" /\ p.refs = 0
    BY <2>1, ReleaseFields
  <2> HIDE DEF p
  <2>3. Same(q, p)
    BY <1>4, <2>1, <2>2 DEF Same
  <2>4. Set(t, [p EXCEPT !.pc = "failed"])
    BY <1>6 DEF p
  <2>5. QED
    BY <1>0, <1>2, <2>2, <2>3, <2>4, SocketEnds
<1>7. CASE Set(t, [CloseSocket(q) EXCEPT !.pc = "failed"])
  <2>1. /\ CloseSocket(q) \in Request /\ Same(q, CloseSocket(q)) /\ CloseSocket(q).raw = "closed"
        /\ CloseSocket(q).refs = 0
    BY <1>2, <1>3, CloseFields
  <2>2. QED
    BY <1>0, <1>2, <1>7, <2>1, SocketEnds
<1>8. CASE Set(t, [response EXCEPT !.pc = "failed", !.refused = TRUE])
  <2> DEFINE p == [response EXCEPT !.pc = "failed", !.refused = TRUE]
  <2>1. /\ p \in Request /\ Same(response, p) /\ p.pc = "failed" /\ p.refused
        /\ p.refs = 1 /\ p.raw = "open" /\ p.closed
    BY <1>5 DEF Request, States, Same
  <2> HIDE DEF p
  <2>2. RequestOK(t, p)
    BY <1>2, <1>4, <1>5, <2>1 DEF Same, RequestOK, SocketSeen
  <2>3. QED
    BY <1>0, <1>8, <2>1, <2>2, RequestKeeps DEF p
<1>9. CASE Set(t, [response EXCEPT !.pc = "read"])
  <2> DEFINE p == [response EXCEPT !.pc = "read"]
  <2>1. /\ p \in Request /\ Same(response, p) /\ p.pc = "read"
        /\ p.refs = 1 /\ p.raw = "open" /\ p.closed
    BY <1>5 DEF Request, States, Same
  <2> HIDE DEF p
  <2>2. RequestOK(t, p)
    BY <1>2, <1>4, <1>5, <2>1 DEF Same, RequestOK, SocketSeen
  <2>3. QED
    BY <1>0, <1>9, <2>1, <2>2, RequestKeeps DEF p
<1>10. QED
  BY <1>1, <1>6, <1>7, <1>8, <1>9 DEF q, held, response

(* The answer is read; the stream lets the socket go in every case.        *)
LEMMA ReadChunkKeeps == ASSUME UploadInv, NEW t \in Threads, ReadChunk(t) PROVE UploadInv'
<1>0. /\ req[t] \in Request /\ RequestOK(t, req[t]) /\ req[t].pc = "read"
      /\ UNCHANGED <<lock, factory, dns>>
  BY RequestFacts DEF ReadChunk
<1>1. PICK d \in 0..Remaining(req[t]), n \in 0..Chunk(req[t]) :
        LET q == [Took(req[t], d) EXCEPT !.size = @ + n]
        IN  \/ Set(t, [ReleaseMakefile(q) EXCEPT !.pc = "failed"])
            \/ Set(t, q)
            \/ Set(t, [ReleaseMakefile(q) EXCEPT !.pc = "uploaded"])
  BY <1>0 DEF ReadChunk
<1> DEFINE took == Took(req[t], d)
           q == [took EXCEPT !.size = @ + n]
<1>2. took \in Request /\ RequestOK(t, took) /\ took.pc = "read"
  BY <1>0, TookGood
<1>3. took.size = req[t].size
  BY <1>0 DEF Took, Request
<1> HIDE DEF took
<1>4. took.size + n \in 0..(MaxBytes + 1)
  BY <1>0, <1>2, <1>3, UploadAssumption DEF Chunk, Request
<1>5. q \in Request /\ RequestOK(t, q) /\ q.pc = "read" /\ q.closed
  <2>1. q \in Request
    BY <1>2, <1>4 DEF Request
  <2>2. Same(took, q) /\ q.pc = "read" /\ q.raw = took.raw /\ q.closed = took.closed
        /\ q.refs = took.refs
    BY <1>2 DEF Request, Same
  <2> HIDE DEF q
  <2>3. RequestOK(t, q) /\ q.closed
    BY <1>2, <2>2 DEF Same, RequestOK, SocketSeen
  <2>4. QED
    BY <2>1, <2>2, <2>3
<1> HIDE DEF q
<1>6. /\ ReleaseMakefile(q) \in Request /\ Same(q, ReleaseMakefile(q))
      /\ ReleaseMakefile(q).refs = 0 /\ ReleaseMakefile(q).raw = "closed"
  BY <1>5, ReleaseFields
<1>7. ASSUME NEW where \in {"failed", "uploaded"}, Set(t, [ReleaseMakefile(q) EXCEPT !.pc = where])
      PROVE  UploadInv'
  BY <1>0, <1>5, <1>6, <1>7, SocketEnds
<1>8. CASE Set(t, q)
  BY <1>0, <1>5, <1>8, RequestKeeps
<1>9. QED
  BY <1>1, <1>7, <1>8 DEF q, took

(* The exception of a refused upload goes, and its socket with it.         *)
LEMMA CollectKeeps == ASSUME UploadInv, NEW t \in Threads, Collect(t) PROVE UploadInv'
<1> DEFINE r == ReleaseMakefile(req[t])
           p == IF r.pc = "idle" THEN Remains(r) ELSE r
<1>0. /\ req[t] \in Request /\ RequestOK(t, req[t]) /\ req[t].pc \in {"failed", "idle"}
      /\ req[t].refs > 0 /\ Set(t, p) /\ UNCHANGED <<lock, factory, dns>>
  BY RequestFacts DEF Collect
<1>1. req[t].refs = 1 /\ req[t].closed
  BY <1>0 DEF Request, RequestOK, SocketSeen
<1>2. /\ r \in Request /\ Same(req[t], r) /\ r.pc = req[t].pc
      /\ r.refs = 0 /\ r.raw = "closed"
  BY <1>0, <1>1, ReleaseFields
<1> HIDE DEF r
<1>3. p \in Request /\ RequestOK(t, p) /\ (p.pc = "idle" <=> req[t].pc = "idle")
  <2>1. CASE r.pc = "idle"
    BY <1>2, <2>1, RemainsOK
  <2>2. CASE r.pc # "idle"
    BY <1>0, <1>2, <2>2 DEF Same, RequestOK, SocketSeen
  <2>3. QED
    BY <2>1, <2>2
<1>4. QED
  BY <1>0, <1>3, RequestKeeps
-----------------------------------------------------------------------------
LEMMA UploadInit == Init => UploadInv
<1> SUFFICES ASSUME Init PROVE UploadInv
  OBVIOUS
<1>1. ASSUME NEW t \in Threads PROVE NoRequest \in Request /\ RequestOK(t, NoRequest)
  BY NoRequestOK
<1>2. NoRequest.pc = "idle"
  BY DEF NoRequest
<1>3. TypeOK
  BY <1>1 DEF Init, TypeOK
<1>4. LockInv
  BY <1>2 DEF Init, LockInv, FactoryRestored
<1>5. QED
  BY <1>1, <1>3, <1>4 DEF Init, UploadInv

LEMMA UploadStep == UploadInv /\ [Next]_vars => UploadInv'
<1> SUFFICES ASSUME UploadInv, [Next]_vars PROVE UploadInv'
  OBVIOUS
<1>1. CASE UNCHANGED vars
  BY <1>1 DEF vars, UploadInv, TypeOK, LockInv, FactoryRestored, RequestOK
<1>2. ASSUME NEW g \in Origins, DnsChanges(g) PROVE UploadInv'
  BY <1>2 DEF DnsChanges, UploadInv, TypeOK, LockInv, FactoryRestored, RequestOK
<1>3. ASSUME NEW t \in Threads, ThreadStep(t) \/ Collect(t) PROVE UploadInv'
  <2>0. RequestOK(t, req[t])
    BY RequestFacts
  <2>1. CASE UploadDefault(t) \/ NoAddress(t) \/ SubmitOnChain(t)
    BY <2>0, <2>1, StepGood DEF UploadDefault, NoAddress, SubmitOnChain, RequestOK
  <2>2. QED
    BY <1>3, <2>1, EnterKeeps, LeaveKeeps, MakeProviderKeeps, ConnectKeeps, ExchangeKeeps,
       ReadChunkKeeps, CollectKeeps DEF ThreadStep
<1>4. QED
  BY <1>1, <1>2, <1>3 DEF Next

LEMMA UploadAlways == Spec => []UploadInv
  BY UploadInit, UploadStep, PTL DEF Spec

(* The factory that submit_result replaces for the whole process is seen   *)
(* by its own submission only, and is the process's own again when none is *)
(* under way: however many threads submit, fail and raise, a deliverable   *)
(* goes to the storage of its own buyer.                                   *)
THEOREM SubmissionsIsolated == Spec => []StorageIsolated
<1>1. UploadInv => StorageIsolated
  BY DEF UploadInv, LockInv, RequestOK, StorageIsolated, OwnStorage
<1>2. QED
  BY <1>1, UploadAlways, PTL

(* Bytes go to an address that was validated with all others of its        *)
(* answer, whatever the name of the gateway stands for by then.            *)
THEOREM PeersPinned == Spec => []PeerValidated
<1>1. UploadInv => PeerValidated
  BY DEF UploadInv, RequestOK, PeerValidated
<1>2. QED
  BY <1>1, UploadAlways, PTL

(* _DeadlineSocket and the streams made from it: the response keeps the    *)
(* socket as long as it is read, and a request leaves none open but that   *)
(* of a refused upload, which the stream of its HTTPError is the last to   *)
(* hold and closes when the exception goes.                                *)
THEOREM SocketsReleased == Spec => []SocketsHeld
<1>1. UploadInv => SocketsHeld
  BY DEF UploadInv, TypeOK, Request, RequestOK, SocketSeen, SocketsHeld, StreamHasSocket,
         OnlyRefusedLeft
<1>2. QED
  BY <1>1, UploadAlways, PTL

(* One deadline for the whole request: every operation is given what the   *)
(* ones before it have left.                                               *)
THEOREM DeadlineKept == Spec => []OneDeadline
<1>1. UploadInv => OneDeadline
  BY DEF UploadInv, RequestOK, OneDeadline
<1>2. QED
  BY <1>1, UploadAlways, PTL
=============================================================================
