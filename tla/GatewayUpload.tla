--------------------------- MODULE GatewayUpload ---------------------------
(***************************************************************************)
(* Submissions of deliverables: submit_result of signing.py and the upload *)
(* of uomp_storage.py it leads to.  Every submission runs on a thread of   *)
(* its own.  One for a buyer with a delivery gateway replaces a factory    *)
(* that is global to the process while it submits; the others use the      *)
(* factory as they find it; submit_lock keeps them apart.  The provider    *)
(* resolves the gateway's name once, insists that every address is public, *)
(* and connects to those addresses only, with one deadline from the first  *)
(* connection attempt to the last byte of the answer.                      *)
(***************************************************************************)
EXTENDS Integers, Sequences

CONSTANTS Threads,   \* submissions, each on its thread
          Origins,   \* delivery gateways
          Default,   \* the configured storage
          Gateway,   \* the gateway of each submission, or Default
          Public, Private,   \* addresses a name may resolve to
          MaxAddresses,      \* bound on the length of a DNS answer
          Timeout,   \* _TIMEOUT_UPLOAD
          MaxBytes   \* _MAX_UPLOAD_RESPONSE_BYTES

ASSUME UploadAssumption ==
    /\ Default \notin Origins
    /\ Gateway \in [Threads -> Origins \cup {Default}]
    /\ Public \cap Private = {}
    /\ MaxAddresses \in Nat \ {0} /\ Timeout \in Nat \ {0} /\ MaxBytes \in Nat \ {0}

VARIABLES
    lock,     \* the thread that holds submit_lock, in a set
    factory,  \* storage_provider_from_config: whose provider it makes
    dns,      \* what the resolver answers for each gateway just now
    req       \* the submission of each thread

vars == <<lock, factory, dns, req>>

Answers == UNION {[1..n -> Public \cup Private] : n \in 0..MaxAddresses}

NoRequest ==
    [pc |-> "idle",
     saved |-> Default,     \* _orig
     prov |-> Default,      \* whose storage the workflow has been given
     left |-> <<>>,         \* pinned addresses not yet tried
     pinned |-> {},         \* the addresses that were validated
     peer |-> {},           \* the address connected to
     elapsed |-> 0,         \* time since the deadline was set
     raw |-> "none",        \* the socket: none, open or closed
     closed |-> FALSE,      \* _DeadlineSocket._closed
     refs |-> 0,            \* _makefile_refs
     refused |-> FALSE,     \* the response has become an HTTPError, which owns it
     size |-> 0]            \* bytes of the answer read so far

Init ==
    /\ lock = {}
    /\ factory = Default
    /\ dns \in [Origins -> Answers]
    /\ req = [t \in Threads |-> NoRequest]

-----------------------------------------------------------------------------
(* _DeadlineSocket                                                         *)

CloseRaw(r) == [r EXCEPT !.raw = "closed"]
Abort(r) == CloseRaw([r EXCEPT !.closed = TRUE])
AcquireMakefile(r) == [r EXCEPT !.refs = @ + 1]

\* Faulty variant: the last stream leaves the socket to somebody else.
ReleaseMakefileOnly(r) == [r EXCEPT !.refs = IF @ > 0 THEN @ - 1 ELSE @]

ReleaseMakefile(r) ==
    LET q == [r EXCEPT !.refs = IF @ > 0 THEN @ - 1 ELSE @]
    IN  IF q.closed /\ q.refs = 0 THEN CloseRaw(q) ELSE q

CloseSocket(r) ==
    LET q == [r EXCEPT !.closed = TRUE]
    IN  IF ~r.closed /\ r.refs = 0 THEN CloseRaw(q) ELSE q

\* Faulty variant: every operation is given the whole timeout.
RemainingWhole(r) == Timeout

\* remaining_timeout and _prepare_operation give an operation what is left.
Remaining(r) == Timeout - r.elapsed

Late(r) == r.elapsed >= Timeout
Took(r, d) == [r EXCEPT !.elapsed = @ + d]

-----------------------------------------------------------------------------
(* submit_result                                                           *)

Set(t, r) == req' = [req EXCEPT ![t] = r]
Step(t, where) == Set(t, [req[t] EXCEPT !.pc = where])

\* Faulty variant: only submissions to a gateway take the lock.
LockNeededForGateway(t) == Gateway[t] # Default

LockNeeded(t) == TRUE

\* with submit_lock: ... and the replacement of the factory.  A thread submits
\* again once the response of its last submission is gone: this bounds the
\* responses left to the collector, one for each thread.
Enter(t) ==
    /\ req[t].pc = "idle" /\ req[t].refs = 0
    /\ LockNeeded(t) => lock = {}
    /\ lock' = IF LockNeeded(t) THEN {t} ELSE lock
    /\ IF Gateway[t] # Default
       THEN /\ factory' = Gateway[t]
            /\ Set(t, [NoRequest EXCEPT !.pc = "workflow", !.saved = factory])
       ELSE Set(t, [NoRequest EXCEPT !.pc = "workflow"]) /\ UNCHANGED factory
    /\ UNCHANGED dns

Restore(t) == IF Gateway[t] # Default THEN req[t].saved ELSE factory

\* Faulty variant: the lock is released only after a success.
UnlockAfterSuccess(t) == IF req[t].pc = "failed" THEN lock ELSE lock \ {t}

Unlock(t) == lock \ {t}

\* What is left of a submission: its socket, if that is open.
Remains(r) ==
    IF r.raw = "open"
    THEN [NoRequest EXCEPT !.raw = "open", !.closed = r.closed, !.refs = r.refs,
                           !.refused = r.refused]
    ELSE NoRequest

\* finally: ..., and the lock is released
Leave(t) ==
    /\ req[t].pc \in {"submitted", "failed"}
    /\ factory' = Restore(t)
    /\ lock' = Unlock(t)
    /\ Set(t, Remains(req[t]))
    /\ UNCHANGED dns

\* submit_workflow asks the factory for its storage.  The constructor of a
\* gateway provider validates the origin: a resolver that fails or takes too
\* long, no address or one that is not public raise.  This is the check of a
\* production process: with ALLOW_PRIVATE_DELIVERY_GATEWAY set, for development,
\* the code lets http and loopback pass.
MakeProvider(t) ==
    LET answer == dns[factory]
        public == answer # <<>> /\ \A i \in DOMAIN answer : answer[i] \in Public
    IN  /\ req[t].pc = "workflow"
        /\ \/ factory = Default /\ Set(t, [req[t] EXCEPT !.pc = "upload", !.prov = factory])
           \/ factory # Default /\ public
              /\ Set(t, [req[t] EXCEPT !.pc = "connect", !.prov = factory, !.left = answer,
                                       !.pinned = {answer[i] : i \in DOMAIN answer},
                                       !.elapsed = 0, !.raw = "none"])
           \/ factory # Default /\ Step(t, "failed")
        /\ UNCHANGED <<lock, factory, dns>>

\* An upload to the configured storage.
UploadDefault(t) ==
    /\ req[t].pc = "upload"
    /\ Step(t, "uploaded") \/ Step(t, "failed")
    /\ UNCHANGED <<lock, factory, dns>>

\* The transaction on the chain, whatever comes of it.
SubmitOnChain(t) ==
    /\ req[t].pc = "uploaded"
    /\ Step(t, "submitted") \/ Step(t, "failed")
    /\ UNCHANGED <<lock, factory, dns>>

-----------------------------------------------------------------------------
(* The upload to a gateway.                                                *)

\* Faulty variant: the name is resolved again for every connection.
NextPeerResolved(t) == dns[req[t].prov]

NextPeer(t) == req[t].left

\* _open_pinned_socket: the next address is tried with the time that is left.
\* A refused connection or handshake is closed and the next address follows; a
\* timeout ends the whole attempt.
Connect(t) ==
    LET r == req[t]
        to == NextPeer(t)
        tried == [r EXCEPT !.left = IF @ = <<>> THEN @ ELSE Tail(@)]
    IN  /\ r.pc = "connect"
        /\ to # <<>>
        /\ \E d \in 0..Remaining(r) :
             LET q == Took(tried, d)
             IN  \/ Late(q) /\ Set(t, [CloseRaw(q) EXCEPT !.pc = "failed"])
                 \/ ~Late(q) /\ Set(t, CloseRaw(q))
                 \/ ~Late(q) /\ Set(t, [q EXCEPT !.pc = "exchange", !.peer = {Head(to)},
                                                 !.raw = "open"])
        /\ UNCHANGED <<lock, factory, dns>>

\* No address has answered.
NoAddress(t) ==
    /\ req[t].pc = "connect" /\ req[t].left = <<>>
    /\ Step(t, "failed")
    /\ UNCHANGED <<lock, factory, dns>>

\* The request is sent and the head of the response read through a stream of
\* the socket.  The HTTP client closes the connection once it has the response;
\* the stream keeps the socket.  A status other than success becomes an HTTPError
\* that owns the response, and that no caller closes: its stream is released
\* with the exception (Collect).
Exchange(t) ==
    LET r == req[t]
    IN  /\ r.pc = "exchange"
        /\ \E d \in 0..Remaining(r) :
             LET q == Took(r, d)
                 response == CloseSocket(AcquireMakefile(q))
             IN  \/ Late(q) /\ Set(t, [ReleaseMakefile(Abort(AcquireMakefile(q))) EXCEPT !.pc = "failed"])
                 \/ ~Late(q) /\ Set(t, [CloseSocket(q) EXCEPT !.pc = "failed"])
                 \/ Set(t, [response EXCEPT !.pc = "failed", !.refused = TRUE])
                 \/ ~Late(q) /\ Set(t, [response EXCEPT !.pc = "read"])
        /\ UNCHANGED <<lock, factory, dns>>

\* A read asks for one byte more than may still come, to see an excess.
Chunk(r) == MaxBytes + 1 - r.size

\* One turn of _read_bounded_json: a chunk, the end of the body, an error, or
\* the deadline; with response closes the stream in every case.
ReadChunk(t) ==
    LET r == req[t]
    IN  /\ r.pc = "read"
        /\ \E d \in 0..Remaining(r), n \in 0..Chunk(r) :
             LET q == [Took(r, d) EXCEPT !.size = @ + n]
                 over == ReleaseMakefile(q)
             IN  \/ Late(q) /\ Set(t, [over EXCEPT !.pc = "failed"])
                 \/ ~Late(q) /\ q.size > MaxBytes /\ Set(t, [over EXCEPT !.pc = "failed"])
                 \/ ~Late(q) /\ n > 0 /\ q.size <= MaxBytes /\ Set(t, q)
                 \/ ~Late(q) /\ n = 0 /\ Set(t, [over EXCEPT !.pc = "failed"])     \* not a payload id
                 \/ ~Late(q) /\ n = 0 /\ Set(t, [over EXCEPT !.pc = "uploaded"])
        /\ UNCHANGED <<lock, factory, dns>>

\* The HTTPError of a refused upload is let go, by whoever caught it or by the
\* garbage collector, some time after it was raised.
Collect(t) ==
    LET r == ReleaseMakefile(req[t])
    IN  /\ req[t].pc \in {"failed", "idle"} /\ req[t].refs > 0
        /\ Set(t, IF r.pc = "idle" THEN Remains(r) ELSE r)
        /\ UNCHANGED <<lock, factory, dns>>

\* The name of a gateway comes to stand for other addresses.
DnsChanges(g) ==
    /\ dns' \in {[dns EXCEPT ![g] = a] : a \in Answers}
    /\ UNCHANGED <<lock, factory, req>>

ThreadStep(t) ==
    \/ Enter(t) \/ MakeProvider(t) \/ UploadDefault(t) \/ Connect(t) \/ NoAddress(t)
    \/ Exchange(t) \/ ReadChunk(t) \/ SubmitOnChain(t) \/ Leave(t)

Next ==
    \/ \E t \in Threads : ThreadStep(t) \/ Collect(t)
    \/ \E g \in Origins : DnsChanges(g)

Spec == Init /\ [][Next]_vars

\* A submission that has begun goes on; its operations end, if need be at the
\* deadline.  Nothing makes a new one begin, or a refused response go.
FairSpec == Spec /\ \A t \in Threads : WF_vars(req[t].pc # "idle" /\ ThreadStep(t))

-----------------------------------------------------------------------------
States == {"idle", "workflow", "upload", "connect", "exchange", "read", "uploaded",
           "submitted", "failed"}

Request == [pc : States, saved : Origins \cup {Default}, prov : Origins \cup {Default},
            left : Answers, pinned : SUBSET (Public \cup Private),
            peer : SUBSET (Public \cup Private),
            elapsed : 0..(2 * Timeout), raw : {"none", "open", "closed"},
            closed : BOOLEAN, refs : 0..1, refused : BOOLEAN,
            size : 0..(MaxBytes + 1)]

\* The shape of the state; time and sizes stay within the bounds of the code.
TypeOK ==
    /\ lock \subseteq Threads
    /\ factory \in Origins \cup {Default}
    /\ dns \in [Origins -> Answers]
    /\ req \in [Threads -> Request]

\* A deliverable goes to the storage of its own submission: never to the
\* gateway of another buyer, and never to the default instead of the gateway.
OwnStorage ==
    \A t \in Threads :
      req[t].pc \in {"upload", "connect", "exchange", "read", "uploaded", "submitted"}
        => req[t].prov = Gateway[t]

\* While no submission is under way the process has its own factory back.
FactoryRestored == lock = {} => factory = Default

\* The replacement of the global factory is seen by its own submission only.
StorageIsolated == TypeOK /\ OwnStorage /\ FactoryRestored

\* The bytes go to an address that was validated together with all others of
\* the same answer, whatever the name stands for by now.
PeerValidated ==
    \A t \in Threads : req[t].peer \subseteq req[t].pinned /\ req[t].pinned \subseteq Public

\* A response can be read until it is released: its socket is open as long as
\* a stream holds it.
StreamHasSocket == \A t \in Threads : req[t].refs > 0 => req[t].raw = "open"

\* A socket outlives its request in one case only, that of a refused upload.
\* The stream of the HTTPError is then the last to hold it, so that the socket
\* is closed when the exception goes.
OnlyRefusedLeft ==
    \A t \in Threads :
      req[t].pc \in {"idle", "uploaded", "submitted", "failed"} /\ req[t].raw = "open"
        => req[t].refused /\ req[t].closed /\ req[t].refs = 1

\* A socket is open while its response is held, and nothing else keeps it open
\* past its request: not a timeout, an error, an oversized or a bad answer.
SocketsHeld == StreamHasSocket /\ OnlyRefusedLeft

\* The request as a whole, connection attempts and reads together, stays
\* within one timeout.
OneDeadline == \A t \in Threads : req[t].elapsed <= Timeout

\* submit_lock, which every delivery of the process needs, always comes free
\* again: after failed uploads and expired deadlines too.
LockReturned == (lock # {}) ~> (lock = {})
-----------------------------------------------------------------------------
(* Why it holds: the invariant that every step preserves.                  *)

\* The lock is held by the one submission under way, which has the factory; what
\* it saved, and puts back, is the process's own.
LockInv ==
    /\ \A t \in Threads : t \in lock <=> req[t].pc # "idle"
    /\ \A s, t \in lock : s = t
    /\ \A t \in lock : factory = Gateway[t]
    /\ FactoryRestored

\* The socket in each phase of a request: whoever closes it last is known.
SocketSeen(r) ==
    /\ r.pc \in {"workflow", "connect", "exchange"} => ~r.closed
    /\ r.pc = "exchange" => r.raw = "open"
    /\ r.pc = "read" => r.refs = 1
    /\ r.refs = 1 => /\ r.raw = "open" /\ r.closed
                     /\ r.pc = "read" \/ (r.refused /\ r.pc \in {"failed", "idle"})
    /\ r.raw = "open" => r.pc = "exchange" \/ r.refs = 1

RequestOK(t, r) ==
    /\ r.saved = Default
    /\ r.pc \in {"upload", "connect", "exchange", "read", "uploaded", "submitted"}
         => r.prov = Gateway[t]
    /\ r.pinned \subseteq Public /\ r.peer \subseteq r.pinned
    /\ r.pc \in {"idle", "workflow"} => r.peer = {}
    /\ \A i \in DOMAIN r.left : r.left[i] \in r.pinned
    /\ r.elapsed <= Timeout
    /\ SocketSeen(r)

UploadInv == TypeOK /\ LockInv /\ \A t \in Threads : RequestOK(t, req[t])
=============================================================================
