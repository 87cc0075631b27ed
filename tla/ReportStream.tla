---------------------------- MODULE ReportStream ----------------------------
(***************************************************************************)
(* How the text of the model becomes a report.  A paid x402 job reads it   *)
(* through _stream_runner: the runner works in a task of its own and feeds *)
(* a queue, while _consume_report gives each of its calls a time limit.    *)
(* An ERC-8183 delivery calls the runner directly and insists on a         *)
(* validated report (generate_validated_report).  The runner is external:  *)
(* it emits events, ends, raises or hangs.                                 *)
(***************************************************************************)
EXTENDS Integers, Sequences

CONSTANTS Paths,      \* the ways to a report that are in use
          Calls,      \* calls of the model for one x402 report: 3
          MaxEvents   \* bound on the events of one call

ASSUME StreamAssumption ==
    /\ Paths \subseteq {"x402", "erc8183"}
    /\ Calls \in Nat \ {0} /\ MaxEvents \in Nat

VARIABLES
    path,     \* "x402" or "erc8183"
    call,     \* inner_call
    pc,       \* the consumer
    next,     \* where the consumer goes once the task has been torn down
    runner,   \* the task of the runner
    failed,   \* the runner has raised
    said,     \* what the runner has emitted in this call
    queue,    \* the asyncio.Queue: places in `said', Exc and Done
    parts,    \* places in `said' of the texts collected
    outcome,  \* of the report: content or error
    report    \* the texts delivered and how they were checked

vars == <<path, call, pc, next, runner, failed, said, queue, parts, outcome, report>>

\* An event is a call of a tool, a tool's answer that the provider limits its
\* rate, or part of the final response: schema-conforming, other or no text.
Events == {"tool", "limited", "valid", "prose", "blank"}
Texts == {"valid", "prose", "blank"}

\* What the task puts in the queue when it ends, and before that when it raises.
Done == 0
Exc == -1

NoReport == [texts |-> <<>>, checked |-> "none"]

Init ==
    /\ path \in Paths
    /\ call = 1 /\ pc = "open" /\ next = "none"
    /\ runner = "off" /\ failed = FALSE /\ said = <<>>
    /\ queue = <<>> /\ parts = <<>>
    /\ outcome = "none" /\ report = NoReport

-----------------------------------------------------------------------------
\* The consumer opens a session and starts the runner.
Open ==
    /\ pc = "open"
    /\ pc' = "read" /\ runner' = "running" /\ failed' = FALSE
    /\ said' = <<>> /\ queue' = <<>> /\ parts' = <<>>
    /\ UNCHANGED <<path, call, next, outcome, report>>

\* _raise_for_provider_rate_limit
LimitSeen(e) == e = "limited"

\* The consumer keeps the texts of the events it sees.
Collect(e, at) == IF e \in Texts THEN Append(parts, at) ELSE parts

Finish(result) == pc' = "done" /\ outcome' = result /\ UNCHANGED next

\* Faulty variant: the consumer leaves without waiting for the task.
LeaveAtOnce(where, result) ==
    /\ pc' = where /\ outcome' = result /\ UNCHANGED <<next, runner>>

\* finally: the task is cancelled and awaited; if it has ended that is all.
Leave(where, result) ==
    /\ outcome' = result
    /\ IF runner = "running" THEN pc' = "closing" /\ next' = where /\ runner' = "cancelled"
       ELSE pc' = where /\ UNCHANGED <<next, runner>>

\* The runner emits an event, cancelled or not.  On the ERC-8183 path the
\* consumer has it at once, and raises for a limited provider.
Emit(e) ==
    LET at == Len(said) + 1
    IN  /\ runner \in {"running", "cancelled"} /\ at <= MaxEvents
        /\ said' = Append(said, e)
        /\ IF path = "x402"
           THEN queue' = Append(queue, at) /\ UNCHANGED <<pc, next, runner, parts, outcome>>
           ELSE /\ IF LimitSeen(e) THEN Finish("failed") /\ runner' = "off"
                   ELSE UNCHANGED <<pc, next, outcome, runner>>
                /\ parts' = Collect(e, at)
                /\ UNCHANGED queue
        /\ UNCHANGED <<path, call, failed, report>>

\* The runner has finished.
End ==
    /\ runner \in {"running", "cancelled"}
    /\ runner' = "off"
    /\ IF path = "x402" THEN queue' = Append(queue, Done) /\ UNCHANGED pc
       ELSE pc' = "render" /\ UNCHANGED queue
    /\ UNCHANGED <<path, call, next, failed, said, parts, outcome, report>>

\* The runner raises: the exception is queued before the end.
Raise ==
    /\ runner \in {"running", "cancelled"}
    /\ runner' = "off" /\ failed' = TRUE
    /\ IF path = "x402" THEN queue' = Append(Append(queue, Exc), Done) /\ UNCHANGED <<pc, next, outcome>>
       ELSE Finish("failed") /\ UNCHANGED queue
    /\ UNCHANGED <<path, call, said, parts, report>>

\* A cancelled task comes to its end; nothing that it queued then is read.
Cancelled ==
    /\ runner = "cancelled"
    /\ runner' = "off"
    /\ queue' = Append(queue, Done)
    /\ UNCHANGED <<path, call, pc, next, failed, said, parts, outcome, report>>

\* Faulty variant: an exception of the runner ends the stream like its end.
IsEndAnyway(item) == item \in {Done, Exc}

IsEnd(item) == item = Done

\* One turn of the loop of _stream_runner.  Without an item for HEARTBEAT_S the
\* loop only reports progress and waits again.
Take ==
    /\ path = "x402" /\ pc = "read" /\ queue # <<>>
    /\ LET item == Head(queue)
       IN  \/ IsEnd(item) /\ Leave("render", outcome) /\ UNCHANGED parts
           \/ item = Exc /\ ~IsEnd(item) /\ Leave("done", "analysis_failed") /\ UNCHANGED parts
           \/ item > 0 /\ LimitSeen(said[item]) /\ Leave("done", "too_many_users") /\ UNCHANGED parts
           \/ /\ item > 0 /\ ~LimitSeen(said[item])
              /\ parts' = Collect(said[item], item)
              /\ UNCHANGED <<pc, next, runner, outcome>>
    /\ queue' = Tail(queue)
    /\ UNCHANGED <<path, call, failed, said, report>>

\* Faulty variant: the time limit is that of a silent queue.
TimeIsUpWhenBusy == queue # <<>>

\* wait_for of _consume_report runs whatever the stream does.
TimeIsUp == TRUE

\* The stream is cancelled in its wait for the queue, and cleans up.
Timeout ==
    /\ path = "x402" /\ pc = "read" /\ TimeIsUp
    /\ Leave("done", "analysis_timeout")
    /\ UNCHANGED <<path, call, failed, said, queue, parts, report>>

Closed ==
    /\ pc = "closing" /\ runner = "off"
    /\ pc' = next /\ next' = "none"
    /\ UNCHANGED <<path, call, runner, failed, said, queue, parts, outcome, report>>

-----------------------------------------------------------------------------
Empty == \A i \in DOMAIN parts : said[parts[i]] = "blank"
Conforms == \E i \in DOMAIN parts : said[parts[i]] = "valid"

Deliver(texts, checked) ==
    /\ pc' = "done" /\ outcome' = "report"
    /\ report' = [texts |-> texts, checked |-> checked]
    /\ UNCHANGED call

\* Another call, as long as there is one, or the end.
Again(last, result) ==
    IF call < last THEN call' = call + 1 /\ pc' = "open" /\ UNCHANGED <<outcome, report>>
    ELSE result

\* Of an x402 stream: the rendered report, or the raw text if it does not parse.
\* Without text the call is repeated.
Render ==
    /\ path = "x402" /\ pc = "render"
    /\ \/ Empty /\ Again(Calls, pc' = "done" /\ outcome' = "analysis_empty_response" /\ UNCHANGED <<call, report>>)
       \/ ~Empty /\ Conforms /\ Deliver(parts, "validated")
       \/ ~Empty /\ Deliver(parts, "raw")
    /\ UNCHANGED <<path, next, runner, failed, said, queue, parts>>

\* SAFE_FAILURE_REPORT, which holds nothing of what the model said
LastResort == Deliver(<<>>, "safe")

\* Of an ERC-8183 delivery: a second call asks for a correction, then the last
\* resort is delivered.
Validate ==
    /\ path = "erc8183" /\ pc = "render"
    /\ \/ Conforms /\ Deliver(parts, "validated")
       \/ Again(2, LastResort)
    /\ UNCHANGED <<path, next, runner, failed, said, queue, parts>>

Next ==
    \/ Open \/ (\E e \in Events : Emit(e)) \/ End \/ Raise \/ Cancelled
    \/ Take \/ Timeout \/ Closed \/ Render \/ Validate

Spec == Init /\ [][Next]_vars

\* The consumer runs, its time limit passes, and a cancelled task stops.  The
\* runner itself may hang.
FairSpec ==
    /\ Spec
    /\ WF_vars(Open) /\ WF_vars(Take) /\ WF_vars(Timeout)
    /\ WF_vars(Cancelled) /\ WF_vars(Closed) /\ WF_vars(Render)

-----------------------------------------------------------------------------
\* The shape of the state.
TypeOK ==
    /\ path \in Paths /\ call \in 1..(IF path = "x402" THEN Calls ELSE 2)
    /\ pc \in {"open", "read", "closing", "render", "done"} /\ next \in {"none", "render", "done"}
    /\ runner \in {"off", "running", "cancelled"} /\ failed \in BOOLEAN
    /\ said \in Seq(Events) /\ Len(said) <= MaxEvents
    /\ queue \in Seq(Exc..MaxEvents)
    /\ parts \in Seq(1..MaxEvents) /\ \A i \in DOMAIN parts : parts[i] \in DOMAIN said
    /\ outcome \in {"none", "report", "failed", "analysis_failed", "too_many_users",
                    "analysis_timeout", "analysis_empty_response"}
    /\ report.checked \in {"none", "validated", "raw", "safe"}

\* The places ts are those of the texts among the first n events, in order.
AllTexts(ts, n) ==
    /\ \A i, j \in DOMAIN ts : i < j => ts[i] < ts[j]
    /\ {ts[i] : i \in DOMAIN ts} = {k \in 1..n : said[k] \in Texts}

\* A report that is delivered is all that a run of the model said, in order, and
\* the run came to its end: never the beginning of one that broke off.  (The
\* fixed text of the last resort is no such report.)
WholeReport ==
    outcome = "report" => /\ runner = "off" /\ ~failed
                          /\ report.checked # "safe" => AllTexts(report.texts, Len(said))

\* No report is made from data that a provider refused to give.
NoLimitedReport == outcome = "report" => \A i \in DOMAIN said : said[i] # "limited"

\* When the consumer goes on, to the next call or to a result, the runner it
\* started has stopped: it uses no tools and no credit any more.
RunnerStopped == pc \in {"open", "render", "done"} => runner = "off"

\* An ERC-8183 delivery holds no text of the model that was not validated: it
\* conforms to the schema, or has no text of the model at all.
ValidatedOnly ==
    path = "erc8183" /\ outcome = "report"
      => \/ /\ report.checked = "validated"
            /\ \E i \in DOMAIN report.texts : said[report.texts[i]] = "valid"
         \/ report.checked = "safe" /\ report.texts = <<>>

\* What is delivered is a whole report, from data that was given, and validated
\* where the delivery is final.
ReportSound == TypeOK /\ WholeReport /\ NoLimitedReport /\ ValidatedOnly

\* A paid analysis ends, whether or not the model does.
AnalysisEnds == path = "x402" => <>(pc = "done")
-----------------------------------------------------------------------------
(* Why it holds: the invariant that every step preserves.                  *)

\* The marks of its end that the task has queued, and the events that the
\* consumer has taken from the queue.
Marks == IF runner = "running" THEN 0 ELSE IF failed THEN 2 ELSE 1
Taken == Len(said) + Marks - Len(queue)

\* The queue holds the events not taken, in order, and then the marks.
QueueInv ==
    /\ 0 <= Taken /\ Marks <= Len(queue)
    /\ \A i \in DOMAIN queue :
         queue[i] = IF i <= Len(queue) - Marks THEN Taken + i
                    ELSE IF i = Len(queue) THEN Done ELSE Exc

\* The consumer has the texts of the first n events, and none was a refusal.
Collected(n) == AllTexts(parts, n) /\ \A k \in 1..n : said[k] # "limited"

Reading ==
    /\ runner # "cancelled" /\ (runner = "running" => ~failed)
    /\ path = "x402" => QueueInv /\ Collected(Taken)
    /\ path = "erc8183" => runner = "running" /\ Collected(Len(said))

StreamInv ==
    /\ TypeOK /\ RunnerStopped
    /\ runner = "cancelled" => pc = "closing"
    /\ pc = "closing" => path = "x402" /\ next = "done" /\ outcome # "report"
    /\ pc \in {"open", "read", "render"} => outcome = "none"
    /\ pc = "read" => Reading
    /\ pc = "render" => ~failed /\ Collected(Len(said))
    /\ outcome = "report" => pc = "done"
    /\ WholeReport /\ NoLimitedReport /\ ValidatedOnly
=============================================================================
