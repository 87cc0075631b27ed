-------------------------- MODULE SellerCoreProofs --------------------------
(***************************************************************************)
(* Proofs about SellerCore, for any number of jobs, handlers, contexts,    *)
(* permits and faults and any limit of the tracked state: the bookkeeping  *)
(* matches the tasks, no job is delivered twice at once or again, contexts *)
(* stay as the work found them, and permits are neither lost nor doubled.  *)
(***************************************************************************)
EXTENDS SellerCore, FiniteSetTheorems, TLAPS

(* The functions on the object, field by field.                            *)

LEMMA SetRunFields ==
    ASSUME NEW s \in Cores, NEW j \in Jobs, NEW i \in Places, NEW run \in Runs
    PROVE  LET t == SetRun(s, j, i, run)
           IN  /\ t \in Cores
               /\ t.context = s.context /\ t.specs = s.specs /\ t.deadlines = s.deadlines
               /\ t.passed = s.passed /\ t.signalled = s.signalled /\ t.handled = s.handled
               /\ t.late = s.late /\ t.contextless = s.contextless /\ t.inflight = s.inflight
               /\ t.unverified = s.unverified /\ t.pending = s.pending
               /\ t.delivered = s.delivered
               /\ t.runs[j][i] = run
               /\ \A l \in Jobs, k \in Places : l # j \/ k # i => t.runs[l][k] = s.runs[l][k]
  BY DEF SetRun, Cores

LEMMA ForgetFields ==
    ASSUME NEW s \in Cores, NEW jobs \in SUBSET Jobs
    PROVE  LET t == Forget(s, jobs)
           IN  /\ t \in Cores
               /\ t.context = [j \in Jobs |-> IF j \in jobs THEN None ELSE s.context[j]]
               /\ t.specs = s.specs \ jobs
               /\ t.passed = s.passed \ jobs /\ t.signalled = s.signalled \ jobs
               /\ Awaited(t) = Awaited(s) \ jobs
               /\ t.handled = s.handled
               /\ t.late = s.late /\ t.contextless = s.contextless /\ t.inflight = s.inflight
               /\ t.unverified = s.unverified /\ t.pending = s.pending
               /\ t.delivered = s.delivered /\ t.runs = s.runs
<1> DEFINE t == Forget(s, jobs)
<1>1. /\ t.context = [j \in Jobs |-> IF j \in jobs THEN None ELSE s.context[j]]
      /\ t.specs = s.specs \ jobs
      /\ t.passed = s.passed \ jobs /\ t.signalled = s.signalled \ jobs
      /\ t.deadlines = {d \in s.deadlines : d[1] \notin jobs /\ d[2] \notin jobs}
      /\ t.handled = s.handled
      /\ t.late = s.late /\ t.contextless = s.contextless /\ t.inflight = s.inflight
      /\ t.unverified = s.unverified /\ t.pending = s.pending
      /\ t.delivered = s.delivered /\ t.runs = s.runs
  BY DEF Forget, Cores
<1>2. t \in Cores
  BY DEF Forget, Cores
<1>3. Awaited(t) = Awaited(s) \ jobs
  BY <1>1 DEF Awaited
<1>4. QED
  BY <1>1, <1>2, <1>3

Spawned(s, t, new, run) ==
    /\ t \in Cores
    /\ t.context = s.context /\ t.specs = s.specs /\ t.deadlines = s.deadlines
    /\ t.passed = s.passed /\ t.signalled = s.signalled /\ t.handled = s.handled
    /\ t.late = s.late /\ t.contextless = s.contextless
    /\ t.inflight = s.inflight \cup new
    /\ t.unverified \subseteq s.unverified \cup new
    /\ t.pending \subseteq s.pending \cup s.inflight
    /\ t.delivered = s.delivered
    /\ \A j \in Jobs, i \in Places :
         t.runs[j][i] = IF j \in new /\ i = FreePlace(s, j) THEN run ELSE s.runs[j][i]

LEMMA SpawnFields ==
    ASSUME NEW s \in Cores, NEW jobs \in SUBSET Jobs, NEW verified \in BOOLEAN
    PROVE  Spawned(s, SpawnJobs(s, jobs, verified),
                   jobs \ (s.handled \cup s.late \cup s.inflight), NewRun(verified))
<1> DEFINE t == SpawnJobs(s, jobs, verified)
           open == jobs \ (s.handled \cup s.late)
           new == open \ s.inflight
<1>0. new = jobs \ (s.handled \cup s.late \cup s.inflight)
  OBVIOUS
<1>1. NewRun(verified) \in Runs
  BY DEF NewRun, NoRun, Runs, RunStates
<1>2. \A j \in Jobs : FreePlace(s, j) \in Places
  BY DEF FreePlace, Places
<1>3. /\ t.context = s.context /\ t.specs = s.specs /\ t.deadlines = s.deadlines
      /\ t.passed = s.passed /\ t.signalled = s.signalled /\ t.handled = s.handled
      /\ t.late = s.late /\ t.contextless = s.contextless
      /\ t.inflight = s.inflight \cup new
      /\ t.unverified = IF verified THEN s.unverified \ new ELSE s.unverified \cup new
      /\ t.pending = IF verified THEN s.pending \cup (open \cap s.inflight \cap s.unverified)
                     ELSE s.pending
      /\ t.delivered = s.delivered
      /\ t.runs = [j \in Jobs |-> IF j \in new
                                  THEN [s.runs[j] EXCEPT ![FreePlace(s, j)] = NewRun(verified)]
                                  ELSE s.runs[j]]
  BY DEF SpawnJobs, Cores
<1>4. s.runs \in [Jobs -> [Places -> Runs]]
  BY DEF Cores
<1>5. t.runs \in [Jobs -> [Places -> Runs]]
  BY <1>1, <1>2, <1>3, <1>4
<1>6. \A j \in Jobs, i \in Places :
        t.runs[j][i] = IF j \in new /\ i = FreePlace(s, j) THEN NewRun(verified) ELSE s.runs[j][i]
  BY <1>2, <1>3, <1>4
<1>7. t \in Cores
  BY <1>5, ZenonT(60) DEF SpawnJobs, Cores
<1>8. Spawned(s, t, new, NewRun(verified))
  BY <1>3, <1>6, <1>7 DEF Spawned
<1>9. QED
  BY <1>0, <1>8

(* The parts of CoreInv that a delivery leaves alone.                      *)
LEMMA DoneKept ==
    ASSUME NEW s, NEW t, DoneLeavesNothing(s), s.passed \cup s.signalled \subseteq Awaited(s),
           t.context = s.context, t.specs = s.specs, t.deadlines = s.deadlines,
           t.passed = s.passed, t.signalled = s.signalled, t.handled = s.handled,
           t.inflight \cap s.handled \subseteq s.inflight
    PROVE  DoneLeavesNothing(t) /\ t.passed \cup t.signalled \subseteq Awaited(t)
  BY DEF DoneLeavesNothing, Tracked, Awaited

(* A live task moves on: to work with the context it found, or to an end   *)
(* that tells of a success.                                                *)
LEMMA RunMoves ==
    ASSUME NEW s, CoreInv(s), NEW j \in Jobs, NEW i \in Places, NEW run \in Runs,
           s.runs[j][i].pc \notin {"idle", "ended"}, run.pc # "idle",
           NEW t \in Cores,
           t.context = s.context, t.specs = s.specs, t.deadlines = s.deadlines,
           t.passed = s.passed, t.signalled = s.signalled, t.handled = s.handled,
           t.inflight = s.inflight, t.unverified = s.unverified, t.pending = s.pending,
           t.contextless \in {s.contextless, s.contextless \cup {j}},
           t.late \in {s.late, s.late \cup {j}},
           t.delivered \in {s.delivered, s.delivered \cup {j}},
           t.runs[j][i] = run,
           \A l \in Jobs, k \in Places : l # j \/ k # i => t.runs[l][k] = s.runs[l][k],
           run.pc \in Working => /\ s.context[j] = run.ctx
                                 /\ s.context[j] = None => j \in t.contextless,
           j \in t.delivered => run.pc = "ended" /\ (run.terminal \/ j \in t.late)
    PROVE  CoreInv(t)
<1>1. /\ s \in Cores /\ OneRun(s) /\ MarksOwned(s) /\ WorkMarked(s) /\ NoRework(s)
      /\ SuccessKnown(s) /\ DoneLeavesNothing(s) /\ s.passed \cup s.signalled \subseteq Awaited(s)
  BY DEF CoreInv
<1>2. j \in s.inflight
  BY <1>1 DEF OneRun, Live
<1>3. j \notin s.delivered
  BY <1>1 DEF NoRework
<1>4. \A l \in Jobs : Live(t, l) = Live(s, l)
  BY DEF Live
<1>5. OneRun(t)
  BY <1>1, <1>4 DEF OneRun
<1>6. MarksOwned(t)
  BY <1>1, <1>2 DEF MarksOwned
<1>7. WorkMarked(t)
  BY <1>1 DEF WorkMarked
<1>8. DoneLeavesNothing(t) /\ t.passed \cup t.signalled \subseteq Awaited(t)
  BY <1>1, DoneKept
<1>9. s.delivered \subseteq Jobs /\ t.delivered \subseteq Jobs
  BY <1>1 DEF Cores
<1>10. NoRework(t)
  <2>1. \A k \in Places : k # i => s.runs[j][k].pc = "idle"
    BY <1>1, <1>2 DEF OneRun, Live
  <2>2. QED
    BY <1>1, <1>9, <2>1 DEF NoRework
<1>11. SuccessKnown(t)
  <2> SUFFICES ASSUME NEW l \in t.delivered
               PROVE  \/ l \in t.handled \cup t.late
                      \/ \E k \in Places : t.runs[l][k].pc = "ended" /\ t.runs[l][k].terminal
    BY DEF SuccessKnown
  <2>1. CASE l = j
    BY <2>1
  <2>2. CASE l # j
    BY <1>1, <1>9, <2>2 DEF SuccessKnown
  <2>3. QED
    BY <2>1, <2>2
<1>12. QED
  BY <1>5, <1>6, <1>7, <1>8, <1>10, <1>11 DEF CoreInv

(* Tasks are started for jobs that have none and are not done.             *)
LEMMA SpawnKeeps ==
    ASSUME NEW s, CoreInv(s), NEW jobs \in SUBSET Jobs, NEW verified \in BOOLEAN
    PROVE  CoreInv(SpawnJobs(s, jobs, verified))
<1> DEFINE t == SpawnJobs(s, jobs, verified)
           new == jobs \ (s.handled \cup s.late \cup s.inflight)
           run == NewRun(verified)
<1>1. /\ s \in Cores /\ OneRun(s) /\ MarksOwned(s) /\ WorkMarked(s) /\ NoRework(s)
      /\ SuccessKnown(s) /\ DoneLeavesNothing(s) /\ s.passed \cup s.signalled \subseteq Awaited(s)
  BY DEF CoreInv
<1>2. Spawned(s, t, new, run)
  <2>1. s \in Cores
    BY <1>1
  <2>2. QED
    BY <2>1, SpawnFields, Zenon
<1>3. \A j \in new : Live(s, j) = {} /\ FreePlace(s, j) = 1
  BY <1>1 DEF OneRun, Live, FreePlace, Places
<1>4. run.pc = "spawned"
  BY DEF NewRun, NoRun
<1>5. new \subseteq Jobs /\ new \cap s.inflight = {} /\ new \cap s.handled = {} /\ new \cap s.late = {}
  OBVIOUS
<1> HIDE DEF t, new, run
<1> USE DEF Spawned
<1>6. OneRun(t)
  <2> SUFFICES ASSUME NEW j \in Jobs
               PROVE  IF j \in t.inflight THEN \E i \in Places : Live(t, j) = {i}
                      ELSE Live(t, j) = {}
    BY DEF OneRun
  <2>1. CASE j \in new
    <3>1. \A i \in Places : t.runs[j][i].pc # "idle" <=> i = 1
      BY <1>2, <1>3, <1>4, <2>1 DEF Live
    <3>2. Live(t, j) = {1}
      BY <3>1 DEF Live, Places
    <3>3. QED
      BY <3>2, <1>2, <2>1 DEF Places
  <2>2. CASE j \notin new
    <3>1. Live(t, j) = Live(s, j)
      BY <1>2, <2>2 DEF Live
    <3>2. QED
      BY <3>1, <1>1, <1>2, <2>2 DEF OneRun
  <2>3. QED
    BY <2>1, <2>2
<1>7. MarksOwned(t)
  BY <1>1, <1>2 DEF MarksOwned
<1>8. WorkMarked(t)
  BY <1>1, <1>2, <1>4 DEF WorkMarked, Working
<1>9. DoneLeavesNothing(t) /\ t.passed \cup t.signalled \subseteq Awaited(t)
  BY <1>1, <1>2, <1>5, DoneKept
<1>10. \A j \in s.delivered : j \in Jobs /\ j \notin new
  <2>1. s.delivered \subseteq Jobs
    BY <1>1 DEF Cores
  <2>2. \A j \in new, i \in Places : s.runs[j][i].pc = "idle"
    BY <1>3 DEF Live
  <2>3. QED
    BY <1>1, <1>5, <2>1, <2>2 DEF SuccessKnown
<1>11. NoRework(t) /\ SuccessKnown(t)
  BY <1>1, <1>2, <1>10 DEF NoRework, SuccessKnown
<1>12. QED
  BY <1>2, <1>6, <1>7, <1>8, <1>9, <1>11 DEF CoreInv, t

LEMMA EndKeeps ==
    ASSUME NEW s, CoreInv(s), NEW j \in Jobs, NEW i \in Places, NEW terminal \in BOOLEAN,
           s.runs[j][i].pc \notin {"idle", "ended"}
    PROVE  CoreInv(End(s, j, i, terminal))
<1> DEFINE run == [s.runs[j][i] EXCEPT !.pc = "ended", !.terminal = terminal]
<1>1. s \in Cores /\ s.runs[j][i] \in Runs
  BY DEF CoreInv, Cores
<1>2. run \in Runs /\ run.pc = "ended"
  BY <1>1 DEF Runs, RunStates
<1>3. j \notin s.delivered
  BY DEF CoreInv, NoRework
<1>4. End(s, j, i, terminal) = SetRun(s, j, i, run)
  BY DEF End
<1> HIDE DEF run
<1>5. QED
  BY <1>1, <1>2, <1>3, <1>4, SetRunFields, RunMoves DEF Working

LEMMA StartKeeps ==
    ASSUME NEW s, CoreInv(s), NEW j \in Jobs, NEW i \in Places,
           s.runs[j][i].pc \notin {"idle", "ended"}
    PROVE  CoreInv(StartWork(s, j, i))
<1> DEFINE run == [s.runs[j][i] EXCEPT !.ctx = s.context[j],
                     !.pc = IF s.runs[j][i].verified /\ j \notin s.specs THEN "spec" ELSE "work"]
           started == SetRun(s, j, i, run)
           t == StartWork(s, j, i)
<1>1. s \in Cores /\ s.runs[j][i] \in Runs /\ s.context[j] \in Contexts \cup {None}
  BY DEF CoreInv, Cores
<1>2. run \in Runs /\ run.pc \in {"spec", "work"} /\ run.ctx = s.context[j]
  BY <1>1 DEF Runs, RunStates
<1>3. j \notin s.delivered
  BY DEF CoreInv, NoRework
<1>4. t = IF s.context[j] = None THEN [started EXCEPT !.contextless = @ \cup {j}] ELSE started
  BY DEF StartWork
<1> HIDE DEF run, t
<1>5. /\ started \in Cores
      /\ started.context = s.context /\ started.specs = s.specs /\ started.deadlines = s.deadlines
      /\ started.passed = s.passed /\ started.signalled = s.signalled
      /\ started.handled = s.handled /\ started.late = s.late
      /\ started.contextless = s.contextless /\ started.inflight = s.inflight
      /\ started.unverified = s.unverified /\ started.pending = s.pending
      /\ started.delivered = s.delivered
      /\ started.runs[j][i] = run
      /\ \A l \in Jobs, k \in Places : l # j \/ k # i => started.runs[l][k] = s.runs[l][k]
  BY <1>1, <1>2, SetRunFields
<1> HIDE DEF started
<1>6. CASE s.context[j] # None
  <2>1. t = started
    BY <1>4, <1>6
  <2>2. QED
    BY <1>2, <1>3, <1>5, <1>6, <2>1, RunMoves DEF t
<1>7. CASE s.context[j] = None
  <2>1. t = [started EXCEPT !.contextless = @ \cup {j}]
    BY <1>4, <1>7
  <2>2. /\ t \in Cores
        /\ t.context = s.context /\ t.specs = s.specs /\ t.deadlines = s.deadlines
        /\ t.passed = s.passed /\ t.signalled = s.signalled
        /\ t.handled = s.handled /\ t.late = s.late
        /\ t.contextless = s.contextless \cup {j} /\ t.inflight = s.inflight
        /\ t.unverified = s.unverified /\ t.pending = s.pending
        /\ t.delivered = s.delivered /\ t.runs = started.runs
    BY <1>5, <2>1 DEF Cores
  <2>3. QED
    BY <1>2, <1>3, <1>5, <2>2, RunMoves DEF t
<1>8. QED
  BY <1>6, <1>7

LEMMA AfterWaitKeeps ==
    ASSUME NEW s, CoreInv(s), NEW j \in Jobs, NEW i \in Places,
           s.runs[j][i].pc \notin {"idle", "ended"}
    PROVE  CoreInv(AfterWait(s, j, i))
  BY StartKeeps, EndKeeps DEF AfterWait

(* The submission is over: a success is known from here on.                *)
LEMMA ExitsKeeps ==
    ASSUME NEW s, CoreInv(s), NEW j \in Jobs, NEW i \in Places,
           NEW ok \in BOOLEAN, NEW skip \in BOOLEAN,
           s.runs[j][i].pc = "submit"
    PROVE  CoreInv(Exits(s, j, i, ok, skip))
<1> DEFINE cut == s.runs[j][i].cut
           d == [s EXCEPT !.delivered = IF ok THEN @ \cup {j} ELSE @]
           end == ~cut /\ (ok \/ skip)
           run == [s.runs[j][i] EXCEPT !.pc = "ended", !.terminal = end]
           ended == SetRun(d, j, i, run)
           t == Exits(s, j, i, ok, skip)
<1>1. s \in Cores /\ s.runs[j][i] \in Runs
  BY DEF CoreInv, Cores
<1>2. run \in Runs /\ run.pc = "ended" /\ run.terminal = end
  BY <1>1 DEF Runs, RunStates
<1>3. j \notin s.delivered
  BY DEF CoreInv, NoRework
<1>4. /\ d \in Cores
      /\ d.context = s.context /\ d.specs = s.specs /\ d.deadlines = s.deadlines
      /\ d.passed = s.passed /\ d.signalled = s.signalled
      /\ d.handled = s.handled /\ d.late = s.late
      /\ d.contextless = s.contextless /\ d.inflight = s.inflight
      /\ d.unverified = s.unverified /\ d.pending = s.pending
      /\ d.delivered = (IF ok THEN s.delivered \cup {j} ELSE s.delivered)
      /\ d.runs = s.runs
  BY <1>1 DEF Cores
<1>5. t = IF cut THEN [ended EXCEPT !.late = IF ok THEN @ \cup {j} ELSE @] ELSE ended
  <2>1. CASE cut
    <3>1. end = FALSE
      BY <2>1
    <3>2. t = [End(d, j, i, FALSE) EXCEPT !.late = IF ok THEN @ \cup {j} ELSE @]
      BY <2>1 DEF Exits
    <3>3. End(d, j, i, FALSE) = ended
      BY <1>4, <3>1 DEF End
    <3>4. QED
      BY <2>1, <3>2, <3>3
  <2>2. CASE ~cut
    <3>1. end = (ok \/ skip)
      BY <2>2
    <3>2. t = End(d, j, i, ok \/ skip)
      BY <2>2 DEF Exits
    <3>3. End(d, j, i, ok \/ skip) = ended
      BY <1>4, <3>1 DEF End
    <3>4. QED
      BY <2>2, <3>2, <3>3
  <2>3. QED
    BY <2>1, <2>2
<1> HIDE DEF run, d, t
<1>6. /\ ended \in Cores
      /\ ended.context = s.context /\ ended.specs = s.specs /\ ended.deadlines = s.deadlines
      /\ ended.passed = s.passed /\ ended.signalled = s.signalled
      /\ ended.handled = s.handled /\ ended.late = s.late
      /\ ended.contextless = s.contextless /\ ended.inflight = s.inflight
      /\ ended.unverified = s.unverified /\ ended.pending = s.pending
      /\ ended.delivered = (IF ok THEN s.delivered \cup {j} ELSE s.delivered)
      /\ ended.runs[j][i] = run
      /\ \A l \in Jobs, k \in Places : l # j \/ k # i => ended.runs[l][k] = s.runs[l][k]
  BY <1>2, <1>4, SetRunFields
<1> HIDE DEF ended
<1>7. CASE ~cut
  <2>1. t = ended
    BY <1>5, <1>7
  <2>2. j \in t.delivered => run.terminal
    BY <1>2, <1>3, <1>6, <1>7, <2>1
  <2>3. QED
    BY <1>2, <1>6, <2>1, <2>2, RunMoves DEF Working, t
<1>8. CASE cut
  <2>1. t = [ended EXCEPT !.late = IF ok THEN @ \cup {j} ELSE @]
    BY <1>5, <1>8
  <2>2. /\ t \in Cores
        /\ t.context = s.context /\ t.specs = s.specs /\ t.deadlines = s.deadlines
        /\ t.passed = s.passed /\ t.signalled = s.signalled
        /\ t.handled = s.handled /\ t.late = (IF ok THEN s.late \cup {j} ELSE s.late)
        /\ t.contextless = s.contextless /\ t.inflight = s.inflight
        /\ t.unverified = s.unverified /\ t.pending = s.pending
        /\ t.delivered = ended.delivered /\ t.runs = ended.runs
    BY <1>6, <2>1 DEF Cores
  <2>3. j \in t.delivered => j \in t.late
    BY <1>3, <1>6, <2>2
  <2>4. QED
    BY <1>2, <1>6, <2>2, <2>3, RunMoves DEF Working, t
<1>9. QED
  BY <1>7, <1>8

-----------------------------------------------------------------------------
(* Contexts come and go, but not under a task.                             *)

LEMMA ForgetKeeps ==
    ASSUME NEW s, CoreInv(s), NEW e \in SUBSET Jobs, e \cap s.inflight = {}
    PROVE  CoreInv(Forget(s, e))
<1> DEFINE t == Forget(s, e)
<1>1. /\ s \in Cores /\ OneRun(s) /\ MarksOwned(s) /\ WorkMarked(s) /\ NoRework(s)
      /\ SuccessKnown(s) /\ DoneLeavesNothing(s) /\ s.passed \cup s.signalled \subseteq Awaited(s)
  BY DEF CoreInv
<1>2. /\ t \in Cores
      /\ t.context = [j \in Jobs |-> IF j \in e THEN None ELSE s.context[j]]
      /\ t.specs = s.specs \ e
      /\ t.passed = s.passed \ e /\ t.signalled = s.signalled \ e
      /\ Awaited(t) = Awaited(s) \ e
      /\ t.handled = s.handled
      /\ t.late = s.late /\ t.contextless = s.contextless /\ t.inflight = s.inflight
      /\ t.unverified = s.unverified /\ t.pending = s.pending
      /\ t.delivered = s.delivered /\ t.runs = s.runs
  BY <1>1, ForgetFields
<1> HIDE DEF t
<1>3. OneRun(t) /\ MarksOwned(t) /\ NoRework(t) /\ SuccessKnown(t)
  BY <1>1, <1>2 DEF OneRun, Live, MarksOwned, NoRework, SuccessKnown
<1>4. \A j \in Jobs, i \in Places : s.runs[j][i].pc \in Working => j \in s.inflight
  BY <1>1 DEF OneRun, Live, Working
<1>5. WorkMarked(t)
  BY <1>1, <1>2, <1>4 DEF WorkMarked
<1>6. DoneLeavesNothing(t)
  BY <1>1, <1>2 DEF DoneLeavesNothing, Tracked
<1>7. QED
  BY <1>1, <1>2, <1>3, <1>5, <1>6 DEF CoreInv, t

(* The snapshot of a task in flight leaves a spec.                         *)
LEMMA SpecKeeps ==
    ASSUME NEW s, CoreInv(s), NEW j \in s.inflight
    PROVE  CoreInv([s EXCEPT !.specs = @ \cup {j}])
<1> DEFINE t == [s EXCEPT !.specs = @ \cup {j}]
<1>1. /\ s \in Cores /\ OneRun(s) /\ MarksOwned(s) /\ WorkMarked(s) /\ NoRework(s)
      /\ SuccessKnown(s) /\ DoneLeavesNothing(s) /\ s.passed \cup s.signalled \subseteq Awaited(s)
  BY DEF CoreInv
<1>2. /\ t \in Cores /\ t.specs = s.specs \cup {j}
      /\ t.context = s.context /\ t.deadlines = s.deadlines
      /\ t.passed = s.passed /\ t.signalled = s.signalled /\ t.handled = s.handled
      /\ t.late = s.late /\ t.contextless = s.contextless /\ t.inflight = s.inflight
      /\ t.unverified = s.unverified /\ t.pending = s.pending
      /\ t.delivered = s.delivered /\ t.runs = s.runs
  BY <1>1 DEF Cores
<1> HIDE DEF t
<1>3. OneRun(t) /\ MarksOwned(t) /\ NoRework(t) /\ SuccessKnown(t) /\ WorkMarked(t)
  BY <1>1, <1>2 DEF OneRun, Live, MarksOwned, NoRework, SuccessKnown, WorkMarked
<1>4. DoneLeavesNothing(t) /\ t.passed \cup t.signalled \subseteq Awaited(t)
  BY <1>1, <1>2 DEF DoneLeavesNothing, Tracked, Awaited
<1>5. QED
  BY <1>2, <1>3, <1>4 DEF CoreInv, t

(* A task in flight sets a deadline.                                       *)
LEMMA WaitKeeps ==
    ASSUME NEW s, CoreInv(s), NEW j \in s.inflight,
           NEW t, t = [s EXCEPT !.deadlines = IF j \in Awaited(s) THEN @
                                              ELSE @ \cup ((Awaited(s) \cup {j}) \X {j})]
    PROVE  CoreInv(t) /\ t.runs = s.runs
<1>1. /\ s \in Cores /\ OneRun(s) /\ MarksOwned(s) /\ WorkMarked(s) /\ NoRework(s)
      /\ SuccessKnown(s) /\ DoneLeavesNothing(s) /\ s.passed \cup s.signalled \subseteq Awaited(s)
  BY DEF CoreInv
<1> DEFINE new == (Awaited(s) \cup {j}) \X {j}
<1>3. j \in Jobs /\ Awaited(s) \subseteq Jobs /\ s.deadlines \subseteq Jobs \X Jobs
  BY <1>1 DEF Cores, Awaited
<1>4. new \subseteq Jobs \X Jobs
  BY <1>3
<1> HIDE DEF new
<1>5. /\ t \in Cores
      /\ t.deadlines = IF j \in Awaited(s) THEN s.deadlines ELSE s.deadlines \cup new
      /\ t.context = s.context /\ t.specs = s.specs
      /\ t.passed = s.passed /\ t.signalled = s.signalled /\ t.handled = s.handled
      /\ t.late = s.late /\ t.contextless = s.contextless /\ t.inflight = s.inflight
      /\ t.unverified = s.unverified /\ t.pending = s.pending
      /\ t.delivered = s.delivered /\ t.runs = s.runs
  <2>1. CASE j \in Awaited(s)
    BY <1>1, <2>1 DEF Cores
  <2>2. CASE j \notin Awaited(s)
    <3> DEFINE all == s.deadlines \cup new
    <3>1. t = [s EXCEPT !.deadlines = all]
      BY <2>2 DEF new
    <3>2. all \in SUBSET (Jobs \X Jobs)
      BY <1>3, <1>4
    <3> HIDE DEF all
    <3>3. t \in Cores /\ t.deadlines = all
      BY <1>1, <3>1, <3>2 DEF Cores
    <3>4. /\ t.context = s.context /\ t.specs = s.specs
          /\ t.passed = s.passed /\ t.signalled = s.signalled /\ t.handled = s.handled
          /\ t.late = s.late /\ t.contextless = s.contextless /\ t.inflight = s.inflight
          /\ t.unverified = s.unverified /\ t.pending = s.pending
          /\ t.delivered = s.delivered /\ t.runs = s.runs
      BY <1>1, <3>1 DEF Cores
    <3>5. QED
      BY <2>2, <3>3, <3>4 DEF all
  <2>3. QED
    BY <2>1, <2>2
<1>6. Awaited(t) = Awaited(s) \cup {j}
  BY <1>3, <1>5 DEF Awaited, new
<1>7. OneRun(t) /\ MarksOwned(t) /\ NoRework(t) /\ SuccessKnown(t) /\ WorkMarked(t)
  BY <1>1, <1>5 DEF OneRun, Live, MarksOwned, NoRework, SuccessKnown, WorkMarked
<1>8. DoneLeavesNothing(t) /\ t.passed \cup t.signalled \subseteq Awaited(t)
  BY <1>1, <1>5, <1>6, ZenonT(60) DEF DoneLeavesNothing, Tracked
<1>9. QED
  BY <1>5, <1>7, <1>8 DEF CoreInv

(* A context is installed only where no delivery has begun without one and *)
(* no other context is stored.                                             *)
LEMMA InstallKeeps ==
    ASSUME NEW s, CoreInv(s), NEW j \in Jobs, NEW c \in Contexts,
           ~TooLate(s, j), ~Conflict(s, j, c)
    PROVE  CoreInv([s EXCEPT !.context[j] = c, !.specs = @ \cup {j},
                             !.signalled = @ \cup (Awaited(s) \cap {j})])
<1> DEFINE t == [s EXCEPT !.context[j] = c, !.specs = @ \cup {j},
                          !.signalled = @ \cup (Awaited(s) \cap {j})]
<1>1. /\ s \in Cores /\ OneRun(s) /\ MarksOwned(s) /\ WorkMarked(s) /\ NoRework(s)
      /\ SuccessKnown(s) /\ DoneLeavesNothing(s) /\ s.passed \cup s.signalled \subseteq Awaited(s)
  BY DEF CoreInv
<1>2. /\ t \in Cores /\ t.specs = s.specs \cup {j}
      /\ t.context = [s.context EXCEPT ![j] = c] /\ t.deadlines = s.deadlines
      /\ t.passed = s.passed /\ t.signalled = s.signalled \cup (Awaited(s) \cap {j})
      /\ t.handled = s.handled
      /\ t.late = s.late /\ t.contextless = s.contextless /\ t.inflight = s.inflight
      /\ t.unverified = s.unverified /\ t.pending = s.pending
      /\ t.delivered = s.delivered /\ t.runs = s.runs
  BY <1>1 DEF Cores
<1>3. s.context \in [Jobs -> Contexts \cup {None}]
  BY <1>1 DEF Cores
<1> HIDE DEF t
<1>4. OneRun(t) /\ MarksOwned(t) /\ NoRework(t) /\ SuccessKnown(t)
  BY <1>1, <1>2 DEF OneRun, Live, MarksOwned, NoRework, SuccessKnown
<1>5. WorkMarked(t)
  BY <1>1, <1>2, <1>3, SellerAssumption DEF WorkMarked, TooLate, Conflict
<1>6. Awaited(t) = Awaited(s)
  BY <1>2 DEF Awaited
<1>7. DoneLeavesNothing(t) /\ t.passed \cup t.signalled \subseteq Awaited(t)
  BY <1>1, <1>2, <1>3, <1>6 DEF DoneLeavesNothing, Tracked, TooLate
<1>8. QED
  BY <1>2, <1>4, <1>5, <1>7 DEF CoreInv, t

(* A deadline passes, the sweep moves on.                                  *)
LEMMA PassKeeps ==
    ASSUME NEW s, CoreInv(s), NEW j \in Awaited(s)
    PROVE  CoreInv([s EXCEPT !.passed = @ \cup {j}])
<1> DEFINE t == [s EXCEPT !.passed = @ \cup {j}]
<1>1. /\ s \in Cores /\ OneRun(s) /\ MarksOwned(s) /\ WorkMarked(s) /\ NoRework(s)
      /\ SuccessKnown(s) /\ DoneLeavesNothing(s) /\ s.passed \cup s.signalled \subseteq Awaited(s)
  BY DEF CoreInv
<1>2. j \in Jobs
  BY DEF Awaited
<1>3. /\ t \in Cores /\ t.passed = s.passed \cup {j}
      /\ t.context = s.context /\ t.deadlines = s.deadlines
      /\ t.specs = s.specs /\ t.signalled = s.signalled /\ t.handled = s.handled
      /\ t.late = s.late /\ t.contextless = s.contextless /\ t.inflight = s.inflight
      /\ t.unverified = s.unverified /\ t.pending = s.pending
      /\ t.delivered = s.delivered /\ t.runs = s.runs
  BY <1>1, <1>2 DEF Cores
<1> HIDE DEF t
<1>4. OneRun(t) /\ MarksOwned(t) /\ NoRework(t) /\ SuccessKnown(t) /\ WorkMarked(t)
  BY <1>1, <1>3 DEF OneRun, Live, MarksOwned, NoRework, SuccessKnown, WorkMarked
<1>5. Awaited(t) = Awaited(s)
  BY <1>3 DEF Awaited
<1>6. DoneLeavesNothing(t) /\ t.passed \cup t.signalled \subseteq Awaited(t)
  BY <1>1, <1>3, <1>5 DEF DoneLeavesNothing, Tracked
<1>7. QED
  BY <1>3, <1>4, <1>6 DEF CoreInv, t

LEMMA SweepKeeps ==
    ASSUME NEW s, CoreInv(s), NEW where \in {"idle", "scan", "spawn"}, NEW found \in SUBSET Jobs,
           NEW t, \/ t = [s EXCEPT !.sweep = where]
                  \/ t = [s EXCEPT !.sweep = where, !.found = found]
    PROVE  CoreInv(t) /\ t.context = s.context /\ t.handled = s.handled /\ t.runs = s.runs
<1>1. /\ s \in Cores /\ OneRun(s) /\ MarksOwned(s) /\ WorkMarked(s) /\ NoRework(s)
      /\ SuccessKnown(s) /\ DoneLeavesNothing(s) /\ s.passed \cup s.signalled \subseteq Awaited(s)
  BY DEF CoreInv
<1>2. /\ t \in Cores /\ t.passed = s.passed
      /\ t.context = s.context /\ t.deadlines = s.deadlines
      /\ t.specs = s.specs /\ t.signalled = s.signalled /\ t.handled = s.handled
      /\ t.late = s.late /\ t.contextless = s.contextless /\ t.inflight = s.inflight
      /\ t.unverified = s.unverified /\ t.pending = s.pending
      /\ t.delivered = s.delivered /\ t.runs = s.runs
  BY <1>1, ZenonT(60) DEF Cores
<1>3. OneRun(t) /\ MarksOwned(t) /\ NoRework(t) /\ SuccessKnown(t) /\ WorkMarked(t)
  BY <1>1, <1>2 DEF OneRun, Live, MarksOwned, NoRework, SuccessKnown, WorkMarked
<1>4. DoneLeavesNothing(t) /\ t.passed \cup t.signalled \subseteq Awaited(t)
  BY <1>1, <1>2, DoneKept
<1>5. QED
  BY <1>2, <1>3, <1>4 DEF CoreInv

LEMMA FreshKeeps == CoreInv(FreshCore)
<1> DEFINE t == FreshCore
<1>1. NoRun \in Runs
  BY DEF NoRun, Runs, RunStates
<1>2. /\ t \in Cores /\ t.context = [j \in Jobs |-> None] /\ t.specs = {} /\ t.deadlines = {}
      /\ t.passed = {} /\ t.signalled = {} /\ t.handled = {} /\ t.late = {}
      /\ t.contextless = {} /\ t.inflight = {} /\ t.unverified = {} /\ t.pending = {}
      /\ t.delivered = {} /\ t.runs = [j \in Jobs |-> [i \in Places |-> NoRun]]
  BY <1>1 DEF FreshCore, Cores
<1>3. NoRun.pc = "idle" /\ NoRun.verified = FALSE
  BY DEF NoRun
<1> HIDE DEF t
<1>4. OneRun(t) /\ WorkMarked(t)
  BY <1>2, <1>3 DEF OneRun, Live, WorkMarked, Working
<1>5. QED
  BY <1>2, <1>4 DEF CoreInv, MarksOwned, NoRework, SuccessKnown, DoneLeavesNothing, t

-----------------------------------------------------------------------------
(* A task that has ended leaves.                                           *)

LEMMA LeaveFields ==
    ASSUME NEW s, CoreInv(s), NEW j \in Jobs, NEW i \in Places, s.runs[j][i].pc = "ended",
           NEW u, u = SetRun(s, j, i, NoRun)
    PROVE  /\ u \in Cores
           /\ u.context = s.context /\ u.specs = s.specs /\ u.deadlines = s.deadlines
           /\ u.passed = s.passed /\ u.signalled = s.signalled /\ u.handled = s.handled
           /\ u.late = s.late /\ u.contextless = s.contextless /\ u.inflight = s.inflight
           /\ u.unverified = s.unverified /\ u.pending = s.pending
           /\ u.delivered = s.delivered
           /\ j \in s.inflight
           /\ \A k \in Places : u.runs[j][k].pc = "idle"
           /\ \A k \in Places : s.runs[j][k].pc = "ended" => k = i
           /\ \A l \in Jobs, k \in Places : l # j => u.runs[l][k] = s.runs[l][k]
<1>1. s \in Cores /\ OneRun(s)
  BY DEF CoreInv
<1>2. NoRun \in Runs /\ NoRun.pc = "idle"
  BY DEF NoRun, Runs, RunStates
<1>3. j \in s.inflight /\ \A k \in Places : k # i => s.runs[j][k].pc = "idle"
  BY <1>1 DEF OneRun, Live
<1>4. QED
  BY <1>1, <1>2, <1>3, SetRunFields

LEMMA CleanUpKeeps ==
    ASSUME NEW s, CoreInv(s), NEW j \in Jobs, NEW i \in Places, s.runs[j][i].pc = "ended",
           NEW u, u = SetRun(s, j, i, NoRun), NEW t, t = CleanUp(u, j)
    PROVE  /\ CoreInv(t)
           /\ t.handled = s.handled \cup {j}
           /\ \A l \in Jobs : l # j => t.context[l] = s.context[l]
           /\ \A l \in Jobs, k \in Places :
                IF l = j THEN t.runs[l][k].pc = "idle" ELSE t.runs[l][k] = s.runs[l][k]
<1>1. /\ s \in Cores /\ OneRun(s) /\ MarksOwned(s) /\ WorkMarked(s) /\ NoRework(s)
      /\ SuccessKnown(s) /\ DoneLeavesNothing(s) /\ s.passed \cup s.signalled \subseteq Awaited(s)
  BY DEF CoreInv
<1>2. /\ u \in Cores
      /\ u.context = s.context /\ u.specs = s.specs /\ u.deadlines = s.deadlines
      /\ u.passed = s.passed /\ u.signalled = s.signalled /\ u.handled = s.handled
      /\ u.late = s.late /\ u.contextless = s.contextless /\ u.inflight = s.inflight
      /\ u.unverified = s.unverified /\ u.pending = s.pending
      /\ u.delivered = s.delivered
      /\ \A k \in Places : u.runs[j][k].pc = "idle"
      /\ \A l \in Jobs, k \in Places : l # j => u.runs[l][k] = s.runs[l][k]
  BY LeaveFields
<1> DEFINE f == Forget(u, {j})
<1>3. /\ f \in Cores
      /\ f.context = [l \in Jobs |-> IF l \in {j} THEN None ELSE u.context[l]]
      /\ f.specs = u.specs \ {j}
      /\ f.passed = u.passed \ {j} /\ f.signalled = u.signalled \ {j}
      /\ Awaited(f) = Awaited(u) \ {j}
      /\ f.handled = u.handled
      /\ f.late = u.late /\ f.contextless = u.contextless /\ f.inflight = u.inflight
      /\ f.unverified = u.unverified /\ f.pending = u.pending
      /\ f.delivered = u.delivered /\ f.runs = u.runs
  BY <1>2, ForgetFields
<1>4. t = [f EXCEPT !.handled = @ \cup {j}, !.late = @ \ {j}, !.pending = @ \ {j},
                    !.contextless = @ \ {j}, !.inflight = @ \ {j}, !.unverified = @ \ {j}]
  BY DEF CleanUp
<1> HIDE DEF f
<1>5. /\ t \in Cores
      /\ t.context = f.context /\ t.specs = f.specs /\ t.deadlines = f.deadlines
      /\ t.passed = f.passed /\ t.signalled = f.signalled /\ t.handled = f.handled \cup {j}
      /\ t.late = f.late \ {j} /\ t.contextless = f.contextless \ {j}
      /\ t.inflight = f.inflight \ {j} /\ t.unverified = f.unverified \ {j}
      /\ t.pending = f.pending \ {j} /\ t.delivered = f.delivered /\ t.runs = f.runs
  <2>1. f \in Cores
    BY <1>3
  <2> DEFINE handled == f.handled \cup {j}
             late == f.late \ {j}
             pending == f.pending \ {j}
             contextless == f.contextless \ {j}
             inflight == f.inflight \ {j}
             unverified == f.unverified \ {j}
  <2>2. /\ handled \in SUBSET Jobs /\ late \in SUBSET Jobs /\ pending \in SUBSET Jobs
        /\ contextless \in SUBSET Jobs /\ inflight \in SUBSET Jobs
        /\ unverified \in SUBSET Jobs
    BY <2>1 DEF Cores
  <2>3. t = [f EXCEPT !.handled = handled, !.late = late, !.pending = pending,
                      !.contextless = contextless, !.inflight = inflight,
                      !.unverified = unverified]
    BY <1>4
  <2> HIDE DEF handled, late, pending, contextless, inflight, unverified
  <2>4. t \in Cores
    <3> DEFINE g == [f EXCEPT !.handled = handled, !.late = late, !.pending = pending]
    <3>1. g \in Cores
      BY <2>1, <2>2 DEF Cores
    <3>2. t = [g EXCEPT !.contextless = contextless, !.inflight = inflight,
                        !.unverified = unverified]
      BY <2>1, <2>3
    <3> HIDE DEF g
    <3>3. QED
      BY <2>2, <3>1, <3>2, ZenonT(60) DEF Cores
  <2>5. /\ t.context = f.context /\ t.specs = f.specs /\ t.deadlines = f.deadlines
        /\ t.passed = f.passed /\ t.signalled = f.signalled /\ t.handled = handled
        /\ t.late = late /\ t.contextless = contextless
        /\ t.inflight = inflight /\ t.unverified = unverified
        /\ t.pending = pending /\ t.delivered = f.delivered /\ t.runs = f.runs
    BY <2>1, <2>3 DEF Cores
  <2>6. QED
    BY <2>4, <2>5 DEF handled, late, pending, contextless, inflight, unverified
<1>6. /\ Awaited(u) = Awaited(s) /\ Awaited(t) = Awaited(f)
  BY <1>2, <1>5 DEF Awaited
<1>7. \A l \in Jobs, k \in Places :
        IF l = j THEN t.runs[l][k].pc = "idle" ELSE t.runs[l][k] = s.runs[l][k]
  BY <1>2, <1>3, <1>5
<1>8. OneRun(t)
  <2> SUFFICES ASSUME NEW l \in Jobs
               PROVE  IF l \in t.inflight THEN \E k \in Places : Live(t, l) = {k}
                      ELSE Live(t, l) = {}
    BY DEF OneRun
  <2>1. CASE l = j
    BY <1>2, <1>3, <1>5, <1>7, <2>1 DEF Live
  <2>2. CASE l # j
    <3>1. Live(t, l) = Live(s, l)
      BY <1>7, <2>2 DEF Live
    <3>2. l \in t.inflight <=> l \in s.inflight
      BY <1>2, <1>3, <1>5, <2>2
    <3>3. QED
      BY <1>1, <3>1, <3>2 DEF OneRun
  <2>3. QED
    BY <2>1, <2>2
<1>9. MarksOwned(t)
  BY <1>1, <1>2, <1>3, <1>5 DEF MarksOwned
<1>10. t.context = [l \in Jobs |-> IF l = j THEN None ELSE s.context[l]]
  BY <1>2, <1>3, <1>5
<1>11. WorkMarked(t)
  BY <1>1, <1>2, <1>3, <1>5, <1>7, <1>10 DEF WorkMarked, Working
<1>12. /\ t.specs = s.specs \ {j} /\ Awaited(t) = Awaited(s) \ {j}
       /\ t.handled = s.handled \cup {j} /\ t.inflight = s.inflight \ {j}
       /\ t.passed = s.passed \ {j} /\ t.signalled = s.signalled \ {j}
       /\ t.delivered = s.delivered /\ t.late = s.late \ {j}
  BY <1>2, <1>3, <1>5, <1>6
<1>13. DoneLeavesNothing(t)
  BY <1>1, <1>10, <1>12 DEF DoneLeavesNothing, Tracked
<1>14. NoRework(t) /\ SuccessKnown(t)
  <2>1. s.delivered \subseteq Jobs
    BY <1>1 DEF Cores
  <2>2. QED
    BY <1>1, <1>7, <1>12, <2>1 DEF NoRework, SuccessKnown
<1>15. CoreInv(t)
  BY <1>1, <1>5, <1>8, <1>9, <1>11, <1>12, <1>13, <1>14 DEF CoreInv
<1>16. QED
  BY <1>7, <1>10, <1>12, <1>15

Left(s, t, j) ==
    /\ t.handled = s.handled
    /\ t.context = s.context
    /\ \A l \in Jobs, k \in Places :
         IF l = j THEN t.runs[l][k].pc = "idle" ELSE t.runs[l][k] = s.runs[l][k]

(* What a transient failure leaves, before a waiting hand-off is started.  *)
LEMMA ReleasedKeeps ==
    ASSUME NEW s, CoreInv(s), NEW j \in Jobs, NEW i \in Places, s.runs[j][i].pc = "ended",
           ~s.runs[j][i].terminal, j \notin s.late,
           NEW u, u = SetRun(s, j, i, NoRun),
           NEW t, t = [u EXCEPT !.inflight = @ \ {j}, !.unverified = @ \ {j},
                                !.contextless = @ \ {j}, !.pending = @ \ {j}]
    PROVE  CoreInv(t) /\ Left(s, t, j)
<1>1. /\ s \in Cores /\ OneRun(s) /\ MarksOwned(s) /\ WorkMarked(s) /\ NoRework(s)
      /\ SuccessKnown(s) /\ DoneLeavesNothing(s) /\ s.passed \cup s.signalled \subseteq Awaited(s)
  BY DEF CoreInv
<1>2. /\ u \in Cores
      /\ u.context = s.context /\ u.specs = s.specs /\ u.deadlines = s.deadlines
      /\ u.passed = s.passed /\ u.signalled = s.signalled /\ u.handled = s.handled
      /\ u.late = s.late /\ u.contextless = s.contextless /\ u.inflight = s.inflight
      /\ u.unverified = s.unverified /\ u.pending = s.pending
      /\ u.delivered = s.delivered
      /\ j \in s.inflight
      /\ \A k \in Places : u.runs[j][k].pc = "idle"
      /\ \A k \in Places : s.runs[j][k].pc = "ended" => k = i
      /\ \A l \in Jobs, k \in Places : l # j => u.runs[l][k] = s.runs[l][k]
  BY LeaveFields
<1>3. /\ t \in Cores
      /\ t.context = s.context /\ t.specs = s.specs /\ t.deadlines = s.deadlines
      /\ t.passed = s.passed /\ t.signalled = s.signalled /\ t.handled = s.handled
      /\ t.late = s.late /\ t.contextless = s.contextless \ {j}
      /\ t.inflight = s.inflight \ {j} /\ t.unverified = s.unverified \ {j}
      /\ t.pending = s.pending \ {j} /\ t.delivered = s.delivered /\ t.runs = u.runs
  <2>1. u \in Cores
    BY <1>2
  <2>2. t \in Cores
    BY <2>1, ZenonT(60) DEF Cores
  <2>3. /\ t.context = u.context /\ t.specs = u.specs /\ t.deadlines = u.deadlines
        /\ t.passed = u.passed /\ t.signalled = u.signalled /\ t.handled = u.handled
        /\ t.late = u.late /\ t.contextless = u.contextless \ {j}
        /\ t.inflight = u.inflight \ {j} /\ t.unverified = u.unverified \ {j}
        /\ t.pending = u.pending \ {j} /\ t.delivered = u.delivered /\ t.runs = u.runs
    BY <2>1 DEF Cores
  <2>4. QED
    BY <1>2, <2>2, <2>3
<1>4. \A l \in Jobs, k \in Places :
        IF l = j THEN t.runs[l][k].pc = "idle" ELSE t.runs[l][k] = s.runs[l][k]
  BY <1>2, <1>3
<1>5. OneRun(t)
  <2> SUFFICES ASSUME NEW l \in Jobs
               PROVE  IF l \in t.inflight THEN \E k \in Places : Live(t, l) = {k}
                      ELSE Live(t, l) = {}
    BY DEF OneRun
  <2>1. CASE l = j
    BY <1>3, <1>4, <2>1 DEF Live
  <2>2. CASE l # j
    <3>1. Live(t, l) = Live(s, l)
      BY <1>4, <2>2 DEF Live
    <3>2. l \in t.inflight <=> l \in s.inflight
      BY <1>3, <2>2
    <3>3. QED
      BY <1>1, <3>1, <3>2 DEF OneRun
  <2>3. QED
    BY <2>1, <2>2
<1>6. MarksOwned(t)
  BY <1>1, <1>3 DEF MarksOwned
<1>7. WorkMarked(t)
  BY <1>1, <1>3, <1>4 DEF WorkMarked, Working
<1>8. DoneLeavesNothing(t) /\ t.passed \cup t.signalled \subseteq Awaited(t)
  BY <1>1, <1>3 DEF DoneLeavesNothing, Tracked, Awaited
<1>9. s.delivered \subseteq Jobs
  BY <1>1 DEF Cores
<1>10. j \notin s.delivered
  BY <1>1, <1>2 DEF SuccessKnown, DoneLeavesNothing
<1>11. NoRework(t) /\ SuccessKnown(t)
  BY <1>1, <1>3, <1>4, <1>9, <1>10 DEF NoRework, SuccessKnown
<1>12. QED
  BY <1>3, <1>4, <1>5, <1>6, <1>7, <1>8, <1>11 DEF CoreInv, Left

LEMMA ReleaseKeeps ==
    ASSUME NEW s, CoreInv(s), NEW j \in Jobs, NEW i \in Places, s.runs[j][i].pc = "ended",
           ~s.runs[j][i].terminal, j \notin s.late, NEW verified \in BOOLEAN
    PROVE  CoreInv(Release(SetRun(s, j, i, NoRun), j, verified))
<1> DEFINE u == SetRun(s, j, i, NoRun)
           t == [u EXCEPT !.inflight = @ \ {j}, !.unverified = @ \ {j},
                          !.contextless = @ \ {j}, !.pending = @ \ {j}]
<1>1. CoreInv(t)
  BY ReleasedKeeps
<1>2. CoreInv(SpawnJobs(t, {j}, TRUE))
  BY <1>1, SpawnKeeps
<1>3. Release(u, j, verified) \in {t, SpawnJobs(t, {j}, TRUE)}
  BY DEF Release
<1>4. QED
  BY <1>1, <1>2, <1>3

-----------------------------------------------------------------------------
(* The object after a step.                                                *)

(* A task goes on without beginning to work.                               *)
LEMMA EditKeeps ==
    ASSUME NEW s, CoreInv(s), NEW j \in Jobs, NEW i \in Places, NEW run \in Runs,
           s.runs[j][i].pc \notin {"idle", "ended"}, run.pc # "idle",
           run.pc \in Working => s.runs[j][i].pc \in Working /\ run.ctx = s.runs[j][i].ctx
    PROVE  CoreInv(SetRun(s, j, i, run))
<1>1. s \in Cores /\ j \notin s.delivered
  BY DEF CoreInv, NoRework
<1>2. s.runs[j][i].pc \in Working => /\ s.context[j] = s.runs[j][i].ctx
                                     /\ s.context[j] = None => j \in s.contextless
  BY DEF CoreInv, WorkMarked
<1>3. QED
  BY <1>1, <1>2, SetRunFields, RunMoves

LEMMA PcKeeps ==
    ASSUME NEW s, CoreInv(s), NEW j \in Jobs, NEW i \in Places, NEW where \in RunStates \ {"idle"},
           s.runs[j][i].pc \notin {"idle", "ended"},
           where \in Working => s.runs[j][i].pc \in Working
    PROVE  CoreInv([s EXCEPT !.runs[j][i].pc = where])
<1> DEFINE run == [s.runs[j][i] EXCEPT !.pc = where]
<1>1. s.runs[j][i] \in Runs
  BY DEF CoreInv, Cores
<1>2. run \in Runs /\ run.pc = where /\ run.ctx = s.runs[j][i].ctx
  BY <1>1 DEF Runs
<1>3. [s EXCEPT !.runs[j][i].pc = where] = SetRun(s, j, i, run)
  BY DEF SetRun
<1> HIDE DEF run
<1>4. QED
  BY <1>2, <1>3, EditKeeps

LEMMA EvictionsSafe ==
    ASSUME NEW s \in Cores, NEW j, NEW e \in Evictions(s, j)
    PROVE  e \in SUBSET Jobs /\ e \cap s.inflight = {} /\ j \notin e
  BY DEF Evictions, Evictable, Tracked, Awaited, Cores

LEMMA NotesAndSweeps ==
    ASSUME CoreInv(core),
           NEW h \in Handlers, note[h].pc \notin Over => note[h].job \in Jobs /\ note[h].ctx \in Contexts,
           NotifyBare(h) \/ CheckDone(h) \/ Accept(h)
    PROVE  CoreInv(core')
<1>1. ASSUME NEW s, CoreInv(s) PROVE CoreInv(SpawnSweep(s))
  BY <1>1, SweepKeeps DEF SpawnSweep
<1>2. CASE NotifyBare(h)
  BY <1>1, <1>2 DEF NotifyBare
<1>3. CASE Accept(h)
  <2>1. note[h].job \in Jobs /\ core' = SpawnSweep(SpawnJobs(core, {note[h].job}, TRUE))
    BY <1>3 DEF Accept, Over
  <2>2. CoreInv(SpawnJobs(core, {note[h].job}, TRUE))
    BY <2>1, SpawnKeeps
  <2>3. QED
    BY <1>1, <2>1, <2>2
<1>4. CASE CheckDone(h)
  <2> DEFINE j == note[h].job
             c == note[h].ctx
  <2>1. j \in Jobs /\ c \in Contexts
    BY <1>4 DEF CheckDone, Over
  <2>2. CASE core' = core
    BY <2>2
  <2>3. CASE core' # core
    <3>1. PICK e \in Evictions(core, j) :
            LET s == Forget(core, e)
            IN  /\ ~TooLate(core, j)
                /\ IF Conflict(s, j, c) THEN core' = s
                   ELSE core' = [s EXCEPT !.context[j] = c, !.specs = @ \cup {j},
                                          !.signalled = @ \cup (Awaited(s) \cap {j})]
      BY <1>4, <2>3 DEF CheckDone
    <3> DEFINE s == Forget(core, e)
    <3>2. core \in Cores
      BY DEF CoreInv
    <3>3. e \in SUBSET Jobs /\ e \cap core.inflight = {}
      BY <3>2, EvictionsSafe
    <3>4. CoreInv(s)
      BY <3>3, ForgetKeeps
    <3>5. ~TooLate(s, j)
      BY <3>1, <3>2, <3>3, ForgetFields, ZenonT(60) DEF TooLate
    <3> HIDE DEF s
    <3>6. CASE Conflict(s, j, c)
      BY <3>1, <3>4, <3>6 DEF s
    <3>7. CASE ~Conflict(s, j, c)
      <4>1. core' = [s EXCEPT !.context[j] = c, !.specs = @ \cup {j},
                              !.signalled = @ \cup (Awaited(s) \cap {j})]
        BY <3>1, <3>7 DEF s
      <4>2. QED
        BY <2>1, <3>4, <3>5, <3>7, <4>1, InstallKeeps
    <3>8. QED
      BY <3>6, <3>7, SMTT(40)
  <2>4. QED
    BY <2>2, <2>3
<1>5. QED
  BY <1>2, <1>3, <1>4

LEMMA AwaitKeeps ==
    ASSUME CoreInv(core), NEW j \in Jobs, NEW i \in Places, AwaitContext(j, i)
    PROVE  CoreInv(core')
<1> DEFINE known == [core EXCEPT !.specs = @ \cup {j}]
<1>1. core \in Cores /\ core.runs[j][i].pc = "report"
  BY DEF AwaitContext, At, CoreInv
<1>2. j \in core.inflight
  BY <1>1 DEF CoreInv, OneRun, Live
<1>3. CoreInv(known) /\ known \in Cores /\ known.runs = core.runs /\ known.inflight = core.inflight
  BY <1>1, <1>2, SpecKeeps DEF CoreInv, Cores
<1>4. PICK e \in Evictions(known, j) :
        LET s == Forget(known, e)
            w == [s EXCEPT !.deadlines = IF j \in Awaited(s) THEN @
                                         ELSE @ \cup ((Awaited(s) \cup {j}) \X {j})]
        IN  core' = CASE s.context[j] # None -> StartWork(s, j, i)
                      [] s.context[j] = None /\ j \in s.passed \cup s.signalled -> AfterWait(s, j, i)
                      [] OTHER -> [w EXCEPT !.runs[j][i].pc = "wait"]
  BY DEF AwaitContext
<1> HIDE DEF known
<1> DEFINE s == Forget(known, e)
           w == [s EXCEPT !.deadlines = IF j \in Awaited(s) THEN @
                                        ELSE @ \cup ((Awaited(s) \cup {j}) \X {j})]
<1>5. e \in SUBSET Jobs /\ e \cap known.inflight = {}
  BY <1>3, EvictionsSafe
<1>6. CoreInv(s)
  BY <1>3, <1>5, ForgetKeeps
<1>7. s.runs = core.runs /\ s.inflight = core.inflight
  BY <1>3, <1>5, ForgetFields, ZenonT(60)
<1>8. core' = CASE s.context[j] # None -> StartWork(s, j, i)
                [] s.context[j] = None /\ j \in s.passed \cup s.signalled -> AfterWait(s, j, i)
                [] OTHER -> [w EXCEPT !.runs[j][i].pc = "wait"]
  BY <1>4
<1> HIDE DEF s
<1>9. CoreInv(w) /\ w.runs = s.runs
  BY <1>2, <1>6, <1>7, WaitKeeps
<1> HIDE DEF w
<1>10. CoreInv(StartWork(s, j, i))
  BY <1>1, <1>6, <1>7, StartKeeps
<1>11. CoreInv(AfterWait(s, j, i))
  BY <1>1, <1>6, <1>7, AfterWaitKeeps
<1>12. CoreInv([w EXCEPT !.runs[j][i].pc = "wait"])
  BY <1>1, <1>7, <1>9, PcKeeps DEF RunStates, Working
<1>13. QED
  BY <1>8, <1>10, <1>11, <1>12

LEMMA RunKeeps ==
    ASSUME CoreInv(core), NEW j \in Jobs, NEW i \in Places, RunStep(j, i)
    PROVE  CoreInv(core')
<1>1. core \in Cores /\ core.runs[j][i] \in Runs
  BY DEF CoreInv, Cores
<1>2. CASE StartVerified(j, i)
  BY <1>2, StartKeeps DEF StartVerified, At
<1>3. CASE Verify(j, i)
  <2> DEFINE run == [core.runs[j][i] EXCEPT !.pc = "report"]
  <2>1. run \in Runs /\ run.pc = "report"
    BY <1>1 DEF Runs, RunStates
  <2>2. core.runs[j][i].pc = "spawned"
    BY <1>3 DEF Verify, At
  <2> HIDE DEF run
  <2>3. CoreInv(SetRun(core, j, i, run))
    BY <2>1, <2>2, EditKeeps DEF Working
  <2>4. CoreInv(End(core, j, i, TRUE)) /\ CoreInv(End(core, j, i, FALSE))
    BY <2>2, EndKeeps
  <2>5. core' \in {SetRun(core, j, i, run), End(core, j, i, Verdict(j) = "permanent")}
    BY <1>3 DEF Verify, run
  <2>6. (Verdict(j) = "permanent") \in BOOLEAN
    OBVIOUS
  <2>7. CoreInv(End(core, j, i, Verdict(j) = "permanent"))
    BY <2>2, <2>6, EndKeeps
  <2>8. QED
    BY <2>3, <2>5, <2>7
<1>4. CASE VerifyFails(j, i)
  BY <1>4, EndKeeps DEF VerifyFails, At
<1>5. CASE AwaitContext(j, i)
  BY <1>5, AwaitKeeps
<1>6. CASE WaitOver(j, i)
  BY <1>6, AfterWaitKeeps DEF WaitOver, At
<1>7. CASE ReadSpec(j, i)
  <2>1. core.runs[j][i].pc = "spec" /\ (Move(j, i, "work") \/ core' = End(core, j, i, FALSE))
    BY <1>7 DEF ReadSpec, At
  <2>2. CASE Move(j, i, "work")
    BY <2>1, <2>2, PcKeeps DEF Move, RunStates, Working
  <2>3. CASE core' = End(core, j, i, FALSE)
    BY <2>1, <2>3, EndKeeps
  <2>4. QED
    BY <2>1, <2>2, <2>3
<1>8. CASE WorkDone(j, i)
  BY <1>8, PcKeeps DEF WorkDone, At, Move, RunStates, Working
<1>9. CASE WorkFails(j, i)
  BY <1>9, EndKeeps DEF WorkFails, At
<1>10. CASE SubmitOk(j, i)
  BY <1>10, ExitsKeeps DEF SubmitOk, At
<1>11. CASE SubmitRefused(j, i) \/ SubmitFails(j, i)
  <2>1. core.runs[j][i].pc = "submit" /\ \E skip \in BOOLEAN : core' = Exits(core, j, i, FALSE, skip)
    BY <1>11 DEF SubmitRefused, SubmitFails, At
  <2>2. PICK skip \in BOOLEAN : core' = Exits(core, j, i, FALSE, skip)
    BY <2>1
  <2>3. QED
    BY <2>1, <2>2, ExitsKeeps
<1>12. CASE TimeOut(j, i)
  <2> DEFINE run == [core.runs[j][i] EXCEPT !.cut = TRUE]
  <2>1. run \in Runs /\ run.pc = core.runs[j][i].pc /\ run.ctx = core.runs[j][i].ctx
    BY <1>1 DEF Runs
  <2>2. core.runs[j][i].pc \notin {"idle", "ended"}
    BY <1>12 DEF TimeOut
  <2>3. core' \in {SetRun(core, j, i, run), End(core, j, i, FALSE)}
    BY <1>12 DEF TimeOut, SetRun
  <2> HIDE DEF run
  <2>4. CoreInv(SetRun(core, j, i, run))
    BY <2>1, <2>2, EditKeeps
  <2>5. CoreInv(End(core, j, i, FALSE))
    BY <2>2, EndKeeps
  <2>6. QED
    BY <2>3, <2>4, <2>5
<1>13. CASE Finish(j, i)
  <2>1. /\ core.runs[j][i].pc = "ended"
        /\ core' = IF core.runs[j][i].terminal \/ j \in core.late
                   THEN CleanUp(SetRun(core, j, i, NoRun), j)
                   ELSE Release(SetRun(core, j, i, NoRun), j, core.runs[j][i].verified)
    BY <1>13 DEF Finish
  <2>2. core.runs[j][i].verified \in BOOLEAN
    BY <1>1 DEF Runs
  <2>3. CASE core.runs[j][i].terminal \/ j \in core.late
    BY <2>1, <2>3, CleanUpKeeps
  <2>4. CASE ~(core.runs[j][i].terminal \/ j \in core.late)
    BY <2>1, <2>2, <2>4, ReleaseKeeps
  <2>5. QED
    BY <2>3, <2>4
<1>14. QED
  BY <1>2, <1>3, <1>4, <1>5, <1>6, <1>7, <1>8, <1>9, <1>10, <1>11, <1>12, <1>13 DEF RunStep

-----------------------------------------------------------------------------
(* Handlers, their threads and the permits.                                *)

LEMMA ThreadCount ==
    ASSUME NoteInv, NEW h \in Handlers, NEW n \in Notes, note' = [note EXCEPT ![h] = n],
           NEW k \in Kinds
    PROVE  /\ IsFiniteSet(OnThread(k)')
           /\ Cardinality(OnThread(k)) \in Nat
           /\ Cardinality(OnThread(k)') =
                Cardinality(OnThread(k)) + (IF n.pc = Running(k) THEN 1 ELSE 0)
                                         - (IF note[h].pc = Running(k) THEN 1 ELSE 0)
<1> DEFINE T == OnThread(k)
<1>1. IsFiniteSet(T) /\ note \in [Handlers -> Notes]
  BY DEF NoteInv
<1>2. Cardinality(T) \in Nat
  BY <1>1, FS_CardinalityType
<1>3. h \in T <=> note[h].pc = Running(k)
  BY DEF OnThread
<1>4. CASE n.pc = Running(k)
  <2>1. T' = T \cup {h}
    BY <1>1, <1>4 DEF OnThread
  <2> HIDE DEF T
  <2>2. /\ IsFiniteSet(T \cup {h})
        /\ Cardinality(T \cup {h}) = IF h \in T THEN Cardinality(T) ELSE Cardinality(T) + 1
    BY <1>1, FS_AddElement
  <2>3. QED
    BY <1>2, <1>3, <1>4, <2>1, <2>2 DEF T
<1>5. CASE n.pc # Running(k)
  <2>1. T' = T \ {h}
    BY <1>1, <1>5 DEF OnThread
  <2> HIDE DEF T
  <2>2. /\ IsFiniteSet(T \ {h})
        /\ Cardinality(T \ {h}) = IF h \in T THEN Cardinality(T) - 1 ELSE Cardinality(T)
    BY <1>1, FS_RemoveElement
  <2>3. QED
    BY <1>2, <1>3, <1>5, <2>1, <2>2 DEF T
<1>6. QED
  BY <1>4, <1>5

(* One handler changes its note, and permits and abandoned threads with it. *)
LEMMA NoteMoves ==
    ASSUME NoteInv, NEW h \in Handlers, NEW n \in Notes, note' = [note EXCEPT ![h] = n],
           n.pc \notin Over => n.job \in Jobs /\ n.ctx \in Contexts,
           free' \in [Kinds -> Nat], detached' \in [Kinds -> Nat],
           \A k \in Kinds :
             (IF n.pc = Running(k) THEN 1 ELSE 0) + detached'[k] + free'[k]
               = (IF note[h].pc = Running(k) THEN 1 ELSE 0) + detached[k] + free[k]
    PROVE  NoteInv'
<1>1. /\ note \in [Handlers -> Notes]
      /\ \A l \in Handlers : note[l].pc \notin Over => note[l].job \in Jobs /\ note[l].ctx \in Contexts
  BY DEF NoteInv
<1>2. note' \in [Handlers -> Notes]
  BY <1>1
<1>3. \A l \in Handlers : note'[l].pc \notin Over => note'[l].job \in Jobs /\ note'[l].ctx \in Contexts
  BY <1>1
<1>4. ASSUME NEW k \in Kinds
      PROVE  IsFiniteSet(OnThread(k)') /\ Threads(k)' + free'[k] = Slots
  <2> DEFINE a == Cardinality(OnThread(k))
             b == Cardinality(OnThread(k)')
  <2>1. /\ IsFiniteSet(OnThread(k)') /\ a \in Nat
        /\ b = a + (IF n.pc = Running(k) THEN 1 ELSE 0) - (IF note[h].pc = Running(k) THEN 1 ELSE 0)
    BY ThreadCount
  <2>2. a + detached[k] + free[k] = Slots /\ free[k] \in Nat /\ detached[k] \in Nat
    BY DEF NoteInv, Threads
  <2>3. free'[k] \in Nat /\ detached'[k] \in Nat
    OBVIOUS
  <2> HIDE DEF a, b
  <2>4. b + detached'[k] + free'[k] = Slots
    <3>1. (IF n.pc = Running(k) THEN 1 ELSE 0) + detached'[k] + free'[k]
            = (IF note[h].pc = Running(k) THEN 1 ELSE 0) + detached[k] + free[k]
      OBVIOUS
    <3>2. QED
      BY <2>1, <2>2, <2>3, <3>1
  <2>5. QED
    BY <2>1, <2>4 DEF Threads, b
<1>5. QED
  BY <1>2, <1>3, <1>4 DEF NoteInv

(* With neither permits nor threads involved.                              *)
LEMMA NotePlain ==
    ASSUME NoteInv, NEW h \in Handlers, NEW n \in Notes, note' = [note EXCEPT ![h] = n],
           n.pc \notin Over => n.job \in Jobs /\ n.ctx \in Contexts,
           free' = free, detached' = detached,
           \A k \in Kinds : n.pc # Running(k) /\ note[h].pc # Running(k)
    PROVE  NoteInv'
  BY NoteMoves, ZenonT(60) DEF NoteInv

LEMMA HandlerNotes ==
    ASSUME NoteInv, NEW h \in Handlers,
           HandlerStep(h) \/ NotifyBare(h) \/ NotifyMalformed(h)
             \/ \E j \in Jobs, c \in Contexts : Notify(h, j, c)
    PROVE  NoteInv'
<1> USE DEF Kinds, Running
<1>1. /\ note \in [Handlers -> Notes] /\ note[h] \in Notes
      /\ note[h].pc \notin Over => note[h].job \in Jobs /\ note[h].ctx \in Contexts
      /\ free \in [Kinds -> Nat] /\ detached \in [Kinds -> Nat]
  BY DEF NoteInv
<1> DEFINE Said(where, j, c) == [pc |-> where, job |-> j, ctx |-> c]
<1>2. \A where \in Over : Said(where, None, None) \in Notes
  BY DEF Notes, NoteStates
<1>3. \A where \in NoteStates, j \in Jobs, c \in Contexts : Said(where, j, c) \in Notes
  BY DEF Notes
<1>4. \A where, j, c : /\ Said(where, j, c).pc = where
                       /\ Said(where, j, c).job = j /\ Said(where, j, c).ctx = c
  OBVIOUS
<1>5. \A where, j, c : SetNote(h, where, j, c) <=> note' = [note EXCEPT ![h] = Said(where, j, c)]
  BY DEF SetNote
<1>6. \A where : Answer(h, where) <=> note' = [note EXCEPT ![h] = Said(where, None, None)]
  BY DEF Answer, SetNote
<1> HIDE DEF Said
<1>7. CASE NotifyBare(h) \/ NotifyMalformed(h)
  <2>1. /\ note[h].pc \in Over /\ free' = free /\ detached' = detached
        /\ Answer(h, "accepted") \/ Answer(h, "rejected")
    BY <1>7 DEF NotifyBare, NotifyMalformed
  <2>2. QED
    BY <1>2, <1>4, <1>6, <2>1, NotePlain DEF Over
<1>8. ASSUME NEW j \in Jobs, NEW c \in Contexts, Notify(h, j, c) PROVE NoteInv'
  <2>1. /\ note[h].pc \in Over /\ free' = free /\ detached' = detached
        /\ note' = [note EXCEPT ![h] = Said("read", j, c)]
    BY <1>5, <1>8 DEF Notify
  <2> DEFINE n == Said("read", j, c)
  <2>2. n \in Notes /\ n.pc = "read" /\ n.job = j /\ n.ctx = c
    BY DEF Said, Notes, NoteStates
  <2> HIDE DEF n
  <2>3. note' = [note EXCEPT ![h] = n]
    BY <2>1 DEF n
  <2>4. \A k \in Kinds : n.pc # Running(k) /\ note[h].pc # Running(k)
    BY <2>1, <2>2 DEF Over
  <2>5. QED
    BY <2>1, <2>2, <2>3, <2>4, NotePlain
<1>9. ASSUME NEW k \in Kinds, Acquire(h, k) PROVE NoteInv'
  <2> DEFINE n == [note[h] EXCEPT !.pc = Running(k)]
  <2>1. n \in Notes /\ n.pc = Running(k) /\ n.job = note[h].job /\ n.ctx = note[h].ctx
    BY <1>1 DEF Notes, NoteStates, Over
  <2>2. /\ note[h].pc = k /\ free[k] > 0 /\ detached' = detached
        /\ free' = [free EXCEPT ![k] = @ - 1]
        /\ note' = [note EXCEPT ![h] = n]
    BY <1>9 DEF Acquire
  <2> HIDE DEF n
  <2>3. free' \in [Kinds -> Nat] /\ detached' \in [Kinds -> Nat]
    BY <1>1, <2>2
  <2>4. \A l \in Kinds :
          (IF n.pc = Running(l) THEN 1 ELSE 0) + detached'[l] + free'[l]
            = (IF note[h].pc = Running(l) THEN 1 ELSE 0) + detached[l] + free[l]
    BY <1>1, <2>1, <2>2
  <2>5. note[h].pc \notin Over
    BY <2>2 DEF Over
  <2>6. QED
    BY <1>1, <2>1, <2>2, <2>3, <2>4, <2>5, NoteMoves
<1>10. ASSUME NEW k \in Kinds, note[h].pc = Running(k), free' = [free EXCEPT ![k] = @ + 1],
              detached' = detached,
              NEW n \in Notes, note' = [note EXCEPT ![h] = n],
              n.pc \notin Over => n.job \in Jobs /\ n.ctx \in Contexts,
              \A l \in Kinds : n.pc # Running(l)
       PROVE  NoteInv'
  <2>1. free' \in [Kinds -> Nat] /\ detached' \in [Kinds -> Nat]
    BY <1>1, <1>10
  <2>2. \A l \in Kinds :
          (IF n.pc = Running(l) THEN 1 ELSE 0) + detached'[l] + free'[l]
            = (IF note[h].pc = Running(l) THEN 1 ELSE 0) + detached[l] + free[l]
    BY <1>1, <1>10
  <2>3. QED
    BY <1>10, <2>1, <2>2, NoteMoves
<1>11. CASE ReadDone(h) \/ ReadFails(h)
  <2>1. /\ note[h].pc = "reading" /\ free' = [free EXCEPT !["read"] = @ + 1]
        /\ detached' = detached
        /\ \/ Answer(h, "rejected") \/ Answer(h, "unavailable")
           \/ SetNote(h, "check", note[h].job, note[h].ctx)
    BY <1>11 DEF ReadDone, ReadFails, Verdict
  <2>2. note[h].job \in Jobs /\ note[h].ctx \in Contexts
    BY <1>1, <2>1 DEF Over
  <2>3. CASE Answer(h, "rejected") \/ Answer(h, "unavailable")
    BY <1>2, <1>4, <1>6, <1>10, <2>1, <2>3 DEF Over
  <2>4. CASE SetNote(h, "check", note[h].job, note[h].ctx)
    BY <1>3, <1>4, <1>5, <1>10, <2>1, <2>2, <2>4 DEF NoteStates
  <2>5. QED
    BY <2>1, <2>3, <2>4
<1>12. CASE CheckDone(h) \/ CheckFails(h)
  <2>1. /\ note[h].pc = "checking" /\ free' = [free EXCEPT !["check"] = @ + 1]
        /\ detached' = detached
        /\ \/ Answer(h, "rejected") \/ Answer(h, "unavailable")
           \/ SetNote(h, "report", note[h].job, note[h].ctx)
    BY <1>12 DEF CheckDone, CheckFails
  <2>2. note[h].job \in Jobs /\ note[h].ctx \in Contexts
    BY <1>1, <2>1 DEF Over
  <2>3. CASE Answer(h, "rejected") \/ Answer(h, "unavailable")
    BY <1>2, <1>4, <1>6, <1>10, <2>1, <2>3 DEF Over
  <2>4. CASE SetNote(h, "report", note[h].job, note[h].ctx)
    <3> DEFINE n == Said("report", note[h].job, note[h].ctx)
    <3>1. n \in Notes /\ n.pc = "report" /\ n.job = note[h].job /\ n.ctx = note[h].ctx
      BY <2>2 DEF Said, Notes, NoteStates
    <3>2. note' = [note EXCEPT ![h] = n]
      BY <1>5, <2>4
    <3> HIDE DEF n
    <3>3. QED
      BY <1>10, <2>1, <2>2, <3>1, <3>2
  <2>5. QED
    BY <2>1, <2>3, <2>4
<1>13. CASE Accept(h)
  <2>1. /\ note[h].pc = "report" /\ free' = free /\ detached' = detached
        /\ Answer(h, "accepted")
    BY <1>13 DEF Accept
  <2>2. QED
    BY <1>2, <1>4, <1>6, <2>1, NotePlain DEF Over
<1>14. ASSUME NEW k \in Kinds, GiveUp(h, k) PROVE NoteInv'
  <2> DEFINE n == Said("unavailable", None, None)
  <2>1. n \in Notes /\ n.pc = "unavailable" /\ note' = [note EXCEPT ![h] = n]
    BY <1>2, <1>4, <1>6, <1>14 DEF GiveUp, Over
  <2> HIDE DEF n
  <2>2. CASE note[h].pc = k /\ free' = free /\ detached' = detached
    BY <2>1, <2>2, NotePlain DEF Over
  <2>3. CASE /\ note[h].pc = Running(k) /\ free' = free
             /\ detached' = [detached EXCEPT ![k] = @ + 1]
    <3>1. free' \in [Kinds -> Nat] /\ detached' \in [Kinds -> Nat]
      BY <1>1, <2>3
    <3>2. \A l \in Kinds :
            (IF n.pc = Running(l) THEN 1 ELSE 0) + detached'[l] + free'[l]
              = (IF note[h].pc = Running(l) THEN 1 ELSE 0) + detached[l] + free[l]
      BY <1>1, <2>1, <2>3
    <3>3. QED
      BY <2>1, <3>1, <3>2, NoteMoves DEF Over
  <2>4. QED
    BY <1>14, <2>2, <2>3 DEF GiveUp
<1>15. QED
  BY <1>7, <1>8, <1>9, <1>11, <1>12, <1>13, <1>14 DEF HandlerStep

LEMMA NotesUntouched ==
    ASSUME NoteInv, UNCHANGED <<note, free, detached>>
    PROVE  NoteInv'
  BY DEF NoteInv, OnThread, Threads

LEMMA ExitNotes ==
    ASSUME NoteInv, NEW k \in Kinds, ThreadExits(k)
    PROVE  NoteInv'
<1>1. /\ detached[k] > 0 /\ note' = note
      /\ detached' = [detached EXCEPT ![k] = @ - 1]
      /\ free' = [free EXCEPT ![k] = @ + 1]
  BY DEF ThreadExits
<1>2. /\ free \in [Kinds -> Nat] /\ detached \in [Kinds -> Nat]
      /\ \A l \in Kinds : IsFiniteSet(OnThread(l)) /\ Threads(l) + free[l] = Slots
  BY DEF NoteInv
<1>3. free' \in [Kinds -> Nat] /\ detached' \in [Kinds -> Nat]
  BY <1>1, <1>2
<1>4. ASSUME NEW l \in Kinds
      PROVE  IsFiniteSet(OnThread(l)') /\ Threads(l)' + free'[l] = Slots
  <2>1. OnThread(l)' = OnThread(l)
    BY <1>1 DEF OnThread
  <2>2. Cardinality(OnThread(l)) \in Nat
    BY <1>2, FS_CardinalityType
  <2>3. Cardinality(OnThread(l)) + detached[l] + free[l] = Slots
    BY <1>2 DEF Threads
  <2>4. detached'[l] + free'[l] = detached[l] + free[l]
    BY <1>1, <1>2
  <2>5. Cardinality(OnThread(l)) + detached'[l] + free'[l] = Slots
    BY <1>2, <1>3, <2>2, <2>3, <2>4
  <2>6. QED
    BY <1>2, <2>1, <2>5 DEF Threads
<1>5. QED
  BY <1>1, <1>3, <1>4 DEF NoteInv

LEMMA FreshNotes ==
    ASSUME NEW f, NEW d, NEW n, f = [k \in Kinds |-> Slots], d = [k \in Kinds |-> 0],
           n = [h \in Handlers |-> NoNote]
    PROVE  /\ n \in [Handlers -> Notes] /\ f \in [Kinds -> Nat] /\ d \in [Kinds -> Nat]
           /\ \A h \in Handlers : n[h].pc \in Over
           /\ \A k \in Kinds : /\ {h \in Handlers : n[h].pc = Running(k)} = {}
                               /\ f[k] = Slots /\ d[k] = 0
<1>1. NoNote \in Notes /\ NoNote.pc = "idle"
  BY DEF NoNote, Notes, NoteStates, Over
<1>2. QED
  BY <1>1, SellerAssumption DEF Over, Kinds, Running
-----------------------------------------------------------------------------
(* The inductive invariant.                                                *)

LEMMA SellerStart == Init => SellerInv
<1> SUFFICES ASSUME Init PROVE SellerInv
  OBVIOUS
<1>1. CoreInv(core)
  BY FreshKeeps DEF Init
<1>2. NoteInv
  <2>1. /\ note \in [Handlers -> Notes] /\ free \in [Kinds -> Nat] /\ detached \in [Kinds -> Nat]
        /\ \A h \in Handlers : note[h].pc \in Over
        /\ \A k \in Kinds : OnThread(k) = {} /\ free[k] = Slots /\ detached[k] = 0
    BY FreshNotes DEF Init, OnThread
  <2>2. ASSUME NEW k \in Kinds
        PROVE  IsFiniteSet(OnThread(k)) /\ Threads(k) + free[k] = Slots
    <3>1. IsFiniteSet({}) /\ Cardinality({}) = 0
      BY FS_EmptySet
    <3>2. Cardinality(OnThread(k)) = 0 /\ IsFiniteSet(OnThread(k))
      BY <2>1, <3>1
    <3>3. Threads(k) = 0
      BY <2>1, <3>2 DEF Threads
    <3>4. QED
      BY <2>1, <3>2, <3>3, SellerAssumption
  <2>3. QED
    BY <2>1, <2>2 DEF NoteInv
<1>3. QED
  BY <1>1, <1>2, SellerAssumption DEF Init, SellerInv

LEMMA SellerCoreStep == SellerInv /\ Next => CoreInv(core')
<1> SUFFICES ASSUME SellerInv, Next PROVE CoreInv(core')
  OBVIOUS
<1>1. CoreInv(core) /\ core \in Cores /\ NoteInv
  BY DEF SellerInv, CoreInv
<1>2. CASE UNCHANGED core
  BY <1>1, <1>2
<1>3. ASSUME NEW j \in Jobs, GracePasses(j) PROVE CoreInv(core')
  BY <1>1, <1>3, PassKeeps DEF GracePasses
<1>4. ASSUME NEW h \in Handlers, NotifyBare(h) \/ CheckDone(h) \/ Accept(h) PROVE CoreInv(core')
  BY <1>1, <1>4, NotesAndSweeps DEF NoteInv
<1>5. CASE SweepFails \/ SweepScan
  BY <1>1, <1>5, SweepKeeps DEF SweepFails, SweepScan
<1>6. CASE SweepSpawn
  <2> DEFINE t == SpawnJobs(core, core.found, FALSE)
  <2>1. core' = [t EXCEPT !.sweep = "idle", !.found = {}]
    BY <1>6 DEF SweepSpawn
  <2>2. core.found \in SUBSET Jobs
    BY <1>1 DEF Cores
  <2>3. CoreInv(t)
    BY <1>1, <2>2, SpawnKeeps
  <2> HIDE DEF t
  <2>4. QED
    BY <2>1, <2>3, SweepKeeps
<1>7. ASSUME NEW j \in Jobs, NEW i \in Places, RunStep(j, i) PROVE CoreInv(core')
  BY <1>1, <1>7, RunKeeps
<1>8. CASE Restart
  BY <1>8, FreshKeeps DEF Restart
<1>9. ASSUME NEW h \in Handlers, NotifyMalformed(h) \/ HandlerStep(h) PROVE CoreInv(core')
  BY <1>2, <1>4, <1>9
     DEF NotifyMalformed, HandlerStep, ReadDone, ReadFails, CheckFails, Acquire, GiveUp
<1>10. ASSUME NEW j \in Jobs, Fund(j) \/ Expire(j) PROVE UNCHANGED core
  BY <1>10 DEF Fund, Expire
<1>11. ASSUME NEW h \in Handlers, NEW j \in Jobs, NEW c \in Contexts, Notify(h, j, c)
       PROVE  UNCHANGED core
  BY <1>11 DEF Notify
<1>12. ASSUME NEW k \in Kinds, ThreadExits(k) PROVE UNCHANGED core
  BY <1>12 DEF ThreadExits
<1>13. QED
  BY <1>2, <1>3, <1>4, <1>5, <1>6, <1>7, <1>8, <1>9, <1>10, <1>11, <1>12 DEF Next

LEMMA SellerNoteStep == SellerInv /\ Next => NoteInv'
<1> SUFFICES ASSUME SellerInv, Next PROVE NoteInv'
  OBVIOUS
<1>1. NoteInv
  BY DEF SellerInv
<1>2. CASE UNCHANGED handlers
  BY <1>1, <1>2, NotesUntouched DEF handlers
<1>3. ASSUME NEW j \in Jobs, Fund(j) \/ Expire(j) \/ GracePasses(j) PROVE UNCHANGED handlers
  BY <1>3 DEF Fund, Expire, GracePasses, handlers, rest
<1>4. CASE SweepFails \/ SweepScan \/ SweepSpawn
  BY <1>2, <1>4 DEF SweepFails, SweepScan, SweepSpawn, handlers, rest
<1>5. ASSUME NEW j \in Jobs, NEW i \in Places, RunStep(j, i) PROVE UNCHANGED handlers
  BY <1>5 DEF RunStep, StartVerified, Verify, VerifyFails, AwaitContext, WaitOver, ReadSpec,
              WorkDone, WorkFails, SubmitOk, SubmitRefused, SubmitFails, TimeOut, Finish,
              handlers, rest
<1>6. CASE Restart
  <2>1. /\ note' \in [Handlers -> Notes]
        /\ free' \in [Kinds -> Nat] /\ detached' \in [Kinds -> Nat]
        /\ \A h \in Handlers : note'[h].pc \in Over
        /\ \A k \in Kinds : OnThread(k)' = {} /\ free'[k] = Slots /\ detached'[k] = 0
    BY <1>6, FreshNotes DEF Restart, OnThread
  <2>2. ASSUME NEW k \in Kinds
        PROVE  IsFiniteSet(OnThread(k)') /\ Threads(k)' + free'[k] = Slots
    <3>1. IsFiniteSet({}) /\ Cardinality({}) = 0
      BY FS_EmptySet
    <3>2. Cardinality(OnThread(k)') = 0 /\ IsFiniteSet(OnThread(k)')
      BY <2>1, <3>1
    <3>3. Threads(k)' = 0
      BY <2>1, <3>2 DEF Threads
    <3>4. QED
      BY <2>1, <3>2, <3>3, SellerAssumption
  <2>3. QED
    BY <2>1, <2>2 DEF NoteInv
<1>7. QED
  BY <1>1, <1>2, <1>3, <1>4, <1>5, <1>6, HandlerNotes, ExitNotes DEF Next

LEMMA SellerWorldStep ==
    SellerInv /\ Next => /\ chain' \in [Jobs -> {"open", "funded", "expired", "submitted"}]
                         /\ faults' \in 0..MaxFaults
<1> DEFINE Chains == [Jobs -> {"open", "funded", "expired", "submitted"}]
<1> SUFFICES ASSUME SellerInv, Next PROVE chain' \in Chains /\ faults' \in 0..MaxFaults
  OBVIOUS
<1>1. chain \in Chains /\ faults \in 0..MaxFaults /\ MaxFaults \in Nat
  BY SellerAssumption DEF SellerInv
<1>2. Fault => faults' \in 0..MaxFaults
  BY <1>1 DEF Fault
<1>3. ASSUME NEW j \in Jobs, Fund(j) \/ Expire(j) \/ GracePasses(j)
      PROVE  chain' \in Chains /\ faults' \in 0..MaxFaults
  BY <1>1, <1>2, <1>3 DEF Fund, Expire, GracePasses, rest
<1>4. ASSUME NEW h \in Handlers, NotifyBare(h) \/ NotifyMalformed(h) \/ HandlerStep(h)
      PROVE  chain' \in Chains /\ faults' \in 0..MaxFaults
  BY <1>1, <1>2, <1>4 DEF NotifyBare, NotifyMalformed, HandlerStep, ReadDone, ReadFails,
                          CheckFails, CheckDone, Accept, Acquire, GiveUp
<1>5. ASSUME NEW h \in Handlers, NEW j \in Jobs, NEW c \in Contexts, Notify(h, j, c)
      PROVE  chain' \in Chains /\ faults' \in 0..MaxFaults
  BY <1>1, <1>5 DEF Notify
<1>6. ASSUME NEW k \in Kinds, ThreadExits(k) PROVE chain' \in Chains /\ faults' \in 0..MaxFaults
  BY <1>1, <1>6 DEF ThreadExits
<1>7. CASE SweepFails \/ SweepScan \/ SweepSpawn
  BY <1>1, <1>2, <1>7 DEF SweepFails, SweepScan, SweepSpawn, rest
<1>8. ASSUME NEW j \in Jobs, NEW i \in Places, RunStep(j, i)
      PROVE  chain' \in Chains /\ faults' \in 0..MaxFaults
  <2>1. CASE SubmitOk(j, i) \/ SubmitFails(j, i)
    BY <1>1, <1>2, <2>1 DEF SubmitOk, SubmitFails, rest
  <2>2. CASE ~(SubmitOk(j, i) \/ SubmitFails(j, i))
    BY <1>1, <1>2, <1>8, <2>2
       DEF RunStep, StartVerified, Verify, VerifyFails, AwaitContext, WaitOver, ReadSpec,
           WorkDone, WorkFails, SubmitRefused, TimeOut, Finish, rest
  <2>3. QED
    BY <2>1, <2>2
<1>9. CASE Restart
  BY <1>1, <1>2, <1>9 DEF Restart
<1>10. QED
  BY <1>3, <1>4, <1>5, <1>6, <1>7, <1>8, <1>9 DEF Next

LEMMA SellerStep == SellerInv /\ [Next]_vars => SellerInv'
<1>1. SellerInv /\ Next => SellerInv'
  BY SellerCoreStep, SellerNoteStep, SellerWorldStep DEF SellerInv
<1>2. SellerInv /\ UNCHANGED vars => SellerInv'
  <2> SUFFICES ASSUME SellerInv, UNCHANGED vars PROVE SellerInv'
    OBVIOUS
  <2>1. NoteInv'
    BY NotesUntouched DEF SellerInv, vars
  <2>2. CoreInv(core')
    BY DEF SellerInv, vars
  <2>3. QED
    BY <2>1, <2>2 DEF SellerInv, vars
<1>3. QED
  BY <1>1, <1>2

LEMMA SellerInvariant == Spec => []SellerInv
  BY SellerStart, SellerStep, PTL DEF Spec

(* The semaphores of the threads neither lose a permit nor give one out    *)
(* twice, threads abandoned after a time-out included.                     *)
THEOREM PermitsKept == Spec => []ThreadsBounded
<1>1. SellerInv => ThreadsBounded
  BY DEF SellerInv, NoteInv, ThreadsBounded
<1>2. QED
  BY <1>1, SellerInvariant, PTL

(* The bookkeeping of the seller matches its tasks: well typed, at most one *)
(* delivery of a job at a time, and no mark without a delivery.             *)
THEOREM BookkeepingHolds == Spec => []CoreConsistent
<1>1. SellerInv => CoreConsistent
  <2> SUFFICES ASSUME SellerInv PROVE CoreConsistent
    OBVIOUS
  <2>1. /\ CoreInv(core) /\ NoteInv /\ faults \in 0..MaxFaults
        /\ chain \in [Jobs -> {"open", "funded", "expired", "submitted"}]
    BY DEF SellerInv
  <2>2. free \in [Kinds -> 0..Slots] /\ detached \in [Kinds -> 0..Slots]
    <3> SUFFICES ASSUME NEW k \in Kinds PROVE free[k] \in 0..Slots /\ detached[k] \in 0..Slots
      BY <2>1 DEF NoteInv
    <3>1. /\ free[k] \in Nat /\ detached[k] \in Nat /\ IsFiniteSet(OnThread(k))
          /\ Cardinality(OnThread(k)) + detached[k] + free[k] = Slots
      BY <2>1 DEF NoteInv, Threads
    <3>2. Cardinality(OnThread(k)) \in Nat
      BY <3>1, FS_CardinalityType
    <3>3. QED
      BY <3>1, <3>2, SellerAssumption
  <2>3. TypeOK
    BY <2>1, <2>2 DEF TypeOK, CoreInv, NoteInv
  <2>4. RunsOwned
    <3> SUFFICES ASSUME NEW j \in Jobs
                 PROVE  Cardinality(Live(core, j)) = IF j \in core.inflight THEN 1 ELSE 0
      BY DEF RunsOwned
    <3>1. IF j \in core.inflight THEN \E i \in Places : Live(core, j) = {i}
          ELSE Live(core, j) = {}
      BY <2>1 DEF CoreInv, OneRun
    <3>2. CASE j \in core.inflight
      <4>1. PICK i \in Places : Live(core, j) = {i}
        BY <3>1, <3>2
      <4>2. Cardinality({i}) = 1
        BY FS_Singleton
      <4>3. QED
        BY <3>2, <4>1, <4>2
    <3>3. CASE j \notin core.inflight
      <4>1. Live(core, j) = {} /\ Cardinality({}) = 0
        BY <3>1, <3>3, FS_EmptySet
      <4>2. QED
        BY <3>3, <4>1
    <3>4. QED
      BY <3>2, <3>3
  <2>5. QED
    BY <2>1, <2>3, <2>4 DEF CoreConsistent, CoreInv
<1>2. QED
  BY <1>1, SellerInvariant, PTL

(* The context of a delivery stays the one its work was begun with.        *)
THEOREM ContextsStay == Spec => []ContextStable
<1>1. SellerInv => ContextStable
  BY DEF SellerInv, CoreInv, WorkMarked, ContextStable
<1>2. QED
  BY <1>1, SellerInvariant, PTL

(* A job that is done leaves nothing behind, and one whose submission is   *)
(* known to have succeeded is not worked on again.                         *)
THEOREM DoneStaysDone == Spec => []DoneIsDone
<1>1. SellerInv => DoneIsDone
  BY DEF SellerInv, CoreInv, DoneIsDone
<1>2. QED
  BY <1>1, SellerInvariant, PTL

-----------------------------------------------------------------------------
(* Below _MAX_TRACKED_JOBS a context stays until its job is handled.       *)

Grows(s, t) ==
    \A j \in Jobs : s.context[j] # None \/ j \in s.handled => t.context[j] # None \/ j \in t.handled

LEMMA NothingEvicted ==
    ASSUME Roomy, NEW s \in Cores, NEW j, NEW e \in Evictions(s, j)
    PROVE  e = {}
<1> DEFINE T == Tracked(s)
           can == Evictable(s, j)
<1>1. T \in SUBSET Jobs /\ can \in SUBSET T
  BY DEF Tracked, Awaited, Evictable, Cores
<1>2. IsFiniteSet(Jobs) /\ Cardinality(Jobs) <= MaxTracked /\ MaxTracked \in Nat
  BY SellerAssumption DEF Roomy
<1>3. e \in SUBSET can
  BY DEF Evictions
<1>4. Cardinality(e) = IF Cardinality(T) - MaxTracked <= 0 THEN 0
                       ELSE IF Cardinality(T) - MaxTracked < Cardinality(can)
                            THEN Cardinality(T) - MaxTracked ELSE Cardinality(can)
  BY DEF Evictions
<1> HIDE DEF T, can
<1>5. /\ IsFiniteSet(T) /\ Cardinality(T) <= Cardinality(Jobs)
      /\ Cardinality(T) \in Nat /\ Cardinality(Jobs) \in Nat
  BY <1>1, <1>2, FS_Subset, FS_CardinalityType
<1>6. e \in SUBSET T
  BY <1>1, <1>3
<1>7. IsFiniteSet(e)
  BY <1>5, <1>6, FS_Subset
<1>8. Cardinality(T) - MaxTracked <= 0
  BY <1>2, <1>5
<1>9. Cardinality(e) = 0
  BY <1>4, <1>8
<1>10. QED
  BY <1>7, <1>9, FS_EmptySet

LEMMA ForgetNothing ==
    ASSUME Roomy, NEW s \in Cores, NEW j, NEW e \in Evictions(s, j)
    PROVE  /\ Forget(s, e) \in Cores /\ Forget(s, e).context = s.context
           /\ Forget(s, e).handled = s.handled /\ Forget(s, e).runs = s.runs
<1>1. e = {}
  BY NothingEvicted
<1>2. s.context \in [Jobs -> Contexts \cup {None}]
  BY DEF Cores
<1>3. /\ Forget(s, {}) \in Cores
      /\ Forget(s, {}).context = [l \in Jobs |-> IF l \in {} THEN None ELSE s.context[l]]
      /\ Forget(s, {}).handled = s.handled /\ Forget(s, {}).runs = s.runs
  BY ForgetFields
<1>4. [l \in Jobs |-> IF l \in {} THEN None ELSE s.context[l]] = s.context
  BY <1>2
<1>5. QED
  BY <1>1, <1>3, <1>4

(* One task moves on.                                                      *)
LEMMA KeptRun ==
    ASSUME NEW s, ContextKept(s), NEW j \in Jobs, NEW i \in Places, NEW run,
           NEW t, t.context = s.context, t.handled = s.handled,
           t.runs[j][i] = run,
           \A l \in Jobs, k \in Places : l # j \/ k # i => t.runs[l][k] = s.runs[l][k],
           run.verified => /\ run.pc \notin {"report", "wait"}
                           /\ run.pc = "spawned" => s.context[j] # None
                           /\ run.pc \in Working => run.ctx # None
    PROVE  ContextKept(t) /\ Grows(s, t)
<1>1. ContextKept(t)
  <2> SUFFICES ASSUME NEW l \in Jobs, NEW k \in Places, t.runs[l][k].verified
               PROVE  /\ t.runs[l][k].pc \notin {"report", "wait"}
                      /\ t.runs[l][k].pc = "spawned" => t.context[l] # None
                      /\ t.runs[l][k].pc \in Working => t.runs[l][k].ctx # None
    BY DEF ContextKept
  <2>1. CASE l = j /\ k = i
    BY <2>1
  <2>2. CASE ~(l = j /\ k = i)
    BY <2>2 DEF ContextKept
  <2>3. QED
    BY <2>1, <2>2
<1>2. QED
  BY <1>1 DEF Grows

LEMMA KeptEnd ==
    ASSUME NEW s \in Cores, ContextKept(s), NEW j \in Jobs, NEW i \in Places,
           NEW terminal \in BOOLEAN
    PROVE  ContextKept(End(s, j, i, terminal)) /\ Grows(s, End(s, j, i, terminal))
<1> DEFINE run == [s.runs[j][i] EXCEPT !.pc = "ended", !.terminal = terminal]
<1>1. s.runs[j][i] \in Runs
  BY DEF Cores
<1>2. run \in Runs /\ run.pc = "ended"
  BY <1>1 DEF Runs, RunStates
<1>3. End(s, j, i, terminal) = SetRun(s, j, i, run)
  BY DEF End
<1> HIDE DEF run
<1>4. QED
  BY <1>2, <1>3, SetRunFields, KeptRun DEF Working

LEMMA KeptStart ==
    ASSUME NEW s \in Cores, ContextKept(s), NEW j \in Jobs, NEW i \in Places,
           s.runs[j][i].pc \in {"spawned", "report", "wait"}
    PROVE  ContextKept(StartWork(s, j, i)) /\ Grows(s, StartWork(s, j, i))
<1> DEFINE run == [s.runs[j][i] EXCEPT !.ctx = s.context[j],
                     !.pc = IF s.runs[j][i].verified /\ j \notin s.specs THEN "spec" ELSE "work"]
           started == SetRun(s, j, i, run)
           t == StartWork(s, j, i)
<1>1. s.runs[j][i] \in Runs /\ s.context[j] \in Contexts \cup {None}
  BY DEF Cores
<1>2. /\ run \in Runs /\ run.pc \in {"spec", "work"} /\ run.ctx = s.context[j]
      /\ run.verified = s.runs[j][i].verified
  BY <1>1 DEF Runs, RunStates
<1>3. s.runs[j][i].verified => s.context[j] # None
  BY DEF ContextKept
<1>4. t = IF s.context[j] = None THEN [started EXCEPT !.contextless = @ \cup {j}] ELSE started
  BY DEF StartWork
<1> HIDE DEF run, t
<1>5. /\ started \in Cores /\ started.context = s.context /\ started.handled = s.handled
      /\ started.runs[j][i] = run
      /\ \A l \in Jobs, k \in Places : l # j \/ k # i => started.runs[l][k] = s.runs[l][k]
  BY <1>2, SetRunFields
<1> HIDE DEF started
<1>6. t.context = s.context /\ t.handled = s.handled /\ t.runs = started.runs
  BY <1>4, <1>5 DEF Cores
<1>7. QED
  BY <1>2, <1>3, <1>5, <1>6, KeptRun DEF t

LEMMA KeptAfterWait ==
    ASSUME NEW s \in Cores, ContextKept(s), NEW j \in Jobs, NEW i \in Places,
           s.runs[j][i].pc \in {"report", "wait"}
    PROVE  ContextKept(AfterWait(s, j, i)) /\ Grows(s, AfterWait(s, j, i))
  BY KeptStart, KeptEnd DEF AfterWait

LEMMA KeptExits ==
    ASSUME NEW s \in Cores, ContextKept(s), NEW j \in Jobs, NEW i \in Places,
           NEW ok \in BOOLEAN, NEW skip \in BOOLEAN
    PROVE  ContextKept(Exits(s, j, i, ok, skip)) /\ Grows(s, Exits(s, j, i, ok, skip))
<1> DEFINE d == [s EXCEPT !.delivered = IF ok THEN @ \cup {j} ELSE @]
           t == Exits(s, j, i, ok, skip)
<1>1. d \in Cores /\ d.context = s.context /\ d.handled = s.handled /\ d.runs = s.runs
  BY DEF Cores
<1>2. ContextKept(d)
  BY <1>1 DEF ContextKept
<1>3. \/ t = [End(d, j, i, FALSE) EXCEPT !.late = IF ok THEN @ \cup {j} ELSE @]
      \/ t = End(d, j, i, ok \/ skip)
  BY DEF Exits
<1> HIDE DEF d
<1>4. ASSUME NEW terminal \in BOOLEAN
      PROVE  /\ End(d, j, i, terminal) \in Cores
             /\ ContextKept(End(d, j, i, terminal)) /\ Grows(d, End(d, j, i, terminal))
  <2> DEFINE run == [d.runs[j][i] EXCEPT !.pc = "ended", !.terminal = terminal]
  <2>1. d.runs[j][i] \in Runs
    BY <1>1 DEF Cores
  <2>2. run \in Runs
    BY <2>1 DEF Runs, RunStates
  <2>3. End(d, j, i, terminal) = SetRun(d, j, i, run)
    BY DEF End
  <2> HIDE DEF run
  <2>4. QED
    BY <1>1, <1>2, <2>2, <2>3, SetRunFields, KeptEnd
<1>5. CASE t = End(d, j, i, ok \/ skip)
  <2>1. (ok \/ skip) \in BOOLEAN
    OBVIOUS
  <2>2. ContextKept(End(d, j, i, ok \/ skip)) /\ Grows(d, End(d, j, i, ok \/ skip))
    BY <1>4, <2>1
  <2>3. QED
    BY <1>1, <1>5, <2>2 DEF Grows
<1>6. CASE t = [End(d, j, i, FALSE) EXCEPT !.late = IF ok THEN @ \cup {j} ELSE @]
  <2> DEFINE f == End(d, j, i, FALSE)
  <2>1. f \in Cores /\ ContextKept(f) /\ Grows(d, f)
    BY <1>4
  <2> HIDE DEF f
  <2>2. t.context = f.context /\ t.handled = f.handled /\ t.runs = f.runs
    BY <1>6, <2>1 DEF Cores, f
  <2>3. QED
    BY <1>1, <2>1, <2>2 DEF Grows, ContextKept
<1>7. QED
  BY <1>3, <1>5, <1>6

LEMMA KeptSpawn ==
    ASSUME NEW s, CoreInv(s), ContextKept(s), NEW jobs \in SUBSET Jobs, NEW verified \in BOOLEAN,
           verified => \A j \in jobs : s.context[j] # None \/ j \in s.handled
    PROVE  /\ ContextKept(SpawnJobs(s, jobs, verified))
           /\ Grows(s, SpawnJobs(s, jobs, verified))
<1> DEFINE t == SpawnJobs(s, jobs, verified)
           new == jobs \ (s.handled \cup s.late \cup s.inflight)
           run == NewRun(verified)
<1>1. s \in Cores
  BY DEF CoreInv
<1>2. Spawned(s, t, new, run)
  BY <1>1, SpawnFields, Zenon
<1>3. run.pc = "spawned" /\ run.verified = verified
  BY DEF NewRun, NoRun
<1>4. \A j \in new : verified => s.context[j] # None
  OBVIOUS
<1> HIDE DEF t, new, run
<1>5. ContextKept(t)
  <2> SUFFICES ASSUME NEW l \in Jobs, NEW k \in Places, t.runs[l][k].verified
               PROVE  /\ t.runs[l][k].pc \notin {"report", "wait"}
                      /\ t.runs[l][k].pc = "spawned" => t.context[l] # None
                      /\ t.runs[l][k].pc \in Working => t.runs[l][k].ctx # None
    BY DEF ContextKept
  <2>1. CASE l \in new /\ k = FreePlace(s, l)
    <3>1. t.runs[l][k] = run /\ t.context = s.context
      BY <1>2, <2>1 DEF Spawned
    <3>2. QED
      BY <1>3, <1>4, <2>1, <3>1 DEF Working
  <2>2. CASE ~(l \in new /\ k = FreePlace(s, l))
    BY <1>2, <2>2 DEF Spawned, ContextKept
  <2>3. QED
    BY <2>1, <2>2
<1>6. Grows(s, t)
  BY <1>2 DEF Spawned, Grows
<1>7. QED
  BY <1>5, <1>6 DEF t

LEMMA KeptFinish ==
    ASSUME CoreInv(core), ContextKept(core), NEW j \in Jobs, NEW i \in Places, Finish(j, i)
    PROVE  ContextKept(core') /\ Grows(core, core')
<1> DEFINE u == SetRun(core, j, i, NoRun)
<1>1. /\ core.runs[j][i].pc = "ended"
      /\ core' = IF core.runs[j][i].terminal \/ j \in core.late
                 THEN CleanUp(u, j) ELSE Release(u, j, core.runs[j][i].verified)
  BY DEF Finish
<1>2. CASE core.runs[j][i].terminal \/ j \in core.late
  <2> DEFINE t == CleanUp(u, j)
  <2>1. core' = t
    BY <1>1, <1>2
  <2>2. /\ t.handled = core.handled \cup {j}
        /\ \A l \in Jobs : l # j => t.context[l] = core.context[l]
        /\ \A l \in Jobs, k \in Places :
             IF l = j THEN t.runs[l][k].pc = "idle" ELSE t.runs[l][k] = core.runs[l][k]
    BY <1>1, CleanUpKeeps
  <2> HIDE DEF t
  <2>3. QED
    BY <2>1, <2>2 DEF ContextKept, Grows, Working
<1>3. CASE ~(core.runs[j][i].terminal \/ j \in core.late)
  <2> DEFINE t == [u EXCEPT !.inflight = @ \ {j}, !.unverified = @ \ {j},
                            !.contextless = @ \ {j}, !.pending = @ \ {j}]
  <2>1. core' = IF ~core.runs[j][i].verified /\ j \in u.pending /\ u.context[j] # None
                THEN SpawnJobs(t, {j}, TRUE) ELSE t
    BY <1>1, <1>3 DEF Release
  <2>2. /\ CoreInv(t) /\ t.handled = core.handled /\ t.context = core.context
        /\ \A l \in Jobs, k \in Places :
             IF l = j THEN t.runs[l][k].pc = "idle" ELSE t.runs[l][k] = core.runs[l][k]
    <3>1. /\ core.runs[j][i].pc = "ended" /\ ~core.runs[j][i].terminal /\ j \notin core.late
      BY <1>1, <1>3
    <3>2. CoreInv(t) /\ Left(core, t, j)
      BY <3>1, ReleasedKeeps
    <3>3. QED
      BY <3>2 DEF Left
  <2>3. u.context = core.context
    BY <1>1, LeaveFields
  <2> HIDE DEF t, u
  <2>4. ContextKept(t) /\ Grows(core, t)
    BY <2>2 DEF ContextKept, Grows, Working
  <2>5. CASE core' = t
    BY <2>4, <2>5
  <2>6. CASE core' = SpawnJobs(t, {j}, TRUE) /\ u.context[j] # None
    <3>1. t.context[j] # None
      BY <2>2, <2>3, <2>6
    <3>2. \A l \in {j} : t.context[l] # None \/ l \in t.handled
      BY <3>1
    <3>3. {j} \in SUBSET Jobs
      OBVIOUS
    <3>4. ContextKept(SpawnJobs(t, {j}, TRUE)) /\ Grows(t, SpawnJobs(t, {j}, TRUE))
      BY <2>2, <2>4, <3>2, <3>3, KeptSpawn
    <3>5. QED
      BY <2>4, <2>6, <3>4 DEF Grows
  <2>7. QED
    BY <2>1, <2>5, <2>6
<1>4. QED
  BY <1>2, <1>3

LEMMA KeptAwait ==
    ASSUME Roomy, CoreInv(core), ContextKept(core), NEW j \in Jobs, NEW i \in Places,
           AwaitContext(j, i)
    PROVE  ContextKept(core') /\ Grows(core, core')
<1> DEFINE known == [core EXCEPT !.specs = @ \cup {j}]
<1>1. core \in Cores /\ core.runs[j][i].pc = "report" /\ core.runs[j][i] \in Runs
  BY DEF AwaitContext, At, CoreInv, Cores
<1>2. /\ known \in Cores /\ known.runs = core.runs
      /\ known.context = core.context /\ known.handled = core.handled
  BY <1>1 DEF Cores
<1>3. PICK e \in Evictions(known, j) :
        LET s == Forget(known, e)
            w == [s EXCEPT !.deadlines = IF j \in Awaited(s) THEN @
                                         ELSE @ \cup ((Awaited(s) \cup {j}) \X {j})]
        IN  core' = CASE s.context[j] # None -> StartWork(s, j, i)
                      [] s.context[j] = None /\ j \in s.passed \cup s.signalled -> AfterWait(s, j, i)
                      [] OTHER -> [w EXCEPT !.runs[j][i].pc = "wait"]
  BY DEF AwaitContext
<1> HIDE DEF known
<1> DEFINE s == Forget(known, e)
           w == [s EXCEPT !.deadlines = IF j \in Awaited(s) THEN @
                                        ELSE @ \cup ((Awaited(s) \cup {j}) \X {j})]
           t == [w EXCEPT !.runs[j][i].pc = "wait"]
<1>4. s \in Cores /\ s.runs = core.runs /\ s.context = core.context /\ s.handled = core.handled
  BY <1>2, ForgetNothing
<1>5. core' = CASE s.context[j] # None -> StartWork(s, j, i)
                [] s.context[j] = None /\ j \in s.passed \cup s.signalled -> AfterWait(s, j, i)
                [] OTHER -> t
  BY <1>3
<1> HIDE DEF s
<1>6. ContextKept(s)
  BY <1>4 DEF ContextKept
<1>7. ContextKept(StartWork(s, j, i)) /\ Grows(s, StartWork(s, j, i))
  BY <1>1, <1>4, <1>6, KeptStart
<1>8. ContextKept(AfterWait(s, j, i)) /\ Grows(s, AfterWait(s, j, i))
  BY <1>1, <1>4, <1>6, KeptAfterWait
<1>9. ContextKept(t) /\ Grows(s, t)
  <2> DEFINE run == [s.runs[j][i] EXCEPT !.pc = "wait"]
             some == IF j \in Awaited(s) THEN s.deadlines
                     ELSE s.deadlines \cup ((Awaited(s) \cup {j}) \X {j})
  <2>1. run.pc = "wait" /\ run.verified = core.runs[j][i].verified
    BY <1>1, <1>4 DEF Runs
  <2>2. ~core.runs[j][i].verified
    BY <1>1 DEF ContextKept
  <2>3. w = [s EXCEPT !.deadlines = some]
    OBVIOUS
  <2> HIDE DEF some, w
  <2>4. w.runs = s.runs /\ w.context = s.context /\ w.handled = s.handled
    BY <1>4, <2>3 DEF Cores
  <2>5. "runs" \in DOMAIN w /\ "context" \in DOMAIN w /\ "handled" \in DOMAIN w
    BY <1>4, <2>3 DEF Cores
  <2>6. t = [w EXCEPT !.runs = [w.runs EXCEPT ![j] = [w.runs[j] EXCEPT ![i] = run]]]
    BY <2>4
  <2>7. s.runs \in [Jobs -> [Places -> Runs]]
    BY <1>4 DEF Cores
  <2> HIDE DEF run, t
  <2>8. /\ t.context = s.context /\ t.handled = s.handled
        /\ t.runs = [s.runs EXCEPT ![j] = [s.runs[j] EXCEPT ![i] = run]]
    BY <2>4, <2>5, <2>6
  <2>9. /\ t.runs[j][i] = run
        /\ \A l \in Jobs, k \in Places : l # j \/ k # i => t.runs[l][k] = s.runs[l][k]
    BY <2>7, <2>8
  <2>10. QED
    BY <1>6, <2>1, <2>2, <2>8, <2>9, KeptRun
<1>10. ContextKept(core') /\ Grows(s, core')
  BY <1>5, <1>7, <1>8, <1>9
<1>11. QED
  BY <1>4, <1>10 DEF Grows

LEMMA KeptRunStep ==
    ASSUME Roomy, CoreInv(core), ContextKept(core), NEW j \in Jobs, NEW i \in Places,
           RunStep(j, i)
    PROVE  ContextKept(core') /\ Grows(core, core')
<1>1. core \in Cores /\ core.runs[j][i] \in Runs
  BY DEF CoreInv, Cores
<1>2. ASSUME NEW run \in Runs, core' = SetRun(core, j, i, run),
             run.verified = core.runs[j][i].verified, run.ctx = core.runs[j][i].ctx,
             run.verified => run.pc \notin {"report", "wait", "spawned"},
             run.pc \in Working => core.runs[j][i].pc \in Working
      PROVE  ContextKept(core') /\ Grows(core, core')
  <2>1. run.verified /\ run.pc \in Working => run.ctx # None
    BY <1>2 DEF ContextKept
  <2>2. QED
    BY <1>1, <1>2, <2>1, SetRunFields, KeptRun, SMTT(40)
<1>3. ASSUME NEW terminal \in BOOLEAN, core' = End(core, j, i, terminal)
      PROVE  ContextKept(core') /\ Grows(core, core')
  BY <1>1, <1>3, KeptEnd
<1>4. CASE StartVerified(j, i)
  BY <1>1, <1>4, KeptStart DEF StartVerified, At
<1>5. CASE Verify(j, i)
  <2> DEFINE run == [core.runs[j][i] EXCEPT !.pc = "report"]
  <2>1. run \in Runs /\ run.pc = "report" /\ run.verified = core.runs[j][i].verified
        /\ run.ctx = core.runs[j][i].ctx
    BY <1>1 DEF Runs, RunStates
  <2>2. /\ ~core.runs[j][i].verified
        /\ \/ core' = SetRun(core, j, i, run)
           \/ core' = End(core, j, i, Verdict(j) = "permanent")
    BY <1>5 DEF Verify
  <2> HIDE DEF run
  <2>3. CASE core' = SetRun(core, j, i, run)
    BY <1>2, <2>1, <2>2, <2>3 DEF Working
  <2>4. CASE core' = End(core, j, i, Verdict(j) = "permanent")
    <3>1. (Verdict(j) = "permanent") \in BOOLEAN
      OBVIOUS
    <3>2. QED
      BY <1>3, <2>4, <3>1
  <2>5. QED
    BY <2>2, <2>3, <2>4
<1>6. CASE VerifyFails(j, i) \/ WorkFails(j, i)
  BY <1>3, <1>6 DEF VerifyFails, WorkFails
<1>7. CASE AwaitContext(j, i)
  BY <1>7, KeptAwait
<1>8. CASE WaitOver(j, i)
  BY <1>1, <1>8, KeptAfterWait DEF WaitOver, At
<1>9. ASSUME NEW where \in {"work", "submit"}, core.runs[j][i].pc \in Working, Move(j, i, where)
      PROVE  ContextKept(core') /\ Grows(core, core')
  <2> DEFINE run == [core.runs[j][i] EXCEPT !.pc = where]
  <2>1. /\ run \in Runs /\ run.pc = where /\ run.verified = core.runs[j][i].verified
        /\ run.ctx = core.runs[j][i].ctx
    BY <1>1 DEF Runs, RunStates
  <2>2. core' = SetRun(core, j, i, run)
    BY <1>9 DEF Move, SetRun
  <2> HIDE DEF run
  <2>3. QED
    BY <1>2, <1>9, <2>1, <2>2
<1>10. CASE ReadSpec(j, i)
  BY <1>3, <1>9, <1>10 DEF ReadSpec, At, Working
<1>11. CASE WorkDone(j, i)
  BY <1>9, <1>11 DEF WorkDone, At, Working
<1>12. CASE SubmitOk(j, i) \/ SubmitRefused(j, i) \/ SubmitFails(j, i)
  <2>1. \/ core' = Exits(core, j, i, TRUE, FALSE)
        \/ \E skip \in BOOLEAN : core' = Exits(core, j, i, FALSE, skip)
    BY <1>12 DEF SubmitOk, SubmitRefused, SubmitFails
  <2>2. QED
    BY <1>1, <2>1, KeptExits
<1>13. CASE TimeOut(j, i)
  <2> DEFINE run == [core.runs[j][i] EXCEPT !.cut = TRUE]
  <2>1. /\ run \in Runs /\ run.pc = core.runs[j][i].pc /\ run.ctx = core.runs[j][i].ctx
        /\ run.verified = core.runs[j][i].verified
    BY <1>1 DEF Runs
  <2>2. \/ core.runs[j][i].pc = "submit" /\ core' = SetRun(core, j, i, run)
        \/ core' = End(core, j, i, FALSE)
    BY <1>13 DEF TimeOut, SetRun, At
  <2> HIDE DEF run
  <2>3. QED
    BY <1>2, <1>3, <2>1, <2>2
<1>14. CASE Finish(j, i)
  BY <1>14, KeptFinish
<1>15. QED
  BY <1>4, <1>5, <1>6, <1>7, <1>8, <1>10, <1>11, <1>12, <1>13, <1>14 DEF RunStep

LEMMA KeptSame ==
    ASSUME NEW s, ContextKept(s),
           NEW t, t.context = s.context, t.handled = s.handled, t.runs = s.runs
    PROVE  ContextKept(t) /\ Grows(s, t)
  BY DEF ContextKept, Grows

LEMMA KeptSweep ==
    ASSUME CoreInv(core), ContextKept(core)
    PROVE  /\ ContextKept(SpawnSweep(core)) /\ Grows(core, SpawnSweep(core))
           /\ SweepFails \/ SweepScan \/ SweepSpawn => ContextKept(core') /\ Grows(core, core')
<1>1. core \in Cores
  BY DEF CoreInv
<1>2. ContextKept(SpawnSweep(core)) /\ Grows(core, SpawnSweep(core))
  <2> DEFINE t == SpawnSweep(core)
  <2>1. t.context = core.context /\ t.handled = core.handled /\ t.runs = core.runs
    BY <1>1 DEF SpawnSweep, Cores
  <2> HIDE DEF t
  <2>2. ContextKept(t) /\ Grows(core, t)
    BY <2>1, KeptSame
  <2>3. QED
    BY <2>2 DEF t
<1>3. CASE SweepFails \/ SweepScan
  <2>1. /\ core'.context = core.context /\ core'.handled = core.handled
        /\ core'.runs = core.runs
    BY <1>1, <1>3 DEF SweepFails, SweepScan, Cores
  <2>2. QED
    BY <1>2, <2>1, KeptSame
<1>4. CASE SweepSpawn
  <2> DEFINE t == SpawnJobs(core, core.found, FALSE)
  <2>1. core' = [t EXCEPT !.sweep = "idle", !.found = {}]
    BY <1>4 DEF SweepSpawn
  <2>2. core.found \in SUBSET Jobs
    BY <1>1 DEF Cores
  <2>3. CoreInv(t) /\ t \in Cores
    BY <2>2, SpawnKeeps DEF CoreInv
  <2>4. ContextKept(t) /\ Grows(core, t)
    BY <2>2, KeptSpawn
  <2> HIDE DEF t
  <2>5. core'.context = t.context /\ core'.handled = t.handled /\ core'.runs = t.runs
    BY <2>1, <2>3 DEF Cores
  <2>6. ContextKept(core') /\ Grows(t, core')
    BY <2>4, <2>5, KeptSame
  <2>7. QED
    BY <1>2, <2>4, <2>6 DEF Grows
<1>5. QED
  BY <1>2, <1>3, <1>4

LEMMA KeptAccept ==
    ASSUME SellerInv, AcceptedInv, NEW h \in Handlers, Accept(h)
    PROVE  ContextKept(core') /\ Grows(core, core')
<1> DEFINE j == note[h].job
           t == SpawnJobs(core, {j}, TRUE)
<1>1. CoreInv(core) /\ ContextKept(core) /\ note[h].pc = "report" /\ j \in Jobs
  BY DEF SellerInv, NoteInv, AcceptedInv, Accept, Over
<1>2. core' = SpawnSweep(t)
  BY DEF Accept
<1>3. \A l \in {j} : core.context[l] # None \/ l \in core.handled
  BY <1>1 DEF AcceptedInv
<1>4. {j} \in SUBSET Jobs
  BY <1>1
<1>5. CoreInv(t) /\ ContextKept(t) /\ Grows(core, t)
  BY <1>1, <1>3, <1>4, SpawnKeeps, KeptSpawn
<1> HIDE DEF t
<1>6. core'.context = t.context /\ core'.handled = t.handled /\ core'.runs = t.runs
  BY <1>2, <1>5, SweepKeeps DEF SpawnSweep
<1>7. QED
  BY <1>5, <1>6 DEF ContextKept, Grows

LEMMA KeptCheck ==
    ASSUME Roomy, SellerInv, AcceptedInv, NEW h \in Handlers, CheckDone(h)
    PROVE  /\ ContextKept(core') /\ Grows(core, core')
           /\ note' # note /\ note'[h].pc = "report" => core'.context[note'[h].job] # None
           /\ \A l \in Handlers : l # h => note'[l] = note[l]
<1> DEFINE j == note[h].job
           c == note[h].ctx
<1>1. /\ CoreInv(core) /\ ContextKept(core) /\ core \in Cores
      /\ note \in [Handlers -> Notes] /\ j \in Jobs /\ c \in Contexts
  BY DEF SellerInv, NoteInv, AcceptedInv, CheckDone, Over, CoreInv
<1>2. \A l \in Handlers : l # h => note'[l] = note[l]
  BY <1>1 DEF CheckDone, Answer, SetNote
<1>3. CASE core' = core /\ Answer(h, "rejected")
  <2>1. note'[h].pc = "rejected"
    BY <1>1, <1>3 DEF Answer, SetNote
  <2>2. QED
    BY <1>1, <1>2, <1>3, <2>1 DEF ContextKept, Grows
<1>4. CASE ~(core' = core /\ Answer(h, "rejected"))
  <2>1. PICK e \in Evictions(core, j) :
          LET s == Forget(core, e)
          IN  IF Conflict(s, j, c) THEN core' = s /\ Answer(h, "rejected")
              ELSE /\ core' = [s EXCEPT !.context[j] = c, !.specs = @ \cup {j},
                                        !.signalled = @ \cup (Awaited(s) \cap {j})]
                   /\ SetNote(h, "report", j, c)
    BY <1>4 DEF CheckDone
  <2> DEFINE s == Forget(core, e)
             t == [s EXCEPT !.context[j] = c, !.specs = @ \cup {j},
                            !.signalled = @ \cup (Awaited(s) \cap {j})]
  <2>2. /\ s \in Cores /\ s.context = core.context /\ s.handled = core.handled
        /\ s.runs = core.runs
    BY <1>1, ForgetNothing
  <2>3. \/ core' = s /\ Answer(h, "rejected")
        \/ core' = t /\ SetNote(h, "report", j, c)
    BY <2>1
  <2> HIDE DEF s
  <2>4. /\ t.context = [core.context EXCEPT ![j] = c] /\ t.handled = core.handled
        /\ t.runs = core.runs
    BY <2>2 DEF Cores
  <2> HIDE DEF t
  <2>5. core.context \in [Jobs -> Contexts \cup {None}] /\ c # None
    BY <1>1, SellerAssumption DEF Cores
  <2>6. CASE core' = s /\ Answer(h, "rejected")
    <3>1. note'[h].pc = "rejected"
      BY <1>1, <2>6 DEF Answer, SetNote
    <3>2. QED
      BY <1>1, <1>2, <2>2, <2>6, <3>1 DEF ContextKept, Grows
  <2>7. CASE core' = t /\ SetNote(h, "report", j, c)
    <3>1. note'[h].job = j
      BY <1>1, <2>7 DEF SetNote
    <3>2. core'.context[j] # None
      BY <1>1, <2>4, <2>5, <2>7
    <3>3. \A l \in Jobs : core.context[l] # None => core'.context[l] # None
      BY <2>4, <2>5, <2>7
    <3>4. core'.runs = core.runs /\ core'.handled = core.handled
      BY <2>4, <2>7
    <3>5. ContextKept(core') /\ Grows(core, core')
      BY <1>1, <3>3, <3>4 DEF ContextKept, Grows
    <3>6. QED
      BY <1>2, <3>1, <3>2, <3>5
  <2>8. QED
    BY <2>3, <2>6, <2>7
<1>5. QED
  BY <1>3, <1>4

(* Handlers that do not end their check keep what they have.               *)
LEMMA AcceptedByGrowth ==
    ASSUME SellerInv, AcceptedInv, ContextKept(core'), Grows(core, core'),
           \A h \in Handlers : note'[h].pc = "report" => note'[h] = note[h]
    PROVE  AcceptedInv'
<1> SUFFICES ASSUME NEW h \in Handlers, note'[h].pc = "report"
             PROVE  core'.context[note'[h].job] # None \/ note'[h].job \in core'.handled
  BY DEF AcceptedInv
<1>1. note'[h] = note[h] /\ note[h].pc = "report" /\ note[h].job \in Jobs
  BY DEF SellerInv, NoteInv, Over
<1>2. core.context[note[h].job] # None \/ note[h].job \in core.handled
  BY <1>1 DEF AcceptedInv
<1>3. QED
  BY <1>1, <1>2 DEF Grows

LEMMA AcceptedStep ==
    ASSUME Roomy PROVE SellerInv /\ AcceptedInv /\ [Next]_vars => AcceptedInv'
<1> SUFFICES ASSUME SellerInv, AcceptedInv, [Next]_vars PROVE AcceptedInv'
  OBVIOUS
<1>1. CoreInv(core) /\ ContextKept(core) /\ note \in [Handlers -> Notes]
  BY DEF SellerInv, AcceptedInv, NoteInv
<1>2. Grows(core, core)
  BY DEF Grows
<1>3. ASSUME UNCHANGED core, \A h \in Handlers : note'[h].pc = "report" => note'[h] = note[h]
      PROVE  AcceptedInv'
  BY <1>1, <1>2, <1>3, AcceptedByGrowth
<1>4. ASSUME ContextKept(core'), Grows(core, core'), UNCHANGED note PROVE AcceptedInv'
  BY <1>4, AcceptedByGrowth
<1>5. CASE UNCHANGED vars
  BY <1>3, <1>5 DEF vars
<1>6. ASSUME NEW j \in Jobs, Fund(j) \/ Expire(j) PROVE AcceptedInv'
  BY <1>3, <1>6 DEF Fund, Expire
<1>7. ASSUME NEW j \in Jobs, GracePasses(j) PROVE AcceptedInv'
  <2>1. core' = [core EXCEPT !.passed = @ \cup {j}] /\ core \in Cores /\ UNCHANGED note
    BY <1>1, <1>7 DEF GracePasses, CoreInv, rest, handlers
  <2>2. core'.context = core.context /\ core'.handled = core.handled /\ core'.runs = core.runs
    BY <2>1 DEF Cores
  <2>3. QED
    BY <1>1, <1>4, <2>1, <2>2 DEF ContextKept, Grows
<1>8. ASSUME NEW h \in Handlers, NotifyBare(h) PROVE AcceptedInv'
  <2>1. core' = SpawnSweep(core) /\ Answer(h, "accepted")
    BY <1>8 DEF NotifyBare
  <2>2. \A l \in Handlers : note'[l].pc = "report" => note'[l] = note[l]
    BY <1>1, <2>1 DEF Answer, SetNote
  <2>3. QED
    BY <1>1, <2>1, <2>2, KeptSweep, AcceptedByGrowth
<1>9. ASSUME NEW h \in Handlers, CheckDone(h) PROVE AcceptedInv'
  <2>1. /\ ContextKept(core') /\ Grows(core, core')
        /\ note' # note /\ note'[h].pc = "report" => core'.context[note'[h].job] # None
        /\ \A l \in Handlers : l # h => note'[l] = note[l]
    BY <1>9, KeptCheck
  <2>2. CASE note' = note
    BY <1>4, <2>1, <2>2
  <2>3. CASE note' # note
    <3> SUFFICES ASSUME NEW l \in Handlers, note'[l].pc = "report"
                 PROVE  core'.context[note'[l].job] # None \/ note'[l].job \in core'.handled
      BY <2>1 DEF AcceptedInv
    <3>1. CASE l = h
      BY <2>1, <2>3, <3>1
    <3>2. CASE l # h
      <4>1. note'[l] = note[l] /\ note[l].job \in Jobs
        BY <2>1, <3>2 DEF SellerInv, NoteInv, Over
      <4>2. QED
        BY <2>1, <4>1 DEF AcceptedInv, Grows
    <3>3. QED
      BY <3>1, <3>2
  <2>4. QED
    BY <2>2, <2>3
<1>10. ASSUME NEW h \in Handlers, Accept(h) PROVE AcceptedInv'
  <2>1. \A l \in Handlers : note'[l].pc = "report" => note'[l] = note[l]
    BY <1>1, <1>10 DEF Accept, Answer, SetNote
  <2>2. QED
    BY <1>10, <2>1, KeptAccept, AcceptedByGrowth
<1>11. ASSUME NEW h \in Handlers,
              NotifyMalformed(h) \/ ReadDone(h) \/ ReadFails(h) \/ CheckFails(h)
       PROVE  AcceptedInv'
  <2>1. /\ UNCHANGED core
        /\ \/ Answer(h, "rejected") \/ Answer(h, "unavailable")
           \/ SetNote(h, "check", note[h].job, note[h].ctx)
    BY <1>11 DEF NotifyMalformed, ReadDone, ReadFails, CheckFails, Verdict
  <2>2. \A l \in Handlers : note'[l].pc = "report" => note'[l] = note[l]
    BY <1>1, <2>1 DEF Answer, SetNote
  <2>3. QED
    BY <1>3, <2>1, <2>2
<1>12. ASSUME NEW h \in Handlers, NEW k \in Kinds, Acquire(h, k) \/ GiveUp(h, k)
       PROVE  AcceptedInv'
  <2>1. /\ UNCHANGED core
        /\ \/ note' = [note EXCEPT ![h].pc = Running(k)] \/ Answer(h, "unavailable")
    BY <1>12 DEF Acquire, GiveUp
  <2>2. note[h] \in Notes /\ Running(k) # "report"
    BY <1>1 DEF Running
  <2>3. \A l \in Handlers : note'[l].pc = "report" => note'[l] = note[l]
    BY <1>1, <2>1, <2>2 DEF Answer, SetNote, Notes
  <2>4. QED
    BY <1>3, <2>1, <2>3
<1>13. ASSUME NEW h \in Handlers, NEW j \in Jobs, NEW c \in Contexts, Notify(h, j, c)
       PROVE  AcceptedInv'
  BY <1>1, <1>3, <1>13 DEF Notify, SetNote
<1>14. ASSUME NEW k \in Kinds, ThreadExits(k) PROVE AcceptedInv'
  BY <1>3, <1>14 DEF ThreadExits
<1>15. CASE SweepFails \/ SweepScan \/ SweepSpawn
  <2>1. UNCHANGED note
    BY <1>15 DEF SweepFails, SweepScan, SweepSpawn, rest, handlers
  <2>2. QED
    BY <1>1, <1>4, <1>15, <2>1, KeptSweep
<1>16. ASSUME NEW j \in Jobs, NEW i \in Places, RunStep(j, i) PROVE AcceptedInv'
  <2>1. UNCHANGED note
    BY <1>16 DEF RunStep, StartVerified, Verify, VerifyFails, AwaitContext, WaitOver, ReadSpec,
                 WorkDone, WorkFails, SubmitOk, SubmitRefused, SubmitFails, TimeOut, Finish,
                 handlers, rest
  <2>2. QED
    BY <1>1, <1>4, <1>16, <2>1, KeptRunStep
<1>17. CASE Restart
  <2>1. core' = FreshCore /\ \A h \in Handlers : note'[h].pc = "idle"
    BY <1>17 DEF Restart, NoNote
  <2>2. \A j \in Jobs, i \in Places : ~FreshCore.runs[j][i].verified
    BY DEF FreshCore, NoRun
  <2>3. QED
    BY <2>1, <2>2 DEF AcceptedInv, ContextKept
<1>18. QED
  BY <1>5, <1>6, <1>7, <1>8, <1>9, <1>10, <1>11, <1>12, <1>13, <1>14, <1>15, <1>16, <1>17
     DEF Next, HandlerStep

(* While the tracked state has room, a delivery started by a notification  *)
(* works with the signed context it was accepted with.                     *)
THEOREM AcceptedKeepsContext == ASSUME Roomy PROVE Spec => []VerifiedHasContext
<1>1. Init => AcceptedInv
  <2> SUFFICES ASSUME Init PROVE AcceptedInv
    OBVIOUS
  <2>1. core = FreshCore /\ \A h \in Handlers : note[h].pc = "idle"
    BY DEF Init, NoNote
  <2>2. \A j \in Jobs, i \in Places : ~FreshCore.runs[j][i].verified
    BY DEF FreshCore, NoRun
  <2>3. QED
    BY <2>1, <2>2 DEF AcceptedInv, ContextKept
<1>2. SellerInv /\ AcceptedInv /\ [Next]_vars => AcceptedInv'
  BY AcceptedStep
<1>3. AcceptedInv => VerifiedHasContext
  BY DEF AcceptedInv, ContextKept, VerifiedHasContext
<1>4. QED
  BY <1>1, <1>2, <1>3, SellerInvariant, PTL DEF Spec
=============================================================================
