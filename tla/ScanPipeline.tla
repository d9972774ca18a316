---------------------------- MODULE ScanPipeline ----------------------------
(***************************************************************************)
(* The scan of MainActivity.kt.  A scan is a coroutine (scanJob) whose     *)
(* body runs on Dispatchers.Default: it pings every pending address with   *)
(* PING_CONCURRENCY tasks of pingPool, then tests the addresses that       *)
(* answered with H3_CONCURRENCY tasks of h3Pool, and in hybrid mode tests  *)
(* again, by TCP, those the HTTP/3 test failed.  The tasks, the coroutine  *)
(* body and the main thread share the flag `running`, the counters and the *)
(* list `pending`; the tasks hand their rows to the main thread by posting *)
(* them to its looper.                                                     *)
(*                                                                         *)
(* Actors: the user (button handlers on the main thread), the looper, one  *)
(* coroutine body per scan, and the pool threads.  Every actor's step      *)
(* ends where another actor could see what it wrote.                       *)
(***************************************************************************)
EXTENDS Naturals, Sequences, FiniteSets

CONSTANTS
  BuiltinLists,  \* what rebuildPending can produce, one list per mode and region
  Extra,         \* elements that addManualIps and fetchOnlineIps can append
  Cloud,         \* what loadChinaIps replaces the list by
  NoEntry,       \* a task that holds no address
  PingThreads,   \* PING_CONCURRENCY: threads of pingPool and tasks of a pass
  TestThreads,   \* H3_CONCURRENCY: threads of h3Pool and tasks of a pass
  Buttons,       \* bound: what the user may do besides starting a scan
  ProtoModes,    \* bound: the modes the user chooses among with btnProto
  MaxScans,      \* bound: how many scans the user starts
  MaxEdits       \* bound: how many times the user changes pending

\* Two equal strings in the list are two elements here.
Entries == (UNION BuiltinLists) \cup Extra \cup Cloud

ASSUME ListsAssumption  == BuiltinLists # {} /\ {} \notin BuiltinLists
ASSUME NoEntryAssumption == NoEntry \notin Entries
ASSUME ThreadsAssumption == PingThreads \in Nat \ {0} /\ TestThreads \in Nat \ {0}
ASSUME BoundsAssumption  == MaxScans \in Nat \ {0} /\ MaxEdits \in Nat
ASSUME ButtonsAssumption == Buttons \subseteq {"stop", "clear", "destroy"}
ASSUME ModesAssumption   == ProtoModes # {} /\ ProtoModes \subseteq {"H3", "TCP", "Hybrid"}

Scans  == 1..MaxScans
Modes  == {"H3", "TCP", "Hybrid"}
Protos == {"H3", "TCP"}
Passes == {"ping", "first", "retry"}
Pools  == {"pingPool", "h3Pool"}

Pool(p)    == IF p = "ping" THEN "pingPool" ELSE "h3Pool"
Threads(q) == IF q = "pingPool" THEN PingThreads ELSE TestThreads

\* The tasks a pass submits: one per thread of its pool.
Tasks == {t \in [scan: Scans, pass: Passes, slot: 1..(PingThreads + TestThreads)] :
             t.slot <= Threads(Pool(t.pass))}
PassTasks(g, p) == {t \in Tasks : t.scan = g /\ t.pass = p}

\* The fields of a ResultRow that a property tells apart, and the scan it is of.
Rows     == [scan: Scans, entry: Entries, proto: Protos, ok: BOOLEAN]
Messages == [kind: {"row"}, row: Rows] \cup [kind: {"end"}, scan: Scans]
RowMsg(r) == [kind |-> "row", row |-> r]
EndMsg(g) == [kind |-> "end", scan |-> g]

JobStates == {"none", "launched", "copying", "ping", "pinged", "first", "tested", "retry",
              "closing", "closed", "ended", "finished", "cancelled"}
PcStates  == {"none", "queued", "loop", "poll", "probe", "won", "lost", "done", "dropped"}

VARIABLES
  running,    \* the shared AtomicBoolean
  ok,         \* the shared AtomicInteger of usable addresses
  label,      \* what btnStart offers: "start" or "stop"
  results,    \* the result list, as a bag of rows
  looper,     \* posts the main thread has not run yet, oldest first
  pending,    \* the elements of the list to scan
  modCount,   \* the list's modification count
  loading,    \* coroutines of fetchOnlineIps / loadChinaIps under way
  gen,        \* the scan scanJob refers to (0: none yet)
  cancelled,  \* scans whose Job was cancelled
  job,        \* where each scan's coroutine is
  mode,       \* protoMode as the scan read it
  source,     \* pending when the scan's body began to copy it
  seen,       \* modCount when the scan's body began to copy it
  queue,      \* the ConcurrentLinkedQueue of each pass of each scan
  alive,      \* addresses that answered the ping, per scan
  h3Fail,     \* addresses whose HTTP/3 test failed, per hybrid scan
  pc,         \* where each task is
  hold,       \* the address each task polled last
  spawned,    \* threads each pool has created
  workQueue,  \* each pool's queue of tasks that wait for a thread
  destroyed,  \* onDestroy has run
  crashed,    \* an uncaught exception ended the process
  tainted,    \* history: scans that overlapped another scan's body or an edit
  cleared     \* history: btnClear removed a row since the last start

uiVars   == <<label, results, cleared>>
listVars == <<pending, modCount, loading>>
jobVars  == <<gen, cancelled, job, mode, source, seen>>
dataVars == <<queue, alive, h3Fail>>
poolVars == <<pc, hold, spawned, workQueue>>
vars == <<running, ok, uiVars, looper, listVars, jobVars, dataVars, poolVars,
          destroyed, crashed, tainted>>

Init ==
  /\ running = FALSE /\ ok = 0 /\ label = "start"
  /\ results = [r \in Rows |-> 0] /\ looper = <<>>
  /\ pending \in BuiltinLists /\ modCount = 0 /\ loading = {}
  /\ gen = 0 /\ cancelled = {}
  /\ job = [g \in Scans |-> "none"] /\ mode = [g \in Scans |-> "H3"]
  /\ source = [g \in Scans |-> {}] /\ seen = [g \in Scans |-> 0]
  /\ queue = [g \in Scans |-> [p \in Passes |-> {}]]
  /\ alive = [g \in Scans |-> {}] /\ h3Fail = [g \in Scans |-> {}]
  /\ pc = [t \in Tasks |-> "none"] /\ hold = [t \in Tasks |-> NoEntry]
  /\ spawned = [q \in Pools |-> 0] /\ workQueue = [q \in Pools |-> <<>>]
  /\ destroyed = FALSE /\ crashed = FALSE /\ tainted = {} /\ cleared = FALSE

-----------------------------------------------------------------------------
(* Main thread: the handlers of the buttons and onDestroy.                 *)

\* The process runs and its activity is on the screen.
OnScreen == ~crashed /\ ~destroyed

\* The body of the scan's coroutine may still run: it was launched and has
\* not come back from withContext.
Busy(g) == job[g] \in {"launched", "copying", "ping", "pinged", "first", "tested", "retry",
                       "closing", "closed"}
Others(g) == {h \in Scans \ {g} : Busy(h)}

\* ok.set(0) when a scan starts.
OkKept    == ok
OkAtStart == 0

\* toggleScan while running is FALSE.
StartScan ==
  /\ OnScreen /\ ~running /\ pending # {} /\ gen < MaxScans
  /\ gen' = gen + 1
  /\ results' = [r \in Rows |-> 0] /\ ok' = OkAtStart /\ running' = TRUE /\ label' = "stop"
  /\ job' = [job EXCEPT ![gen + 1] = "launched"]
  /\ cleared' = FALSE
  /\ tainted' = IF Others(gen + 1) = {} THEN tainted
                ELSE tainted \cup Others(gen + 1) \cup {gen + 1}
  /\ UNCHANGED <<looper, listVars, cancelled, mode, source, seen, dataVars, poolVars,
                 destroyed, crashed>>

\* scanJob?.cancel()
WithJobCancelled == cancelled \cup ({gen} \ {0})

\* running.set(false), when a scan is stopped and in onDestroy.
FlagKept   == running
FlagAtStop == FALSE

\* btnStart.text when a scan is stopped.
LabelKept   == label
LabelAtStop == "start"

\* toggleScan while running is TRUE.
StopScan ==
  /\ "stop" \in Buttons /\ OnScreen /\ running
  /\ running' = FlagAtStop /\ cancelled' = WithJobCancelled /\ label' = LabelAtStop
  /\ UNCHANGED <<ok, results, cleared, looper, listVars, gen, job, mode, source, seen,
                 dataVars, poolVars, destroyed, crashed, tainted>>

\* btnClear: the rows go, the counter `ok` stays.
ClearResults ==
  /\ "clear" \in Buttons /\ OnScreen
  /\ results' = [r \in Rows |-> 0] /\ cleared' = (cleared \/ \E r \in Rows : results[r] > 0)
  /\ UNCHANGED <<running, ok, label, looper, listVars, jobVars, dataVars, poolVars,
                 destroyed, crashed, tainted>>

\* Every change of the list goes through `synchronized(pending)`, which the
\* copy in pingAll does not take.
SetPending(S) ==
  /\ modCount < MaxEdits
  /\ pending' = S /\ modCount' = modCount + 1
  /\ UNCHANGED <<running, ok, uiVars, looper, jobVars, dataVars, poolVars,
                 destroyed, crashed, tainted>>

\* btnMode and btnRegion expand another set of ranges.
RebuildPending == OnScreen /\ UNCHANGED loading /\ \E S \in BuiltinLists : SetPending(S)

AddManual ==
  /\ OnScreen /\ UNCHANGED loading
  /\ \E S \in SUBSET (Extra \ pending) : S # {} /\ SetPending(pending \cup S)

\* btnFetch and btnChina start a coroutine; the latter refuses while running.
StartLoading(what) ==
  /\ OnScreen /\ what \notin loading /\ modCount < MaxEdits
  /\ what = "china" => ~running
  /\ loading' = loading \cup {what}
  /\ UNCHANGED <<running, ok, uiVars, looper, pending, modCount, jobVars, dataVars, poolVars,
                 destroyed, crashed, tainted>>

\* The fetch coroutine resumes; an empty answer leaves the list alone.
FetchDone ==
  /\ ~crashed /\ "fetch" \in loading /\ loading' = loading \ {"fetch"}
  /\ \/ \E S \in SUBSET (Extra \ pending) : S # {} /\ SetPending(pending \cup S)
     \/ UNCHANGED <<running, ok, uiVars, looper, pending, modCount, jobVars, dataVars, poolVars,
                    destroyed, crashed, tainted>>

\* The coroutine of loadChinaIps resumes; it does not look at running again.
ChinaLoaded ==
  /\ ~crashed /\ "china" \in loading /\ loading' = loading \ {"china"}
  /\ SetPending(Cloud)

\* onDestroy: shutdownNow drops the tasks that wait for a thread; the scope
\* is not cancelled, so posts are still delivered.
Destroy ==
  /\ "destroy" \in Buttons /\ OnScreen
  /\ destroyed' = TRUE /\ running' = FlagAtStop
  /\ cancelled' = WithJobCancelled
  /\ pc' = [t \in Tasks |-> IF pc[t] = "queued" THEN "dropped" ELSE pc[t]]
  /\ workQueue' = [q \in Pools |-> <<>>]
  /\ UNCHANGED <<ok, uiVars, looper, listVars, gen, job, mode, source, seen, dataVars,
                 hold, spawned, crashed, tainted>>

-----------------------------------------------------------------------------
(* Main thread: the looper.                                                *)

\* A task's post: the row joins the list.
DeliverRow ==
  /\ ~crashed /\ looper # <<>> /\ Head(looper).kind = "row"
  /\ looper' = Tail(looper)
  /\ results' = [results EXCEPT ![Head(looper).row] = @ + 1]
  /\ UNCHANGED <<running, ok, label, cleared, listVars, jobVars, dataVars, poolVars,
                 destroyed, crashed, tainted>>

\* The coroutine resumes after withContext: a cancelled Job throws there,
\* any other announces the end of the scan.
DeliverEnd ==
  /\ ~crashed /\ looper # <<>> /\ Head(looper).kind = "end"
  /\ looper' = Tail(looper)
  /\ LET g == Head(looper).scan IN
     IF g \in cancelled
     THEN job' = [job EXCEPT ![g] = "cancelled"] /\ UNCHANGED label
     ELSE job' = [job EXCEPT ![g] = "finished"] /\ label' = "start"
  /\ UNCHANGED <<running, ok, results, cleared, listVars, gen, cancelled, mode, source, seen,
                 dataVars, poolVars, destroyed, crashed, tainted>>

-----------------------------------------------------------------------------
(* The body of a scan's coroutine.                                         *)

\* The dispatcher starts the body, or drops it when the Job is cancelled.
LaunchBody(g) ==
  /\ ~crashed /\ job[g] = "launched"
  /\ IF g \in cancelled
     THEN job' = [job EXCEPT ![g] = "cancelled"] /\ UNCHANGED <<source, seen>>
     ELSE /\ job' = [job EXCEPT ![g] = "copying"]
          /\ source' = [source EXCEPT ![g] = pending]
          /\ seen' = [seen EXCEPT ![g] = modCount]
  /\ UNCHANGED <<running, ok, uiVars, looper, listVars, gen, cancelled, mode, dataVars, poolVars,
                 destroyed, crashed, tainted>>

\* ConcurrentLinkedQueue(all) iterates over pending without its lock.  An
\* edit meanwhile makes the iterator throw, or cuts the copy short when it
\* makes the list look exhausted.
FinishCopy(g) ==
  /\ ~crashed /\ job[g] = "copying"
  /\ \/ /\ seen[g] = modCount
        /\ job' = [job EXCEPT ![g] = "ping"]
        /\ queue' = [queue EXCEPT ![g]["ping"] = pending]
        /\ UNCHANGED <<crashed, tainted>>
     \/ /\ seen[g] # modCount /\ tainted' = tainted \cup {g}
        /\ \/ crashed' = TRUE /\ UNCHANGED <<job, queue>>
           \/ /\ job' = [job EXCEPT ![g] = "ping"]
              /\ \E S \in SUBSET source[g] : queue' = [queue EXCEPT ![g]["ping"] = S]
              /\ UNCHANGED crashed
  /\ UNCHANGED <<running, ok, uiVars, looper, listVars, gen, cancelled, mode, source, seen,
                 alive, h3Fail, poolVars, destroyed>>

\* newFixedThreadPool creates a thread for a task while it has fewer than its size.
HasRoom(q) == spawned[q] < Threads(q)

\* A pool rejects tasks once onDestroy shut it down.
Rejects == destroyed

\* The body submits the tasks of its pass in turn, without a look at the flag.
IsNextWhileRunning(t) ==
  /\ running /\ job[t.scan] = t.pass /\ pc[t] = "none"
  /\ \A u \in PassTasks(t.scan, t.pass) : u.slot < t.slot => pc[u] # "none"
IsNext(t) ==
  /\ job[t.scan] = t.pass /\ pc[t] = "none"
  /\ \A u \in PassTasks(t.scan, t.pass) : u.slot < t.slot => pc[u] # "none"

\* ExecutorService.submit: a pool below its size creates a thread for the task,
\* a full one queues it, one that was shut down rejects it, and nobody catches
\* the exception.
SubmitTask(t) ==
  /\ ~crashed /\ IsNext(t)
  /\ LET q == Pool(t.pass) IN
     \/ /\ Rejects /\ crashed' = TRUE
        /\ UNCHANGED poolVars
     \/ /\ ~Rejects /\ HasRoom(q)
        /\ spawned' = [spawned EXCEPT ![q] = @ + 1]
        /\ pc' = [pc EXCEPT ![t] = "loop"]
        /\ UNCHANGED <<hold, workQueue, crashed>>
     \/ /\ ~Rejects /\ ~HasRoom(q)
        /\ workQueue' = [workQueue EXCEPT ![q] = Append(@, t)]
        /\ pc' = [pc EXCEPT ![t] = "queued"]
        /\ UNCHANGED <<hold, spawned, crashed>>
  /\ UNCHANGED <<running, ok, uiVars, looper, listVars, jobVars, dataVars, destroyed, tainted>>

\* futures.forEach { it.get() } returns.
JoinedAny(g, p) == job[g] = p /\ \E t \in PassTasks(g, p) : pc[t] = "done"
Joined(g, p)    == job[g] = p /\ \A t \in PassTasks(g, p) : pc[t] = "done"

\* pingAll returns, and the body looks at the flag: cleared, it ends the block
\* early and leaves running alone.
JoinPing(g) ==
  /\ ~crashed /\ Joined(g, "ping")
  /\ job' = [job EXCEPT ![g] = IF running THEN "pinged" ELSE "closed"]
  /\ UNCHANGED <<running, ok, uiVars, looper, listVars, gen, cancelled, mode, source, seen,
                 dataVars, poolVars, destroyed, crashed, tainted>>

\* The test pass begins, whatever the flag is by now.  btnProto may have been
\* pressed at any time before, so protoMode has any value.
BeginTests(g) ==
  /\ ~crashed /\ job[g] = "pinged"
  /\ \E m \in ProtoModes : mode' = [mode EXCEPT ![g] = m]
  /\ job' = [job EXCEPT ![g] = IF alive[g] = {} THEN "closing" ELSE "first"]
  /\ queue' = [queue EXCEPT ![g]["first"] = alive[g]]
  /\ UNCHANGED <<running, ok, uiVars, looper, listVars, gen, cancelled, source, seen,
                 alive, h3Fail, poolVars, destroyed, crashed, tainted>>

\* The first test pass returns; only the hybrid mode looks at the flag again
\* and may have a second one.
JoinFirst(g) ==
  /\ ~crashed /\ Joined(g, "first")
  /\ job' = [job EXCEPT ![g] = IF mode[g] = "Hybrid" /\ running THEN "tested" ELSE "closing"]
  /\ UNCHANGED <<running, ok, uiVars, looper, listVars, gen, cancelled, mode, source, seen,
                 dataVars, poolVars, destroyed, crashed, tainted>>

\* The second pass begins, whatever the flag is by now, unless nothing failed.
BeginRetry(g) ==
  /\ ~crashed /\ job[g] = "tested"
  /\ job' = [job EXCEPT ![g] = IF h3Fail[g] = {} THEN "closing" ELSE "retry"]
  /\ queue' = [queue EXCEPT ![g]["retry"] = h3Fail[g]]
  /\ UNCHANGED <<running, ok, uiVars, looper, listVars, gen, cancelled, mode, source, seen,
                 alive, h3Fail, poolVars, destroyed, crashed, tainted>>

JoinRetry(g) ==
  /\ ~crashed /\ Joined(g, "retry")
  /\ job' = [job EXCEPT ![g] = "closing"]
  /\ UNCHANGED <<running, ok, uiVars, looper, listVars, gen, cancelled, mode, source, seen,
                 dataVars, poolVars, destroyed, crashed, tainted>>

\* running.set(false) at the end of the block, whoever set it.
RunningKept       == running
RunningAfterBlock == FALSE
CloseBlock(g) ==
  /\ ~crashed /\ job[g] = "closing"
  /\ running' = RunningAfterBlock /\ job' = [job EXCEPT ![g] = "closed"]
  /\ UNCHANGED <<ok, uiVars, looper, listVars, gen, cancelled, mode, source, seen,
                 dataVars, poolVars, destroyed, crashed, tainted>>

\* withContext resumes its caller on the main thread.
BlockReturns(g) ==
  /\ ~crashed /\ job[g] = "closed"
  /\ job' = [job EXCEPT ![g] = "ended"] /\ looper' = Append(looper, EndMsg(g))
  /\ UNCHANGED <<running, ok, uiVars, listVars, gen, cancelled, mode, source, seen,
                 dataVars, poolVars, destroyed, crashed, tainted>>

-----------------------------------------------------------------------------
(* The pool threads.                                                       *)

Occupied(q) == {t \in Tasks : Pool(t.pass) = q /\ pc[t] \in {"loop", "poll", "probe", "won", "lost"}}

FreeThread(q) == Cardinality(Occupied(q)) < spawned[q]

\* A thread that has finished its task takes the oldest one that waits.
StartQueued(q) ==
  /\ ~crashed /\ workQueue[q] # <<>> /\ FreeThread(q)
  /\ workQueue' = [workQueue EXCEPT ![q] = Tail(@)]
  /\ pc' = [pc EXCEPT ![Head(workQueue[q])] = "loop"]
  /\ UNCHANGED <<running, ok, uiVars, looper, listVars, jobVars, dataVars, hold, spawned,
                 destroyed, crashed, tainted>>

\* while (running.get())
GoesOnAlways == TRUE
GoesOn       == running

\* The head of a task's loop: a task that finds the flag set goes on to poll.
ReadFlag(t) ==
  /\ ~crashed /\ pc[t] = "loop"
  /\ pc' = [pc EXCEPT ![t] = IF GoesOn THEN "poll" ELSE "done"]
  /\ UNCHANGED <<running, ok, uiVars, looper, listVars, jobVars, dataVars, hold, spawned, workQueue,
                 destroyed, crashed, tainted>>

\* val ip = queue.poll() ?: break
RunsDryNever(left) == FALSE
RunsDry(left)      == left = {}
Peek(left, e) == left
Poll(left, e) == left \ {e}

\* The task takes an address, whatever the flag is by now, or leaves its loop.
TakeEntry(t) ==
  /\ ~crashed /\ pc[t] = "poll"
  /\ LET left == queue[t.scan][t.pass] IN
     \/ /\ RunsDry(left)
        /\ pc' = [pc EXCEPT ![t] = "done"] /\ UNCHANGED <<queue, hold>>
     \/ /\ \E e \in left :
             /\ queue' = [queue EXCEPT ![t.scan][t.pass] = Poll(left, e)]
             /\ hold' = [hold EXCEPT ![t] = e]
        /\ pc' = [pc EXCEPT ![t] = "probe"]
  /\ UNCHANGED <<running, ok, uiVars, looper, listVars, jobVars, alive, h3Fail, spawned, workQueue,
                 destroyed, crashed, tainted>>

\* tcpPing returns; the address is kept when it answered.
PingReturns(t) ==
  /\ ~crashed /\ pc[t] = "probe" /\ t.pass = "ping"
  /\ \/ alive' = [alive EXCEPT ![t.scan] = @ \cup {hold[t]}]
     \/ UNCHANGED alive
  /\ pc' = [pc EXCEPT ![t] = "loop"] /\ hold' = [hold EXCEPT ![t] = NoEntry]
  /\ UNCHANGED <<running, ok, uiVars, looper, listVars, jobVars, queue, h3Fail, spawned, workQueue,
                 destroyed, crashed, tainted>>

\* The protocol of a pass: h3TestAll and the first pass of hybridTestAll
\* call testOne, tcpTestAll calls tcpOne.
ProtoOfMode(g, p) == IF mode[g] \in {"H3", "Hybrid"} THEN "H3" ELSE "TCP"
ProtoOf(g, p)     == IF p = "first" /\ mode[g] \in {"H3", "Hybrid"} THEN "H3" ELSE "TCP"

\* ok.incrementAndGet() in the branch of a usable answer.
Counts(usable) == IF usable THEN ok + 1 ELSE ok

\* hybridTestAll passes an onFail to the first pass; testOne calls it on failure.
NotesEvery(t, usable)   == mode[t.scan] = "Hybrid" /\ t.pass = "first"
NotesFailure(t, usable) == ~usable /\ mode[t.scan] = "Hybrid" /\ t.pass = "first"

\* QuicNative.test or TcpProbe.test returns: a success counts at once, a
\* failure of the hybrid's first pass is noted for the second.
TestReturns(t) ==
  /\ ~crashed /\ pc[t] = "probe" /\ t.pass # "ping"
  /\ \E usable \in BOOLEAN :
       /\ ok' = Counts(usable)
       /\ pc' = [pc EXCEPT ![t] = IF usable THEN "won" ELSE "lost"]
       /\ h3Fail' = IF NotesFailure(t, usable)
                    THEN [h3Fail EXCEPT ![t.scan] = @ \cup {hold[t]}] ELSE h3Fail
  /\ UNCHANGED <<running, uiVars, looper, listVars, jobVars, queue, alive, hold, spawned, workQueue,
                 destroyed, crashed, tainted>>

\* The row of the test a task has just finished.
RowOf(t) == [scan |-> t.scan, entry |-> hold[t], proto |-> ProtoOf(t.scan, t.pass),
             ok |-> pc[t] = "won"]

\* The task posts its row and goes round its loop.
PostRow(t) ==
  /\ ~crashed /\ pc[t] \in {"won", "lost"}
  /\ looper' = Append(looper, RowMsg(RowOf(t)))
  /\ pc' = [pc EXCEPT ![t] = "loop"] /\ hold' = [hold EXCEPT ![t] = NoEntry]
  /\ UNCHANGED <<running, ok, uiVars, listVars, jobVars, dataVars, spawned, workQueue,
                 destroyed, crashed, tainted>>

-----------------------------------------------------------------------------
Body(g) == \/ LaunchBody(g) \/ FinishCopy(g) \/ JoinPing(g) \/ BeginTests(g) \/ JoinFirst(g)
           \/ BeginRetry(g) \/ JoinRetry(g) \/ CloseBlock(g) \/ BlockReturns(g)
Thread(t) == ReadFlag(t) \/ TakeEntry(t) \/ PingReturns(t) \/ TestReturns(t) \/ PostRow(t)

\* Once crashed is set the process is gone and nothing steps.
Next ==
  \/ StartScan \/ StopScan \/ ClearResults \/ RebuildPending \/ AddManual \/ Destroy
  \/ \E what \in {"fetch", "china"} : StartLoading(what)
  \/ DeliverRow \/ DeliverEnd \/ FetchDone \/ ChinaLoaded
  \/ \E g \in Scans : Body(g)
  \/ \E q \in Pools : StartQueued(q)
  \/ \E t \in Tasks : SubmitTask(t) \/ Thread(t)

Spec == Init /\ [][Next]_vars

\* The looper, the dispatcher and the pool threads keep going; a probe
\* returns.  The user need never do anything, and a download may hang.
Fairness ==
  /\ WF_vars(DeliverRow \/ DeliverEnd)
  /\ \A g \in Scans : WF_vars(Body(g))
  /\ \A q \in Pools : WF_vars(StartQueued(q))
  /\ \A t \in Tasks : WF_vars(SubmitTask(t) \/ Thread(t))

FairSpec == Spec /\ Fairness
-----------------------------------------------------------------------------
(* Properties.                                                             *)

FlagTypes == /\ running \in BOOLEAN /\ ok \in Nat
             /\ destroyed \in BOOLEAN /\ crashed \in BOOLEAN /\ tainted \subseteq Scans
UiTypes   == label \in {"start", "stop"} /\ results \in [Rows -> Nat] /\ cleared \in BOOLEAN
LoopTypes == looper \in Seq(Messages)
ListTypes == pending \subseteq Entries /\ modCount \in 0..MaxEdits /\ loading \subseteq {"fetch", "china"}
JobTypes  == /\ gen \in 0..MaxScans /\ cancelled \subseteq Scans
             /\ job \in [Scans -> JobStates] /\ mode \in [Scans -> Modes]
             /\ source \in [Scans -> SUBSET Entries] /\ seen \in [Scans -> 0..MaxEdits]
DataTypes == /\ queue \in [Scans -> [Passes -> SUBSET Entries]]
             /\ alive \in [Scans -> SUBSET Entries] /\ h3Fail \in [Scans -> SUBSET Entries]
PoolTypes == /\ pc \in [Tasks -> PcStates] /\ hold \in [Tasks -> Entries \cup {NoEntry}]
             /\ spawned \in [Pools -> Nat] /\ (\A q \in Pools : spawned[q] <= Threads(q))
             /\ workQueue \in [Pools -> Seq(Tasks)]

\* The variables have their types (MainActivity.kt:70-101), and a pool never
\* has more threads than its size.
TypeOK == FlagTypes /\ UiTypes /\ LoopTypes /\ ListTypes /\ JobTypes /\ DataTypes /\ PoolTypes

\* How often a row is in a sequence of messages.
Posted(r) == Cardinality({i \in DOMAIN looper : looper[i] = RowMsg(r)})

\* The rows of one test of an entry: by scan and protocol, whatever the verdict.
Verdicts(g, e, p) == {[scan |-> g, entry |-> e, proto |-> p, ok |-> b] : b \in BOOLEAN}
HeldFor(g, e, p)  == {t \in Tasks : t.scan = g /\ t.pass # "ping" /\ hold[t] = e /\ ProtoOf(g, t.pass) = p}
Copies(g, e, p)   == LET yes == [scan |-> g, entry |-> e, proto |-> p, ok |-> TRUE]
                         no  == [scan |-> g, entry |-> e, proto |-> p, ok |-> FALSE]
                     IN results[yes] + results[no] + Posted(yes) + Posted(no)
                        + Cardinality(HeldFor(g, e, p))

\* Workers of one pass share a queue and hand rows over by posts: whatever
\* the interleaving, with stops, restarts and resumed stale workers, an
\* element gives at most one row per scan and protocol (testOne, tcpOne).
RowOnce == \A g \in Scans, e \in Entries, p \in Protos : Copies(g, e, p) <= 1

\* The hybrid's second pass tests failures only: no element is usable by
\* both protocols in one scan (hybridTestAll).
OneSuccess == \A g \in Scans, e \in Entries :
  LET won(p) == [scan |-> g, entry |-> e, proto |-> p, ok |-> TRUE]
  IN results[won("H3")] + results[won("TCP")] + Posted(won("H3")) + Posted(won("TCP")) <= 1

Shown(g, e, p) == \E r \in Verdicts(g, e, p) : results[r] > 0
FirstProto(g) == ProtoOf(g, "first")

\* "Complete" is said of a scan that nothing interfered with only when every
\* address was pinged and every address that answered is in the list, in
\* hybrid mode with a TCP row for each HTTP/3 failure (toggleScan:257-262).
CompletionComplete == \A g \in Scans \ tainted :
  job[g] = "finished" /\ gen = g =>
    /\ queue[g]["ping"] = {}
    /\ ~cleared => \A e \in alive[g] :
         /\ Shown(g, e, FirstProto(g))
         /\ mode[g] = "Hybrid" => \/ results[[scan |-> g, entry |-> e, proto |-> "H3", ok |-> TRUE]] > 0
                                  \/ Shown(g, e, "TCP")

\* The copies of the usable rows of a scan, shown or posted.
WonRows(g)   == {r \in Rows : r.scan = g /\ r.ok}
WonCopies(g) == UNION {{<<r, i>> : i \in 1..(results[r] + Posted(r))} : r \in WonRows(g)}
WonTasks(g) == {t \in Tasks : t.scan = g /\ pc[t] = "won"}

\* The counter of usable addresses agrees with the rows shown, posted and
\* about to be posted, for a scan that overlapped no other (ok.set(0),
\* ok.incrementAndGet()); after btnClear it can only be larger.
OkMatches == gen \in Scans \ tainted =>
  LET rows == Cardinality(WonCopies(gen)) + Cardinality(WonTasks(gen))
  IN ok >= rows /\ (~cleared => ok = rows)

\* The flag is never left set without the current scan's body to clear it:
\* otherwise every later press of btnStart is taken for a stop (toggleScan).
RunningHasOwner == running => Busy(gen) /\ gen \notin cancelled

\* Once every body has come back and the looper is empty, the button offers
\* to start a scan and a press would start one, in whatever order stale
\* bodies, stops and restarts came (toggleScan).
SettledIdle ==
  ~destroyed /\ looper = <<>> /\ (\A g \in Scans : ~Busy(g)) => label = "start" /\ ~running

\* A body that waits for its pass is never alone with tasks nobody will run,
\* whatever older scans hold of the threads: the next task can be submitted,
\* a thread of the pool is at work or may take a task that waits, or all
\* tasks are done (futures.forEach { it.get() }).
NeverStuck == ~crashed /\ ~destroyed => \A g \in Scans : job[g] \in Passes =>
  \/ Joined(g, job[g])
  \/ \E t \in PassTasks(g, job[g]) : IsNext(t)
  \/ Occupied(Pool(job[g])) # {}
  \/ workQueue[Pool(job[g])] # <<>> /\ FreeThread(Pool(job[g]))

\* The tasks of a scan that have looked at the flag and not yet acted on it.
Committed(g) == {t \in Tasks : t.scan = g /\ pc[t] = "poll"}
Taken(g)     == {t \in Tasks : t.scan = g /\ pc[t] = "probe"}

\* After a stop, until the next start, a scan only does what its threads had
\* begun: nobody finds the flag set any more, each task that had takes one
\* more address at most, a pass that the body had decided on begins with
\* nobody to poll for it, and the end is not announced (toggleScan:225-229, 274).
StopHolds == [][\A g \in cancelled : gen = g =>
  /\ Committed(g)' \subseteq Committed(g)
  /\ Taken(g)' \ Taken(g) \subseteq Committed(g) \ Committed(g)'
  /\ job'[g] # job[g] => job'[g] \notin {"pinged", "tested", "finished"}
  /\ job'[g] # job[g] /\ job'[g] \in Passes =>
       Committed(g)' = {} /\ (job'[g] = "ping" \/ job[g] \in {"pinged", "tested"})]_vars

\* When the activity is gone the pools come to rest, although the scope is
\* not cancelled and the body may wait for a dropped task for ever: no
\* thread goes on testing for a screen that is not there (onDestroy:192-198).
ThreadsRest == destroyed ~> (crashed \/ \A q \in Pools : Occupied(q) = {})

\* A scan that is not abandoned by onDestroy or a crash comes back and gives
\* the button back (toggleScan:244-264).
ScanEnds == \A g \in Scans :
  job[g] = "launched" ~> (job[g] \in {"finished", "cancelled"} \/ destroyed \/ crashed)

-----------------------------------------------------------------------------
(* What a scan promises the screen, and what of the state it promises it of. *)

StageOf(g) == CASE job[g] = "none"                              -> "none"
                [] job[g] \in {"launched", "copying", "ping", "pinged"} -> "ping"
                [] job[g] \in {"first", "tested"}               -> "first"
                [] job[g] = "retry"                             -> "retry"
                [] job[g] \in {"closing", "closed", "ended"}    -> "ending"
                [] job[g] \in {"finished", "cancelled"}         -> "over"

Stage == [g \in Scans |-> StageOf(g)]

\* The tests in a queue of a scan that is not over or in the hand of a task that probes.
Test(g, p, e)  == [scan |-> g, entry |-> e, proto |-> ProtoOf(g, p)]
InQueue(g)     == IF StageOf(g) = "over" THEN {}
                  ELSE UNION {{Test(g, p, e) : e \in queue[g][p]} : p \in {"first", "retry"}}
Probing        == {t \in Tasks : pc[t] = "probe" /\ t.pass # "ping"}
Asked          == (UNION {InQueue(g) : g \in Scans})
                  \cup {Test(t.scan, t.pass, hold[t]) : t \in Probing}

\* The rows posted and those a task is about to post.
Tested  == {t \in Tasks : pc[t] \in {"won", "lost"}}
Decided == {looper[i].row : i \in {k \in DOMAIN looper : looper[k].kind = "row"}}
           \cup {RowOf(t) : t \in Tested}

Contract == INSTANCE ScanContract WITH
  current <- gen, button <- label, stage <- Stage, asked <- Asked,
  decided <- Decided, failed <- h3Fail, list <- results, stopped <- cancelled, disturbed <- tainted

\* Behind all queues, threads, flags and posts a scan keeps to its contract
\* (toggleScan, hybridTestAll, testOne).
ContractSpec == Contract!Spec

-----------------------------------------------------------------------------
(* What the texts of the screen say and the code does not keep.            *)

\* "Complete: no usable address found" (MainActivity.kt:261): a scan that
\* announces its end has pinged every address it copied.
CompletionMeansTested == \A g \in Scans : job[g] = "finished" => queue[g]["ping"] = {}
=============================================================================
