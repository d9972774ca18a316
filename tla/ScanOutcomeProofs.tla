------------------------- MODULE ScanOutcomeProofs -------------------------
(***************************************************************************)
(* What TLAPS proves of the outcome of a scan: what its end, its counter   *)
(* and its rows say, that it never waits for itself, and that it keeps to  *)
(* its contract.                                                           *)
(***************************************************************************)
EXTENDS ScanPipelineProofs

-----------------------------------------------------------------------------
(* A scan that completes.                                                  *)

\* The end of a scan is posted after its rows, and none of them is still on
\* its way when the scan has announced its end.
LooperInv ==
  /\ \A i, j \in 1..Len(looper) :
       looper[i].kind = "end" /\ looper[j].kind = "row" /\ looper[j].row.scan = looper[i].scan => j < i
  /\ \A i \in 1..Len(looper) : looper[i].kind = "row" => job[looper[i].row.scan] # "finished"

\* A scan that nothing interferes with.
Clean(g) == g \notin tainted /\ gen = g /\ (g \notin cancelled \/ job[g] = "finished")

\* The places of a body behind a pass, and those where what it found was passed on.
Behind(p) == {"closing", "closed", "ended", "finished"}
             \cup (IF p \in {"ping", "first"} THEN {"tested", "retry"} ELSE {})
             \cup (IF p = "ping" THEN {"pinged", "first"} ELSE {})
Begun(p)  == Behind(p) \ {IF p = "ping" THEN "pinged" ELSE "tested"}

\* Where an address is that a test pass by protocol k was given: in the queue,
\* in a hand, or in a row.
Tracked(g, e, p, k) ==
  \/ e \in queue[g][p]
  \/ \E t \in TestTasks : t.scan = g /\ t.pass = p /\ hold[t] = e
  \/ Out(Yes(g, e, k)) > 0 \/ Out(No(g, e, k)) > 0

\* In hybrid mode it is in a row of success or noted as a failure.
Sorted(g, e) ==
  \/ e \in queue[g]["first"]
  \/ \E t \in TestTasks : t.scan = g /\ t.pass = "first" /\ hold[t] = e /\ pc[t] \in {"probe", "won"}
  \/ Out(Yes(g, e, "H3")) > 0
  \/ e \in h3Fail[g]

Alone(g)  == /\ \A h \in Scans \ {g} : ~Busy(h)
             /\ job[g] \in Working => running
Emptied(g) == /\ \A t \in Tasks : t.scan = g /\ pc[t] = "done" => queue[g][t.pass] = {}
              /\ \A p \in Passes : job[g] \in Behind(p) => queue[g][p] = {}
Covered(g) == ~cleared =>
  /\ job[g] \in Begun("ping") =>
       \A e \in alive[g], k \in Protos : k = ProtoOf(g, "first") => Tracked(g, e, "first", k)
  /\ job[g] \in Begun("ping") /\ mode[g] = "Hybrid" => \A e \in alive[g] : Sorted(g, e)
  /\ job[g] \in Begun("first") /\ mode[g] = "Hybrid" =>
       \A e \in h3Fail[g] : Tracked(g, e, "retry", "TCP")

LEMMA InitLooper == Init => LooperInv
  BY DEF Init, LooperInv

\* A task posts while its scan is at its pass, before the scan's end.
LEMMA NextLooper == TypeInv /\ FlowInv /\ TaskInv /\ LooperInv /\ [Next]_vars => LooperInv'
  <1> SUFFICES ASSUME TypeInv, FlowInv, TaskInv, LooperInv, [Next]_vars PROVE LooperInv'
    OBVIOUS
  <1>0. looper \in Seq(Messages) /\ job \in [Scans -> JobStates]
    BY DEF TypeInv, TypeOK, LoopTypes, JobTypes
  <1>1. ASSUME looper # <<>>, looper' = Tail(looper)
        PROVE  /\ Len(looper) >= 1 /\ Len(looper) \in Nat /\ Head(looper) = looper[1] /\ Head(looper) \in Messages
               /\ Len(looper') = Len(looper) - 1
               /\ \A i \in 1..Len(looper') : looper'[i] = looper[i + 1] /\ i + 1 \in 1..Len(looper)
    BY <1>0, <1>1, HeadTailProperties, EmptySeq
  <1>2. CASE DeliverRow
    <2>1. looper # <<>> /\ looper' = Tail(looper) /\ UNCHANGED job
      BY <1>2 DEF DeliverRow, jobVars
    <2>2. /\ Len(looper') \in Nat
          /\ \A i \in 1..Len(looper') : looper'[i] = looper[i + 1] /\ i + 1 \in 1..Len(looper)
      BY <1>1, <2>1
    <2>3. ASSUME NEW i \in 1..Len(looper'), NEW j \in 1..Len(looper'),
                 looper'[i].kind = "end", looper'[j].kind = "row", looper'[j].row.scan = looper'[i].scan
          PROVE  j < i
      <3>1. j + 1 < i + 1
        BY <2>2, <2>3 DEF LooperInv
      <3> QED BY <3>1
    <2> QED BY <2>1, <2>2, <2>3 DEF LooperInv
  <1>3. CASE DeliverEnd
    <2> DEFINE g == looper[1].scan
    <2>1. /\ looper # <<>> /\ looper' = Tail(looper) /\ Head(looper).kind = "end"
          /\ \E s \in {"cancelled", "finished"} : job' = [job EXCEPT ![Head(looper).scan] = s]
      BY <1>3 DEF DeliverEnd
    <2>2. /\ Len(looper') \in Nat /\ 1 \in 1..Len(looper) /\ looper[1].kind = "end" /\ Head(looper) = looper[1]
          /\ \A i \in 1..Len(looper') : looper'[i] = looper[i + 1] /\ i + 1 \in 1..Len(looper) /\ ~(i + 1 < 1)
      BY <1>1, <2>1
    <2>3. ASSUME NEW i \in 1..Len(looper'), NEW j \in 1..Len(looper'),
                 looper'[i].kind = "end", looper'[j].kind = "row", looper'[j].row.scan = looper'[i].scan
          PROVE  j < i
      <3>1. j + 1 < i + 1
        BY <2>2, <2>3 DEF LooperInv
      <3> QED BY <3>1
    <2>4. ASSUME NEW i \in 1..Len(looper'), looper'[i].kind = "row"
          PROVE  job'[looper'[i].row.scan] # "finished"
      <3>1. looper[i + 1].kind = "row" /\ looper[i + 1].row.scan # g
        BY <2>2, <2>4 DEF LooperInv
      <3>2. job[looper[i + 1].row.scan] # "finished"
        BY <2>2, <3>1 DEF LooperInv
      <3> QED BY <1>0, <2>1, <2>2, <3>1, <3>2
    <2> QED BY <2>3, <2>4 DEF LooperInv
  <1>4. ASSUME NEW t \in Tasks, PostRow(t) PROVE LooperInv'
    <2> DEFINE m == RowMsg(RowOf(t))
    <2>1. /\ looper' = Append(looper, m) /\ UNCHANGED job /\ pc[t] \in Active
          /\ RowOf(t) \in Rows
      BY <1>4, RowType DEF PostRow, jobVars, Active
    <2>2. m \in Messages /\ m.kind = "row" /\ m.row.scan = t.scan
      BY <2>1, MessageFacts, RowOfFacts DEF RowMsg
    <2>3. job[t.scan] \in Passes
      BY <2>1, TaskTypes DEF TaskInv
    <2> HIDE DEF m
    <2>4. /\ Len(looper) \in Nat /\ Len(looper') = Len(looper) + 1 /\ looper'[Len(looper) + 1] = m
          /\ \A i \in 1..Len(looper) : looper'[i] = looper[i]
      BY <1>0, <2>1, <2>2, AppendProperties
    <2>5. ASSUME NEW i \in 1..Len(looper'), NEW j \in 1..Len(looper'),
                 looper'[i].kind = "end", looper'[j].kind = "row", looper'[j].row.scan = looper'[i].scan
          PROVE  j < i
      <3>1. i \in 1..Len(looper) /\ looper[i].kind = "end" /\ job[looper[i].scan] = "ended"
        BY <2>2, <2>4, <2>5 DEF FlowInv, EndInv
      <3>2. j \in 1..Len(looper)
        BY <2>2, <2>3, <2>4, <2>5, <3>1 DEF Passes
      <3> QED BY <2>4, <2>5, <3>1, <3>2 DEF LooperInv
    <2>6. ASSUME NEW i \in 1..Len(looper'), looper'[i].kind = "row"
          PROVE  job'[looper'[i].row.scan] # "finished"
      <3>1. CASE i \in 1..Len(looper)
        BY <2>1, <2>4, <2>6, <3>1 DEF LooperInv
      <3>2. CASE i = Len(looper) + 1
        BY <2>1, <2>2, <2>3, <2>4, <3>2 DEF Passes
      <3> QED BY <2>4, <3>1, <3>2
    <2> QED BY <2>5, <2>6 DEF LooperInv
  <1>5. ASSUME NEW g \in Scans, BlockReturns(g) PROVE LooperInv'
    <2>1. /\ looper' = Append(looper, EndMsg(g)) /\ job' = [job EXCEPT ![g] = "ended"]
      BY <1>5 DEF BlockReturns
    <2>2. EndMsg(g) \in Messages /\ EndMsg(g).kind = "end"
      BY DEF Messages, EndMsg
    <2>4. /\ Len(looper) \in Nat /\ Len(looper') = Len(looper) + 1 /\ looper'[Len(looper) + 1] = EndMsg(g)
          /\ \A i \in 1..Len(looper) : looper'[i] = looper[i]
      BY <1>0, <2>1, <2>2, AppendProperties
    <2>5. ASSUME NEW i \in 1..Len(looper'), NEW j \in 1..Len(looper'),
                 looper'[i].kind = "end", looper'[j].kind = "row", looper'[j].row.scan = looper'[i].scan
          PROVE  j < i
      <3>1. j \in 1..Len(looper)
        BY <2>2, <2>4, <2>5
      <3>2. CASE i \in 1..Len(looper)
        BY <2>4, <2>5, <3>1, <3>2 DEF LooperInv
      <3>3. CASE i = Len(looper) + 1
        BY <2>4, <3>1, <3>3
      <3> QED BY <2>4, <3>2, <3>3
    <2>6. ASSUME NEW i \in 1..Len(looper'), looper'[i].kind = "row"
          PROVE  job'[looper'[i].row.scan] # "finished"
      <3>1. i \in 1..Len(looper)
        BY <2>2, <2>4, <2>6
      <3>2. job[looper[i].row.scan] # "finished" /\ looper'[i] = looper[i]
        BY <2>4, <2>6, <3>1 DEF LooperInv
      <3> QED BY <1>0, <2>1, <3>2
    <2> QED BY <2>5, <2>6 DEF LooperInv
  <1>6. CASE \/ StartScan \/ StopScan \/ ClearResults \/ RebuildPending \/ AddManual \/ Destroy
             \/ \E what \in {"fetch", "china"} : StartLoading(what)
             \/ FetchDone \/ ChinaLoaded
             \/ \E g \in Scans : \/ LaunchBody(g) \/ FinishCopy(g) \/ JoinPing(g) \/ BeginTests(g) \/ JoinFirst(g) \/ BeginRetry(g)
                                 \/ JoinRetry(g) \/ CloseBlock(g)
             \/ \E q \in Pools : StartQueued(q)
             \/ \E t \in Tasks : SubmitTask(t) \/ ReadFlag(t) \/ TakeEntry(t) \/ PingReturns(t) \/ TestReturns(t)
             \/ UNCHANGED vars
    <2>1. UNCHANGED looper
      BY <1>6 DEF StartScan, StopScan, ClearResults, RebuildPending, AddManual, Destroy, SetPending,
                  StartLoading, FetchDone, ChinaLoaded, LaunchBody, FinishCopy, JoinPing, BeginTests, JoinFirst, BeginRetry,
                  JoinRetry, CloseBlock, StartQueued, SubmitTask, IsNext, ReadFlag, TakeEntry, PingReturns, TestReturns, vars
    <2>2. ASSUME NEW i \in 1..Len(looper), looper[i].kind = "row" PROVE looper[i].row.scan \in Scans
      <3>1. looper[i] \in Messages
        BY <1>0, ElementOfSeq
      <3> QED BY <2>2, <3>1 DEF Messages, Rows
    <2>3. \A g \in Scans : job'[g] = "finished" => job[g] = "finished"
      <3>1. CASE StartScan
        BY <1>0, <3>1 DEF StartScan
      <3>2. CASE \E g \in Scans : \/ LaunchBody(g) \/ FinishCopy(g) \/ JoinPing(g) \/ BeginTests(g) \/ JoinFirst(g) \/ BeginRetry(g)
                                  \/ JoinRetry(g) \/ CloseBlock(g)
        BY <1>0, <3>2 DEF LaunchBody, FinishCopy, JoinPing, BeginTests, JoinFirst, BeginRetry, JoinRetry, CloseBlock
      <3>3. CASE UNCHANGED job
        BY <3>3
      <3> QED BY <1>6, <3>1, <3>2, <3>3
             DEF StopScan, ClearResults, RebuildPending, AddManual, Destroy, SetPending, StartLoading,
                 FetchDone, ChinaLoaded, StartQueued, SubmitTask, IsNext, ReadFlag, TakeEntry, PingReturns, TestReturns,
                 vars, jobVars
    <2> QED BY <2>1, <2>2, <2>3 DEF LooperInv
  <1> QED BY <1>2, <1>3, <1>4, <1>5, <1>6 DEF Next, Body, Thread

\* How a scan's coroutine moves on.
Moves(h) ==
  \/ job'[h] = job[h]
  \/ StartScan /\ h = gen + 1 /\ job[h] = "none" /\ job'[h] = "launched"
  \/ job[h] = "launched" /\ job'[h] \in {"copying", "cancelled"}
  \/ job[h] = "copying" /\ job'[h] = "ping"
  \/ JoinPing(h) /\ job[h] = "ping" /\ job'[h] \in {"closed", "pinged"}
  \/ BeginTests(h) /\ job[h] = "pinged" /\ job'[h] \in {"closing", "first"}
  \/ JoinFirst(h) /\ job[h] = "first" /\ job'[h] \in {"closing", "tested"}
  \/ BeginRetry(h) /\ job[h] = "tested" /\ job'[h] \in {"closing", "retry"}
  \/ JoinRetry(h) /\ job[h] = "retry" /\ job'[h] = "closing"
  \/ CloseBlock(h) /\ job[h] = "closing" /\ job'[h] = "closed"
  \/ job[h] = "closed" /\ job'[h] = "ended"
  \/ job[h] = "ended" /\ job'[h] = IF h \in cancelled THEN "cancelled" ELSE "finished"

LEMMA JobMoves ==
  ASSUME TypeInv, FlowInv, [Next]_vars, NEW h \in Scans
  PROVE  Moves(h)
  <1>0. job \in [Scans -> JobStates]
    BY DEF TypeInv, TypeOK, JobTypes
  <1>1. CASE StartScan
    <2>1. gen + 1 \in Scans /\ gen + 1 > gen
      BY <1>1, BoundsAssumption DEF StartScan, Scans, TypeInv, TypeOK, JobTypes
    <2>2. job[gen + 1] = "none" /\ job' = [job EXCEPT ![gen + 1] = "launched"]
      BY <1>1, <2>1 DEF FlowInv, GenInv, StartScan
    <2> QED BY <1>0, <1>1, <2>1, <2>2 DEF Moves
  <1>2. CASE DeliverEnd
    <2> DEFINE g == Head(looper).scan
    <2>1. looper \in Seq(Messages) /\ looper # <<>> /\ Head(looper).kind = "end"
      BY <1>2 DEF DeliverEnd, TypeInv, TypeOK, LoopTypes
    <2>2. g \in Scans /\ 1 \in 1..Len(looper) /\ Head(looper) = looper[1]
      BY <2>1, HeadTailProperties, EmptySeq DEF Messages
    <2>3. job[g] = "ended"
      BY <2>1, <2>2 DEF FlowInv, EndInv
    <2>4. job' = [job EXCEPT ![g] = IF g \in cancelled THEN "cancelled" ELSE "finished"]
      BY <1>2 DEF DeliverEnd
    <2> HIDE DEF g
    <2> QED BY <1>0, <2>2, <2>3, <2>4 DEF Moves
  <1>3. ASSUME NEW g \in Scans, LaunchBody(g) \/ FinishCopy(g) PROVE Moves(h)
    BY <1>0, <1>3 DEF LaunchBody, FinishCopy, Moves
  <1>4. ASSUME NEW g \in Scans, JoinPing(g) PROVE Moves(h)
    <2>1. job[g] = "ping" /\ \E s \in {"closed", "pinged"} : job' = [job EXCEPT ![g] = s]
      BY <1>4 DEF JoinPing, Joined
    <2> QED BY <1>0, <1>4, <2>1 DEF Moves
  <1>5. ASSUME NEW g \in Scans, JoinFirst(g) PROVE Moves(h)
    <2>1. job[g] = "first" /\ \E s \in {"closing", "tested"} : job' = [job EXCEPT ![g] = s]
      BY <1>5 DEF JoinFirst, Joined
    <2> QED BY <1>0, <1>5, <2>1 DEF Moves
  <1>10. ASSUME NEW g \in Scans, BeginTests(g) PROVE Moves(h)
    <2>1. job[g] = "pinged" /\ \E s \in {"closing", "first"} : job' = [job EXCEPT ![g] = s]
      BY <1>10 DEF BeginTests
    <2> QED BY <1>0, <1>10, <2>1 DEF Moves
  <1>11. ASSUME NEW g \in Scans, BeginRetry(g) PROVE Moves(h)
    <2>1. job[g] = "tested" /\ \E s \in {"closing", "retry"} : job' = [job EXCEPT ![g] = s]
      BY <1>11 DEF BeginRetry
    <2> QED BY <1>0, <1>11, <2>1 DEF Moves
  <1>6. ASSUME NEW g \in Scans, JoinRetry(g) PROVE Moves(h)
    <2>1. job[g] = "retry" /\ job' = [job EXCEPT ![g] = "closing"]
      BY <1>6 DEF JoinRetry, Joined
    <2> QED BY <1>0, <1>6, <2>1 DEF Moves
  <1>7. ASSUME NEW g \in Scans, CloseBlock(g) \/ BlockReturns(g) PROVE Moves(h)
    <2>1. \/ CloseBlock(g) /\ job[g] = "closing" /\ job' = [job EXCEPT ![g] = "closed"]
          \/ job[g] = "closed" /\ job' = [job EXCEPT ![g] = "ended"]
      BY <1>7 DEF CloseBlock, BlockReturns
    <2> QED BY <1>0, <2>1 DEF Moves
  <1>8. CASE UNCHANGED job
    BY <1>8 DEF Moves
  <1>9. CASE \/ StopScan \/ ClearResults \/ RebuildPending \/ AddManual \/ Destroy
             \/ \E what \in {"fetch", "china"} : StartLoading(what)
             \/ DeliverRow \/ FetchDone \/ ChinaLoaded
             \/ \E q \in Pools : StartQueued(q)
             \/ \E t \in Tasks : SubmitTask(t) \/ Thread(t)
             \/ UNCHANGED vars
    <2>1. UNCHANGED job
      BY <1>9 DEF StopScan, ClearResults, RebuildPending, AddManual, Destroy, StartLoading, DeliverRow,
                  FetchDone, ChinaLoaded, SetPending, StartQueued, SubmitTask, IsNext, Thread, ReadFlag, TakeEntry,
                  PingReturns, TestReturns, PostRow, vars, jobVars
    <2> QED BY <1>8, <2>1
  <1> QED BY <1>1, <1>2, <1>3, <1>4, <1>5, <1>6, <1>7, <1>9, <1>10, <1>11 DEF Next, Body

\* Only a start changes which scan is the current one, and no mark is taken back.
LEMMA Steady ==
  ASSUME [Next]_vars, ~StartScan
  PROVE  gen' = gen /\ tainted \subseteq tainted' /\ cancelled \subseteq cancelled'
  <1> USE DEF Next, StopScan, ClearResults, RebuildPending, AddManual, Destroy, StartLoading, DeliverRow,
              DeliverEnd, FetchDone, ChinaLoaded, SetPending, Body, LaunchBody, FinishCopy, JoinPing, BeginTests,
              JoinFirst, BeginRetry, JoinRetry, CloseBlock, BlockReturns, StartQueued, SubmitTask, IsNext, Thread,
              ReadFlag, TakeEntry, PingReturns, TestReturns, PostRow, vars, jobVars
  <1>1. gen' = gen
    OBVIOUS
  <1>2. tainted \subseteq tainted'
    OBVIOUS
  <1>3. cancelled \subseteq cancelled'
    BY DEF WithJobCancelled
  <1> QED BY <1>1, <1>2, <1>3

\* A scan is clean from its start on.
LEMMA CleanBack ==
  ASSUME TypeInv, FlowInv, [Next]_vars, NEW g \in Scans, Clean(g)'
  PROVE  \/ StartScan /\ g = gen + 1 /\ Others(g) = {}
         \/ Clean(g) /\ ~StartScan
  <1>0. gen \in Nat /\ tainted \subseteq Scans /\ cancelled \subseteq Scans
    BY DEF TypeInv, TypeOK, FlagTypes, JobTypes
  <1>1. CASE StartScan
    <2>1. g = gen + 1 /\ g \notin tainted'
      BY <1>1 DEF StartScan, Clean
    <2> QED BY <1>1, <2>1 DEF StartScan
  <1>2. CASE ~StartScan
    <2>1. gen' = gen /\ tainted \subseteq tainted' /\ cancelled \subseteq cancelled'
      BY <1>2, Steady
    <2>4. g \in cancelled => job[g] = "finished"
      <3>1. Moves(g) /\ (g \notin cancelled' \/ job'[g] = "finished")
        BY JobMoves DEF Clean
      <3> QED BY <2>1, <3>1 DEF Moves
    <2> QED BY <1>2, <2>1, <2>4 DEF Clean
  <1> QED BY <1>1, <1>2

\* No other scan's body runs beside a clean one, and the flag stays set for it.
AloneInv == \A g \in Scans : Clean(g) => Alone(g)

LEMMA NextAlone == TypeInv /\ FlowInv /\ AloneInv /\ [Next]_vars => AloneInv'
  <1> SUFFICES ASSUME TypeInv, FlowInv, AloneInv, [Next]_vars, NEW g \in Scans, Clean(g)'
               PROVE  Alone(g)'
    BY DEF AloneInv
  <1>0. job \in [Scans -> JobStates] /\ gen \in Nat /\ \A h \in Scans : Moves(h)
    BY JobMoves DEF TypeInv, TypeOK, JobTypes
  <1>1. CASE StartScan /\ g = gen + 1 /\ Others(g) = {}
    <2>1. running' = TRUE /\ job' = [job EXCEPT ![g] = "launched"]
      BY <1>1 DEF StartScan
    <2> QED BY <1>0, <1>1, <2>1 DEF Alone, Others, Busy
  <1>2. CASE Clean(g) /\ ~StartScan
    <2>1. Alone(g) /\ gen = g
      BY <1>2 DEF AloneInv, Clean
    <2>2. ASSUME NEW h \in Scans \ {g} PROVE ~Busy(h)'
      <3>1. ~Busy(h) /\ Moves(h)
        BY <1>0, <2>1 DEF Alone
      <3> QED BY <1>2, <3>1 DEF Busy, Moves, JoinPing, BeginTests, JoinFirst, BeginRetry, JoinRetry, Joined, CloseBlock
    <2>3. ASSUME job'[g] \in Working PROVE running'
      <3>1. job[g] \in Working
        BY <1>0, <1>2, <2>3 DEF Working, Moves
      <3>2. running
        BY <2>1, <3>1 DEF Alone
      <3>3. g \notin cancelled'
        BY <2>3 DEF Clean, Working
      <3>4. ~StopScan /\ ~Destroy
        BY <2>1, <3>3 DEF StopScan, Destroy, WithJobCancelled, Scans
      <3>5. ASSUME NEW h \in Scans, CloseBlock(h) PROVE FALSE
        <4>1. h = g
          BY <2>1, <3>5 DEF Alone, Busy, CloseBlock
        <4> QED BY <1>0, <2>3, <3>5, <4>1 DEF CloseBlock, Working
      <3> QED BY <1>2, <3>2, <3>4, <3>5
             DEF Next, ClearResults, RebuildPending, AddManual, StartLoading, DeliverRow,
                 DeliverEnd, FetchDone, ChinaLoaded, SetPending, Body, LaunchBody, FinishCopy, JoinPing, BeginTests,
                 JoinFirst, BeginRetry, JoinRetry, BlockReturns, StartQueued, SubmitTask, IsNext, Thread,
                 ReadFlag, TakeEntry, PingReturns, TestReturns, PostRow, vars
    <2> QED BY <2>2, <2>3 DEF Alone
  <1> QED BY <1>1, <1>2, CleanBack

\* Every pass has a task, so that a join that returns has seen one leave its loop.
LEMMA SomeTask ==
  ASSUME NEW g \in Scans, NEW p \in Passes, \A t \in PassTasks(g, p) : pc[t] = "done"
  PROVE  \E t \in Tasks : t.scan = g /\ t.pass = p /\ pc[t] = "done"
  <1> DEFINE t == [scan |-> g, pass |-> p, slot |-> 1]
  <1>1. 1 \in 1..(PingThreads + TestThreads) /\ 1 <= Threads(Pool(p))
    BY ThreadsAssumption DEF Threads
  <1>2. t \in Tasks
    BY <1>1 DEF Tasks
  <1>3. t \in PassTasks(g, p)
    BY <1>2 DEF PassTasks
  <1> QED BY <1>2, <1>3

\* Only the body of the scan fills a queue.
LEMMA QueueMoves ==
  ASSUME TypeInv, [Next]_vars, NEW g \in Scans, NEW p \in Passes
  PROVE  \/ queue'[g][p] \subseteq queue[g][p]
         \/ FinishCopy(g) /\ p = "ping"
         \/ BeginTests(g) /\ p = "first" /\ queue'[g][p] = alive[g]
         \/ BeginRetry(g) /\ p = "retry" /\ queue'[g][p] = h3Fail[g]
  <1>0. queue \in [Scans -> [Passes -> SUBSET Entries]]
    BY DEF TypeInv, TypeOK, DataTypes
  <1> DEFINE Goal == \/ queue'[g][p] \subseteq queue[g][p]
                     \/ FinishCopy(g) /\ p = "ping"
                     \/ BeginTests(g) /\ p = "first" /\ queue'[g][p] = alive[g]
                     \/ BeginRetry(g) /\ p = "retry" /\ queue'[g][p] = h3Fail[g]
  <1>1. CASE UNCHANGED queue
    BY <1>1
  <1>2. ASSUME NEW t \in Tasks, TakeEntry(t) PROVE Goal
    <2>1. \/ queue' = queue
          \/ \E e \in queue[t.scan][t.pass] : queue' = [queue EXCEPT ![t.scan][t.pass] = @ \ {e}]
      BY <1>2 DEF TakeEntry, Poll
    <2>2. t.scan \in Scans /\ t.pass \in Passes
      BY TaskTypes
    <2>3. ASSUME NEW e, queue' = [queue EXCEPT ![t.scan][t.pass] = @ \ {e}]
          PROVE  queue'[g][p] \subseteq queue[g][p]
      <3>1. CASE g = t.scan /\ p = t.pass
        BY <1>0, <2>2, <2>3, <3>1
      <3>2. CASE g # t.scan \/ p # t.pass
        BY <1>0, <2>2, <2>3, <3>2
      <3> QED BY <3>1, <3>2
    <2> QED BY <2>1, <2>3
  <1>3. ASSUME NEW h \in Scans, FinishCopy(h) PROVE Goal
    <2>1. queue' = queue \/ \E S : queue' = [queue EXCEPT ![h]["ping"] = S]
      BY <1>3 DEF FinishCopy
    <2> QED BY <1>0, <1>3, <2>1
  <1>4. ASSUME NEW h \in Scans, BeginTests(h) PROVE Goal
    <2>1. queue' = [queue EXCEPT ![h]["first"] = alive[h]]
      BY <1>4 DEF BeginTests
    <2> QED BY <1>0, <1>4, <2>1
  <1>5. ASSUME NEW h \in Scans, BeginRetry(h) PROVE Goal
    <2>1. queue' = [queue EXCEPT ![h]["retry"] = h3Fail[h]]
      BY <1>5 DEF BeginRetry
    <2> QED BY <1>0, <1>5, <2>1
  <1>6. CASE \/ StartScan \/ StopScan \/ ClearResults \/ RebuildPending \/ AddManual \/ Destroy
             \/ \E what \in {"fetch", "china"} : StartLoading(what)
             \/ DeliverRow \/ DeliverEnd \/ FetchDone \/ ChinaLoaded
             \/ \E h \in Scans : \/ LaunchBody(h) \/ JoinPing(h) \/ JoinFirst(h) \/ JoinRetry(h)
                                 \/ CloseBlock(h) \/ BlockReturns(h)
             \/ \E q \in Pools : StartQueued(q)
             \/ \E t \in Tasks : SubmitTask(t) \/ ReadFlag(t) \/ PingReturns(t) \/ TestReturns(t) \/ PostRow(t)
             \/ UNCHANGED vars
    <2>1. UNCHANGED queue
      BY <1>6 DEF StartScan, StopScan, ClearResults, RebuildPending, AddManual, Destroy, StartLoading,
                  DeliverRow, DeliverEnd, FetchDone, ChinaLoaded, SetPending, LaunchBody, JoinPing, JoinFirst,
                  JoinRetry, CloseBlock, BlockReturns, StartQueued, SubmitTask, IsNext, ReadFlag, PingReturns,
                  TestReturns, PostRow, vars, dataVars
    <2> QED BY <1>1, <2>1
  <1> QED BY <1>2, <1>3, <1>4, <1>5, <1>6 DEF Next, Body, Thread

\* A task leaves its loop when the flag is cleared or its queue is empty.
LEMMA DoneMoves ==
  ASSUME TypeInv, [Next]_vars, NEW t \in Tasks, pc'[t] = "done"
  PROVE  \/ pc[t] = "done"
         \/ pc[t] = "loop" /\ ~running
         \/ pc[t] = "poll" /\ queue[t.scan][t.pass] = {}
  <1>0. pc \in [Tasks -> PcStates]
    BY DEF TypeInv, TypeOK, PoolTypes
  <1>1. ASSUME NEW u \in Tasks, TakeEntry(u)
        PROVE  pc[t] = "done" \/ (pc[t] = "poll" /\ queue[t.scan][t.pass] = {})
    BY <1>0, <1>1 DEF TakeEntry, RunsDry
  <1>5. ASSUME NEW u \in Tasks, ReadFlag(u)
        PROVE  pc[t] = "done" \/ (pc[t] = "loop" /\ ~running)
    BY <1>0, <1>5 DEF ReadFlag, GoesOn
  <1>2. ASSUME NEW u \in Tasks, SubmitTask(u) \/ PingReturns(u) \/ TestReturns(u) \/ PostRow(u)
        PROVE  pc[t] = "done"
    <2>1. pc' = pc \/ \E s \in PcStates \ {"done"} : pc' = [pc EXCEPT ![u] = s]
      BY <1>2 DEF SubmitTask, IsNext, PingReturns, TestReturns, PostRow, poolVars, PcStates
    <2> QED BY <1>0, <2>1
  <1>3. CASE Destroy \/ \E q \in Pools : StartQueued(q)
    BY <1>0, <1>3 DEF Destroy, StartQueued
  <1>4. CASE \/ StartScan \/ StopScan \/ ClearResults \/ RebuildPending \/ AddManual
             \/ \E what \in {"fetch", "china"} : StartLoading(what)
             \/ DeliverRow \/ DeliverEnd \/ FetchDone \/ ChinaLoaded
             \/ \E g \in Scans : Body(g)
             \/ UNCHANGED vars
    <2>1. UNCHANGED pc
      BY <1>4 DEF StartScan, StopScan, ClearResults, RebuildPending, AddManual, StartLoading, DeliverRow,
                  DeliverEnd, FetchDone, ChinaLoaded, SetPending, Body, LaunchBody, FinishCopy, JoinPing, BeginTests,
                  JoinFirst, BeginRetry, JoinRetry, CloseBlock, BlockReturns, vars, poolVars
    <2> QED BY <2>1
  <1> QED BY <1>1, <1>2, <1>3, <1>4, <1>5 DEF Next, Thread

\* Unstopped, a task of a clean scan leaves its loop when its queue is empty,
\* and the scan leaves a pass behind when its tasks have.
EmptiedInv == \A g \in Scans : Clean(g) => Emptied(g)

LEMMA NextEmptied ==
  TypeInv /\ FlowInv /\ TaskInv /\ OnceInv /\ AloneInv /\ EmptiedInv /\ [Next]_vars => EmptiedInv'
  <1> SUFFICES ASSUME TypeInv, FlowInv, TaskInv, OnceInv, AloneInv, EmptiedInv, [Next]_vars,
                      NEW g \in Scans, Clean(g)'
               PROVE  Emptied(g)'
    BY DEF EmptiedInv
  <1>0. /\ job \in [Scans -> JobStates] /\ Moves(g)
        /\ \A t \in Tasks : t.scan \in Scans /\ t.pass \in Passes
    BY JobMoves, TaskTypes DEF TypeInv, TypeOK, JobTypes
  <1>1. CASE StartScan /\ g = gen + 1 /\ Others(g) = {}
    <2>1. gen \in Nat
      BY DEF TypeInv, TypeOK, JobTypes
    <2>2. job[g] = "none" /\ job' = [job EXCEPT ![g] = "launched"] /\ UNCHANGED <<pc, queue>>
      BY <1>1, <2>1 DEF StartScan, FlowInv, GenInv, poolVars, dataVars
    <2>3. job'[g] = "launched" /\ \A t \in Tasks : t.scan = g => pc'[t] = "none"
      BY <1>0, <2>2 DEF TaskInv
    <2> QED BY <2>3 DEF Emptied, Behind
  <1>2. CASE Clean(g) /\ ~StartScan
    <2>1. Alone(g) /\ Emptied(g)
      BY <1>2 DEF AloneInv, EmptiedInv
    <2>2. ASSUME NEW p \in Passes, job[g] \in Behind(p) PROVE queue'[g][p] = {}
      <3>1. queue[g][p] = {}
        BY <2>1, <2>2 DEF Emptied
      <3>2. ~FinishCopy(g) /\ ~(BeginTests(g) /\ p = "first") /\ ~(BeginRetry(g) /\ p = "retry")
        BY <2>2 DEF FinishCopy, BeginTests, BeginRetry, Behind
      <3> QED BY <3>1, <3>2, QueueMoves
    <2>3. ASSUME NEW t \in Tasks, t.scan = g, pc'[t] = "done" PROVE queue'[g][t.pass] = {}
      <3>1. CASE pc[t] = "done"
        <4>1. queue[g][t.pass] = {}
          BY <2>1, <2>3, <3>1 DEF Emptied
        <4>2. job[g] \notin {"none", "launched", "copying"}
          BY <2>3, <3>1 DEF TaskInv
        <4>3. ~FinishCopy(g)
          BY <4>2 DEF FinishCopy
        <4>4. ASSUME BeginTests(g), t.pass = "first" PROVE FALSE
          <5>1. job[g] \in EarlyJobs /\ t \in TestTasks
            BY <4>4 DEF BeginTests, EarlyJobs, TestTasks
          <5> QED BY <2>3, <3>1, <5>1 DEF OnceInv, EarlyInv
        <4>5. ASSUME BeginRetry(g), t.pass = "retry" PROVE FALSE
          <5>1. job[g] = "tested" /\ t \in TestTasks
            BY <4>5 DEF BeginRetry, TestTasks
          <5> QED BY <2>3, <3>1, <4>5, <5>1 DEF OnceInv, FirstInv
        <4> QED BY <1>0, <4>1, <4>3, <4>4, <4>5, QueueMoves
      <3>2. CASE \/ pc[t] = "loop" /\ ~running
                 \/ pc[t] = "poll" /\ queue[t.scan][t.pass] = {}
        <4>1. job[g] = t.pass
          BY <2>3, <3>2 DEF TaskInv, Active
        <4>2. queue[g][t.pass] = {}
          BY <1>0, <2>1, <2>3, <3>2, <4>1 DEF Alone, Working, Passes
        <4>3. ~(FinishCopy(g) /\ t.pass = "ping") /\ ~BeginTests(g) /\ ~BeginRetry(g)
          BY <1>0, <4>1 DEF FinishCopy, BeginTests, BeginRetry, Passes
        <4> QED BY <1>0, <4>2, <4>3, QueueMoves
      <3> QED BY <2>3, <3>1, <3>2, DoneMoves
    <2>4. ASSUME NEW p \in Passes, job'[g] \in Behind(p), job[g] \notin Behind(p) PROVE queue'[g][p] = {}
      <3>0. queue \in [Scans -> [Passes -> SUBSET Entries]]
        BY DEF TypeInv, TypeOK, DataTypes
      <3>1. CASE JoinPing(g)
        <4>1. job[g] = "ping" /\ queue' = queue /\ \A t \in PassTasks(g, "ping") : pc[t] = "done"
          BY <3>1 DEF JoinPing, Joined, dataVars
        <4>2. running
          BY <2>1, <4>1 DEF Alone, Working
        <4>3. p = "ping"
          BY <1>0, <2>4, <3>1, <4>1, <4>2 DEF JoinPing, Passes, Behind
        <4>4. \E t \in Tasks : t.scan = g /\ t.pass = p /\ pc[t] = "done"
          BY <4>1, <4>3, SomeTask
        <4> QED BY <2>1, <4>1, <4>4 DEF Emptied
      <3>2. CASE JoinFirst(g)
        <4>1. job[g] = "first" /\ queue' = queue /\ \A t \in PassTasks(g, "first") : pc[t] = "done"
          BY <3>2 DEF JoinFirst, Joined, dataVars
        <4>2. CASE p = "first"
          <5>1. \E t \in Tasks : t.scan = g /\ t.pass = p /\ pc[t] = "done"
            BY <4>1, <4>2, SomeTask
          <5> QED BY <2>1, <4>1, <5>1 DEF Emptied
        <4>3. CASE p = "retry"
          BY <4>1, <4>3 DEF OnceInv, FirstInv
        <4> QED BY <2>4, <4>1, <4>2, <4>3 DEF Passes, Behind
      <3>4. CASE BeginTests(g)
        <4>1. /\ job[g] = "pinged"
              /\ job' = [job EXCEPT ![g] = IF alive[g] = {} THEN "closing" ELSE "first"]
              /\ queue' = [queue EXCEPT ![g]["first"] = alive[g]]
          BY <3>4 DEF BeginTests
        <4>2. p # "ping" /\ alive[g] = {}
          BY <1>0, <2>4, <4>1 DEF Behind
        <4>3. CASE p = "first"
          BY <3>0, <4>1, <4>2, <4>3
        <4>4. CASE p = "retry"
          <5>1. queue[g]["retry"] = {}
            BY <4>1 DEF OnceInv, FirstInv, EarlyJobs
          <5> QED BY <3>0, <4>1, <4>4, <5>1
        <4> QED BY <4>2, <4>3, <4>4 DEF Passes
      <3>5. CASE BeginRetry(g)
        <4>1. /\ job[g] = "tested"
              /\ job' = [job EXCEPT ![g] = IF h3Fail[g] = {} THEN "closing" ELSE "retry"]
              /\ queue' = [queue EXCEPT ![g]["retry"] = h3Fail[g]]
          BY <3>5 DEF BeginRetry
        <4>2. p = "retry" /\ h3Fail[g] = {}
          BY <1>0, <2>4, <4>1 DEF Behind, Passes
        <4> QED BY <3>0, <4>1, <4>2
      <3>3. CASE JoinRetry(g)
        <4>1. job[g] = "retry" /\ queue' = queue /\ \A t \in PassTasks(g, "retry") : pc[t] = "done"
          BY <3>3 DEF JoinRetry, Joined, dataVars
        <4>2. p = "retry"
          BY <2>4, <4>1 DEF Passes, Behind
        <4>3. \E t \in Tasks : t.scan = g /\ t.pass = p /\ pc[t] = "done"
          BY <4>1, <4>2, SomeTask
        <4> QED BY <2>1, <4>1, <4>3 DEF Emptied
      <3> QED BY <1>0, <1>2, <2>4, <3>1, <3>2, <3>3, <3>4, <3>5 DEF Moves, Behind
    <2> QED BY <2>2, <2>3, <2>4 DEF Emptied
  <1> QED BY <1>1, <1>2, CleanBack

\* A step that takes, tests and posts no address leaves all where it is.
Kept(g, p) ==
  /\ queue'[g][p] = queue[g][p] /\ h3Fail' = h3Fail
  /\ \A t \in TestTasks : /\ hold'[t] = hold[t]
                          /\ pc'[t] = pc[t] \/ (pc[t] \notin HasEntry /\ pc'[t] \notin HasEntry)
  /\ \A r \in Rows : Out(r)' = Out(r)

LEMMA OthersKeep ==
  ASSUME TypeInv, FlowInv, PoolInv, OnceInv, [Next]_vars, NEW g \in Scans, NEW p \in TestPasses,
         ~StartScan, ~ClearResults,
         ~\E t \in Tasks : TakeEntry(t) \/ TestReturns(t) \/ PostRow(t),
         ~(BeginTests(g) /\ p = "first"), ~(BeginRetry(g) /\ p = "retry")
  PROVE  Kept(g, p)
  <1>1. CASE UNCHANGED vars
    <2>1. UNCHANGED <<queue, h3Fail, pc, hold, results, looper>>
      BY <1>1 DEF vars, uiVars, dataVars, poolVars
    <2>2. \A r \in Rows : Out(r)' = Out(r)
      BY <2>1, OutSame
    <2> QED BY <2>1, <2>2 DEF Kept
  <1>2. CASE Next
    <2>0. \A r \in Rows : Out(r)' <= Out(r) /\ Out(r)' = Out(r)
      BY <1>2, OutSteps
    <2>1. CASE \/ StartScan \/ StopScan \/ ClearResults \/ RebuildPending \/ AddManual
               \/ \E what \in {"fetch", "china"} : StartLoading(what)
               \/ DeliverRow \/ DeliverEnd \/ FetchDone \/ ChinaLoaded
               \/ \E h \in Scans : LaunchBody(h) \/ JoinRetry(h) \/ CloseBlock(h) \/ BlockReturns(h)
      <3>1. UNCHANGED <<mode, h3Fail, queue, pc, hold>>
        BY <2>1, QuietMain
      <3> QED BY <2>0, <3>1 DEF Kept
    <2>2. CASE \/ Destroy
               \/ \E q \in Pools : StartQueued(q)
               \/ \E t \in Tasks : SubmitTask(t) \/ ReadFlag(t) \/ PingReturns(t)
      <3>1. Quiet
        BY <2>0, <2>2, QuietPools
      <3> QED BY <2>0, <3>1 DEF Quiet, Kept
    <2>3. ASSUME NEW h \in Scans, FinishCopy(h) \/ JoinPing(h) \/ BeginTests(h) \/ JoinFirst(h) \/ BeginRetry(h) PROVE Kept(g, p)
      <3>1. UNCHANGED <<h3Fail, pc, hold>> /\ queue \in [Scans -> [Passes -> SUBSET Entries]]
        BY <2>3 DEF FinishCopy, JoinPing, BeginTests, JoinFirst, BeginRetry, dataVars, poolVars, TypeInv, TypeOK, DataTypes
      <3>2. \/ queue' = queue
            \/ FinishCopy(h) /\ \E S : queue' = [queue EXCEPT ![h]["ping"] = S]
            \/ BeginTests(h) /\ queue' = [queue EXCEPT ![h]["first"] = alive[h]]
            \/ BeginRetry(h) /\ queue' = [queue EXCEPT ![h]["retry"] = h3Fail[h]]
        BY <2>3 DEF FinishCopy, JoinPing, BeginTests, JoinFirst, BeginRetry, dataVars
      <3>3. queue'[g][p] = queue[g][p]
        BY <3>1, <3>2 DEF TestPasses, Passes
      <3> QED BY <2>0, <3>1, <3>3 DEF Kept
    <2> QED BY <1>2, <2>1, <2>2, <2>3 DEF Next, Body, Thread
  <1> QED BY <1>1, <1>2

\* A poll moves an address from the queue to a hand.
LEMMA TakeMoves ==
  ASSUME TypeInv, OnceInv, NEW t \in Tasks, TakeEntry(t), NEW g \in Scans, NEW p \in TestPasses,
         NEW e \in Entries
  PROVE  /\ e \in queue[g][p] => \/ e \in queue'[g][p]
                                 \/ t \in TestTasks /\ t.scan = g /\ t.pass = p /\ hold'[t] = e /\ pc'[t] = "probe"
         /\ \A u \in TestTasks : hold[u] = e => hold'[u] = e /\ pc'[u] = pc[u]
         /\ h3Fail' = h3Fail /\ \A r \in Rows : Out(r)' = Out(r)
  <1>0. /\ pc \in [Tasks -> PcStates] /\ hold \in [Tasks -> Entries \cup {NoEntry}]
        /\ queue \in [Scans -> [Passes -> SUBSET Entries]]
        /\ t.scan \in Scans /\ t.pass \in Passes /\ p \in Passes /\ p # "ping" /\ e # NoEntry
    BY TaskTypes, NoEntryAssumption DEF TypeInv, TypeOK, PoolTypes, DataTypes, TestPasses, Passes
  <1>1. \/ queue' = queue /\ hold' = hold /\ pc' = [pc EXCEPT ![t] = "done"]
        \/ \E d \in queue[t.scan][t.pass] :
             /\ queue' = [queue EXCEPT ![t.scan][t.pass] = @ \ {d}]
             /\ hold' = [hold EXCEPT ![t] = d] /\ pc' = [pc EXCEPT ![t] = "probe"]
    BY DEF TakeEntry, Poll
  <1>2. pc[t] = "poll" /\ h3Fail' = h3Fail /\ UNCHANGED <<results, looper>>
    BY DEF TakeEntry, uiVars
  <1>3. t \in TestTasks => hold[t] = NoEntry
    BY <1>2 DEF OnceInv, HandInv, HasEntry
  <1>4. ASSUME e \in queue[g][p], e \notin queue'[g][p]
        PROVE  t \in TestTasks /\ t.scan = g /\ t.pass = p /\ hold'[t] = e /\ pc'[t] = "probe"
    <2>1. PICK d \in queue[t.scan][t.pass] :
                 /\ queue' = [queue EXCEPT ![t.scan][t.pass] = @ \ {d}]
                 /\ hold' = [hold EXCEPT ![t] = d] /\ pc' = [pc EXCEPT ![t] = "probe"]
      BY <1>1, <1>4
    <2>2. t.scan = g /\ t.pass = p
      <3>1. CASE t.scan # g
        BY <1>0, <1>4, <2>1, <3>1
      <3>2. CASE t.scan = g /\ t.pass # p
        BY <1>0, <1>4, <2>1, <3>2
      <3> QED BY <3>1, <3>2
    <2>3. d = e
      BY <1>0, <1>4, <2>1, <2>2
    <2> QED BY <1>0, <2>1, <2>2, <2>3 DEF TestTasks
  <1>5. ASSUME NEW u \in TestTasks, hold[u] = e PROVE hold'[u] = e /\ pc'[u] = pc[u]
    <2>1. u \in Tasks /\ u # t
      BY <1>0, <1>3, <1>5 DEF TestTasks
    <2> QED BY <1>0, <1>1, <1>5, <2>1
  <1>6. \A r \in Rows : Out(r)' = Out(r)
    BY <1>2, OutSame
  <1> QED BY <1>2, <1>4, <1>5, <1>6

\* A post moves an address from a hand to a row.
LEMMA PostMoves ==
  ASSUME TypeInv, OnceInv, NEW t \in Tasks, PostRow(t)
  PROVE  /\ queue' = queue /\ h3Fail' = h3Fail /\ t \in TestTasks
         /\ \A u \in TestTasks \ {t} : hold'[u] = hold[u] /\ pc'[u] = pc[u]
         /\ \A r \in Rows : Out(r) \in Nat /\ Out(r)' >= Out(r)
         /\ \E r \in Rows, k \in Protos :
              /\ k = ProtoOf(t.scan, t.pass) /\ Out(r)' > 0
              /\ r = IF pc[t] = "won" THEN Yes(t.scan, hold[t], k) ELSE No(t.scan, hold[t], k)
  <1>1. /\ queue' = queue /\ h3Fail' = h3Fail /\ pc[t] \in {"won", "lost"}
        /\ pc' = [pc EXCEPT ![t] = "loop"] /\ hold' = [hold EXCEPT ![t] = NoEntry]
        /\ pc \in [Tasks -> PcStates] /\ hold \in [Tasks -> Entries \cup {NoEntry}]
    BY DEF PostRow, dataVars, TypeInv, TypeOK, PoolTypes
  <1>2. t \in TestTasks
    BY <1>1 DEF OnceInv, HandInv
  <1>3. ASSUME NEW u \in TestTasks \ {t} PROVE hold'[u] = hold[u] /\ pc'[u] = pc[u]
    <2>1. u \in Tasks /\ u # t
      BY DEF TestTasks
    <2> QED BY <1>1, <2>1
  <1>4. RowOf(t) \in Rows
    BY <1>1, RowType
  <1>5. PICK r0 \in Rows : r0 = RowOf(t)
    BY <1>4
  <1>6. \A r \in Rows : Out(r) \in Nat /\ (r = r0 => Out(r)' = Out(r) + 1) /\ (r # r0 => Out(r)' = Out(r))
    BY <1>5, OutPost, OutType
  <1>7. Out(r0)' > 0 /\ \A r \in Rows : Out(r) \in Nat /\ Out(r)' >= Out(r)
    BY <1>6
  <1>8. PICK k \in Protos : k = ProtoOf(t.scan, t.pass)
    BY DEF ProtoOf, Protos
  <1>9. r0 = IF pc[t] = "won" THEN Yes(t.scan, hold[t], k) ELSE No(t.scan, hold[t], k)
    BY <1>5, <1>8 DEF RowOf, Yes, No
  <1>10. \E r \in Rows, j \in Protos :
           /\ j = ProtoOf(t.scan, t.pass) /\ Out(r)' > 0
           /\ r = IF pc[t] = "won" THEN Yes(t.scan, hold[t], j) ELSE No(t.scan, hold[t], j)
    BY <1>7, <1>8, <1>9
  <1> QED BY <1>1, <1>2, <1>3, <1>7, <1>10

LEMMA TrackedStays ==
  ASSUME TypeInv, FlowInv, PoolInv, OnceInv, [Next]_vars, ~StartScan, ~ClearResults,
         NEW g \in Scans, NEW p \in TestPasses, NEW e \in Entries, NEW k \in Protos,
         k = ProtoOf(g, p), Tracked(g, e, p, k),
         ~(BeginTests(g) /\ p = "first"), ~(BeginRetry(g) /\ p = "retry")
  PROVE  Tracked(g, e, p, k)'
  <1> DEFINE y == Yes(g, e, k)  n == No(g, e, k)
  <1>1. y \in Rows /\ n \in Rows
    BY RowFacts
  <1>2. \/ e \in queue[g][p]
        \/ \E t \in TestTasks : t.scan = g /\ t.pass = p /\ hold[t] = e
        \/ Out(y) > 0 \/ Out(n) > 0
    BY DEF Tracked
  <1>3. ASSUME \/ e \in queue'[g][p]
               \/ \E t \in TestTasks : t.scan = g /\ t.pass = p /\ hold'[t] = e
               \/ Out(y)' > 0 \/ Out(n)' > 0
        PROVE  Tracked(g, e, p, k)'
    BY <1>3 DEF Tracked
  <1>4. ASSUME NEW t \in Tasks, TakeEntry(t) PROVE Tracked(g, e, p, k)'
    <2>1. /\ e \in queue[g][p] => \/ e \in queue'[g][p]
                                  \/ t \in TestTasks /\ t.scan = g /\ t.pass = p /\ hold'[t] = e
          /\ \A u \in TestTasks : hold[u] = e => hold'[u] = e
          /\ \A r \in Rows : Out(r)' = Out(r)
      BY <1>4, TakeMoves
    <2> HIDE DEF y, n
    <2> QED BY <1>1, <1>2, <1>3, <2>1
  <1>5. ASSUME NEW t \in Tasks, PostRow(t) PROVE Tracked(g, e, p, k)'
    <2>1. /\ queue' = queue
          /\ \A u \in TestTasks \ {t} : hold'[u] = hold[u]
          /\ \A r \in Rows : Out(r) \in Nat /\ Out(r)' >= Out(r)
          /\ \E r \in Rows, j \in Protos :
               /\ j = ProtoOf(t.scan, t.pass) /\ Out(r)' > 0
               /\ r = IF pc[t] = "won" THEN Yes(t.scan, hold[t], j) ELSE No(t.scan, hold[t], j)
      BY <1>5, PostMoves
    <2>2. \A r \in Rows : Out(r) > 0 => Out(r)' > 0
      <3> SUFFICES ASSUME NEW r \in Rows, Out(r) > 0 PROVE Out(r)' > 0
        OBVIOUS
      <3>1. Out(r) \in Nat /\ Out(r)' \in Nat /\ Out(r)' >= Out(r)
        <4>1. results'[r] \in Nat
          BY <1>5 DEF PostRow, uiVars, TypeInv, TypeOK, UiTypes
        <4>2. Out(r) \in Nat /\ (Out(r)' = Out(r) + 1 \/ Out(r)' = Out(r))
          BY <1>5, OutPost, OutType
        <4> QED BY <2>1, <4>2
      <3> QED BY <3>1
    <2>3. ASSUME t.scan = g, t.pass = p, hold[t] = e PROVE Out(y)' > 0 \/ Out(n)' > 0
      BY <2>1, <2>3
    <2> HIDE DEF y, n
    <2> QED BY <1>1, <1>2, <1>3, <2>1, <2>2, <2>3
  <1>6. ASSUME NEW t \in Tasks, TestReturns(t) PROVE Tracked(g, e, p, k)'
    <2>1. UNCHANGED <<queue, hold, results, looper>>
      BY <1>6 DEF TestReturns, uiVars
    <2>2. \A r \in Rows : Out(r)' = Out(r)
      BY <2>1, OutSame
    <2> HIDE DEF y, n
    <2> QED BY <1>1, <1>2, <1>3, <2>1, <2>2
  <1>7. CASE ~\E t \in Tasks : TakeEntry(t) \/ TestReturns(t) \/ PostRow(t)
    <2>1. Kept(g, p)
      BY <1>7, OthersKeep
    <2>2. /\ queue'[g][p] = queue[g][p] /\ \A r \in Rows : Out(r)' = Out(r)
          /\ \A t \in TestTasks : hold'[t] = hold[t]
      BY <2>1 DEF Kept
    <2> HIDE DEF y, n
    <2> QED BY <1>1, <1>2, <1>3, <2>2
  <1> QED BY <1>4, <1>5, <1>6, <1>7

LEMMA SortedStays ==
  ASSUME TypeInv, FlowInv, PoolInv, OnceInv, [Next]_vars, ~StartScan, ~ClearResults,
         NEW g \in Scans, NEW e \in Entries, mode[g] = "Hybrid", Sorted(g, e), ~BeginTests(g)
  PROVE  Sorted(g, e)'
  <1> DEFINE y == Yes(g, e, "H3")
  <1>0. "H3" \in Protos /\ "first" \in TestPasses /\ ProtoOf(g, "first") = "H3"
    BY ProtoFacts DEF Protos, TestPasses
  <1>1. y \in Rows
    BY <1>0, RowFacts
  <1>2. \/ e \in queue[g]["first"]
        \/ \E t \in TestTasks : t.scan = g /\ t.pass = "first" /\ hold[t] = e /\ pc[t] \in {"probe", "won"}
        \/ Out(y) > 0
        \/ e \in h3Fail[g]
    BY DEF Sorted
  <1>3. ASSUME \/ e \in queue'[g]["first"]
               \/ \E t \in TestTasks : t.scan = g /\ t.pass = "first" /\ hold'[t] = e /\ pc'[t] \in {"probe", "won"}
               \/ Out(y)' > 0
               \/ e \in h3Fail'[g]
        PROVE  Sorted(g, e)'
    BY <1>3 DEF Sorted
  <1>4. ASSUME NEW t \in Tasks, TakeEntry(t) PROVE Sorted(g, e)'
    <2>1. /\ e \in queue[g]["first"] =>
               \/ e \in queue'[g]["first"]
               \/ t \in TestTasks /\ t.scan = g /\ t.pass = "first" /\ hold'[t] = e /\ pc'[t] = "probe"
          /\ \A u \in TestTasks : hold[u] = e => hold'[u] = e /\ pc'[u] = pc[u]
          /\ h3Fail' = h3Fail /\ \A r \in Rows : Out(r)' = Out(r)
      BY <1>0, <1>4, TakeMoves
    <2> HIDE DEF y
    <2> QED BY <1>1, <1>2, <1>3, <2>1
  <1>5. ASSUME NEW t \in Tasks, PostRow(t) PROVE Sorted(g, e)'
    <2>1. /\ queue' = queue /\ h3Fail' = h3Fail
          /\ \A u \in TestTasks \ {t} : hold'[u] = hold[u] /\ pc'[u] = pc[u]
          /\ \E r \in Rows, j \in Protos :
               /\ j = ProtoOf(t.scan, t.pass) /\ Out(r)' > 0
               /\ r = IF pc[t] = "won" THEN Yes(t.scan, hold[t], j) ELSE No(t.scan, hold[t], j)
      BY <1>5, PostMoves
    <2>2. Out(y) > 0 => Out(y)' > 0
      <3>1. Out(y) \in Nat /\ (Out(y)' = Out(y) + 1 \/ Out(y)' = Out(y))
        <4> HIDE DEF y
        <4> QED BY <1>1, <1>5, OutPost, OutType
      <3> HIDE DEF y
      <3> QED BY <3>1
    <2>3. ASSUME t.scan = g, t.pass = "first", hold[t] = e, pc[t] \in {"probe", "won"} PROVE Out(y)' > 0
      <3>1. pc[t] = "won"
        BY <1>5, <2>3 DEF PostRow
      <3> QED BY <1>0, <2>1, <2>3, <3>1
    <2> HIDE DEF y
    <2> QED BY <1>1, <1>2, <1>3, <2>1, <2>2, <2>3
  <1>6. ASSUME NEW t \in Tasks, TestReturns(t) PROVE Sorted(g, e)'
    <2>1. /\ UNCHANGED <<queue, hold, results, looper>> /\ pc[t] = "probe"
          /\ pc \in [Tasks -> PcStates] /\ h3Fail \in [Scans -> SUBSET Entries]
          /\ \E usable \in BOOLEAN :
               /\ pc' = [pc EXCEPT ![t] = IF usable THEN "won" ELSE "lost"]
               /\ h3Fail' = IF NotesFailure(t, usable)
                            THEN [h3Fail EXCEPT ![t.scan] = @ \cup {hold[t]}] ELSE h3Fail
      BY <1>6 DEF TestReturns, uiVars, TypeInv, TypeOK, PoolTypes, DataTypes
    <2>2. Out(y)' = Out(y)
      BY <1>1, <2>1, OutSame
    <2>3. \A u \in TestTasks : u \in Tasks
      BY DEF TestTasks
    <2>4. h3Fail[g] \subseteq h3Fail'[g]
      BY <2>1, TaskTypes
    <2>5. ASSUME NEW u \in TestTasks, u.scan = g, u.pass = "first", hold[u] = e, pc[u] \in {"probe", "won"}
          PROVE  pc'[u] \in {"probe", "won"} \/ e \in h3Fail'[g]
      <3>1. CASE u # t
        BY <2>1, <2>3, <2>5, <3>1
      <3>2. CASE u = t
        BY <2>1, <2>3, <2>5, <3>2 DEF NotesFailure
      <3> QED BY <3>1, <3>2
    <2> HIDE DEF y
    <2> QED BY <1>2, <1>3, <2>1, <2>2, <2>4, <2>5
  <1>7. CASE ~\E t \in Tasks : TakeEntry(t) \/ TestReturns(t) \/ PostRow(t)
    <2>1. Kept(g, "first")
      BY <1>0, <1>7, OthersKeep
    <2>2. /\ queue'[g]["first"] = queue[g]["first"] /\ h3Fail' = h3Fail
          /\ \A r \in Rows : Out(r)' = Out(r)
          /\ \A t \in TestTasks : pc[t] \in {"probe", "won"} => hold'[t] = hold[t] /\ pc'[t] = pc[t]
      BY <2>1 DEF Kept, HasEntry
    <2> HIDE DEF y
    <2> QED BY <1>1, <1>2, <1>3, <2>2
  <1> QED BY <1>4, <1>5, <1>6, <1>7

\* A list without rows is the empty list, so that btnClear changes nothing of it.
LEMMA NoneShown ==
  ASSUME results \in [Rows -> Nat], ~\E r \in Rows : results[r] > 0
  PROVE  results = [r \in Rows |-> 0]
  <1>1. \A r \in Rows : results[r] = 0
    OBVIOUS
  <1> QED BY <1>1

LEMMA CoveredSame ==
  ASSUME NEW g \in Scans, Covered(g),
         UNCHANGED <<results, looper, cleared, job, mode, queue, alive, h3Fail, pc, hold>>
  PROVE  Covered(g)'
  BY DEF Covered, Tracked, Sorted, ProtoOf, Out, Posted

\* The addresses that answered are settled when the ping pass is over, and the
\* failures when the first test pass is.
LEMMA DataMoves ==
  ASSUME TypeInv, TaskInv, [Next]_vars, NEW g \in Scans
  PROVE  /\ alive'[g] = alive[g] \/ (job[g] = "ping" /\ ~JoinPing(g))
         /\ h3Fail'[g] = h3Fail[g] \/ (job[g] = "first" /\ ~JoinFirst(g))
         /\ mode'[g] = mode[g] \/ BeginTests(g)
         /\ ~cleared' => ~cleared \/ StartScan
  <1>0. /\ alive \in [Scans -> SUBSET Entries] /\ h3Fail \in [Scans -> SUBSET Entries]
        /\ mode \in [Scans -> Modes]
    BY DEF TypeInv, TypeOK, DataTypes, JobTypes
  <1> DEFINE Goal ==
        /\ alive'[g] = alive[g] \/ (job[g] = "ping" /\ ~JoinPing(g))
        /\ h3Fail'[g] = h3Fail[g] \/ (job[g] = "first" /\ ~JoinFirst(g))
        /\ mode'[g] = mode[g] \/ BeginTests(g)
        /\ ~cleared' => ~cleared \/ StartScan
  <1>1. ASSUME NEW t \in Tasks, PingReturns(t) PROVE Goal
    <2>1. /\ h3Fail' = h3Fail /\ mode' = mode /\ cleared' = cleared /\ job' = job /\ pc[t] = "probe" /\ t.pass = "ping"
          /\ alive' = alive \/ alive' = [alive EXCEPT ![t.scan] = @ \cup {hold[t]}]
          /\ pc'[t] # pc[t]
      BY <1>1 DEF PingReturns, uiVars, jobVars, TypeInv, TypeOK, PoolTypes
    <2>2. job[t.scan] = "ping" /\ t.scan \in Scans
      BY <2>1, TaskTypes DEF TaskInv, Active
    <2>3. ~JoinPing(t.scan)
      BY <2>1, <2>2 DEF JoinPing, poolVars
    <2> QED BY <1>0, <2>1, <2>2, <2>3
  <1>2. ASSUME NEW t \in Tasks, TestReturns(t) PROVE Goal
    <2>1. /\ alive' = alive /\ mode' = mode /\ cleared' = cleared /\ job' = job /\ pc[t] = "probe" /\ pc'[t] # pc[t]
          /\ \/ h3Fail' = h3Fail
             \/ t.pass = "first" /\ h3Fail' = [h3Fail EXCEPT ![t.scan] = @ \cup {hold[t]}]
      BY <1>2 DEF TestReturns, NotesFailure, uiVars, jobVars, TypeInv, TypeOK, PoolTypes
    <2>2. job[t.scan] = t.pass /\ t.scan \in Scans
      BY <2>1, TaskTypes DEF TaskInv, Active
    <2>3. ~JoinFirst(t.scan)
      BY <2>1 DEF JoinFirst, poolVars
    <2> QED BY <1>0, <2>1, <2>2, <2>3
  <1>3. ASSUME NEW h \in Scans, BeginTests(h) PROVE Goal
    <2>1. /\ alive' = alive /\ h3Fail' = h3Fail /\ cleared' = cleared
          /\ \E m : mode' = [mode EXCEPT ![h] = m]
      BY <1>3 DEF BeginTests, uiVars
    <2> QED BY <1>0, <1>3, <2>1
  <1>4. CASE \/ StartScan \/ StopScan \/ ClearResults \/ RebuildPending \/ AddManual \/ Destroy
             \/ \E what \in {"fetch", "china"} : StartLoading(what)
             \/ DeliverRow \/ DeliverEnd \/ FetchDone \/ ChinaLoaded
             \/ \E h \in Scans : \/ LaunchBody(h) \/ FinishCopy(h) \/ JoinPing(h) \/ JoinFirst(h)
                                 \/ BeginRetry(h) \/ JoinRetry(h) \/ CloseBlock(h) \/ BlockReturns(h)
             \/ \E q \in Pools : StartQueued(q)
             \/ \E t \in Tasks : SubmitTask(t) \/ ReadFlag(t) \/ TakeEntry(t) \/ PostRow(t)
             \/ UNCHANGED vars
    <2>1. /\ alive' = alive /\ h3Fail' = h3Fail /\ mode' = mode
          /\ cleared' = cleared \/ StartScan \/ ClearResults
      BY <1>4 DEF StartScan, StopScan, ClearResults, RebuildPending, AddManual, Destroy, StartLoading,
                  DeliverRow, DeliverEnd, FetchDone, ChinaLoaded, SetPending, LaunchBody, FinishCopy,
                  JoinPing, JoinFirst, BeginRetry, JoinRetry, CloseBlock, BlockReturns, StartQueued, SubmitTask,
                  IsNext, ReadFlag, TakeEntry, PostRow, vars, uiVars, jobVars, dataVars
    <2>2. ClearResults /\ ~cleared' => ~cleared
      BY DEF ClearResults
    <2> QED BY <2>1, <2>2
  <1> QED BY <1>1, <1>2, <1>3, <1>4 DEF Next, Body, Thread

\* What a test pass was given stays in sight, from its queue to the rows.
CoveredInv == \A g \in Scans : Clean(g) => Covered(g)

LEMMA NextCovered ==
  TypeInv /\ TypeInv' /\ FlowInv /\ PoolInv /\ TaskInv /\ OnceInv /\ AloneInv /\ CoveredInv /\ [Next]_vars
    => CoveredInv'
  <1> SUFFICES ASSUME TypeInv, TypeInv', FlowInv, PoolInv, TaskInv, OnceInv, AloneInv, CoveredInv,
                      [Next]_vars, NEW g \in Scans, Clean(g)'
               PROVE  Covered(g)'
    BY DEF CoveredInv
  <1>0. /\ job \in [Scans -> JobStates] /\ Moves(g)
        /\ "first" \in TestPasses /\ "retry" \in TestPasses /\ "TCP" \in Protos
        /\ alive[g] \subseteq Entries /\ h3Fail[g] \subseteq Entries
        /\ queue \in [Scans -> [Passes -> SUBSET Entries]] /\ mode \in [Scans -> Modes]
    BY JobMoves DEF TypeInv, TypeOK, JobTypes, DataTypes, TestPasses, Protos
  <1>1. CASE StartScan /\ g = gen + 1 /\ Others(g) = {}
    <2>1. job'[g] = "launched"
      BY <1>0, <1>1 DEF StartScan
    <2> QED BY <2>1 DEF Covered, Begun, Behind
  <1>2. CASE ClearResults
    <2>1. CASE cleared'
      BY <2>1 DEF Covered
    <2>2. CASE ~cleared'
      <3>1. results \in [Rows -> Nat]
        BY DEF TypeInv, TypeOK, UiTypes
      <3>2. UNCHANGED <<results, looper, cleared, job, mode, queue, alive, h3Fail, pc, hold>>
        <4>1. cleared' = (cleared \/ \E r \in Rows : results[r] > 0) /\ cleared \in BOOLEAN
          BY <1>2 DEF ClearResults, TypeInv, TypeOK, UiTypes
        <4>2. ~cleared /\ ~\E r \in Rows : results[r] > 0
          BY <2>2, <4>1
        <4>3. cleared' = cleared
          BY <2>2, <4>1, <4>2
        <4>4. UNCHANGED <<looper, job, mode, queue, alive, h3Fail, pc, hold>> /\ results' = results
          BY <1>2, <3>1, <4>2, NoneShown DEF ClearResults, jobVars, dataVars, poolVars
        <4> QED BY <4>3, <4>4
      <3>3. \A r \in Rows : Out(r)' = Out(r)
        BY <3>2, OutSame
      <3>4. Clean(g)
        BY <1>2, CleanBack, <3>2 DEF StartScan, ClearResults
      <3> QED BY <1>2, <2>2, <3>2, <3>4, CoveredSame DEF CoveredInv
    <2> QED BY <2>1, <2>2
  <1>3. CASE Clean(g) /\ ~StartScan /\ ~ClearResults /\ cleared'
    BY <1>3 DEF Covered
  <1>4. CASE Clean(g) /\ ~StartScan /\ ~ClearResults /\ ~cleared'
    <2>1. /\ Alone(g) /\ Covered(g) /\ ~cleared
          /\ alive'[g] = alive[g] \/ (job[g] = "ping" /\ ~JoinPing(g))
          /\ h3Fail'[g] = h3Fail[g] \/ (job[g] = "first" /\ ~JoinFirst(g))
          /\ mode'[g] = mode[g] \/ BeginTests(g)
      BY <1>4, DataMoves DEF AloneInv, CoveredInv
    <2>3. ASSUME BeginTests(g)
          PROVE  /\ queue'[g]["first"] = alive[g] /\ job[g] = "pinged"
                 /\ job'[g] \in {"closing", "first"}
                 /\ h3Fail[g] = {}
      <3>1. /\ job[g] = "pinged"
            /\ job' = [job EXCEPT ![g] = IF alive[g] = {} THEN "closing" ELSE "first"]
            /\ queue' = [queue EXCEPT ![g]["first"] = alive[g]]
        BY <2>3 DEF BeginTests
      <3>2. h3Fail[g] = {}
        BY <3>1 DEF OnceInv, EarlyInv, EarlyJobs
      <3> QED BY <1>0, <3>1, <3>2 DEF Passes
    <2>2. ASSUME JoinPing(g) PROVE job[g] = "ping" /\ job'[g] = "pinged"
      <3>1. job[g] = "ping" /\ running
        BY <2>1, <2>2 DEF JoinPing, Joined, Alone, Working
      <3> QED BY <1>0, <2>2, <3>1 DEF JoinPing
    <2>10. ASSUME JoinFirst(g)
           PROVE  job[g] = "first" /\ job'[g] = IF mode[g] = "Hybrid" THEN "tested" ELSE "closing"
      <3>1. job[g] = "first" /\ running
        BY <2>1, <2>10 DEF JoinFirst, Joined, Alone, Working
      <3> QED BY <1>0, <2>10, <3>1 DEF JoinFirst
    <2>4. job'[g] \in Begun("ping") => job[g] \in Begun("ping") \/ BeginTests(g)
      BY <1>0, <1>4, <2>2 DEF Moves, Begun, Behind
    <2>5. job'[g] \in Begun("first") => \/ job[g] \in Begun("first") \/ BeginTests(g) \/ BeginRetry(g)
                                        \/ JoinFirst(g) /\ mode[g] # "Hybrid"
      BY <1>0, <1>4, <2>2, <2>10 DEF Moves, Begun, Behind
    <2>6. job[g] \in Begun("ping") => /\ ~BeginTests(g) /\ alive'[g] = alive[g] /\ mode'[g] = mode[g]
      BY <2>1, <2>3 DEF Begun, Behind
    <2>7. ASSUME job'[g] \in Begun("ping"), NEW e \in alive'[g], NEW k \in Protos, k = ProtoOf(g, "first")'
          PROVE  Tracked(g, e, "first", k)'
      <3>1. CASE job[g] \in Begun("ping")
        <4>1. k = ProtoOf(g, "first") /\ e \in alive[g] /\ e \in Entries
          BY <1>0, <2>6, <2>7, <3>1 DEF ProtoOf
        <4>2. Tracked(g, e, "first", k)
          BY <2>1, <3>1, <4>1 DEF Covered
        <4> QED BY <1>0, <1>4, <2>6, <3>1, <4>1, <4>2, TrackedStays
      <3>2. CASE BeginTests(g)
        <4>1. e \in queue'[g]["first"]
          BY <2>1, <2>3, <2>7, <3>2
        <4> QED BY <4>1 DEF Tracked
      <3> QED BY <2>4, <2>7, <3>1, <3>2
    <2>8. ASSUME job'[g] \in Begun("ping"), mode'[g] = "Hybrid", NEW e \in alive'[g]
          PROVE  Sorted(g, e)'
      <3>1. CASE job[g] \in Begun("ping")
        <4>1. mode[g] = "Hybrid" /\ e \in alive[g] /\ e \in Entries
          BY <1>0, <2>6, <2>8, <3>1
        <4>2. Sorted(g, e)
          BY <2>1, <3>1, <4>1 DEF Covered
        <4> QED BY <1>4, <2>6, <3>1, <4>1, <4>2, SortedStays
      <3>2. CASE BeginTests(g)
        <4>1. e \in queue'[g]["first"]
          BY <2>1, <2>3, <2>8, <3>2
        <4> QED BY <4>1 DEF Sorted
      <3> QED BY <2>4, <2>8, <3>1, <3>2
    <2>9. ASSUME job'[g] \in Begun("first"), mode'[g] = "Hybrid", NEW e \in h3Fail'[g]
          PROVE  Tracked(g, e, "retry", "TCP")'
      <3>1. CASE job[g] \in Begun("first")
        <4>1. /\ ~BeginRetry(g) /\ job[g] \in Begun("ping") /\ job[g] # "first"
          BY <3>1 DEF Begun, Behind, BeginRetry
        <4>2. mode[g] = "Hybrid" /\ e \in h3Fail[g] /\ e \in Entries
          BY <1>0, <2>1, <2>6, <2>9, <4>1
        <4>3. Tracked(g, e, "retry", "TCP")
          BY <2>1, <3>1, <4>2 DEF Covered
        <4>4. "TCP" = ProtoOf(g, "retry")
          BY ProtoFacts
        <4> QED BY <1>0, <1>4, <4>1, <4>2, <4>3, <4>4, TrackedStays
      <3>2. CASE BeginTests(g)
        <4>1. h3Fail'[g] = {}
          BY <2>1, <2>3, <3>2
        <4> QED BY <2>9, <4>1
      <3>3. CASE BeginRetry(g)
        <4>1. job[g] = "tested" /\ queue' = [queue EXCEPT ![g]["retry"] = h3Fail[g]]
          BY <3>3 DEF BeginRetry
        <4>2. e \in h3Fail[g]
          BY <2>1, <2>9, <4>1
        <4>4. e \in queue'[g]["retry"]
          BY <1>0, <4>1, <4>2 DEF Passes
        <4> QED BY <4>4 DEF Tracked
      <3>4. CASE JoinFirst(g) /\ mode[g] # "Hybrid"
        <4>1. ~BeginTests(g)
          BY <2>3, <2>10, <3>4
        <4> QED BY <2>1, <2>9, <3>4, <4>1
      <3> QED BY <2>5, <2>9, <3>1, <3>2, <3>3, <3>4
    <2> QED BY <2>7, <2>8, <2>9 DEF Covered
  <1> QED BY <1>1, <1>2, <1>3, <1>4, CleanBack

LEMMA InitClean == Init => AloneInv /\ EmptiedInv /\ CoveredInv
  <1> SUFFICES ASSUME Init, NEW g \in Scans PROVE ~Clean(g)
    BY DEF AloneInv, EmptiedInv, CoveredInv
  <1> QED BY DEF Init, Clean, Scans

LEMMA CleanCorrect ==
  Spec => [](TypeInv /\ TaskInv /\ LooperInv /\ OnceInv /\ EmptiedInv /\ CoveredInv)
  <1> DEFINE Inv == TypeInv /\ FlowInv /\ PoolInv /\ OnceInv /\ TaskInv /\ LooperInv
                    /\ AloneInv /\ EmptiedInv /\ CoveredInv
  <1>1. Init => Inv
    BY InitType, InitFlow, InitPool, InitOnce, InitTask, InitLooper, InitClean
  <1>2. Inv /\ [Next]_vars => Inv'
    BY NextType, NextFlow, NextPool, NextOnce, NextTask, NextLooper, NextAlone, NextEmptied, NextCovered
  <1>3. Inv => TypeInv /\ TaskInv /\ LooperInv /\ OnceInv /\ EmptiedInv /\ CoveredInv
    OBVIOUS
  <1> HIDE DEF Inv
  <1> QED BY <1>1, <1>2, <1>3, PTL DEF Spec

\* When a scan has ended, what was tracked is shown.
LEMMA TrackedShown ==
  ASSUME TypeInv, TaskInv, LooperInv, OnceInv, NEW g \in Scans, job[g] = "finished"
  PROVE  /\ \A r \in Rows : r.scan = g /\ Out(r) > 0 => results[r] > 0
         /\ \A t \in TestTasks : t.scan = g => hold[t] = NoEntry
  <1>1. ASSUME NEW r \in Rows, r.scan = g, Out(r) > 0 PROVE results[r] > 0
    <2>1. looper \in Seq(Messages) /\ results[r] \in Nat
      BY DEF TypeInv, TypeOK, LoopTypes, UiTypes
    <2>2. Places(looper, RowMsg(r)) = {}
      <3> SUFFICES ASSUME NEW i \in DOMAIN looper, looper[i] = RowMsg(r) PROVE FALSE
        BY DEF Places
      <3>1. i \in 1..Len(looper)
        BY <2>1, LenProperties
      <3>2. looper[i].kind = "row" /\ looper[i].row.scan = g
        BY <1>1 DEF RowMsg
      <3> QED BY <3>1, <3>2 DEF LooperInv
    <2>3. Posted(r) = 0
      BY <2>2, PostedPlaces, FS_EmptySet
    <2> QED BY <1>1, <2>1, <2>3 DEF Out
  <1>2. ASSUME NEW t \in TestTasks, t.scan = g PROVE hold[t] = NoEntry
    <2>1. t \in Tasks /\ t.pass \in Passes
      BY TaskTypes DEF TestTasks
    <2>2. pc[t] \notin HasEntry
      BY <1>2, <2>1 DEF TaskInv, Active, HasEntry, Passes
    <2> QED BY <2>2 DEF OnceInv, HandInv
  <1> QED BY <1>1, <1>2

\* When the end of an undisturbed scan is announced, every address it copied
\* was pinged and every one that answered is in the list, for every mode,
\* list, pool size and order of the tasks.
THEOREM CompletionIsComplete == Spec => []CompletionComplete
  <1>1. TypeInv /\ TaskInv /\ LooperInv /\ OnceInv /\ EmptiedInv /\ CoveredInv => CompletionComplete
    <2> SUFFICES ASSUME TypeInv, TaskInv, LooperInv, OnceInv, EmptiedInv, CoveredInv,
                        NEW g \in Scans \ tainted, job[g] = "finished", gen = g
                 PROVE  /\ queue[g]["ping"] = {}
                        /\ ~cleared => \A e \in alive[g] :
                             /\ Shown(g, e, FirstProto(g))
                             /\ mode[g] = "Hybrid" => \/ results[[scan |-> g, entry |-> e, proto |-> "H3", ok |-> TRUE]] > 0
                                                      \/ Shown(g, e, "TCP")
      BY DEF CompletionComplete
    <2>1. Emptied(g) /\ Covered(g)
      BY DEF Clean, EmptiedInv, CoveredInv
    <2>2. \A p \in Passes : queue[g][p] = {}
      BY <2>1 DEF Emptied, Behind
    <2>3. alive[g] \subseteq Entries /\ h3Fail[g] \subseteq Entries
      BY DEF TypeInv, TypeOK, DataTypes
    <2>4. ASSUME NEW p \in TestPasses, NEW e \in Entries, NEW k \in Protos, Tracked(g, e, p, k)
          PROVE  Shown(g, e, k)
      <3>1. queue[g][p] = {} /\ e # NoEntry
        BY <2>2, NoEntryAssumption DEF TestPasses, Passes
      <3>2. Out(Yes(g, e, k)) > 0 \/ Out(No(g, e, k)) > 0
        BY <2>4, <3>1, TrackedShown DEF Tracked
      <3>3. PICK r \in {Yes(g, e, k), No(g, e, k)} : results[r] > 0
        BY <3>2, RowFacts, TrackedShown
      <3>4. r \in Verdicts(g, e, k)
        BY <3>3 DEF Verdicts, Yes, No
      <3> QED BY <3>3, <3>4 DEF Shown
    <2>5. ASSUME ~cleared, NEW e \in alive[g] PROVE Shown(g, e, FirstProto(g))
      <3>1. PICK k \in Protos : k = ProtoOf(g, "first")
        BY ProtoFacts
      <3>2. Tracked(g, e, "first", k)
        BY <2>1, <2>5, <3>1 DEF Covered, Begun, Behind
      <3> QED BY <2>3, <2>4, <3>1, <3>2 DEF FirstProto, TestPasses
    <2>6. ASSUME ~cleared, NEW e \in alive[g], mode[g] = "Hybrid"
          PROVE  results[Yes(g, e, "H3")] > 0 \/ Shown(g, e, "TCP")
      <3>1. Sorted(g, e) /\ e \in Entries /\ e # NoEntry /\ queue[g]["first"] = {}
        BY <2>1, <2>2, <2>3, <2>6, NoEntryAssumption DEF Covered, Begun, Behind, Passes
      <3>2. Out(Yes(g, e, "H3")) > 0 \/ e \in h3Fail[g]
        BY <3>1, TrackedShown DEF Sorted
      <3>3. CASE Out(Yes(g, e, "H3")) > 0
        BY <3>1, <3>3, RowFacts, TrackedShown DEF Protos
      <3>4. CASE e \in h3Fail[g]
        <4>1. Tracked(g, e, "retry", "TCP")
          BY <2>1, <2>6, <3>4 DEF Covered, Begun, Behind
        <4> QED BY <2>4, <3>1, <4>1 DEF TestPasses, Protos
      <3> QED BY <3>2, <3>3, <3>4
    <2> QED BY <2>2, <2>5, <2>6 DEF Yes, Passes
  <1> QED BY CleanCorrect, <1>1, PTL
-----------------------------------------------------------------------------
(* The counter of usable addresses.                                        *)

\* Beside a scan that overlapped no other there is no other body, whether or
\* not the scan was stopped.
SoleInv == gen \notin tainted => \A h \in Scans \ {gen} : ~Busy(h)

\* The counter is the number of usable rows of such a scan, those its tasks
\* have still to post included, and their number is finite.
CountInv == gen \in Scans \ tainted =>
  /\ IsFiniteSet(WonCopies(gen)) /\ IsFiniteSet(WonTasks(gen))
  /\ ok >= Cardinality(WonCopies(gen)) + Cardinality(WonTasks(gen))
  /\ ~cleared => ok = Cardinality(WonCopies(gen)) + Cardinality(WonTasks(gen))

LEMMA InitCount == Init => SoleInv /\ CountInv
  BY DEF Init, SoleInv, CountInv, Busy, Scans

LEMMA CopiesAre ==
  ASSUME NEW g
  PROVE  \A x : x \in WonCopies(g) <=> \E r \in WonRows(g) : \E i \in 1..Out(r) : x = <<r, i>>
  BY DEF WonCopies, Out

LEMMA CopiesAfter ==
  ASSUME NEW g
  PROVE  \A x : x \in WonCopies(g)' <=> \E r \in WonRows(g) : \E i \in 1..Out(r)' : x = <<r, i>>
  BY DEF WonCopies, WonRows, Out

\* Rows that are as often there as before count as before, fewer count less.
LEMMA CopiesFewer ==
  ASSUME TypeInv, TypeInv', NEW g, \A r \in Rows : Out(r)' <= Out(r), IsFiniteSet(WonCopies(g))
  PROVE  /\ IsFiniteSet(WonCopies(g)') /\ Cardinality(WonCopies(g)') \in Nat
         /\ Cardinality(WonCopies(g)') <= Cardinality(WonCopies(g))
         /\ (\A r \in Rows : Out(r)' = Out(r)) => WonCopies(g)' = WonCopies(g)
         /\ (\A r \in WonRows(g) : Out(r)' = 0) => WonCopies(g)' = {}
  <1>1. \A r \in WonRows(g) : r \in Rows /\ Out(r) \in Nat /\ Out(r)' \in Nat /\ Out(r)' <= Out(r)
    <2>1. (TypeInv => \A r \in Rows : results[r] \in Nat /\ Posted(r) \in Nat /\ Out(r) \in Nat)'
      BY OutType, PTL
    <2>2. \A r \in Rows : Out(r)' \in Nat
      BY <2>1
    <2> QED BY <2>2, OutType DEF WonRows
  <1> DEFINE C == WonCopies(g)  D == WonCopies(g)'
  <1>2. D \subseteq C
    <2> SUFFICES ASSUME NEW x \in D PROVE x \in C
      OBVIOUS
    <2>1. PICK r \in WonRows(g) : \E i \in 1..Out(r)' : x = <<r, i>>
      BY CopiesAfter
    <2>2. 1..Out(r)' \subseteq 1..Out(r)
      BY <1>1
    <2> QED BY <2>1, <2>2, CopiesAre
  <1>3. ASSUME \A r \in Rows : Out(r)' = Out(r) PROVE C \subseteq D
    <2> SUFFICES ASSUME NEW x \in C PROVE x \in D
      OBVIOUS
    <2>1. PICK r \in WonRows(g) : \E i \in 1..Out(r) : x = <<r, i>>
      BY CopiesAre
    <2>2. Out(r)' = Out(r)
      BY <1>1, <1>3
    <2> QED BY <2>1, <2>2, CopiesAfter
  <1>4. ASSUME \A r \in WonRows(g) : Out(r)' = 0 PROVE D = {}
    <2> SUFFICES ASSUME NEW x \in D PROVE FALSE
      OBVIOUS
    <2>1. PICK r \in WonRows(g) : \E i \in 1..Out(r)' : x = <<r, i>>
      BY CopiesAfter
    <2> QED BY <1>4, <2>1
  <1>5. IsFiniteSet(C)
    OBVIOUS
  <1> HIDE DEF C, D
  <1>6. IsFiniteSet(D) /\ Cardinality(D) <= Cardinality(C)
    BY <1>2, <1>5, FS_Subset
  <1>7. Cardinality(D) \in Nat
    BY <1>6, FS_CardinalityType
  <1> QED BY <1>2, <1>3, <1>4, <1>6, <1>7 DEF C, D

\* One more usable row is one more copy, any other row none.
LEMMA CopiesMore ==
  ASSUME TypeInv, TypeInv', NEW g, IsFiniteSet(WonCopies(g)), NEW s \in Rows,
         \A r \in Rows : Out(r)' = IF r = s THEN Out(r) + 1 ELSE Out(r)
  PROVE  /\ IsFiniteSet(WonCopies(g)')
         /\ s \in WonRows(g) => Cardinality(WonCopies(g)') = Cardinality(WonCopies(g)) + 1
         /\ s \notin WonRows(g) => WonCopies(g)' = WonCopies(g)
  <1>1. \A r \in Rows : Out(r) \in Nat
    BY OutType
  <1> DEFINE C == WonCopies(g)  D == WonCopies(g)'  new == <<s, Out(s) + 1>>
  <1>2. CASE s \in WonRows(g)
    <2>1. ASSUME NEW x \in D PROVE x \in C \cup {new}
      <3>1. PICK r \in WonRows(g) : \E i \in 1..Out(r)' : x = <<r, i>>
        BY CopiesAfter
      <3>2. r \in Rows
        BY DEF WonRows
      <3>3. PICK i \in 1..Out(r)' : x = <<r, i>>
        BY <3>1
      <3>4. i \in 1..Out(r) \/ (r = s /\ i = Out(s) + 1)
        BY <1>1, <3>2, <3>3
      <3> QED BY <3>3, <3>4, CopiesAre
    <2>2. ASSUME NEW x \in C \cup {new} PROVE x \in D
      <3>1. PICK r \in WonRows(g), i \in Nat :
                 x = <<r, i>> /\ (i \in 1..Out(r) \/ (r = s /\ i = Out(s) + 1))
        <4>1. s \in Rows /\ Out(s) + 1 \in Nat
          BY <1>1
        <4>2. CASE x \in C
          BY <4>2, CopiesAre
        <4>3. CASE x = new
          BY <1>2, <4>1, <4>3
        <4> QED BY <4>2, <4>3
      <3>2. r \in Rows
        BY DEF WonRows
      <3>3. i \in 1..Out(r)'
        BY <1>1, <3>1, <3>2
      <3> QED BY <3>1, <3>3, CopiesAfter
    <2>3. new \notin C
      <3> SUFFICES ASSUME new \in C PROVE FALSE
        OBVIOUS
      <3>1. PICK r \in WonRows(g) : \E i \in 1..Out(r) : new = <<r, i>>
        BY CopiesAre
      <3> QED BY <1>1, <3>1
    <2>4. IsFiniteSet(C)
      OBVIOUS
    <2>5. D = C \cup {new}
      BY <2>1, <2>2
    <2> HIDE DEF C, D, new
    <2>6. /\ IsFiniteSet(C \cup {new})
          /\ Cardinality(C \cup {new}) = IF new \in C THEN Cardinality(C) ELSE Cardinality(C) + 1
      BY <2>4, FS_AddElement
    <2> QED BY <1>2, <2>3, <2>5, <2>6 DEF C, D
  <1>3. CASE s \notin WonRows(g)
    <2>1. \A r \in WonRows(g) : Out(r)' = Out(r)
      BY <1>3 DEF WonRows
    <2>2. \A x : x \in D <=> x \in C
      BY <2>1, CopiesAre, CopiesAfter
    <2>3. D = C
      BY <2>2
    <2> QED BY <1>3, <2>3
  <1> QED BY <1>2, <1>3

LEMMA NextSole == TypeInv /\ FlowInv /\ SoleInv /\ [Next]_vars => SoleInv'
  <1> SUFFICES ASSUME TypeInv, FlowInv, SoleInv, [Next]_vars, gen' \notin tainted',
                      NEW h \in Scans \ {gen'}
               PROVE  ~Busy(h)'
    BY DEF SoleInv
  <1>0. job \in [Scans -> JobStates] /\ Moves(h)
    BY JobMoves DEF TypeInv, TypeOK, JobTypes
  <1>1. CASE StartScan
    <2>1. gen' = gen + 1 /\ job' = [job EXCEPT ![gen + 1] = "launched"] /\ Others(gen + 1) = {}
      BY <1>1 DEF StartScan
    <2>2. ~Busy(h) /\ job'[h] = job[h]
      BY <1>0, <2>1 DEF Others
    <2> QED BY <2>2 DEF Busy
  <1>2. CASE ~StartScan
    <2>1. ~Busy(h)
      BY <1>2, Steady DEF SoleInv
    <2> QED BY <1>0, <1>2, <2>1 DEF Busy, Moves, JoinPing, BeginTests, JoinFirst, BeginRetry, JoinRetry, Joined, CloseBlock
  <1> QED BY <1>1, <1>2

\* The steps that count nothing and add or take no row.
LEMMA CountSame ==
  ASSUME TypeInv, TypeInv', PoolInv, CountInv, [Next]_vars, ~StartScan, ~ClearResults,
         ~\E t \in Tasks : TestReturns(t) \/ PostRow(t)
  PROVE  CountInv'
  <1>1. gen' = gen /\ tainted \subseteq tainted'
    BY Steady
  <1>2. \A r \in Rows : Out(r)' = Out(r)
    <2>1. CASE UNCHANGED vars
      BY <2>1, OutSame DEF vars, uiVars
    <2>2. CASE Next
      BY <2>2, OutSteps
    <2> QED BY <2>1, <2>2
  <1>3. ok' = ok /\ cleared' = cleared
    BY DEF Next, StopScan, RebuildPending, AddManual, Destroy, StartLoading, DeliverRow,
           DeliverEnd, FetchDone, ChinaLoaded, SetPending, Body, LaunchBody, FinishCopy, JoinPing, BeginTests,
           JoinFirst, BeginRetry, JoinRetry, CloseBlock, BlockReturns, StartQueued, SubmitTask, IsNext, Thread,
           ReadFlag, TakeEntry, PingReturns, vars, uiVars
  <1>4. \A t \in Tasks : pc'[t] = "won" <=> pc[t] = "won"
    <2>0. pc \in [Tasks -> PcStates] /\ workQueue \in [Pools -> Seq(Tasks)]
      BY DEF TypeInv, TypeOK, PoolTypes
    <2>1. ASSUME NEW q \in Pools, StartQueued(q) PROVE \A t \in Tasks : pc'[t] = "won" <=> pc[t] = "won"
      <3>1. pc' = [pc EXCEPT ![Head(workQueue[q])] = "loop"] /\ pc[Head(workQueue[q])] = "queued"
        BY <2>1, WaitingHead DEF StartQueued
      <3> QED BY <2>0, <3>1
    <2> QED
      BY <2>0, <2>1 DEF Next, StopScan, RebuildPending, AddManual, Destroy, StartLoading, DeliverRow,
           DeliverEnd, FetchDone, ChinaLoaded, SetPending, Body, LaunchBody, FinishCopy, JoinPing, BeginTests,
           JoinFirst, BeginRetry, JoinRetry, CloseBlock, BlockReturns, SubmitTask, IsNext, Thread,
           ReadFlag, TakeEntry, PingReturns, vars, poolVars
  <1>5. ASSUME gen \in Scans \ tainted
        PROVE  WonCopies(gen)' = WonCopies(gen) /\ WonTasks(gen)' = WonTasks(gen)
    <2>1. IsFiniteSet(WonCopies(gen)) /\ \A r \in Rows : Out(r)' <= Out(r)
      BY <1>2, <1>5, OutType DEF CountInv
    <2>2. WonCopies(gen)' = WonCopies(gen)
      BY <1>1, <1>2, <2>1, CopiesFewer
    <2> QED BY <1>1, <1>4, <2>2 DEF WonTasks
  <1> QED BY <1>1, <1>3, <1>5 DEF CountInv

\* A scan that starts has nothing to count.
LEMMA CountStart ==
  ASSUME TypeInv, TypeInv', FlowInv, OnceInv, TaskInv, StartScan
  PROVE  CountInv'
  <1>0. gen + 1 \in Scans
    BY BoundsAssumption DEF StartScan, TypeInv, TypeOK, JobTypes, Scans
  <1> SUFFICES ASSUME NEW g \in Scans, g = gen + 1 PROVE CountInv'
    BY <1>0
  <1>1. /\ gen' = g /\ ok' = 0 /\ pc' = pc /\ job[g] = "none"
        /\ \A r \in Rows : results'[r] = 0 /\ looper' = looper
    BY DEF StartScan, OkAtStart, poolVars, TypeInv, TypeOK, JobTypes, Scans, FlowInv, GenInv
  <1>2. \A r \in WonRows(g) : r \in Rows /\ Out(r) = 0
    BY <1>1 DEF WonRows, OnceInv, EarlyInv, EarlyJobs
  <1>3. \A r \in WonRows(g) : Out(r)' = 0
    <2> SUFFICES ASSUME NEW r \in WonRows(g) PROVE Out(r)' = 0
      OBVIOUS
    <2>1. Posted(r)' = Posted(r) /\ results'[r] = 0
      BY <1>1, <1>2 DEF Posted
    <2>2. Posted(r) = 0
      BY <1>2, OutType DEF Out
    <2> QED BY <2>1, <2>2 DEF Out
  <1>4. WonCopies(g)' = {}
    <2> SUFFICES ASSUME NEW x \in WonCopies(g)' PROVE FALSE
      OBVIOUS
    <2>1. PICK r \in WonRows(g) : \E i \in 1..Out(r)' : x = <<r, i>>
      BY CopiesAfter
    <2> QED BY <1>3, <2>1
  <1>5. WonTasks(g)' = {}
    BY <1>1 DEF WonTasks, TaskInv
  <1>6. WonCopies(gen)' = {} /\ WonTasks(gen)' = {}
    BY <1>1, <1>4, <1>5 DEF WonCopies, WonTasks, WonRows
  <1> QED BY <1>1, <1>6, FS_EmptySet DEF CountInv

\* The user takes rows away, the counter stays.
LEMMA CountClear ==
  ASSUME TypeInv, TypeInv', CountInv, Next, ClearResults
  PROVE  CountInv'
  <1>0. results \in [Rows -> Nat]
    BY DEF TypeInv, TypeOK, UiTypes
  <1>1. /\ gen' = gen /\ tainted' = tainted /\ ok' = ok /\ pc' = pc
        /\ \A t \in Tasks : ~PostRow(t)
    BY DEF ClearResults, jobVars, poolVars, PostRow, TypeInv, TypeOK, PoolTypes, PcStates
  <1>2. \A r \in Rows : Out(r)' <= Out(r)
    BY <1>1, OutSteps
  <1>3. ASSUME gen \in Scans \ tainted
        PROVE  /\ IsFiniteSet(WonCopies(gen)') /\ Cardinality(WonCopies(gen)') \in Nat
               /\ Cardinality(WonCopies(gen)') <= Cardinality(WonCopies(gen))
               /\ IsFiniteSet(WonTasks(gen)) /\ WonTasks(gen)' = WonTasks(gen)
    BY <1>1, <1>2, <1>3, CopiesFewer DEF CountInv, WonTasks
  <1>4. gen \in Scans \ tainted => ok >= Cardinality(WonCopies(gen)) + Cardinality(WonTasks(gen))
    BY DEF CountInv
  <1>5. ASSUME gen \in Scans \ tainted
        PROVE  ok >= Cardinality(WonCopies(gen)') + Cardinality(WonTasks(gen)')
    <2>1. /\ Cardinality(WonCopies(gen)) \in Nat /\ Cardinality(WonTasks(gen)) \in Nat /\ ok \in Nat
      BY <1>3, <1>5, FS_CardinalityType DEF CountInv, TypeInv, TypeOK, FlagTypes
    <2> QED BY <1>3, <1>4, <1>5, <2>1
  <1>6. ASSUME ~cleared' PROVE WonCopies(gen)' = WonCopies(gen) /\ ~cleared
    <2>1. results' = results /\ looper' = looper /\ ~cleared
      BY <1>0, <1>6, NoneShown DEF ClearResults
    <2> QED BY <1>1, <2>1 DEF WonCopies, WonRows, Posted
  <1> QED BY <1>1, <1>3, <1>5, <1>6 DEF CountInv

\* Beside a scan that overlapped no other the tasks at work are its own.
LEMMA OwnTask ==
  ASSUME TaskInv, SoleInv, gen \notin tainted, NEW t \in Tasks, pc[t] \in Active
  PROVE  t.scan = gen
  <1>1. t.scan \in Scans /\ job[t.scan] = t.pass /\ t.pass \in Passes
    BY TaskTypes DEF TaskInv
  <1> QED BY <1>1 DEF SoleInv, Busy, Passes

\* A success counts for the task that has still to post it.
LEMMA CountTest ==
  ASSUME TypeInv, TypeInv', TaskInv, SoleInv, CountInv, NEW t \in Tasks, TestReturns(t)
  PROVE  CountInv'
  <1>0. pc \in [Tasks -> PcStates] /\ ok \in Nat
    BY DEF TypeInv, TypeOK, PoolTypes, FlagTypes
  <1>1. PICK usable \in BOOLEAN : /\ ok' = IF usable THEN ok + 1 ELSE ok
                                  /\ pc' = [pc EXCEPT ![t] = IF usable THEN "won" ELSE "lost"]
    BY DEF TestReturns, Counts
  <1>2. /\ pc[t] = "probe" /\ gen' = gen /\ tainted' = tainted /\ cleared' = cleared
        /\ UNCHANGED <<results, looper>>
    BY DEF TestReturns, jobVars, uiVars
  <1> SUFFICES ASSUME gen \in Scans \ tainted
               PROVE  /\ IsFiniteSet(WonCopies(gen)') /\ IsFiniteSet(WonTasks(gen)')
                      /\ ok' >= Cardinality(WonCopies(gen)') + Cardinality(WonTasks(gen)')
                      /\ ~cleared => ok' = Cardinality(WonCopies(gen)') + Cardinality(WonTasks(gen)')
    BY <1>2 DEF CountInv
  <1>3. WonCopies(gen)' = WonCopies(gen)
    BY <1>2 DEF WonCopies, WonRows, Posted
  <1>4. t.scan = gen
    BY <1>2, OwnTask DEF Active
  <1> DEFINE C == WonCopies(gen)  W == WonTasks(gen)  V == WonTasks(gen)'
  <1>5. /\ IsFiniteSet(C) /\ IsFiniteSet(W) /\ t \notin W
        /\ ok >= Cardinality(C) + Cardinality(W)
        /\ ~cleared => ok = Cardinality(C) + Cardinality(W)
    BY <1>2 DEF CountInv, WonTasks
  <1>6. V = IF usable THEN W \cup {t} ELSE W
    BY <1>0, <1>1, <1>2, <1>4 DEF WonTasks
  <1> HIDE DEF C, W, V
  <1>7. /\ Cardinality(C) \in Nat /\ Cardinality(W) \in Nat
        /\ IsFiniteSet(W \cup {t}) /\ Cardinality(W \cup {t}) = Cardinality(W) + 1
    BY <1>5, FS_CardinalityType, FS_AddElement
  <1>8. IsFiniteSet(V) /\ Cardinality(V) = IF usable THEN Cardinality(W) + 1 ELSE Cardinality(W)
    BY <1>5, <1>6, <1>7
  <1>9. /\ ok' >= Cardinality(C) + Cardinality(V)
        /\ ~cleared => ok' = Cardinality(C) + Cardinality(V)
    BY <1>0, <1>1, <1>5, <1>7, <1>8
  <1> QED BY <1>3, <1>5, <1>8, <1>9 DEF C, V

\* A row takes the place of the task that posts it.
LEMMA CountPost ==
  ASSUME TypeInv, TypeInv', TaskInv, SoleInv, CountInv, NEW t \in Tasks, PostRow(t)
  PROVE  CountInv'
  <1>0. pc \in [Tasks -> PcStates] /\ ok \in Nat
    BY DEF TypeInv, TypeOK, PoolTypes, FlagTypes
  <1>1. /\ pc[t] \in {"won", "lost"} /\ pc' = [pc EXCEPT ![t] = "loop"]
        /\ ok' = ok /\ gen' = gen /\ tainted' = tainted /\ cleared' = cleared
    BY DEF PostRow, jobVars, uiVars
  <1> SUFFICES ASSUME gen \in Scans \ tainted
               PROVE  /\ IsFiniteSet(WonCopies(gen)') /\ IsFiniteSet(WonTasks(gen)')
                      /\ ok' >= Cardinality(WonCopies(gen)') + Cardinality(WonTasks(gen)')
                      /\ ~cleared => ok' = Cardinality(WonCopies(gen)') + Cardinality(WonTasks(gen)')
    BY <1>1 DEF CountInv
  <1>2. t.scan = gen
    BY <1>1, OwnTask DEF Active
  <1>3. /\ RowOf(t) \in Rows
        /\ RowOf(t) \in WonRows(gen) <=> pc[t] = "won"
        /\ \A r \in Rows : Out(r)' = IF r = RowOf(t) THEN Out(r) + 1 ELSE Out(r)
    BY <1>1, <1>2, RowType, OutPost DEF WonRows, RowOf
  <1> DEFINE C == WonCopies(gen)  D == WonCopies(gen)'  W == WonTasks(gen)  V == WonTasks(gen)'
  <1>4. /\ IsFiniteSet(C) /\ IsFiniteSet(W)
        /\ t \in W <=> pc[t] = "won"
        /\ ok >= Cardinality(C) + Cardinality(W)
        /\ ~cleared => ok = Cardinality(C) + Cardinality(W)
    BY <1>2 DEF CountInv, WonTasks
  <1>5. V = W \ {t}
    BY <1>0, <1>1, <1>2 DEF WonTasks
  <1>6. /\ IsFiniteSet(D)
        /\ pc[t] = "won" => Cardinality(D) = Cardinality(C) + 1
        /\ pc[t] # "won" => D = C
    <2> DEFINE s == RowOf(t)
    <2>1. s \in Rows /\ \A r \in Rows : Out(r)' = IF r = s THEN Out(r) + 1 ELSE Out(r)
      BY <1>3
    <2>2. s \in WonRows(gen) <=> pc[t] = "won"
      BY <1>3
    <2> HIDE DEF s
    <2> QED BY <1>1, <1>4, <2>1, <2>2, CopiesMore
  <1> HIDE DEF C, D, W, V
  <1>7. /\ Cardinality(C) \in Nat /\ Cardinality(W) \in Nat
        /\ IsFiniteSet(W \ {t})
        /\ Cardinality(W \ {t}) = IF t \in W THEN Cardinality(W) - 1 ELSE Cardinality(W)
    BY <1>4, FS_CardinalityType, FS_RemoveElement
  <1>8. Cardinality(D) + Cardinality(V) = Cardinality(C) + Cardinality(W)
    BY <1>4, <1>5, <1>6, <1>7
  <1>9. IsFiniteSet(V)
    BY <1>5, <1>7
  <1> QED BY <1>1, <1>4, <1>6, <1>8, <1>9 DEF D, V

LEMMA NextCount ==
  TypeInv /\ FlowInv /\ PoolInv /\ OnceInv /\ TaskInv /\ SoleInv /\ CountInv /\ [Next]_vars => CountInv'
  <1> SUFFICES ASSUME TypeInv, FlowInv, PoolInv, OnceInv, TaskInv, SoleInv, CountInv, [Next]_vars
               PROVE  CountInv'
    OBVIOUS
  <1>1. TypeInv'
    BY NextType
  <1>2. CASE StartScan
    BY <1>1, <1>2, CountStart
  <1>3. CASE ClearResults
    BY <1>1, <1>3, CountClear DEF Next
  <1>4. CASE \E t \in Tasks : TestReturns(t) \/ PostRow(t)
    BY <1>1, <1>4, CountTest, CountPost
  <1> QED BY <1>1, <1>2, <1>3, <1>4, CountSame

\* The counter of usable addresses agrees with the rows shown, posted and about
\* to be posted, for a scan that overlapped no other, whatever the order of the
\* tasks, their posts and the user's presses (ok.set(0), ok.incrementAndGet()).
THEOREM CounterMatches == Spec => []OkMatches
  <1> DEFINE Inv == TypeInv /\ FlowInv /\ PoolInv /\ OnceInv /\ TaskInv /\ SoleInv /\ CountInv
  <1>1. Init => Inv
    BY InitType, InitFlow, InitPool, InitOnce, InitTask, InitCount
  <1>2. Inv /\ [Next]_vars => Inv'
    BY NextType, NextFlow, NextPool, NextOnce, NextTask, NextSole, NextCount
  <1>3. Inv => OkMatches
    BY DEF CountInv, OkMatches
  <1> HIDE DEF Inv
  <1> QED BY <1>1, <1>2, <1>3, PTL DEF Spec

-----------------------------------------------------------------------------
(* The joins.                                                              *)

\* A pool lets tasks wait only when it has all its threads.
FullInv == \A q \in Pools : workQueue[q] # <<>> => spawned[q] = Threads(q)

\* Only onDestroy drops tasks.
DroppedInv == (\E t \in Tasks : pc[t] = "dropped") => destroyed

LEMMA InitJoin == Init => FullInv /\ DroppedInv
  BY DEF Init, FullInv, DroppedInv

LEMMA NextFull == TypeInv /\ FullInv /\ [Next]_vars => FullInv'
  <1> SUFFICES ASSUME TypeInv, FullInv, [Next]_vars, NEW q \in Pools, workQueue'[q] # <<>>
               PROVE  spawned'[q] = Threads(q)
    BY DEF FullInv
  <1>0. /\ spawned \in [Pools -> Nat] /\ \A r \in Pools : spawned[r] <= Threads(r) /\ Threads(r) \in Nat
        /\ workQueue \in [Pools -> Seq(Tasks)]
    BY ThreadsAssumption DEF TypeInv, TypeOK, PoolTypes, Threads
  <1>1. CASE UNCHANGED <<spawned, workQueue>>
    BY <1>1 DEF FullInv
  <1>2. ASSUME NEW t \in Tasks, SubmitTask(t) PROVE spawned'[q] = Threads(q)
    <2> DEFINE r == Pool(t.pass)
    <2>0. r \in Pools
      BY TaskTypes
    <2>1. CASE UNCHANGED poolVars
      BY <1>1, <2>1 DEF poolVars
    <2>2. CASE HasRoom(r) /\ spawned' = [spawned EXCEPT ![r] = @ + 1] /\ UNCHANGED workQueue
      BY <1>0, <2>0, <2>2 DEF HasRoom, FullInv
    <2>3. CASE ~HasRoom(r) /\ workQueue' = [workQueue EXCEPT ![r] = Append(@, t)] /\ UNCHANGED spawned
      BY <1>0, <2>0, <2>3 DEF HasRoom, FullInv
    <2> QED BY <1>2, <2>1, <2>2, <2>3 DEF SubmitTask
  <1>3. ASSUME NEW r \in Pools, StartQueued(r) PROVE spawned'[q] = Threads(q)
    <2>1. /\ workQueue[r] # <<>> /\ spawned' = spawned
          /\ workQueue' = [workQueue EXCEPT ![r] = Tail(@)]
      BY <1>3 DEF StartQueued
    <2> QED BY <1>0, <2>1 DEF FullInv
  <1>4. CASE Destroy
    BY <1>4 DEF Destroy
  <1>5. CASE \/ StartScan \/ StopScan \/ ClearResults \/ RebuildPending \/ AddManual
             \/ \E what \in {"fetch", "china"} : StartLoading(what)
             \/ DeliverRow \/ DeliverEnd \/ FetchDone \/ ChinaLoaded
             \/ \E g \in Scans : Body(g)
             \/ \E t \in Tasks : Thread(t)
             \/ UNCHANGED vars
    <2>1. UNCHANGED <<spawned, workQueue>>
      BY <1>5 DEF StartScan, StopScan, ClearResults, RebuildPending, AddManual, StartLoading,
                  DeliverRow, DeliverEnd, FetchDone, ChinaLoaded, SetPending, Body, LaunchBody,
                  FinishCopy, JoinPing, BeginTests, JoinFirst, BeginRetry, JoinRetry, CloseBlock, BlockReturns, Thread,
                  ReadFlag, TakeEntry, PingReturns, TestReturns, PostRow, vars, poolVars
    <2> QED BY <1>1, <2>1
  <1> QED BY <1>2, <1>3, <1>4, <1>5 DEF Next

LEMMA NextDropped == TypeInv /\ DroppedInv /\ [Next]_vars => DroppedInv'
  <1> SUFFICES ASSUME TypeInv, DroppedInv, [Next]_vars, NEW t \in Tasks, pc'[t] = "dropped"
               PROVE  destroyed'
    BY DEF DroppedInv
  <1>0. pc \in [Tasks -> PcStates]
    BY DEF TypeInv, TypeOK, PoolTypes
  <1>1. CASE Destroy
    BY <1>1 DEF Destroy
  <1>2. CASE ~Destroy
    <2>1. destroyed' = destroyed
      BY <1>2 DEF Next, StartScan, StopScan, ClearResults, RebuildPending, AddManual, StartLoading,
                  DeliverRow, DeliverEnd, FetchDone, ChinaLoaded, SetPending, Body, LaunchBody,
                  FinishCopy, JoinPing, BeginTests, JoinFirst, BeginRetry, JoinRetry, CloseBlock, BlockReturns, StartQueued,
                  SubmitTask, Thread, ReadFlag, TakeEntry, PingReturns, TestReturns, PostRow, vars
    <2>2. pc' = pc \/ \E u, s : s # "dropped" /\ pc' = [pc EXCEPT ![u] = s]
      BY <1>2 DEF Next, StartScan, StopScan, ClearResults, RebuildPending, AddManual, StartLoading,
                  DeliverRow, DeliverEnd, FetchDone, ChinaLoaded, SetPending, Body, LaunchBody,
                  FinishCopy, JoinPing, BeginTests, JoinFirst, BeginRetry, JoinRetry, CloseBlock, BlockReturns, StartQueued,
                  SubmitTask, Thread, ReadFlag, TakeEntry, PingReturns, TestReturns, PostRow, vars, poolVars
    <2>3. pc[t] = "dropped"
      BY <1>0, <2>2
    <2> QED BY <2>1, <2>3 DEF DroppedInv
  <1> QED BY <1>1, <1>2

\* Among the tasks of a pass that were not submitted one is next.
LEMMA SomeNext ==
  ASSUME NEW g \in Scans, NEW p \in Passes, job[g] = p,
         \E t \in PassTasks(g, p) : pc[t] = "none"
  PROVE  \E t \in PassTasks(g, p) : IsNext(t)
  <1> DEFINE S == {n \in 1..(PingThreads + TestThreads) :
                     \E t \in PassTasks(g, p) : t.slot = n /\ pc[t] = "none"}
             R == OpToRel(<, Nat)
  <1>1. S \subseteq Nat /\ S # {}
    <2>1. S \subseteq Nat
      BY ThreadsAssumption
    <2>2. PICK t \in PassTasks(g, p) : pc[t] = "none"
      OBVIOUS
    <2>3. t.slot \in 1..(PingThreads + TestThreads)
      BY DEF PassTasks, Tasks
    <2> QED BY <2>1, <2>2, <2>3
  <1>2. IsWellFoundedOn(R, Nat)
    BY NatLessThanWellFounded
  <1>3. \A i, j \in Nat : i < j => <<i, j>> \in R
    BY DEF OpToRel
  <1> HIDE DEF R
  <1>4. PICK n \in S : \A m \in S : ~(<<m, n>> \in R)
    <2> HIDE DEF S
    <2> QED BY <1>1, <1>2, WFMin
  <1>5. PICK t \in PassTasks(g, p) : t.slot = n /\ pc[t] = "none"
    OBVIOUS
  <1>6. ASSUME NEW u \in PassTasks(g, p), u.slot < t.slot PROVE pc[u] # "none"
    <2>1. u.slot \in 1..(PingThreads + TestThreads) /\ n \in Nat
      BY <1>1 DEF PassTasks, Tasks
    <2>2. u.slot \in Nat /\ u.slot < n
      BY <1>5, <1>6, <2>1, ThreadsAssumption
    <2>3. <<u.slot, n>> \in R
      BY <1>3, <2>1, <2>2
    <2> QED BY <1>4, <2>1, <2>3
  <1>7. t.scan = g /\ t.pass = p
    BY DEF PassTasks
  <1> QED BY <1>5, <1>6, <1>7 DEF IsNext

\* A body that waits for its pass waits for somebody, for every number of
\* threads and of scans that were stopped and still hold some of them
\* (futures.forEach { it.get() }).
THEOREM JoinsNeverStick == Spec => []NeverStuck
  <1>1. TypeInv /\ PoolInv /\ FullInv /\ DroppedInv => NeverStuck
    <2> SUFFICES ASSUME TypeInv, PoolInv, FullInv, DroppedInv, ~destroyed,
                        NEW g \in Scans, job[g] \in Passes, ~Joined(g, job[g])
                 PROVE  \/ \E t \in PassTasks(g, job[g]) : IsNext(t)
                        \/ Occupied(Pool(job[g])) # {}
                        \/ workQueue[Pool(job[g])] # <<>> /\ FreeThread(Pool(job[g]))
      BY DEF NeverStuck
    <2> DEFINE p == job[g]  q == Pool(p)
    <2>1. PICK t \in PassTasks(g, p) : pc[t] # "done"
      BY DEF Joined
    <2>2. t \in Tasks /\ t.pass = p /\ q \in Pools /\ pc[t] \in PcStates
      BY TaskTypes DEF PassTasks, TypeInv, TypeOK, PoolTypes
    <2>3. CASE pc[t] = "none"
      BY <2>1, <2>3, SomeNext
    <2>4. CASE pc[t] = "queued"
      <3>1. workQueue[q] # <<>>
        <4>1. PICK i \in 1..Len(workQueue[q]) : workQueue[q][i] = t
          BY <2>2, <2>4 DEF PoolInv, WaitingInv
        <4> QED BY <4>1
      <3>2. spawned[q] = Threads(q) /\ Threads(q) > 0
        BY <2>2, <3>1, ThreadsAssumption DEF FullInv, Threads
      <3>3. Occupied(q) = {} => Cardinality(Occupied(q)) = 0
        BY FS_EmptySet
      <3> QED BY <3>1, <3>2, <3>3 DEF FreeThread
    <2>5. CASE pc[t] \in {"loop", "poll", "probe", "won", "lost"}
      BY <2>2, <2>5 DEF Occupied
    <2>6. CASE pc[t] = "dropped"
      BY <2>2, <2>6 DEF DroppedInv
    <2> QED BY <2>1, <2>2, <2>3, <2>4, <2>5, <2>6 DEF PcStates
  <1> QED BY <1>1, InitType, NextType, InitPool, NextPool, InitJoin, NextFull, NextDropped, PTL DEF Spec

-----------------------------------------------------------------------------
(* What a scan promises the screen.                                        *)

\* The row of a task that is about to post, and the test of a task that probes.
TestOf(t) == Test(t.scan, t.pass, hold[t])

LEMMA AskedIs ==
  \A x : x \in Asked <=>
    \/ \E g \in Scans, p \in TestPasses :
         StageOf(g) # "over" /\ \E e \in queue[g][p] : x = Test(g, p, e)
    \/ \E t \in TestTasks : pc[t] = "probe" /\ x = TestOf(t)
  BY DEF Asked, InQueue, Probing, TestPasses, TestTasks, TestOf

LEMMA AskedAfter ==
  \A x : x \in Asked' <=>
    \/ \E g \in Scans, p \in TestPasses :
         StageOf(g)' # "over" /\ \E e \in queue'[g][p] : x = Test(g, p, e)'
    \/ \E t \in TestTasks : pc'[t] = "probe" /\ x = TestOf(t)'
  BY DEF Asked, InQueue, Probing, TestPasses, TestTasks, TestOf

\* A post and a row of the looper.
LEMMA PostedIs ==
  ASSUME TypeInv
  PROVE  \A r \in Rows : Posted(r) > 0 <=> \E i \in 1..Len(looper) : looper[i].kind = "row" /\ looper[i].row = r
  <1> SUFFICES ASSUME NEW r \in Rows
               PROVE  Posted(r) > 0 <=> \E i \in 1..Len(looper) : looper[i].kind = "row" /\ looper[i].row = r
    OBVIOUS
  <1>1. looper \in Seq(Messages) /\ DOMAIN looper = 1..Len(looper)
    BY LenProperties DEF TypeInv, TypeOK, LoopTypes
  <1> DEFINE P == Places(looper, RowMsg(r))
  <1>2. \A i : i \in P <=> i \in 1..Len(looper) /\ looper[i].kind = "row" /\ looper[i].row = r
    <2>1. \A i \in 1..Len(looper) : looper[i] = RowMsg(r) <=> looper[i].kind = "row" /\ looper[i].row = r
      <3> SUFFICES ASSUME NEW i \in 1..Len(looper)
                   PROVE  looper[i] = RowMsg(r) <=> looper[i].kind = "row" /\ looper[i].row = r
        OBVIOUS
      <3>1. looper[i] \in Messages
        BY <1>1, ElementOfSeq
      <3> QED BY <3>1, MessageFacts DEF RowMsg
    <2> QED BY <1>1, <2>1 DEF Places
  <1>3. IsFiniteSet(P) /\ Cardinality(P) \in Nat /\ Posted(r) = Cardinality(P)
    BY <1>1, PlacesFinite, PostedPlaces
  <1>4. Cardinality(P) = 0 <=> P = {}
    <2> HIDE DEF P
    <2> QED BY <1>3, FS_EmptySet
  <1> HIDE DEF P
  <1>5. Posted(r) > 0 <=> P # {}
    BY <1>3, <1>4
  <1> QED BY <1>2, <1>5

LEMMA DecidedIs ==
  ASSUME TypeInv, HandInv
  PROVE  \A r : r \in Decided <=>
           r \in Rows /\ (Posted(r) > 0 \/ \E t \in TestTasks : pc[t] \in {"won", "lost"} /\ r = RowOf(t))
  <1>1. looper \in Seq(Messages) /\ DOMAIN looper = 1..Len(looper)
    BY LenProperties DEF TypeInv, TypeOK, LoopTypes
  <1>2. \A i \in 1..Len(looper) : looper[i].kind = "row" => looper[i].row \in Rows
    <2> SUFFICES ASSUME NEW i \in 1..Len(looper), looper[i].kind = "row" PROVE looper[i].row \in Rows
      OBVIOUS
    <2>1. looper[i] \in Messages
      BY <1>1, ElementOfSeq
    <2> QED BY <2>1 DEF Messages
  <1>3. \A t \in Tasks : pc[t] \in {"won", "lost"} => t \in TestTasks /\ RowOf(t) \in Rows
    BY RowType DEF HandInv
  <1>4. \A t \in TestTasks : t \in Tasks
    BY DEF TestTasks
  <1>5. \A r : r \in Decided <=> \/ \E i \in 1..Len(looper) : looper[i].kind = "row" /\ looper[i].row = r
                                 \/ \E t \in Tasks : pc[t] \in {"won", "lost"} /\ r = RowOf(t)
    BY <1>1 DEF Decided, Tested
  <1> QED BY <1>2, <1>3, <1>4, <1>5, PostedIs

LEMMA DecidedAfter ==
  ASSUME TypeInv', HandInv'
  PROVE  \A r : r \in Decided' <=>
           r \in Rows /\ (Posted(r)' > 0 \/ \E t \in TestTasks : pc'[t] \in {"won", "lost"} /\ r = RowOf(t)')
  <1>1. (TypeInv /\ HandInv => \A r : r \in Decided <=>
           r \in Rows /\ (Posted(r) > 0 \/ \E t \in TestTasks : pc[t] \in {"won", "lost"} /\ r = RowOf(t)))'
    BY DecidedIs, PTL
  <1> QED BY <1>1

\* A step that moves no test and ends no scan changes nothing that was asked.
LEMMA AskedQuiet ==
  ASSUME TypeInv, mode' = mode,
         \A g \in Scans, p \in TestPasses :
           /\ StageOf(g)' # "over" <=> StageOf(g) # "over"
           /\ queue'[g][p] = queue[g][p],
         \A t \in TestTasks : pc'[t] = "probe" <=> pc[t] = "probe",
         \A t \in TestTasks : pc[t] = "probe" => hold'[t] = hold[t]
  PROVE  Asked' = Asked
  <1>1. \A g, p, e : Test(g, p, e)' = Test(g, p, e)
    BY DEF Test, ProtoOf
  <1>2. \A t \in TestTasks : pc[t] = "probe" => TestOf(t)' = TestOf(t)
    BY <1>1 DEF TestOf, Test, ProtoOf
  <1>3. \A x : x \in Asked' <=> x \in Asked
    BY <1>1, <1>2, AskedIs, AskedAfter
  <1> QED BY <1>3

\* A step that decides, posts and shows no test.
LEMMA DecidedQuiet ==
  ASSUME TypeInv, TypeInv', HandInv, HandInv', mode' = mode,
         \A r \in Rows : Posted(r)' = Posted(r),
         \A t \in TestTasks : /\ pc'[t] = pc[t] \/ (pc[t] \notin HasEntry /\ pc'[t] \notin HasEntry)
                              /\ hold'[t] = hold[t]
  PROVE  Decided' = Decided
  <1>1. \A t \in TestTasks : pc'[t] \in {"won", "lost"} <=> pc[t] \in {"won", "lost"}
    BY DEF HasEntry
  <1>2. \A t \in TestTasks : pc[t] \in {"won", "lost"} => RowOf(t)' = RowOf(t)
    BY DEF RowOf, ProtoOf, HasEntry
  <1>3. \A r : r \in Decided' <=> r \in Decided
    BY <1>1, <1>2, DecidedIs, DecidedAfter
  <1> QED BY <1>3

\* A step that neither adds a row to the looper nor takes one from it.
LEMMA PostedSame ==
  ASSUME TypeInv, looper' = looper \/ DeliverEnd \/ \E g \in Scans : BlockReturns(g)
  PROVE  \A r \in Rows : Posted(r)' = Posted(r)
  <1> SUFFICES ASSUME NEW r \in Rows PROVE Posted(r)' = Posted(r)
    OBVIOUS
  <1>0. /\ looper \in Seq(Messages)
        /\ Posted(r) = Cardinality(Places(looper, RowMsg(r)))
        /\ Posted(r)' = Cardinality(Places(looper', RowMsg(r)))
    BY DEF TypeInv, TypeOK, LoopTypes, Posted, Places
  <1>1. CASE looper' = looper
    BY <1>0, <1>1
  <1>2. CASE DeliverEnd
    <2>1. looper # <<>> /\ Head(looper).kind = "end" /\ looper' = Tail(looper)
      BY <1>2 DEF DeliverEnd
    <2>2. Head(looper) # RowMsg(r)
      BY <1>0, <2>1, HeadTailProperties, MessageFacts
    <2> QED BY <1>0, <2>1, <2>2, PlacesTail
  <1>3. ASSUME NEW g \in Scans, BlockReturns(g) PROVE Posted(r)' = Posted(r)
    <2>1. looper' = Append(looper, EndMsg(g))
      BY <1>3 DEF BlockReturns
    <2>2. EndMsg(g) \in Messages /\ EndMsg(g) # RowMsg(r)
      BY MessageFacts
    <2> QED BY <1>0, <2>1, <2>2, PlacesAppend
  <1> QED BY <1>1, <1>2, <1>3

\* A scan without tests in a queue or a hand has none that was asked for.
LEMMA NoneAsked ==
  ASSUME NEW g \in Scans, \A p \in TestPasses : queue[g][p] = {},
         \A t \in TestTasks : t.scan = g => pc[t] # "probe"
  PROVE  Contract!Of(g, Asked) = {}
  <1>1. ASSUME NEW x \in Asked PROVE x.scan # g
    <2>1. CASE \E h \in Scans, p \in TestPasses :
                 StageOf(h) # "over" /\ \E e \in queue[h][p] : x = Test(h, p, e)
      BY <2>1 DEF Test
    <2>2. CASE \E t \in TestTasks : pc[t] = "probe" /\ x = TestOf(t)
      BY <2>2 DEF TestOf, Test
    <2> QED BY <2>1, <2>2, AskedIs
  <1> QED BY <1>1 DEF Contract!Of

\* A scan without rows on their way to the list or about to be posted.
LEMMA NoneDecided ==
  ASSUME TypeInv, HandInv, NEW g \in Scans, \A r \in Rows : r.scan = g => ~(Posted(r) > 0),
         \A t \in TestTasks : t.scan = g => pc[t] \notin {"won", "lost"}
  PROVE  Contract!Of(g, Decided) = {}
  <1>1. ASSUME NEW r \in Decided PROVE r.scan # g
    <2>1. CASE r \in Rows /\ Posted(r) > 0
      BY <2>1
    <2>2. CASE \E t \in TestTasks : pc[t] \in {"won", "lost"} /\ r = RowOf(t)
      BY <2>2 DEF RowOf
    <2> QED BY <2>1, <2>2, DecidedIs
  <1> QED BY <1>1 DEF Contract!Of

\* The stage of a scan follows its coroutine.
LEMMA StageMoves ==
  ASSUME NEW g \in Scans, NEW s, StageOf(g)' = s,
         \A h \in Scans \ {g} : job'[h] = job[h]
  PROVE  Stage' = [Stage EXCEPT ![g] = s]
  <1>1. \A h \in Scans \ {g} : StageOf(h)' = StageOf(h)
    BY DEF StageOf
  <1> QED BY <1>1 DEF Stage

LEMMA StageStays ==
  ASSUME \A g \in Scans : StageOf(g)' = StageOf(g)
  PROVE  Stage' = Stage
  BY DEF Stage

PromiseInv == TypeInv /\ FlowInv /\ PoolInv /\ OnceInv /\ TaskInv /\ LooperInv /\ AloneInv /\ EmptiedInv

\* The steps that neither poll, test nor post, queue no test and show no row.
StillStep ==
  \/ StartScan \/ StopScan \/ ClearResults \/ RebuildPending \/ AddManual \/ Destroy
  \/ \E what \in {"fetch", "china"} : StartLoading(what)
  \/ DeliverEnd \/ FetchDone \/ ChinaLoaded
  \/ \E g \in Scans : \/ LaunchBody(g) \/ FinishCopy(g) \/ JoinPing(g) \/ JoinFirst(g) \/ JoinRetry(g)
                      \/ CloseBlock(g) \/ BlockReturns(g)
  \/ \E q \in Pools : StartQueued(q)
  \/ \E t \in Tasks : SubmitTask(t) \/ ReadFlag(t) \/ PingReturns(t)
  \/ UNCHANGED vars

LEMMA StillKeeps ==
  ASSUME PromiseInv, PromiseInv', StillStep
  PROVE  /\ Decided' = Decided /\ h3Fail' = h3Fail
         /\ (\A g \in Scans : StageOf(g)' # "over" <=> StageOf(g) # "over") => Asked' = Asked
  <1>0. TypeInv /\ TypeInv' /\ HandInv /\ HandInv' /\ FlowInv /\ PoolInv /\ OnceInv
    BY DEF PromiseInv, OnceInv
  <1>1. \A r \in Rows : Posted(r)' = Posted(r)
    <2>1. looper' = looper \/ DeliverEnd \/ \E g \in Scans : BlockReturns(g)
      BY DEF StillStep, StartScan, StopScan, ClearResults, RebuildPending, AddManual, Destroy,
             StartLoading, FetchDone, ChinaLoaded, SetPending, LaunchBody, FinishCopy, JoinPing, JoinFirst,
             JoinRetry, CloseBlock, StartQueued, SubmitTask, ReadFlag, PingReturns, vars
    <2> QED BY <1>0, <2>1, PostedSame
  <1> DEFINE Still ==
        /\ mode' = mode /\ h3Fail' = h3Fail
        /\ \A g \in Scans, p \in TestPasses : queue'[g][p] = queue[g][p]
        /\ \A t \in TestTasks : /\ pc'[t] = pc[t] \/ (pc[t] \notin HasEntry /\ pc'[t] \notin HasEntry)
                                /\ hold'[t] = hold[t]
  <1>2. Still
    <2>1. CASE UNCHANGED vars
      BY <2>1 DEF vars, jobVars, dataVars, poolVars
    <2>2. CASE \/ StartScan \/ StopScan \/ ClearResults \/ RebuildPending \/ AddManual
               \/ \E what \in {"fetch", "china"} : StartLoading(what)
               \/ DeliverEnd \/ FetchDone \/ ChinaLoaded
               \/ \E g \in Scans : LaunchBody(g) \/ JoinRetry(g) \/ CloseBlock(g) \/ BlockReturns(g)
      <3>1. UNCHANGED <<mode, h3Fail, queue, pc, hold>>
        BY <1>0, <2>2, QuietMain
      <3> QED BY <3>1
    <2>3. CASE \/ Destroy
               \/ \E q \in Pools : StartQueued(q)
               \/ \E t \in Tasks : SubmitTask(t) \/ ReadFlag(t) \/ PingReturns(t)
      <3>1. UNCHANGED <<results, looper>>
        BY <2>3 DEF Destroy, StartQueued, SubmitTask, ReadFlag, PingReturns, uiVars
      <3>2. \A r \in Rows : Out(r)' <= Out(r)
        BY <1>0, <3>1, OutSame, OutType
      <3>3. Quiet
        BY <1>0, <2>3, <3>2, QuietPools
      <3> QED BY <3>3 DEF Quiet
    <2>4. ASSUME NEW g \in Scans, FinishCopy(g) \/ JoinPing(g) \/ JoinFirst(g) PROVE Still
      <3>1. /\ UNCHANGED <<mode, h3Fail, pc, hold>> /\ queue \in [Scans -> [Passes -> SUBSET Entries]]
            /\ queue' = queue \/ \E S : queue' = [queue EXCEPT ![g]["ping"] = S]
        BY <1>0, <2>4 DEF FinishCopy, JoinPing, JoinFirst, dataVars, poolVars, TypeInv, TypeOK, DataTypes
      <3> QED BY <3>1 DEF TestPasses, Passes
    <2> HIDE DEF Still
    <2> QED BY <2>1, <2>2, <2>3, <2>4 DEF StillStep
  <1>3. Decided' = Decided
    BY <1>0, <1>1, <1>2, DecidedQuiet
  <1>4. ASSUME \A g \in Scans : StageOf(g)' # "over" <=> StageOf(g) # "over" PROVE Asked' = Asked
    <2>1. \A t \in TestTasks : pc'[t] = "probe" <=> pc[t] = "probe"
      BY <1>2 DEF HasEntry
    <2> QED BY <1>0, <1>2, <1>4, <2>1, AskedQuiet
  <1> QED BY <1>2, <1>3, <1>4

LEMMA StartKeeps ==
  ASSUME PromiseInv, PromiseInv', StartScan
  PROVE  Contract!Start
  <1>1. gen + 1 \in Scans /\ job[gen + 1] = "none" /\ job' = [job EXCEPT ![gen + 1] = "launched"]
        /\ job \in [Scans -> JobStates]
    BY BoundsAssumption DEF StartScan, PromiseInv, FlowInv, GenInv, TypeInv, TypeOK, JobTypes, Scans
  <1> SUFFICES ASSUME NEW g \in Scans, g = gen + 1 PROVE Contract!Start
    BY <1>1
  <1>2. Stage[g] = "none" /\ StageOf(g)' = "ping"
    BY <1>1 DEF Stage, StageOf
  <1>3. \A h \in Scans \ {g} : job'[h] = job[h]
    BY <1>1
  <1>4. Stage' = [Stage EXCEPT ![g] = "ping"]
    BY <1>2, <1>3, StageMoves
  <1>5. tainted' # tainted => \E h \in Scans : Contract!Open(h)
    <2> SUFFICES ASSUME tainted' # tainted PROVE \E h \in Scans : Contract!Open(h)
      OBVIOUS
    <2>1. PICK h \in Scans : Busy(h)
      BY DEF StartScan, Others
    <2>2. Stage[h] \notin {"none", "over"}
      BY <2>1 DEF Stage, StageOf, Busy
    <2> QED BY <2>2 DEF Contract!Open
  <1>6. Asked' = Asked /\ Decided' = Decided /\ h3Fail' = h3Fail
    <2>1. \A h \in Scans : StageOf(h)' # "over" <=> StageOf(h) # "over"
      BY <1>1, <1>3 DEF StageOf
    <2> QED BY <2>1, StillKeeps DEF StillStep
  <1> QED BY <1>1, <1>2, <1>4, <1>5, <1>6 DEF StartScan, Contract!Start

\* Steps that leave every coroutine where it is.
LEMMA SameJobs ==
  ASSUME PromiseInv, PromiseInv', StillStep, job' = job
  PROVE  Stage' = Stage /\ Asked' = Asked /\ Decided' = Decided /\ h3Fail' = h3Fail
  <1>1. \A g \in Scans : StageOf(g)' = StageOf(g)
    BY DEF StageOf
  <1> QED BY <1>1, StageStays, StillKeeps

LEMMA StopKeeps ==
  ASSUME PromiseInv, PromiseInv', StopScan
  PROVE  Contract!Stop
  <1>1. gen \in Scans /\ job[gen] \in Working /\ gen \notin cancelled
    BY DEF StopScan, PromiseInv, FlowInv, FlagInv
  <1>2. Contract!Open(gen)
    BY <1>1 DEF Contract!Open, Stage, StageOf, Working
  <1>3. Stage' = Stage /\ Asked' = Asked /\ Decided' = Decided /\ h3Fail' = h3Fail
    BY SameJobs DEF StopScan, StillStep
  <1>4. cancelled' = cancelled \cup {gen} /\ label' = "start"
    BY <1>1 DEF StopScan, WithJobCancelled, LabelAtStop, Scans
  <1> QED BY <1>1, <1>2, <1>3, <1>4 DEF StopScan, Contract!Stop

LEMMA ClearKeeps ==
  ASSUME PromiseInv, PromiseInv', ClearResults
  PROVE  Contract!Clear
  <1>1. Stage' = Stage /\ Asked' = Asked /\ Decided' = Decided /\ h3Fail' = h3Fail
    BY SameJobs DEF ClearResults, StillStep, jobVars
  <1> QED BY <1>1 DEF ClearResults, Contract!Clear, jobVars

LEMMA LeaveKeeps ==
  ASSUME PromiseInv, PromiseInv', Destroy
  PROVE  Contract!Leave
  <1>1. Stage' = Stage /\ Asked' = Asked /\ Decided' = Decided /\ h3Fail' = h3Fail
    BY SameJobs DEF Destroy, StillStep
  <1> QED BY <1>1 DEF Destroy, WithJobCancelled, Contract!Leave, uiVars

\* The steps the screen shows nothing of: a change of the list, a copy and a
\* task's way through its pool.
LEMMA HiddenKeeps ==
  ASSUME PromiseInv, PromiseInv',
         \/ RebuildPending \/ AddManual \/ FetchDone \/ ChinaLoaded
         \/ \E what \in {"fetch", "china"} : StartLoading(what)
         \/ \E q \in Pools : StartQueued(q)
         \/ \E t \in Tasks : SubmitTask(t) \/ ReadFlag(t) \/ PingReturns(t)
         \/ UNCHANGED vars
  PROVE  UNCHANGED Contract!vars
  <1>1. UNCHANGED <<gen, label, results, job, cancelled, tainted>>
    BY DEF RebuildPending, AddManual, FetchDone, ChinaLoaded, StartLoading, SetPending, StartQueued,
           SubmitTask, ReadFlag, PingReturns, vars, uiVars, jobVars
  <1>2. Stage' = Stage /\ Asked' = Asked /\ Decided' = Decided /\ h3Fail' = h3Fail
    BY <1>1, SameJobs DEF StillStep
  <1> QED BY <1>1, <1>2 DEF Contract!vars

\* The steps of a coroutine between two stages.
LEMMA BodyKeeps ==
  ASSUME PromiseInv, PromiseInv', NEW g \in Scans,
         (LaunchBody(g) /\ g \notin cancelled) \/ FinishCopy(g) \/ CloseBlock(g) \/ BlockReturns(g)
  PROVE  Contract!Disturb
  <1>1. /\ UNCHANGED <<gen, label, results, cancelled>> /\ tainted \subseteq tainted'
        /\ job \in [Scans -> JobStates]
        /\ \/ job' = job
           \/ job[g] = "launched" /\ job' = [job EXCEPT ![g] = "copying"]
           \/ job[g] = "copying" /\ job' = [job EXCEPT ![g] = "ping"]
           \/ job[g] = "closing" /\ job' = [job EXCEPT ![g] = "closed"]
           \/ job[g] = "closed" /\ job' = [job EXCEPT ![g] = "ended"]
    BY DEF LaunchBody, FinishCopy, CloseBlock, BlockReturns, uiVars, PromiseInv, TypeInv, TypeOK, JobTypes
  <1>2. \A h \in Scans : StageOf(h)' = StageOf(h)
    <2> SUFFICES ASSUME NEW h \in Scans PROVE StageOf(h)' = StageOf(h)
      OBVIOUS
    <2>1. CASE job'[h] = job[h]
      BY <2>1 DEF StageOf
    <2>2. CASE job'[h] # job[h]
      BY <1>1, <2>2 DEF StageOf
    <2> QED BY <2>1, <2>2
  <1>3. Stage' = Stage /\ Asked' = Asked /\ Decided' = Decided /\ h3Fail' = h3Fail
    BY <1>2, StageStays, StillKeeps DEF StillStep
  <1> QED BY <1>1, <1>3 DEF Contract!Disturb

\* A row that was posted stands in the looper once, and no task posts it again.
LEMMA RowAlone ==
  ASSUME TypeInv, OnceInv, NEW r \in Rows, Posted(r) > 0
  PROVE  Posted(r) = 1 /\ \A t \in TestTasks : pc[t] \in {"won", "lost"} => RowOf(t) # r
  <1> DEFINE g == r.scan  e == r.entry  p == r.proto
  <1>1. g \in Scans /\ e \in Entries /\ p \in Protos /\ (r = Yes(g, e, p) \/ r = No(g, e, p))
    BY DEF Rows, Yes, No
  <1>2. Single(g, e, p)
    BY <1>1 DEF OnceInv, SingleInv
  <1>3. /\ \A s \in {Yes(g, e, p), No(g, e, p)} :
             results[s] \in Nat /\ Posted(s) \in Nat /\ Out(s) = results[s] + Posted(s)
    BY <1>1, RowFacts, OutType DEF Out
  <1>4. Posted(r) = 1
    BY <1>1, <1>2, <1>3 DEF Single
  <1>5. ASSUME NEW t \in TestTasks, RowOf(t) = r PROVE FALSE
    <2>1. t \in HeldFor(g, e, p)
      BY <1>5 DEF HeldFor, RowOf, TestTasks
    <2>2. Out(Yes(g, e, p)) = 0 /\ Out(No(g, e, p)) = 0
      BY <1>2, <2>1 DEF Single
    <2> QED BY <1>1, <1>3, <1>4, <2>2
  <1> QED BY <1>4, <1>5

LEMMA ShowKeeps ==
  ASSUME PromiseInv, PromiseInv', DeliverRow
  PROVE  \E r \in Decided : Contract!Show(r)
  <1>0. TypeInv /\ TypeInv' /\ HandInv /\ HandInv' /\ FlowInv /\ OnceInv
    BY DEF PromiseInv, OnceInv
  <1> DEFINE r == Head(looper).row
  <1>1. /\ looper \in Seq(Messages) /\ looper # <<>> /\ Head(looper).kind = "row"
        /\ looper' = Tail(looper) /\ results' = [results EXCEPT ![r] = @ + 1]
        /\ UNCHANGED <<gen, label, job, cancelled, tainted>>
    BY <1>0 DEF DeliverRow, TypeInv, TypeOK, LoopTypes, jobVars
  <1>2. Head(looper) \in Messages /\ Head(looper) = looper[1] /\ 1 \in 1..Len(looper)
    BY <1>1, HeadTailProperties, EmptySeq
  <1>3. r \in Rows /\ \A s \in Rows : Head(looper) = RowMsg(s) <=> s = r
    BY <1>1, <1>2, MessageFacts DEF Messages
  <1>4. Posted(r) > 0
    BY <1>0, <1>1, <1>2, <1>3, PostedIs
  <1>5. UNCHANGED <<mode, h3Fail, queue, pc, hold>>
    BY <1>0, QuietMain
  <1> HIDE DEF r
  <1>6. Posted(r) = 1 /\ \A t \in TestTasks : pc[t] \in {"won", "lost"} => RowOf(t) # r
    BY <1>0, <1>3, <1>4, RowAlone
  <1>7. \A s \in Rows : Posted(s)' = IF s = r THEN 0 ELSE Posted(s)
    <2> SUFFICES ASSUME NEW s \in Rows PROVE Posted(s)' = IF s = r THEN 0 ELSE Posted(s)
      OBVIOUS
    <2>1. /\ Posted(s) = Cardinality(Places(looper, RowMsg(s)))
          /\ Posted(s)' = Cardinality(Places(looper', RowMsg(s)))
          /\ Posted(s)' \in Nat
      <3>1. looper' \in Seq(Messages)
        BY <1>1, HeadTailProperties
      <3>2. Posted(s)' = Cardinality(Places(looper', RowMsg(s)))
        BY DEF Posted, Places
      <3> QED BY <3>1, <3>2, PlacesFinite, PostedPlaces
    <2>2. /\ s = r => Posted(s)' + 1 = Posted(s)
          /\ s # r => Posted(s)' = Posted(s)
      BY <1>1, <1>3, <2>1, PlacesTail
    <2> QED BY <1>6, <2>1, <2>2
  <1>8. \A t \in TestTasks : RowOf(t)' = RowOf(t)
    BY <1>5 DEF RowOf, ProtoOf
  <1>9. Decided' = Decided \ {r} /\ r \in Decided
    <2>1. \A s : s \in Decided' <=> s \in Decided /\ s # r
      BY <1>0, <1>5, <1>6, <1>7, <1>8, DecidedIs, DecidedAfter
    <2> QED BY <1>0, <1>3, <1>4, <2>1, DecidedIs
  <1>10. Stage' = Stage /\ Asked' = Asked
    <2>1. \A g \in Scans : StageOf(g)' = StageOf(g)
      BY <1>1 DEF StageOf
    <2> QED BY <1>0, <1>5, <2>1, StageStays, AskedQuiet
  <1> QED BY <1>1, <1>5, <1>9, <1>10 DEF Contract!Show

\* A scan that nobody stopped or disturbed is a clean one.
LEMMA SettledClean ==
  ASSUME NEW g \in Scans, Clean(g) => Contract!Of(g, Asked) = {}
  PROVE  Contract!Settled(g)
  BY DEF Contract!Settled, Clean

\* The tests of a scan that ends, if any, are those it was stopped before.
LEMMA AskedEnds ==
  ASSUME TypeInv, NEW g \in Scans, UNCHANGED <<mode, queue, pc, hold>>,
         StageOf(g)' = "over", \A h \in Scans \ {g} : job'[h] = job[h],
         \A t \in TestTasks : t.scan = g => pc[t] # "probe"
  PROVE  Asked' = Asked \ Contract!Of(g, Asked)
  <1>1. \A h, p, e : Test(h, p, e)' = Test(h, p, e) /\ Test(h, p, e).scan = h
    BY DEF Test, ProtoOf
  <1>2. \A t \in TestTasks : TestOf(t)' = TestOf(t) /\ TestOf(t).scan = t.scan
    BY <1>1 DEF TestOf, Test, ProtoOf
  <1>3. \A h \in Scans \ {g} : StageOf(h)' = StageOf(h)
    BY DEF StageOf
  <1>4. \A x : x \in Asked' <=> x \in Asked /\ x.scan # g
    BY <1>1, <1>2, <1>3, AskedIs, AskedAfter
  <1>5. \A x : x \in Contract!Of(g, Asked) <=> x \in Asked /\ x.scan = g
    BY DEF Contract!Of
  <1> QED BY <1>4, <1>5

LEMMA EndKeeps ==
  ASSUME PromiseInv, PromiseInv', DeliverEnd
  PROVE  \E g \in Scans : Contract!End(g)
  <1>0. TypeInv /\ TypeInv' /\ HandInv /\ FlowInv /\ OnceInv /\ TaskInv /\ LooperInv /\ EmptiedInv
    BY DEF PromiseInv, OnceInv
  <1>1. looper \in Seq(Messages) /\ looper # <<>> /\ Head(looper).kind = "end"
    BY <1>0 DEF DeliverEnd, TypeInv, TypeOK, LoopTypes
  <1>2. Head(looper) \in Messages /\ Head(looper) = looper[1] /\ 1 \in 1..Len(looper)
    BY <1>1, HeadTailProperties, EmptySeq
  <1>3. PICK g \in Scans : g = Head(looper).scan /\ job[g] = "ended"
    BY <1>0, <1>1, <1>2 DEF Messages, FlowInv, EndInv
  <1>14. /\ UNCHANGED <<gen, results, cancelled, tainted>> /\ looper' = Tail(looper)
         /\ job \in [Scans -> JobStates]
         /\ job' = [job EXCEPT ![g] = IF g \in cancelled THEN "cancelled" ELSE "finished"]
         /\ label' = IF g \in cancelled THEN label ELSE "start"
    BY <1>0, <1>3 DEF DeliverEnd, TypeInv, TypeOK, JobTypes
  <1>4. UNCHANGED <<mode, h3Fail, queue, pc, hold>>
    BY <1>0, QuietMain
  <1>5. \A i \in 1..Len(looper) : looper[i].kind = "row" => looper[i].row.scan # g
    BY <1>0, <1>1, <1>2, <1>3 DEF LooperInv
  <1>6. \A r \in Rows : r.scan = g => ~(Posted(r) > 0)
    BY <1>0, <1>5, PostedIs
  <1>7. \A t \in TestTasks : t.scan = g => pc[t] \notin HasEntry
    BY <1>0, <1>3, TestTaskFacts DEF TaskInv, Active, HasEntry, TestPasses
  <1>8. Contract!Of(g, Decided) = {}
    BY <1>0, <1>3, <1>6, <1>7, NoneDecided DEF HasEntry
  <1>9. Contract!Settled(g)
    <2>1. ASSUME Clean(g) PROVE Contract!Of(g, Asked) = {}
      <3>1. \A p \in TestPasses : queue[g][p] = {}
        BY <1>0, <1>3, <2>1 DEF EmptiedInv, Emptied, Behind, TestPasses, Passes
      <3> QED BY <1>3, <1>7, <3>1, NoneAsked DEF HasEntry
    <2> QED BY <1>3, <2>1, SettledClean
  <1>10. StageOf(g)' = "over" /\ Stage[g] = "ending" /\ \A h \in Scans \ {g} : job'[h] = job[h]
    BY <1>3, <1>14 DEF StageOf, Stage
  <1>11. Stage' = [Stage EXCEPT ![g] = "over"]
    BY <1>3, <1>10, StageMoves
  <1>12. Asked' = Asked \ Contract!Of(g, Asked)
    BY <1>0, <1>3, <1>4, <1>7, <1>10, AskedEnds DEF HasEntry
  <1>13. Decided' = Decided
    BY StillKeeps DEF StillStep
  <1> QED BY <1>3, <1>4, <1>8, <1>9, <1>10, <1>11, <1>12, <1>13, <1>14 DEF Contract!End

\* A body that was stopped before it began has asked for nothing.
LEMMA DropKeeps ==
  ASSUME PromiseInv, PromiseInv', NEW g \in Scans, LaunchBody(g), g \in cancelled
  PROVE  Contract!End(g)
  <1>0. TypeInv /\ TypeInv' /\ HandInv /\ FlowInv /\ OnceInv
    BY DEF PromiseInv, OnceInv
  <1>1. /\ job[g] = "launched" /\ job' = [job EXCEPT ![g] = "cancelled"]
        /\ job \in [Scans -> JobStates] /\ UNCHANGED <<gen, label, results, cancelled, tainted>>
    BY <1>0 DEF LaunchBody, TypeInv, TypeOK, JobTypes, uiVars
  <1>2. UNCHANGED <<mode, h3Fail, queue, pc, hold>>
    BY <1>0, QuietMain
  <1>3. /\ \A t \in TestTasks : t.scan = g => pc[t] = "none"
        /\ \A r \in Rows : r.scan = g => Out(r) = 0
    BY <1>0, <1>1 DEF OnceInv, EarlyInv, EarlyJobs
  <1>4. \A r \in Rows : r.scan = g => ~(Posted(r) > 0)
    BY <1>0, <1>3, OutType DEF Out
  <1>5. Contract!Of(g, Decided) = {}
    BY <1>0, <1>3, <1>4, NoneDecided
  <1>6. StageOf(g)' = "over" /\ Stage[g] = "ping" /\ \A h \in Scans \ {g} : job'[h] = job[h]
    BY <1>1 DEF StageOf, Stage
  <1>7. Stage' = [Stage EXCEPT ![g] = "over"]
    BY <1>6, StageMoves
  <1>8. Asked' = Asked \ Contract!Of(g, Asked)
    BY <1>0, <1>2, <1>3, <1>6, AskedEnds
  <1>9. Decided' = Decided
    BY StillKeeps DEF StillStep
  <1>10. Contract!Settled(g)
    BY DEF Contract!Settled
  <1> QED BY <1>1, <1>2, <1>5, <1>6, <1>7, <1>8, <1>9, <1>10 DEF Contract!End

\* A scan whose pass has come back has no test of it left, unless it was stopped
\* or disturbed; nor has it one of another pass.
LEMMA JoinedSettled ==
  ASSUME PromiseInv, NEW g \in Scans, NEW p \in TestPasses, Joined(g, p)
  PROVE  Contract!Settled(g)
  <1>0. TypeInv /\ OnceInv /\ TaskInv /\ EmptiedInv
    BY DEF PromiseInv
  <1>1. job[g] = p /\ \A t \in PassTasks(g, p) : pc[t] = "done"
    BY DEF Joined
  <1>2. ASSUME NEW t \in TestTasks, t.scan = g PROVE pc[t] # "probe"
    <2>1. CASE t.pass = p
      BY <1>1, <1>2, <2>1 DEF PassTasks, TestTasks
    <2>2. CASE t.pass # p
      BY <1>0, <1>1, <1>2, <2>2 DEF TaskInv, Active, TestTasks
    <2> QED BY <2>1, <2>2
  <1>3. ASSUME Clean(g), NEW k \in TestPasses PROVE queue[g][k] = {}
    <2>1. Emptied(g)
      BY <1>0, <1>3 DEF EmptiedInv
    <2>2. CASE k = p
      <3>1. \E t \in Tasks : t.scan = g /\ t.pass = p /\ pc[t] = "done"
        BY <1>1, SomeTask DEF TestPasses, Passes
      <3> QED BY <2>1, <2>2, <3>1 DEF Emptied
    <2>3. CASE k = "first" /\ p = "retry"
      BY <1>1, <2>1, <2>3 DEF Emptied, Behind, Passes
    <2>4. CASE k = "retry" /\ p = "first"
      BY <1>0, <1>1, <2>4 DEF OnceInv, FirstInv
    <2> QED BY <2>2, <2>3, <2>4 DEF TestPasses
  <1>4. Clean(g) => Contract!Of(g, Asked) = {}
    BY <1>2, <1>3, NoneAsked
  <1> QED BY <1>4, SettledClean

\* Nor has one between its passes.
LEMMA TestedSettled ==
  ASSUME PromiseInv, NEW g \in Scans, job[g] = "tested"
  PROVE  Contract!Settled(g)
  <1>0. TypeInv /\ OnceInv /\ TaskInv /\ EmptiedInv
    BY DEF PromiseInv
  <1>1. \A t \in TestTasks : t.scan = g => pc[t] # "probe"
    BY <1>0, TestTaskFacts DEF TaskInv, Active, TestTasks, TestPasses
  <1>2. ASSUME Clean(g), NEW k \in TestPasses PROVE queue[g][k] = {}
    <2>1. CASE k = "first"
      BY <1>0, <1>2, <2>1 DEF EmptiedInv, Emptied, Behind, Passes
    <2>2. CASE k = "retry"
      BY <1>0, <2>2 DEF OnceInv, FirstInv
    <2> QED BY <2>1, <2>2 DEF TestPasses
  <1>3. Clean(g) => Contract!Of(g, Asked) = {}
    BY <1>1, <1>2, NoneAsked
  <1> QED BY <1>3, SettledClean

LEMMA RetryKeeps ==
  ASSUME PromiseInv, PromiseInv', NEW g \in Scans, JoinRetry(g)
  PROVE  Contract!Conclude(g)
  <1>1. /\ job[g] = "retry" /\ job' = [job EXCEPT ![g] = "closing"] /\ job \in [Scans -> JobStates]
        /\ UNCHANGED <<gen, label, results, cancelled, tainted>>
    BY DEF JoinRetry, Joined, uiVars, PromiseInv, TypeInv, TypeOK, JobTypes
  <1>2. Contract!Settled(g)
    BY JoinedSettled DEF JoinRetry, TestPasses
  <1>3. StageOf(g)' = "ending" /\ Stage[g] = "retry" /\ \A h \in Scans \ {g} : job'[h] = job[h]
    BY <1>1 DEF StageOf, Stage
  <1>4. Stage' = [Stage EXCEPT ![g] = "ending"]
    BY <1>3, StageMoves
  <1>5. Decided' = Decided /\ h3Fail' = h3Fail /\ Asked' = Asked
    <2>1. \A h \in Scans : StageOf(h)' # "over" <=> StageOf(h) # "over"
      BY <1>1, <1>3 DEF StageOf
    <2> QED BY <2>1, StillKeeps DEF StillStep
  <1> QED BY <1>1, <1>2, <1>3, <1>4, <1>5 DEF Contract!Conclude

\* A step of a body that fills a queue adds its tests to those asked for.
LEMMA AskedGrows ==
  ASSUME TypeInv, NEW g \in Scans, NEW p \in TestPasses, NEW S, queue[g][p] = {},
         \/ queue' = [queue EXCEPT ![g][p] = S]
         \/ queue' = queue /\ S = {},
         StageOf(g) # "over", StageOf(g)' # "over",
         \A h \in Scans \ {g} : job'[h] = job[h] /\ mode'[h] = mode[h],
         mode'[g] = mode[g] \/ Contract!Of(g, Asked) = {}, UNCHANGED <<pc, hold>>
  PROVE  Asked' = Asked \cup {Test(g, p, e)' : e \in S}
  <1>0. queue \in [Scans -> [Passes -> SUBSET Entries]] /\ p \in Passes
    BY DEF TypeInv, TypeOK, DataTypes, TestPasses, Passes
  <1>1. \A h \in Scans \ {g} : StageOf(h)' = StageOf(h)
    BY DEF StageOf
  <1>2. \A h \in Scans, k \in TestPasses : queue'[h][k] = IF h = g /\ k = p THEN S ELSE queue[h][k]
    BY <1>0 DEF TestPasses, Passes
  <1>3. \A h \in Scans : \A k, e : mode'[h] = mode[h] => Test(h, k, e)' = Test(h, k, e)
    BY DEF Test, ProtoOf
  <1>4. \A t \in TestTasks : t.scan \in Scans
    BY TestTaskFacts
  <1>5. \A x \in Asked : x.scan = g => mode'[g] = mode[g]
    BY DEF Contract!Of
  <1>6. ASSUME NEW x \in Asked PROVE x \in Asked'
    <2>1. ASSUME NEW h \in Scans, NEW k \in TestPasses, StageOf(h) # "over",
                 NEW e \in queue[h][k], x = Test(h, k, e)
          PROVE  x \in Asked'
      <3>1. x.scan = h
        BY <2>1 DEF Test
      <3>2. mode'[h] = mode[h]
        BY <1>5, <3>1
      <3>3. x = Test(h, k, e)'
        BY <1>3, <2>1, <3>2
      <3>4. e \in queue'[h][k] /\ StageOf(h)' # "over"
        BY <1>1, <1>2, <2>1
      <3> QED BY <3>3, <3>4, AskedAfter
    <2>2. ASSUME NEW t \in TestTasks, pc[t] = "probe", x = TestOf(t) PROVE x \in Asked'
      <3>1. x.scan = t.scan
        BY <2>2 DEF TestOf, Test
      <3>2. mode'[t.scan] = mode[t.scan]
        BY <1>4, <1>5, <3>1
      <3>3. x = TestOf(t)'
        BY <1>3, <1>4, <2>2, <3>2 DEF TestOf, Test, ProtoOf
      <3> QED BY <2>2, <3>3, AskedAfter
    <2> QED BY <2>1, <2>2, AskedIs
  <1>7. ASSUME NEW e \in S PROVE Test(g, p, e)' \in Asked'
    BY <1>2, AskedAfter
  <1>8. ASSUME NEW x \in Asked', x \notin {Test(g, p, e)' : e \in S} PROVE x \in Asked
    <2>1. ASSUME NEW h \in Scans, NEW k \in TestPasses, StageOf(h)' # "over",
                 NEW e \in queue'[h][k], x = Test(h, k, e)'
          PROVE  x \in Asked
      <3>1. e \in queue[h][k] /\ StageOf(h) # "over"
        BY <1>1, <1>2, <1>8, <2>1
      <3>2. Test(h, k, e) \in Asked /\ Test(h, k, e).scan = h
        BY <3>1, AskedIs DEF Test
      <3>3. mode'[h] = mode[h]
        BY <1>5, <3>2
      <3> QED BY <1>3, <2>1, <3>2, <3>3
    <2>2. ASSUME NEW t \in TestTasks, pc'[t] = "probe", x = TestOf(t)' PROVE x \in Asked
      <3>1. TestOf(t) \in Asked /\ TestOf(t).scan = t.scan
        BY <2>2, AskedIs DEF TestOf, Test
      <3>2. mode'[t.scan] = mode[t.scan]
        BY <1>4, <1>5, <3>1
      <3>3. TestOf(t)' = TestOf(t)
        BY <3>2 DEF TestOf, Test, ProtoOf
      <3> QED BY <2>2, <3>1, <3>3
    <2> QED BY <2>1, <2>2, AskedAfter
  <1> QED BY <1>6, <1>7, <1>8

\* The end of a pass ends the asking, or nothing shows yet what the body goes on to.
LEMMA FirstKeeps ==
  ASSUME PromiseInv, PromiseInv', NEW g \in Scans, JoinFirst(g)
  PROVE  UNCHANGED Contract!vars \/ Contract!Conclude(g)
  <1>1. /\ job[g] = "first" /\ job \in [Scans -> JobStates]
        /\ UNCHANGED <<gen, label, results, cancelled, tainted>>
    BY DEF JoinFirst, Joined, uiVars, PromiseInv, TypeInv, TypeOK, JobTypes
  <1>2. Contract!Settled(g)
    BY JoinedSettled DEF JoinFirst, TestPasses
  <1>3. PICK j \in {"tested", "closing"} : job' = [job EXCEPT ![g] = j]
    BY DEF JoinFirst
  <1>4. /\ Stage[g] = "first" /\ StageOf(g)' = (IF j = "tested" THEN "first" ELSE "ending")
        /\ \A h \in Scans \ {g} : job'[h] = job[h]
    BY <1>1, <1>3 DEF StageOf, Stage
  <1>5. Stage' = [Stage EXCEPT ![g] = IF j = "tested" THEN "first" ELSE "ending"]
    BY <1>4, StageMoves
  <1>6. Decided' = Decided /\ h3Fail' = h3Fail /\ Asked' = Asked
    <2>1. StageOf(g) # "over" /\ StageOf(g)' # "over"
      BY <1>4 DEF Stage
    <2>2. \A h \in Scans \ {g} : StageOf(h)' = StageOf(h)
      BY <1>4 DEF StageOf
    <2> QED BY <2>1, <2>2, StillKeeps DEF StillStep
  <1>7. CASE j = "tested"
    <2>1. Stage' = Stage
      BY <1>4, <1>5, <1>7 DEF Stage
    <2> QED BY <1>1, <1>6, <2>1 DEF Contract!vars
  <1>8. CASE j = "closing"
    BY <1>1, <1>2, <1>4, <1>5, <1>6, <1>8 DEF Contract!Conclude
  <1> QED BY <1>7, <1>8

LEMMA AgainKeeps ==
  ASSUME PromiseInv, PromiseInv', NEW g \in Scans, BeginRetry(g)
  PROVE  Contract!AskAgain(g) \/ Contract!Conclude(g)
  <1>0. TypeInv /\ TypeInv' /\ HandInv /\ HandInv' /\ OnceInv
    BY DEF PromiseInv, OnceInv
  <1>1. /\ job[g] = "tested" /\ job \in [Scans -> JobStates]
        /\ job' = [job EXCEPT ![g] = IF h3Fail[g] = {} THEN "closing" ELSE "retry"]
        /\ queue' = [queue EXCEPT ![g]["retry"] = h3Fail[g]]
        /\ UNCHANGED <<gen, label, results, cancelled, tainted, mode, h3Fail, pc, hold, looper>>
    BY <1>0 DEF BeginRetry, uiVars, poolVars, TypeInv, TypeOK, JobTypes
  <1>2. Contract!Settled(g)
    BY <1>1, TestedSettled
  <1>3. queue[g]["retry"] = {} /\ ProtoOf(g, "retry")' = "TCP"
    BY <1>0, <1>1 DEF OnceInv, FirstInv, ProtoOf
  <1>4. Decided' = Decided
    <2>1. \A r \in Rows : Posted(r)' = Posted(r)
      BY <1>0, <1>1, PostedSame
    <2> QED BY <1>0, <1>1, <2>1, DecidedQuiet
  <1>5. /\ Stage[g] = "first" /\ StageOf(g) # "over" /\ "retry" \in TestPasses
        /\ StageOf(g)' = IF h3Fail[g] = {} THEN "ending" ELSE "retry"
        /\ \A h \in Scans \ {g} : job'[h] = job[h]
    BY <1>1 DEF Stage, StageOf, TestPasses
  <1>6. Stage' = [Stage EXCEPT ![g] = IF h3Fail[g] = {} THEN "ending" ELSE "retry"]
    BY <1>5, StageMoves
  <1>7. Asked' = Asked \cup {Test(g, "retry", e)' : e \in h3Fail[g]}
    BY <1>0, <1>1, <1>3, <1>5, AskedGrows
  <1>8. \A e : Test(g, "retry", e)' = [scan |-> g, entry |-> e, proto |-> "TCP"]
    BY <1>3 DEF Test
  <1>9. CASE h3Fail[g] = {}
    BY <1>1, <1>2, <1>4, <1>5, <1>6, <1>7, <1>9 DEF Contract!Conclude
  <1>10. CASE h3Fail[g] # {}
    BY <1>1, <1>2, <1>4, <1>5, <1>6, <1>7, <1>8, <1>10 DEF Contract!AskAgain
  <1> QED BY <1>9, <1>10

\* A scan that has tested nothing has nothing that was asked for.
LEMMA EarlyNone ==
  ASSUME PromiseInv, NEW g \in Scans, job[g] \in EarlyJobs
  PROVE  /\ \A p \in TestPasses : queue[g][p] = {}
         /\ \A t \in TestTasks : t.scan = g => pc[t] = "none"
         /\ Contract!Of(g, Asked) = {} /\ Contract!Settled(g)
  <1>1. /\ \A p \in TestPasses : queue[g][p] = {}
        /\ \A t \in TestTasks : t.scan = g => pc[t] = "none"
    BY DEF PromiseInv, OnceInv, EarlyInv, FirstInv, EarlyJobs, TestPasses
  <1>2. Contract!Of(g, Asked) = {}
    BY <1>1, NoneAsked
  <1> QED BY <1>1, <1>2, SettledClean

LEMMA PingKeeps ==
  ASSUME PromiseInv, PromiseInv', NEW g \in Scans, JoinPing(g)
  PROVE  UNCHANGED Contract!vars \/ Contract!Conclude(g)
  <1>1. /\ job[g] = "ping" /\ job \in [Scans -> JobStates]
        /\ UNCHANGED <<gen, label, results, cancelled, tainted>>
    BY DEF JoinPing, Joined, uiVars, PromiseInv, TypeInv, TypeOK, JobTypes
  <1>2. Contract!Settled(g)
    BY <1>1, EarlyNone DEF EarlyJobs
  <1>3. PICK j \in {"pinged", "closed"} : job' = [job EXCEPT ![g] = j]
    BY DEF JoinPing
  <1>4. /\ Stage[g] = "ping" /\ StageOf(g)' = (IF j = "pinged" THEN "ping" ELSE "ending")
        /\ \A h \in Scans \ {g} : job'[h] = job[h]
    BY <1>1, <1>3 DEF StageOf, Stage
  <1>5. Stage' = [Stage EXCEPT ![g] = IF j = "pinged" THEN "ping" ELSE "ending"]
    BY <1>4, StageMoves
  <1>6. Decided' = Decided /\ h3Fail' = h3Fail /\ Asked' = Asked
    <2>1. StageOf(g) # "over" /\ StageOf(g)' # "over"
      BY <1>4 DEF Stage
    <2>2. \A h \in Scans \ {g} : StageOf(h)' = StageOf(h)
      BY <1>4 DEF StageOf
    <2> QED BY <2>1, <2>2, StillKeeps DEF StillStep
  <1>7. CASE j = "pinged"
    <2>1. Stage' = Stage
      BY <1>4, <1>5, <1>7 DEF Stage
    <2> QED BY <1>1, <1>6, <2>1 DEF Contract!vars
  <1>8. CASE j = "closed"
    BY <1>1, <1>2, <1>4, <1>5, <1>6, <1>8 DEF Contract!Conclude
  <1> QED BY <1>7, <1>8

LEMMA BeginKeeps ==
  ASSUME PromiseInv, PromiseInv', NEW g \in Scans, BeginTests(g)
  PROVE  Contract!Ask(g) \/ Contract!Conclude(g)
  <1>0. TypeInv /\ TypeInv' /\ HandInv /\ HandInv' /\ OnceInv
    BY DEF PromiseInv, OnceInv
  <1>1. /\ job[g] = "pinged" /\ job \in [Scans -> JobStates] /\ mode \in [Scans -> Modes]
        /\ job' = [job EXCEPT ![g] = IF alive[g] = {} THEN "closing" ELSE "first"]
        /\ queue' = [queue EXCEPT ![g]["first"] = alive[g]]
        /\ UNCHANGED <<gen, label, results, cancelled, tainted, h3Fail, pc, hold, looper>>
    BY <1>0 DEF BeginTests, uiVars, poolVars, TypeInv, TypeOK, JobTypes
  <1>2. /\ \A p \in TestPasses : queue[g][p] = {}
        /\ \A t \in TestTasks : t.scan = g => pc[t] = "none"
        /\ Contract!Of(g, Asked) = {} /\ Contract!Settled(g)
    BY <1>1, EarlyNone DEF EarlyJobs
  <1>5. \A h \in Scans \ {g} : job'[h] = job[h] /\ mode'[h] = mode[h]
    BY <1>1 DEF BeginTests
  <1>6. Decided' = Decided
    <2>1. \A r \in Rows : Posted(r)' = Posted(r)
      BY <1>0, <1>1, PostedSame
    <2>2. \A t \in TestTasks : t.scan \in Scans
      BY TestTaskFacts, <1>0
    <2>3. \A t \in TestTasks : pc[t] \in {"won", "lost"} => RowOf(t)' = RowOf(t)
      <3> SUFFICES ASSUME NEW t \in TestTasks, pc[t] \in {"won", "lost"} PROVE RowOf(t)' = RowOf(t)
        OBVIOUS
      <3>1. mode'[t.scan] = mode[t.scan]
        BY <1>2, <1>5, <2>2
      <3> QED BY <1>1, <3>1 DEF RowOf, ProtoOf
    <2>4. \A r : r \in Decided' <=> r \in Decided
      BY <1>0, <1>1, <2>1, <2>3, DecidedIs, DecidedAfter
    <2> QED BY <2>4
  <1>7. /\ Stage[g] = "ping" /\ StageOf(g) # "over" /\ "first" \in TestPasses
        /\ StageOf(g)' = IF alive[g] = {} THEN "ending" ELSE "first"
    BY <1>1 DEF Stage, StageOf, TestPasses
  <1>8. Asked' = Asked \cup {Test(g, "first", e)' : e \in alive[g]}
    BY <1>0, <1>1, <1>2, <1>5, <1>7, AskedGrows
  <1>9. Stage' = [Stage EXCEPT ![g] = IF alive[g] = {} THEN "ending" ELSE "first"]
    BY <1>5, <1>7, StageMoves
  <1>10. CASE alive[g] = {}
    BY <1>1, <1>2, <1>6, <1>7, <1>8, <1>9, <1>10 DEF Contract!Conclude
  <1>11. CASE alive[g] # {}
    <2>1. \A e : Test(g, "first", e)'.scan = g /\ Test(g, "first", e)'.proto = ProtoOf(g, "first")'
      BY DEF Test
    <2>2. \A x, y \in Asked' \ Asked : x.scan = g /\ x.proto = y.proto
      BY <1>8, <2>1
    <2> QED BY <1>1, <1>6, <1>7, <1>8, <1>9, <1>11, <2>2 DEF Contract!Ask
  <1> QED BY <1>10, <1>11

\* A poll moves a test from a queue to a hand.
LEMMA TakeKeeps ==
  ASSUME PromiseInv, PromiseInv', NEW t \in Tasks, TakeEntry(t)
  PROVE  UNCHANGED Contract!vars
  <1>0. TypeInv /\ TypeInv' /\ HandInv /\ HandInv' /\ OnceInv /\ TaskInv
    BY DEF PromiseInv, OnceInv
  <1>1. /\ pc[t] = "poll" /\ pc \in [Tasks -> PcStates] /\ hold \in [Tasks -> Entries \cup {NoEntry}]
        /\ queue \in [Scans -> [Passes -> SUBSET Entries]] /\ t.scan \in Scans /\ t.pass \in Passes
        /\ UNCHANGED <<gen, label, results, job, mode, cancelled, tainted, h3Fail, looper>>
    BY <1>0, TaskTypes DEF TakeEntry, uiVars, jobVars, TypeInv, TypeOK, PoolTypes, DataTypes
  <1>2. \A g \in Scans : StageOf(g)' = StageOf(g)
    BY <1>1 DEF StageOf
  <1>3. Stage' = Stage
    BY <1>2, StageStays
  <1>4. \A u \in TestTasks : u \in Tasks /\ u.scan \in Scans /\ u.pass \in TestPasses
    BY <1>0, TestTaskFacts
  <1>5. /\ \A u \in Tasks \ {t} : pc'[u] = pc[u] /\ hold'[u] = hold[u]
        /\ pc'[t] \in {"done", "probe"}
    BY <1>1 DEF TakeEntry
  <1>6. Decided' = Decided
    <2>1. \A r \in Rows : Posted(r)' = Posted(r)
      BY <1>0, <1>1, PostedSame
    <2>2. \A u \in TestTasks : pc'[u] \in {"won", "lost"} <=> pc[u] \in {"won", "lost"}
      BY <1>1, <1>4, <1>5
    <2>3. \A u \in TestTasks : pc[u] \in {"won", "lost"} => RowOf(u)' = RowOf(u)
      BY <1>1, <1>4, <1>5 DEF RowOf, ProtoOf
    <2>4. \A r : r \in Decided' <=> r \in Decided
      BY <1>0, <2>1, <2>2, <2>3, DecidedIs, DecidedAfter
    <2> QED BY <2>4
  <1>7. \A g, p, e : Test(g, p, e)' = Test(g, p, e)
    BY <1>1 DEF Test, ProtoOf
  <1>8. CASE pc' = [pc EXCEPT ![t] = "done"] /\ UNCHANGED <<queue, hold>>
    <2>1. \A u \in TestTasks : pc'[u] = "probe" <=> pc[u] = "probe"
      BY <1>1, <1>4, <1>8
    <2>2. Asked' = Asked
      BY <1>0, <1>1, <1>2, <1>8, <2>1, AskedQuiet
    <2> QED BY <1>1, <1>3, <1>6, <2>2 DEF Contract!vars
  <1>9. ASSUME NEW d \in queue[t.scan][t.pass],
               queue' = [queue EXCEPT ![t.scan][t.pass] = @ \ {d}],
               hold' = [hold EXCEPT ![t] = d], pc' = [pc EXCEPT ![t] = "probe"]
        PROVE  UNCHANGED Contract!vars
    <2>1. hold'[t] = d /\ pc'[t] = "probe"
      BY <1>1, <1>9
    <2>2. \A g \in Scans, p \in TestPasses : \A e :
            e \in queue[g][p] <=> e \in queue'[g][p] \/ (g = t.scan /\ p = t.pass /\ e = d)
      BY <1>1, <1>9 DEF TestPasses, Passes
    <2>3. StageOf(t.scan) # "over"
      BY <1>0, <1>1 DEF TaskInv, Active, Passes, StageOf
    <2>4. \A u \in TestTasks : pc[u] = "probe" => pc'[u] = "probe" /\ TestOf(u)' = TestOf(u)
      BY <1>1, <1>4, <1>5, <1>7 DEF TestOf, Test, ProtoOf
    <2>5. ASSUME NEW x \in Asked PROVE x \in Asked'
      <3>1. ASSUME NEW g \in Scans, NEW p \in TestPasses, StageOf(g) # "over",
                   NEW e \in queue[g][p], x = Test(g, p, e)
            PROVE  x \in Asked'
        <4>1. CASE e \in queue'[g][p]
          BY <1>2, <1>7, <3>1, <4>1, AskedAfter
        <4>2. CASE e \notin queue'[g][p]
          <5>1. g = t.scan /\ p = t.pass /\ e = d
            BY <2>2, <4>2
          <5>2. t \in TestTasks
            BY <5>1 DEF TestTasks, TestPasses
          <5>3. x = TestOf(t)'
            BY <1>1, <2>1, <3>1, <5>1 DEF TestOf, Test, ProtoOf
          <5> QED BY <2>1, <5>2, <5>3, AskedAfter
        <4> QED BY <4>1, <4>2
      <3>2. ASSUME NEW u \in TestTasks, pc[u] = "probe", x = TestOf(u) PROVE x \in Asked'
        BY <2>4, <3>2, AskedAfter
      <3> QED BY <3>1, <3>2, AskedIs
    <2>6. ASSUME NEW x \in Asked' PROVE x \in Asked
      <3>1. ASSUME NEW g \in Scans, NEW p \in TestPasses, StageOf(g)' # "over",
                   NEW e \in queue'[g][p], x = Test(g, p, e)'
            PROVE  x \in Asked
        BY <1>2, <1>7, <2>2, <3>1, AskedIs
      <3>2. ASSUME NEW u \in TestTasks, pc'[u] = "probe", x = TestOf(u)' PROVE x \in Asked
        <4>1. CASE u = t
          <5>1. x = Test(t.scan, t.pass, d) /\ t.pass \in TestPasses
            BY <1>1, <1>4, <2>1, <3>2, <4>1 DEF TestOf, Test, ProtoOf
          <5> QED BY <1>1, <2>3, <5>1, AskedIs
        <4>2. CASE u # t
          <5>1. pc[u] = "probe"
            BY <1>4, <1>5, <3>2, <4>2
          <5> QED BY <2>4, <3>2, <5>1, AskedIs
        <4> QED BY <4>1, <4>2
      <3> QED BY <3>1, <3>2, AskedAfter
    <2>7. Asked' = Asked
      BY <2>5, <2>6
    <2> QED BY <1>1, <1>3, <1>6, <2>7 DEF Contract!vars
  <1> QED BY <1>8, <1>9 DEF TakeEntry, Poll

\* A test that a task has in hand is in no queue and in no other hand.
LEMMA TestAlone ==
  ASSUME TypeInv, OnceInv, NEW t \in TestTasks, pc[t] = "probe"
  PROVE  /\ \A g \in Scans, p \in TestPasses : \A e \in queue[g][p] : Test(g, p, e) # TestOf(t)
         /\ \A u \in TestTasks : pc[u] = "probe" /\ TestOf(u) = TestOf(t) => u = t
  <1> DEFINE h == t.scan  d == hold[t]  k == ProtoOf(t.scan, t.pass)
  <1>0. t \in Tasks /\ h \in Scans /\ k \in Protos /\ d \in Entries
    BY TestTaskFacts DEF TypeInv, HoldsEntry
  <1>1. ASSUME NEW g \in Scans, NEW p \in TestPasses, NEW e \in queue[g][p], Test(g, p, e) = TestOf(t)
        PROVE  FALSE
    <2>1. g = h /\ e = d /\ ProtoOf(g, p) = k
      BY <1>1 DEF Test, TestOf
    <2>2. Untested(g, e, ProtoOf(g, p))
      BY <1>1 DEF OnceInv, QueuedInv
    <2> QED BY <2>1, <2>2 DEF Untested
  <1>2. ASSUME NEW u \in TestTasks, TestOf(u) = TestOf(t) PROVE u = t
    <2>1. u.scan = h /\ hold[u] = d /\ ProtoOf(u.scan, u.pass) = k
      BY <1>2 DEF Test, TestOf
    <2>2. u \in HeldFor(h, d, k) /\ t \in HeldFor(h, d, k)
      BY <2>1 DEF HeldFor, TestTasks
    <2>3. Single(h, d, k)
      BY <1>0 DEF OnceInv, SingleInv
    <2> QED BY <2>2, <2>3 DEF Single
  <1> QED BY <1>1, <1>2

\* A test that returns is decided.
LEMMA TestKeeps ==
  ASSUME PromiseInv, PromiseInv', NEW t \in Tasks, TestReturns(t)
  PROVE  \E r \in Decided' : Contract!Decide(r)
  <1>0. TypeInv /\ TypeInv' /\ HandInv /\ HandInv' /\ OnceInv
    BY DEF PromiseInv, OnceInv
  <1>1. PICK usable \in BOOLEAN :
          /\ pc' = [pc EXCEPT ![t] = IF usable THEN "won" ELSE "lost"]
          /\ h3Fail' = IF NotesFailure(t, usable)
                       THEN [h3Fail EXCEPT ![t.scan] = @ \cup {hold[t]}] ELSE h3Fail
    BY DEF TestReturns
  <1>2. /\ pc[t] = "probe" /\ t \in TestTasks /\ t.scan \in Scans /\ t.pass \in TestPasses
        /\ pc \in [Tasks -> PcStates]
        /\ UNCHANGED <<gen, label, results, job, mode, queue, hold, cancelled, tainted, looper>>
    BY <1>0, TaskTypes DEF TestReturns, uiVars, jobVars, TypeInv, TypeOK, PoolTypes, TestTasks, TestPasses, Passes
  <1> DEFINE r == RowOf(t)'
  <1>3. /\ r.scan = t.scan /\ r.entry = hold[t] /\ r.proto = ProtoOf(t.scan, t.pass) /\ (r.ok <=> usable)
    BY <1>1, <1>2 DEF RowOf, ProtoOf
  <1>4. Contract!Test(r) = TestOf(t)
    BY <1>3 DEF Contract!Test, TestOf, Test
  <1>5. \A u \in TestTasks : u \in Tasks
    BY DEF TestTasks
  <1>6. \A u \in TestTasks : TestOf(u)' = TestOf(u) /\ (pc'[u] = "probe" <=> pc[u] = "probe" /\ u # t)
    BY <1>1, <1>2, <1>5 DEF TestOf, Test, ProtoOf
  <1>7. \A g, p, e : Test(g, p, e)' = Test(g, p, e)
    BY <1>2 DEF Test, ProtoOf
  <1>8. \A g \in Scans : StageOf(g)' = StageOf(g)
    BY <1>2 DEF StageOf
  <1>9. Stage' = Stage
    BY <1>8, StageStays
  <1> HIDE DEF r
  <1>10. Asked' = Asked \ {TestOf(t)} /\ TestOf(t) \in Asked
    <2>1. /\ \A g \in Scans, p \in TestPasses : \A e \in queue[g][p] : Test(g, p, e) # TestOf(t)
          /\ \A u \in TestTasks : pc[u] = "probe" /\ TestOf(u) = TestOf(t) => u = t
      BY <1>0, <1>2, TestAlone
    <2>2. \A x : x \in Asked' <=> x \in Asked /\ x # TestOf(t)
      BY <1>2, <1>6, <1>7, <1>8, <2>1, AskedIs, AskedAfter
    <2> QED BY <1>2, <2>2, AskedIs
  <1>11. Decided' = Decided \cup {r} /\ r \in Decided'
    <2>1. \A s \in Rows : Posted(s)' = Posted(s)
      BY <1>0, <1>2, PostedSame
    <2>2. \A u \in TestTasks : pc'[u] \in {"won", "lost"} <=> pc[u] \in {"won", "lost"} \/ u = t
      BY <1>1, <1>2, <1>5
    <2>3. \A u \in TestTasks : u # t => RowOf(u)' = RowOf(u)
      BY <1>1, <1>2, <1>5 DEF RowOf, ProtoOf
    <2>4. r \in Rows /\ pc[t] \notin {"won", "lost"}
      <3>1. hold[t] \in Entries /\ ProtoOf(t.scan, t.pass) \in Protos
        BY <1>0, <1>2, TestTaskFacts DEF TypeInv, HoldsEntry
      <3> QED BY <1>1, <1>2, <3>1 DEF r, RowOf, Rows, ProtoOf
    <2>5. \A s : s \in Decided' <=> s \in Decided \/ s = r
      BY <1>0, <1>2, <2>1, <2>2, <2>3, <2>4, DecidedIs, DecidedAfter DEF r
    <2> QED BY <2>5
  <1>12. \/ UNCHANGED h3Fail
         \/ /\ ~r.ok /\ r.proto = "H3"
            /\ h3Fail' = [h3Fail EXCEPT ![r.scan] = @ \cup {r.entry}]
    BY <1>1, <1>3 DEF NotesFailure, ProtoOf
  <1> QED BY <1>2, <1>4, <1>9, <1>10, <1>11, <1>12 DEF Contract!Decide

\* A post moves a decided row from a hand to the looper.
LEMMA PostKeeps ==
  ASSUME PromiseInv, PromiseInv', NEW t \in Tasks, PostRow(t)
  PROVE  UNCHANGED Contract!vars
  <1>0. TypeInv /\ TypeInv' /\ HandInv /\ HandInv' /\ OnceInv
    BY DEF PromiseInv, OnceInv
  <1>1. /\ pc[t] \in {"won", "lost"} /\ pc' = [pc EXCEPT ![t] = "loop"]
        /\ hold' = [hold EXCEPT ![t] = NoEntry] /\ looper' = Append(looper, RowMsg(RowOf(t)))
        /\ pc \in [Tasks -> PcStates] /\ hold \in [Tasks -> Entries \cup {NoEntry}]
        /\ UNCHANGED <<gen, label, results, job, mode, queue, cancelled, tainted, h3Fail>>
    BY <1>0 DEF PostRow, uiVars, jobVars, dataVars, TypeInv, TypeOK, PoolTypes
  <1>2. t \in TestTasks /\ RowOf(t) \in Rows
    BY <1>0, <1>1, RowType DEF HandInv
  <1>3. \A u \in TestTasks : /\ u # t => pc'[u] = pc[u] /\ hold'[u] = hold[u]
                             /\ u = t => pc'[u] = "loop"
    BY <1>1 DEF TestTasks
  <1>4. \A g \in Scans : StageOf(g)' = StageOf(g)
    BY <1>1 DEF StageOf
  <1>5. Asked' = Asked
    <2>1. \A u \in TestTasks : pc'[u] = "probe" <=> pc[u] = "probe"
      BY <1>1, <1>3
    <2>2. \A u \in TestTasks : pc[u] = "probe" => hold'[u] = hold[u]
      BY <1>1, <1>3
    <2> QED BY <1>0, <1>1, <1>4, <2>1, <2>2, AskedQuiet
  <1>9. (TypeInv => \A r \in Rows : results[r] \in Nat /\ Posted(r) \in Nat /\ Out(r) \in Nat)'
    BY OutType, PTL
  <1>6. \A r \in Rows : Posted(r) \in Nat /\ Posted(r)' = IF r = RowOf(t) THEN Posted(r) + 1 ELSE Posted(r)
    <2> SUFFICES ASSUME NEW r \in Rows
                 PROVE  Posted(r) \in Nat /\ Posted(r)' = IF r = RowOf(t) THEN Posted(r) + 1 ELSE Posted(r)
      OBVIOUS
    <2>1. /\ r = RowOf(t) => Out(r)' = Out(r) + 1
          /\ r # RowOf(t) => Out(r)' = Out(r)
      BY <1>0, OutPost
    <2>2. /\ results[r] \in Nat /\ Posted(r) \in Nat /\ Posted(r)' \in Nat
          /\ Out(r) = results[r] + Posted(r) /\ Out(r)' = results[r] + Posted(r)'
      BY <1>0, <1>1, <1>9, OutType DEF Out
    <2> QED BY <2>1, <2>2
  <1>7. Decided' = Decided
    <2>1. \A u \in TestTasks : u # t => RowOf(u)' = RowOf(u)
      BY <1>1, <1>3 DEF RowOf, ProtoOf
    <2>2. \A r \in Rows : Posted(r)' > 0 <=> Posted(r) > 0 \/ r = RowOf(t)
      BY <1>6
    <2>3. \A u \in TestTasks : pc'[u] \in {"won", "lost"} <=> u # t /\ pc[u] \in {"won", "lost"}
      BY <1>3
    <2>4. \A r : r \in Decided' <=> r \in Decided
      BY <1>0, <1>1, <1>2, <2>1, <2>2, <2>3, DecidedIs, DecidedAfter
    <2> QED BY <2>4
  <1> QED BY <1>1, <1>4, <1>5, <1>7, StageStays DEF Contract!vars

LEMMA InitContract == Init => Contract!Init
  <1> SUFFICES ASSUME Init PROVE Contract!Init
    OBVIOUS
  <1>1. Stage = [g \in Scans |-> "none"]
    BY DEF Init, Stage, StageOf
  <1>2. Asked = {}
    <2>1. \A g \in Scans, p \in TestPasses : queue[g][p] = {}
      BY DEF Init, TestPasses, Passes
    <2>2. \A t \in TestTasks : pc[t] # "probe"
      BY DEF Init, TestTasks
    <2> QED BY <2>1, <2>2, AskedIs
  <1>3. Decided = {}
    BY DEF Init, Decided, Tested
  <1> QED BY <1>1, <1>2, <1>3 DEF Init, Contract!Init

\* Every step of the pipeline is one of the contract or hidden from the screen.
LEMMA StepKeeps == PromiseInv /\ PromiseInv' /\ [Next]_vars => [Contract!Next]_(Contract!vars)
  <1> SUFFICES ASSUME PromiseInv, PromiseInv', [Next]_vars PROVE Contract!Next \/ UNCHANGED Contract!vars
    OBVIOUS
  <1>1. CASE StartScan \/ StopScan \/ ClearResults \/ Destroy
    BY <1>1, StartKeeps, StopKeeps, ClearKeeps, LeaveKeeps DEF Contract!Next
  <1>2. CASE DeliverRow
    BY <1>2, ShowKeeps DEF Contract!Next
  <1>3. CASE DeliverEnd
    BY <1>3, EndKeeps DEF Contract!Next
  <1>4. CASE \/ RebuildPending \/ AddManual \/ FetchDone \/ ChinaLoaded
             \/ \E what \in {"fetch", "china"} : StartLoading(what)
             \/ \E q \in Pools : StartQueued(q)
             \/ \E t \in Tasks : SubmitTask(t) \/ ReadFlag(t) \/ PingReturns(t)
             \/ UNCHANGED vars
    BY <1>4, HiddenKeeps
  <1>5. ASSUME NEW g \in Scans, Body(g) PROVE Contract!Next \/ UNCHANGED Contract!vars
    <2>1. CASE LaunchBody(g)
      BY <2>1, DropKeeps, BodyKeeps DEF Contract!Next
    <2>2. CASE FinishCopy(g) \/ CloseBlock(g) \/ BlockReturns(g)
      BY <2>2, BodyKeeps DEF Contract!Next
    <2>3. CASE JoinPing(g) \/ JoinFirst(g) \/ JoinRetry(g)
      BY <2>3, PingKeeps, FirstKeeps, RetryKeeps DEF Contract!Next
    <2>4. CASE BeginTests(g) \/ BeginRetry(g)
      BY <2>4, BeginKeeps, AgainKeeps DEF Contract!Next
    <2> QED BY <1>5, <2>1, <2>2, <2>3, <2>4 DEF Body
  <1>6. CASE \E t \in Tasks : TakeEntry(t) \/ PostRow(t)
    BY <1>6, TakeKeeps, PostKeeps
  <1>7. CASE \E t \in Tasks : TestReturns(t)
    BY <1>7, TestKeeps DEF Contract!Next
  <1> QED BY <1>1, <1>2, <1>3, <1>4, <1>5, <1>6, <1>7 DEF Next, Thread

\* Whatever the interleaving of bodies, pool threads, looper and user, and for
\* every number of them, the screen sees a scan that asks, decides every test
\* once, shows its row once and ends after its rows (toggleScan, hybridTestAll,
\* testOne).
THEOREM KeepsContract == Spec => ContractSpec
  <1>1. Init => PromiseInv
    BY InitType, InitFlow, InitPool, InitOnce, InitTask, InitLooper, InitClean DEF PromiseInv
  <1>2. PromiseInv /\ [Next]_vars => PromiseInv'
    BY NextType, NextFlow, NextPool, NextOnce, NextTask, NextLooper, NextAlone, NextEmptied DEF PromiseInv
  <1> QED BY <1>1, <1>2, InitContract, StepKeeps, PTL DEF Spec, ContractSpec, Contract!Spec

=============================================================================
