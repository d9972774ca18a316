------------------------ MODULE ScanPipelineProofs ------------------------
(***************************************************************************)
(* What TLAPS proves of ScanPipeline, for every list of addresses, every   *)
(* number of threads and every number of scans and edits.                  *)
(***************************************************************************)
EXTENDS ScanPipeline, SequenceTheorems, FiniteSetTheorems, WellFoundedInduction, TLAPS

-----------------------------------------------------------------------------
(* Types.                                                                  *)

\* A task between its poll and its post holds an address.
HoldsEntry == \A t \in Tasks : pc[t] \in {"probe", "won", "lost"} => hold[t] \in Entries

TypeInv == TypeOK /\ HoldsEntry

\* A task belongs to a scan, a pass and a pool.
LEMMA TaskTypes ==
  ASSUME NEW t \in Tasks
  PROVE  t.scan \in Scans /\ t.pass \in Passes /\ Pool(t.pass) \in Pools
  BY DEF Tasks, Pool, Pools

\* A row that a task builds is a row.
LEMMA RowType ==
  ASSUME TypeInv, NEW t \in Tasks, pc[t] \in {"won", "lost"}
  PROVE  RowOf(t) \in Rows
  BY TaskTypes DEF TypeInv, TypeOK, HoldsEntry, RowOf, Rows, ProtoOf, Protos

LEMMA InitType == Init => TypeInv
  <1> SUFFICES ASSUME Init PROVE TypeInv
    OBVIOUS
  <1> USE DEF Init
  <1>1. FlagTypes /\ UiTypes /\ LoopTypes /\ HoldsEntry
    BY EmptySeq DEF FlagTypes, UiTypes, LoopTypes, HoldsEntry
  <1>2. ListTypes
    BY BoundsAssumption DEF ListTypes, Entries
  <1>3. JobTypes
    BY BoundsAssumption DEF JobTypes, JobStates, Modes
  <1>4. DataTypes
    BY DEF DataTypes
  <1>5. PoolTypes
    BY ThreadsAssumption DEF PoolTypes, PcStates, Threads
  <1> QED BY <1>1, <1>2, <1>3, <1>4, <1>5 DEF TypeInv, TypeOK

LEMMA StartScanType ==
  ASSUME TypeInv, StartScan
  PROVE  TypeInv'
  <1> USE DEF TypeInv, TypeOK, StartScan, uiVars, listVars, jobVars, dataVars, poolVars
  <1>1. LoopTypes' /\ ListTypes' /\ DataTypes' /\ PoolTypes' /\ HoldsEntry'
    BY DEF LoopTypes, ListTypes, DataTypes, PoolTypes, HoldsEntry
  <1>2. FlagTypes'
    <2>1. gen + 1 \in Scans
      BY BoundsAssumption DEF JobTypes, Scans
    <2> QED BY <2>1 DEF FlagTypes, OkAtStart, Others
  <1>3. UiTypes'
    BY DEF UiTypes
  <1>4. JobTypes'
    BY BoundsAssumption DEF JobTypes, JobStates, Scans
  <1> QED BY <1>1, <1>2, <1>3, <1>4

LEMMA StopScanType ==
  ASSUME TypeInv, StopScan
  PROVE  TypeInv'
  <1> USE DEF TypeInv, TypeOK, StopScan, uiVars, listVars, jobVars, dataVars, poolVars
  <1>1. LoopTypes' /\ ListTypes' /\ DataTypes' /\ PoolTypes' /\ HoldsEntry'
    BY DEF LoopTypes, ListTypes, DataTypes, PoolTypes, HoldsEntry
  <1>2. FlagTypes'
    BY DEF FlagTypes, FlagAtStop
  <1>3. UiTypes'
    BY DEF UiTypes, LabelAtStop
  <1>4. JobTypes'
    BY BoundsAssumption DEF JobTypes, Scans, WithJobCancelled
  <1> QED BY <1>1, <1>2, <1>3, <1>4

LEMMA ClearResultsType ==
  ASSUME TypeInv, ClearResults
  PROVE  TypeInv'
  <1> USE DEF TypeInv, TypeOK, ClearResults, uiVars, listVars, jobVars, dataVars, poolVars
  <1>1. FlagTypes' /\ LoopTypes' /\ ListTypes' /\ JobTypes' /\ DataTypes' /\ PoolTypes' /\ HoldsEntry'
    BY DEF FlagTypes, LoopTypes, ListTypes, JobTypes, DataTypes, PoolTypes, HoldsEntry
  <1>2. UiTypes'
    BY DEF UiTypes
  <1> QED BY <1>1, <1>2

LEMMA RebuildPendingType ==
  ASSUME TypeInv, RebuildPending
  PROVE  TypeInv'
  <1> USE DEF TypeInv, TypeOK, RebuildPending, SetPending, uiVars, listVars, jobVars, dataVars, poolVars
  <1>1. FlagTypes' /\ UiTypes' /\ LoopTypes' /\ JobTypes' /\ DataTypes' /\ PoolTypes' /\ HoldsEntry'
    BY DEF FlagTypes, UiTypes, LoopTypes, JobTypes, DataTypes, PoolTypes, HoldsEntry
  <1>2. ListTypes'
    <2>1. pending' \subseteq Entries
      BY DEF ListTypes, Entries
    <2>2. modCount' \in 0..MaxEdits
      BY BoundsAssumption DEF ListTypes
    <2> QED BY <2>1, <2>2 DEF ListTypes
  <1> QED BY <1>1, <1>2

LEMMA AddManualType ==
  ASSUME TypeInv, AddManual
  PROVE  TypeInv'
  <1> USE DEF TypeInv, TypeOK, AddManual, SetPending, uiVars, listVars, jobVars, dataVars, poolVars
  <1>1. FlagTypes' /\ UiTypes' /\ LoopTypes' /\ JobTypes' /\ DataTypes' /\ PoolTypes' /\ HoldsEntry'
    BY DEF FlagTypes, UiTypes, LoopTypes, JobTypes, DataTypes, PoolTypes, HoldsEntry
  <1>2. ListTypes'
    <2>1. pending' \subseteq Entries
      BY DEF ListTypes, Entries
    <2>2. modCount' \in 0..MaxEdits
      BY BoundsAssumption DEF ListTypes
    <2> QED BY <2>1, <2>2 DEF ListTypes
  <1> QED BY <1>1, <1>2

LEMMA DestroyType ==
  ASSUME TypeInv, Destroy
  PROVE  TypeInv'
  <1> USE DEF TypeInv, TypeOK, Destroy, uiVars, listVars, jobVars, dataVars, poolVars
  <1>1. UiTypes' /\ LoopTypes' /\ ListTypes' /\ DataTypes'
    BY DEF UiTypes, LoopTypes, ListTypes, DataTypes
  <1>2. FlagTypes'
    BY DEF FlagTypes, FlagAtStop
  <1>3. JobTypes'
    BY BoundsAssumption DEF JobTypes, Scans, WithJobCancelled
  <1>4. PoolTypes'
    BY DEF PoolTypes, PcStates
  <1>5. HoldsEntry'
    BY DEF HoldsEntry
  <1> QED BY <1>1, <1>2, <1>3, <1>4, <1>5

LEMMA StartLoadingType ==
  ASSUME TypeInv, NEW what \in {"fetch", "china"}, StartLoading(what)
  PROVE  TypeInv'
  <1> USE DEF TypeInv, TypeOK, StartLoading, uiVars, listVars, jobVars, dataVars, poolVars
  <1>1. FlagTypes' /\ UiTypes' /\ LoopTypes' /\ JobTypes' /\ DataTypes' /\ PoolTypes' /\ HoldsEntry'
    BY DEF FlagTypes, UiTypes, LoopTypes, JobTypes, DataTypes, PoolTypes, HoldsEntry
  <1>2. ListTypes'
    BY DEF ListTypes
  <1> QED BY <1>1, <1>2

LEMMA DeliverRowType ==
  ASSUME TypeInv, DeliverRow
  PROVE  TypeInv'
  <1> USE DEF TypeInv, TypeOK, DeliverRow, uiVars, listVars, jobVars, dataVars, poolVars
  <1>1. FlagTypes' /\ ListTypes' /\ JobTypes' /\ DataTypes' /\ PoolTypes' /\ HoldsEntry'
    BY DEF FlagTypes, ListTypes, JobTypes, DataTypes, PoolTypes, HoldsEntry
  <1>2. UiTypes'
    <2> DEFINE m == Head(looper)
    <2>1. m \in Messages /\ m.kind = "row"
      BY HeadTailProperties DEF LoopTypes
    <2>2. m.row \in Rows
      BY <2>1 DEF Messages
    <2> QED BY <2>2 DEF UiTypes
  <1>3. LoopTypes'
    BY HeadTailProperties DEF LoopTypes
  <1> QED BY <1>1, <1>2, <1>3

LEMMA DeliverEndType ==
  ASSUME TypeInv, DeliverEnd
  PROVE  TypeInv'
  <1> USE DEF TypeInv, TypeOK, DeliverEnd, uiVars, listVars, jobVars, dataVars, poolVars
  <1>1. FlagTypes' /\ ListTypes' /\ DataTypes' /\ PoolTypes' /\ HoldsEntry'
    BY DEF FlagTypes, ListTypes, DataTypes, PoolTypes, HoldsEntry
  <1>2. UiTypes'
    BY DEF UiTypes
  <1>3. LoopTypes'
    BY HeadTailProperties DEF LoopTypes
  <1>4. JobTypes'
    <2> DEFINE m == Head(looper)
    <2>1. m \in Messages /\ m.kind = "end"
      BY HeadTailProperties DEF LoopTypes
    <2>2. m.scan \in Scans
      BY <2>1 DEF Messages
    <2> QED BY <2>2 DEF JobTypes, JobStates
  <1> QED BY <1>1, <1>2, <1>3, <1>4

LEMMA FetchDoneType ==
  ASSUME TypeInv, FetchDone
  PROVE  TypeInv'
  <1> USE DEF TypeInv, TypeOK, FetchDone, SetPending, uiVars, listVars, jobVars, dataVars, poolVars
  <1>1. FlagTypes' /\ UiTypes' /\ LoopTypes' /\ JobTypes' /\ DataTypes' /\ PoolTypes' /\ HoldsEntry'
    BY DEF FlagTypes, UiTypes, LoopTypes, JobTypes, DataTypes, PoolTypes, HoldsEntry
  <1>2. ListTypes'
    <2>1. pending' \subseteq Entries
      BY DEF ListTypes, Entries
    <2>2. modCount' \in 0..MaxEdits
      BY BoundsAssumption DEF ListTypes
    <2> QED BY <2>1, <2>2 DEF ListTypes
  <1> QED BY <1>1, <1>2

LEMMA ChinaLoadedType ==
  ASSUME TypeInv, ChinaLoaded
  PROVE  TypeInv'
  <1> USE DEF TypeInv, TypeOK, ChinaLoaded, SetPending, uiVars, listVars, jobVars, dataVars, poolVars
  <1>1. FlagTypes' /\ UiTypes' /\ LoopTypes' /\ JobTypes' /\ DataTypes' /\ PoolTypes' /\ HoldsEntry'
    BY DEF FlagTypes, UiTypes, LoopTypes, JobTypes, DataTypes, PoolTypes, HoldsEntry
  <1>2. ListTypes'
    <2>1. pending' \subseteq Entries
      BY DEF ListTypes, Entries
    <2>2. modCount' \in 0..MaxEdits
      BY BoundsAssumption DEF ListTypes
    <2> QED BY <2>1, <2>2 DEF ListTypes
  <1> QED BY <1>1, <1>2

LEMMA LaunchBodyType ==
  ASSUME TypeInv, NEW g \in Scans, LaunchBody(g)
  PROVE  TypeInv'
  <1> USE DEF TypeInv, TypeOK, LaunchBody, uiVars, listVars, jobVars, dataVars, poolVars
  <1>1. FlagTypes' /\ UiTypes' /\ LoopTypes' /\ ListTypes' /\ DataTypes' /\ PoolTypes' /\ HoldsEntry'
    BY DEF FlagTypes, UiTypes, LoopTypes, ListTypes, DataTypes, PoolTypes, HoldsEntry
  <1>2. JobTypes'
    BY DEF JobTypes, JobStates, ListTypes
  <1> QED BY <1>1, <1>2

LEMMA FinishCopyType ==
  ASSUME TypeInv, NEW g \in Scans, FinishCopy(g)
  PROVE  TypeInv'
  <1> USE DEF TypeInv, TypeOK, FinishCopy, uiVars, listVars, jobVars, dataVars, poolVars
  <1>1. UiTypes' /\ LoopTypes' /\ ListTypes' /\ PoolTypes' /\ HoldsEntry'
    BY DEF UiTypes, LoopTypes, ListTypes, PoolTypes, HoldsEntry
  <1>2. FlagTypes'
    BY DEF FlagTypes
  <1>3. JobTypes'
    BY DEF JobTypes, JobStates
  <1>4. DataTypes'
    <2>1. CASE seen[g] = modCount /\ queue' = [queue EXCEPT ![g]["ping"] = pending]
      BY <2>1 DEF DataTypes, ListTypes, Passes
    <2>2. CASE UNCHANGED queue
      BY <2>2 DEF DataTypes
    <2>3. CASE \E S \in SUBSET source[g] : queue' = [queue EXCEPT ![g]["ping"] = S]
      BY <2>3 DEF DataTypes, JobTypes, Passes
    <2> QED BY <2>1, <2>2, <2>3
  <1> QED BY <1>1, <1>2, <1>3, <1>4

LEMMA JoinPingType ==
  ASSUME TypeInv, NEW g \in Scans, JoinPing(g)
  PROVE  TypeInv'
  <1> USE DEF TypeInv, TypeOK, JoinPing, uiVars, listVars, jobVars, dataVars, poolVars
  <1>1. FlagTypes' /\ UiTypes' /\ LoopTypes' /\ ListTypes' /\ DataTypes' /\ PoolTypes' /\ HoldsEntry'
    BY DEF FlagTypes, UiTypes, LoopTypes, ListTypes, DataTypes, PoolTypes, HoldsEntry
  <1>2. JobTypes'
    BY DEF JobTypes, JobStates
  <1> QED BY <1>1, <1>2

LEMMA BeginTestsType ==
  ASSUME TypeInv, NEW g \in Scans, BeginTests(g)
  PROVE  TypeInv'
  <1> USE DEF TypeInv, TypeOK, BeginTests, uiVars, listVars, jobVars, dataVars, poolVars
  <1>1. FlagTypes' /\ UiTypes' /\ LoopTypes' /\ ListTypes' /\ PoolTypes' /\ HoldsEntry'
    BY DEF FlagTypes, UiTypes, LoopTypes, ListTypes, PoolTypes, HoldsEntry
  <1>2. JobTypes'
    BY ModesAssumption DEF JobTypes, JobStates, Modes
  <1>3. DataTypes'
    BY DEF DataTypes, Passes
  <1> QED BY <1>1, <1>2, <1>3

LEMMA JoinFirstType ==
  ASSUME TypeInv, NEW g \in Scans, JoinFirst(g)
  PROVE  TypeInv'
  <1> USE DEF TypeInv, TypeOK, JoinFirst, uiVars, listVars, jobVars, dataVars, poolVars
  <1>1. FlagTypes' /\ UiTypes' /\ LoopTypes' /\ ListTypes' /\ DataTypes' /\ PoolTypes' /\ HoldsEntry'
    BY DEF FlagTypes, UiTypes, LoopTypes, ListTypes, DataTypes, PoolTypes, HoldsEntry
  <1>2. JobTypes'
    BY DEF JobTypes, JobStates
  <1> QED BY <1>1, <1>2

LEMMA BeginRetryType ==
  ASSUME TypeInv, NEW g \in Scans, BeginRetry(g)
  PROVE  TypeInv'
  <1> USE DEF TypeInv, TypeOK, BeginRetry, uiVars, listVars, jobVars, dataVars, poolVars
  <1>1. FlagTypes' /\ UiTypes' /\ LoopTypes' /\ ListTypes' /\ PoolTypes' /\ HoldsEntry'
    BY DEF FlagTypes, UiTypes, LoopTypes, ListTypes, PoolTypes, HoldsEntry
  <1>2. JobTypes'
    BY DEF JobTypes, JobStates, Modes
  <1>3. DataTypes'
    BY DEF DataTypes, Passes
  <1> QED BY <1>1, <1>2, <1>3

LEMMA JoinRetryType ==
  ASSUME TypeInv, NEW g \in Scans, JoinRetry(g)
  PROVE  TypeInv'
  <1> USE DEF TypeInv, TypeOK, JoinRetry, uiVars, listVars, jobVars, dataVars, poolVars
  <1>1. FlagTypes' /\ UiTypes' /\ LoopTypes' /\ ListTypes' /\ DataTypes' /\ PoolTypes' /\ HoldsEntry'
    BY DEF FlagTypes, UiTypes, LoopTypes, ListTypes, DataTypes, PoolTypes, HoldsEntry
  <1>2. JobTypes'
    BY DEF JobTypes, JobStates
  <1> QED BY <1>1, <1>2

LEMMA CloseBlockType ==
  ASSUME TypeInv, NEW g \in Scans, CloseBlock(g)
  PROVE  TypeInv'
  <1> USE DEF TypeInv, TypeOK, CloseBlock, uiVars, listVars, jobVars, dataVars, poolVars
  <1>1. UiTypes' /\ LoopTypes' /\ ListTypes' /\ DataTypes' /\ PoolTypes' /\ HoldsEntry'
    BY DEF UiTypes, LoopTypes, ListTypes, DataTypes, PoolTypes, HoldsEntry
  <1>2. FlagTypes'
    BY DEF FlagTypes, RunningAfterBlock
  <1>3. JobTypes'
    BY DEF JobTypes, JobStates
  <1> QED BY <1>1, <1>2, <1>3

LEMMA BlockReturnsType ==
  ASSUME TypeInv, NEW g \in Scans, BlockReturns(g)
  PROVE  TypeInv'
  <1> USE DEF TypeInv, TypeOK, BlockReturns, uiVars, listVars, jobVars, dataVars, poolVars
  <1>1. FlagTypes' /\ UiTypes' /\ ListTypes' /\ DataTypes' /\ PoolTypes' /\ HoldsEntry'
    BY DEF FlagTypes, UiTypes, ListTypes, DataTypes, PoolTypes, HoldsEntry
  <1>2. LoopTypes'
    BY AppendProperties DEF LoopTypes, Messages, EndMsg
  <1>3. JobTypes'
    BY DEF JobTypes, JobStates
  <1> QED BY <1>1, <1>2, <1>3

LEMMA StartQueuedType ==
  ASSUME TypeInv, NEW q \in Pools, StartQueued(q)
  PROVE  TypeInv'
  <1> USE DEF TypeInv, TypeOK, StartQueued, uiVars, listVars, jobVars, dataVars, poolVars
  <1>1. FlagTypes' /\ UiTypes' /\ LoopTypes' /\ ListTypes' /\ JobTypes' /\ DataTypes'
    BY DEF FlagTypes, UiTypes, LoopTypes, ListTypes, JobTypes, DataTypes
  <1>2. PoolTypes'
    BY HeadTailProperties DEF PoolTypes, PcStates
  <1>3. HoldsEntry'
    BY DEF HoldsEntry, PoolTypes
  <1> QED BY <1>1, <1>2, <1>3

LEMMA SubmitTaskType ==
  ASSUME TypeInv, NEW t \in Tasks, SubmitTask(t)
  PROVE  TypeInv'
  <1> USE DEF TypeInv, TypeOK, SubmitTask, IsNext, uiVars, listVars, jobVars, dataVars, poolVars
  <1>1. UiTypes' /\ LoopTypes' /\ ListTypes' /\ JobTypes' /\ DataTypes'
    BY DEF UiTypes, LoopTypes, ListTypes, JobTypes, DataTypes
  <1>2. FlagTypes'
    BY DEF FlagTypes
  <1>3. PoolTypes'
    <2>1. CASE UNCHANGED poolVars
      BY <2>1 DEF PoolTypes
    <2>2. CASE HasRoom(Pool(t.pass)) /\ spawned' = [spawned EXCEPT ![Pool(t.pass)] = @ + 1]
                /\ pc' = [pc EXCEPT ![t] = "loop"] /\ UNCHANGED <<hold, workQueue>>
      BY <2>2, TaskTypes, ThreadsAssumption DEF PoolTypes, PcStates, HasRoom, Threads
    <2>3. CASE workQueue' = [workQueue EXCEPT ![Pool(t.pass)] = Append(@, t)]
                /\ pc' = [pc EXCEPT ![t] = "queued"] /\ UNCHANGED <<hold, spawned>>
      BY <2>3, TaskTypes, AppendProperties DEF PoolTypes, PcStates
    <2> QED BY <2>1, <2>2, <2>3
  <1>4. HoldsEntry'
    BY DEF HoldsEntry, PoolTypes
  <1> QED BY <1>1, <1>2, <1>3, <1>4

LEMMA ReadFlagType ==
  ASSUME TypeInv, NEW t \in Tasks, ReadFlag(t)
  PROVE  TypeInv'
  <1> USE DEF TypeInv, TypeOK, ReadFlag, uiVars, listVars, jobVars, dataVars
  <1>1. FlagTypes' /\ UiTypes' /\ LoopTypes' /\ ListTypes' /\ JobTypes' /\ DataTypes'
    BY DEF FlagTypes, UiTypes, LoopTypes, ListTypes, JobTypes, DataTypes
  <1>2. PoolTypes' /\ HoldsEntry'
    BY DEF PoolTypes, PcStates, HoldsEntry
  <1> QED BY <1>1, <1>2

LEMMA TakeEntryType ==
  ASSUME TypeInv, NEW t \in Tasks, TakeEntry(t)
  PROVE  TypeInv'
  <1> USE DEF TypeInv, TypeOK, TakeEntry, uiVars, listVars, jobVars, dataVars, poolVars
  <1>1. FlagTypes' /\ UiTypes' /\ LoopTypes' /\ ListTypes' /\ JobTypes'
    BY DEF FlagTypes, UiTypes, LoopTypes, ListTypes, JobTypes
  <1>2. DataTypes'
    <2>1. queue[t.scan][t.pass] \subseteq Entries
      BY TaskTypes DEF DataTypes
    <2>2. CASE UNCHANGED queue
      BY <2>2 DEF DataTypes
    <2>3. ASSUME NEW e \in queue[t.scan][t.pass],
                 queue' = [queue EXCEPT ![t.scan][t.pass] = Poll(@, e)]
          PROVE  DataTypes'
      BY <2>1, <2>3, TaskTypes DEF DataTypes, Poll
    <2> QED BY <2>2, <2>3
  <1>3. PoolTypes'
    <2>1. queue[t.scan][t.pass] \subseteq Entries
      BY TaskTypes DEF DataTypes
    <2> QED BY <2>1 DEF PoolTypes, PcStates
  <1>4. HoldsEntry'
    <2>1. queue[t.scan][t.pass] \subseteq Entries
      BY TaskTypes DEF DataTypes
    <2> QED BY <2>1 DEF HoldsEntry, PoolTypes
  <1> QED BY <1>1, <1>2, <1>3, <1>4

LEMMA PingReturnsType ==
  ASSUME TypeInv, NEW t \in Tasks, PingReturns(t)
  PROVE  TypeInv'
  <1> USE DEF TypeInv, TypeOK, PingReturns, uiVars, listVars, jobVars, dataVars, poolVars
  <1>1. FlagTypes' /\ UiTypes' /\ LoopTypes' /\ ListTypes' /\ JobTypes'
    BY DEF FlagTypes, UiTypes, LoopTypes, ListTypes, JobTypes
  <1>2. DataTypes'
    BY TaskTypes DEF DataTypes, HoldsEntry
  <1>3. PoolTypes'
    BY DEF PoolTypes, PcStates
  <1>4. HoldsEntry'
    BY DEF HoldsEntry, PoolTypes
  <1> QED BY <1>1, <1>2, <1>3, <1>4

LEMMA TestReturnsType ==
  ASSUME TypeInv, NEW t \in Tasks, TestReturns(t)
  PROVE  TypeInv'
  <1> USE DEF TypeInv, TypeOK, TestReturns, uiVars, listVars, jobVars, dataVars, poolVars
  <1>1. UiTypes' /\ LoopTypes' /\ ListTypes' /\ JobTypes'
    BY DEF UiTypes, LoopTypes, ListTypes, JobTypes
  <1>2. FlagTypes'
    BY DEF FlagTypes, Counts
  <1>3. DataTypes'
    BY TaskTypes DEF DataTypes, HoldsEntry
  <1>4. PoolTypes'
    BY DEF PoolTypes, PcStates
  <1>5. HoldsEntry'
    BY DEF HoldsEntry, PoolTypes
  <1> QED BY <1>1, <1>2, <1>3, <1>4, <1>5

LEMMA PostRowType ==
  ASSUME TypeInv, NEW t \in Tasks, PostRow(t)
  PROVE  TypeInv'
  <1> USE DEF TypeInv, TypeOK, PostRow, uiVars, listVars, jobVars, dataVars, poolVars
  <1>1. FlagTypes' /\ UiTypes' /\ ListTypes' /\ JobTypes' /\ DataTypes'
    BY DEF FlagTypes, UiTypes, ListTypes, JobTypes, DataTypes
  <1>2. LoopTypes'
    BY RowType, AppendProperties DEF LoopTypes, Messages, RowMsg
  <1>3. PoolTypes'
    BY DEF PoolTypes, PcStates
  <1>4. HoldsEntry'
    BY DEF HoldsEntry, PoolTypes
  <1> QED BY <1>1, <1>2, <1>3, <1>4

LEMMA NextType == TypeInv /\ [Next]_vars => TypeInv'
  <1> SUFFICES ASSUME TypeInv, [Next]_vars PROVE TypeInv'
    OBVIOUS
  <1>1. CASE StartScan
    BY <1>1, StartScanType
  <1>2. CASE StopScan
    BY <1>2, StopScanType
  <1>3. CASE ClearResults
    BY <1>3, ClearResultsType
  <1>4. CASE RebuildPending
    BY <1>4, RebuildPendingType
  <1>5. CASE AddManual
    BY <1>5, AddManualType
  <1>6. CASE Destroy
    BY <1>6, DestroyType
  <1>7. ASSUME NEW what \in {"fetch", "china"}, StartLoading(what) PROVE TypeInv'
    BY <1>7, StartLoadingType
  <1>8. CASE DeliverRow
    BY <1>8, DeliverRowType
  <1>9. CASE DeliverEnd
    BY <1>9, DeliverEndType
  <1>10. CASE FetchDone
    BY <1>10, FetchDoneType
  <1>11. CASE ChinaLoaded
    BY <1>11, ChinaLoadedType
  <1>12. ASSUME NEW g \in Scans, LaunchBody(g) PROVE TypeInv'
    BY <1>12, LaunchBodyType
  <1>13. ASSUME NEW g \in Scans, FinishCopy(g) PROVE TypeInv'
    BY <1>13, FinishCopyType
  <1>14. ASSUME NEW g \in Scans, JoinPing(g) PROVE TypeInv'
    BY <1>14, JoinPingType
  <1>15. ASSUME NEW g \in Scans, JoinFirst(g) PROVE TypeInv'
    BY <1>15, JoinFirstType
  <1>16. ASSUME NEW g \in Scans, JoinRetry(g) PROVE TypeInv'
    BY <1>16, JoinRetryType
  <1>17. ASSUME NEW g \in Scans, CloseBlock(g) PROVE TypeInv'
    BY <1>17, CloseBlockType
  <1>18. ASSUME NEW g \in Scans, BlockReturns(g) PROVE TypeInv'
    BY <1>18, BlockReturnsType
  <1>19. ASSUME NEW q \in Pools, StartQueued(q) PROVE TypeInv'
    BY <1>19, StartQueuedType
  <1>20. ASSUME NEW t \in Tasks, SubmitTask(t) PROVE TypeInv'
    BY <1>20, SubmitTaskType
  <1>21. ASSUME NEW t \in Tasks, TakeEntry(t) PROVE TypeInv'
    BY <1>21, TakeEntryType
  <1>22. ASSUME NEW t \in Tasks, PingReturns(t) PROVE TypeInv'
    BY <1>22, PingReturnsType
  <1>23. ASSUME NEW t \in Tasks, TestReturns(t) PROVE TypeInv'
    BY <1>23, TestReturnsType
  <1>24. ASSUME NEW t \in Tasks, PostRow(t) PROVE TypeInv'
    BY <1>24, PostRowType
  <1>26. ASSUME NEW g \in Scans, BeginTests(g) \/ BeginRetry(g) PROVE TypeInv'
    BY <1>26, BeginTestsType, BeginRetryType
  <1>27. ASSUME NEW t \in Tasks, ReadFlag(t) PROVE TypeInv'
    BY <1>27, ReadFlagType
  <1>25. CASE UNCHANGED vars
    BY <1>25 DEF TypeInv, TypeOK, vars, uiVars, listVars, jobVars, dataVars, poolVars,
                FlagTypes, UiTypes, LoopTypes, ListTypes, JobTypes, DataTypes, PoolTypes, HoldsEntry
  <1> QED BY <1>1, <1>2, <1>3, <1>4, <1>5, <1>6, <1>7, <1>8, <1>9, <1>10, <1>11, <1>12, <1>13, <1>14, <1>15, <1>16, <1>17, <1>18, <1>19, <1>20, <1>21, <1>22, <1>23, <1>24, <1>25, <1>26, <1>27 DEF Next, Body, Thread

\* The types are right in every reachable state: a row is always built from
\* an address that was polled, and a pool never has more threads than its size.
THEOREM TypeCorrect == Spec => []TypeOK
  <1>1. TypeInv => TypeOK
    BY DEF TypeInv
  <1> QED BY InitType, NextType, <1>1, PTL DEF Spec

-----------------------------------------------------------------------------
(* The flag and the button.                                                *)

\* Scans are started in turn, and only started scans are cancelled.
GenInv == /\ \A g \in Scans : g > gen => job[g] = "none"
          /\ \A g \in cancelled : g <= gen

IsEnd(m, g) == m.kind = "end" /\ m.scan = g

\* A scan whose block came back has exactly one message on its way, and no other has one.
EndInv == /\ \A g \in Scans : job[g] = "ended" => \E i \in 1..Len(looper) : IsEnd(looper[i], g)
          /\ \A i \in 1..Len(looper) : looper[i].kind = "end" => job[looper[i].scan] = "ended"
          /\ \A i, j \in 1..Len(looper) :
               looper[i].kind = "end" /\ IsEnd(looper[j], looper[i].scan) => i = j

Working == {"launched", "copying", "ping", "pinged", "first", "tested", "retry", "closing"}

\* While the flag is set, the current scan is at work and not cancelled.
FlagInv == running => gen \in Scans /\ job[gen] \in Working /\ gen \notin cancelled

\* While the button offers to stop, the current scan has still to announce its end.
LabelInv == ~destroyed /\ label = "stop" =>
              /\ gen \in Scans /\ gen \notin cancelled
              /\ job[gen] \in Working \cup {"closed", "ended"}

FlowInv == GenInv /\ EndInv /\ FlagInv /\ LabelInv

flowVars == <<running, label, gen, cancelled, job, looper, destroyed>>

LEMMA InitFlow == Init => FlowInv
  BY DEF Init, FlowInv, GenInv, EndInv, FlagInv, LabelInv

\* The steps that touch neither the flag, the button, the Jobs nor the looper.
LEMMA FlowStutter == FlowInv /\ UNCHANGED flowVars => FlowInv'
  BY DEF FlowInv, GenInv, EndInv, FlagInv, LabelInv, flowVars, IsEnd

\* A body that stays at work: the scan moves from one working state to another.
LEMMA FlowWork ==
  ASSUME TypeInv, FlowInv, NEW g \in Scans, NEW s \in Working, job[g] \in Working,
         job' = [job EXCEPT ![g] = s],
         UNCHANGED <<running, label, gen, cancelled, looper, destroyed>>
  PROVE  FlowInv'
  <1> USE DEF TypeInv, TypeOK, JobTypes, Working
  <1>1. GenInv'
    BY DEF FlowInv, GenInv
  <1>2. EndInv'
    <2>1. \A h \in Scans : job[h] = "ended" <=> job'[h] = "ended"
      OBVIOUS
    <2>2. \A i \in 1..Len(looper) : looper[i].kind = "end" => looper[i].scan \in Scans
      BY ElementOfSeq DEF LoopTypes, Messages
    <2> QED BY <2>1, <2>2 DEF FlowInv, EndInv, IsEnd
  <1>3. FlagInv'
    BY DEF FlowInv, FlagInv
  <1>4. LabelInv'
    BY DEF FlowInv, LabelInv
  <1> QED BY <1>1, <1>2, <1>3, <1>4 DEF FlowInv

\* A block that is over: nobody may need the flag any more.
LEMMA FlowClosed ==
  ASSUME TypeInv, FlowInv, NEW g \in Scans, job[g] \in Working,
         job' = [job EXCEPT ![g] = "closed"], running' = FALSE,
         UNCHANGED <<label, gen, cancelled, looper, destroyed>>
  PROVE  FlowInv'
  <1> USE DEF TypeInv, TypeOK, JobTypes, Working
  <1>1. GenInv'
    BY DEF FlowInv, GenInv
  <1>2. EndInv'
    <2>1. \A h \in Scans : job[h] = "ended" <=> job'[h] = "ended"
      OBVIOUS
    <2>2. \A i \in 1..Len(looper) : looper[i].kind = "end" => looper[i].scan \in Scans
      BY ElementOfSeq DEF LoopTypes, Messages
    <2> QED BY <2>1, <2>2 DEF FlowInv, EndInv, IsEnd
  <1>3. FlagInv'
    BY DEF FlagInv
  <1>4. LabelInv'
    BY DEF FlowInv, LabelInv
  <1> QED BY <1>1, <1>2, <1>3, <1>4 DEF FlowInv

LEMMA FlowStart ==
  ASSUME TypeInv, FlowInv, StartScan
  PROVE  FlowInv'
  <1> USE DEF TypeInv, TypeOK, StartScan
  <1>1. gen' = gen + 1 /\ gen + 1 \in Scans /\ gen \in Nat /\ \A h \in Scans : h \in Nat
    BY BoundsAssumption DEF JobTypes, Scans
  <1>2. job[gen + 1] = "none" /\ gen + 1 \notin cancelled
    BY <1>1 DEF FlowInv, GenInv
  <1>3. GenInv'
    BY <1>1 DEF FlowInv, GenInv, JobTypes
  <1>4. EndInv'
    <2>1. \A h \in Scans : job[h] = "ended" <=> job'[h] = "ended"
      BY <1>1, <1>2 DEF JobTypes
    <2>2. \A i \in 1..Len(looper) : looper[i].kind = "end" => looper[i].scan \in Scans
      BY ElementOfSeq DEF LoopTypes, Messages
    <2> QED BY <2>1, <2>2 DEF FlowInv, EndInv, IsEnd
  <1>5. FlagInv'
    BY <1>1, <1>2 DEF FlagInv, JobTypes, Working
  <1>6. LabelInv'
    BY <1>1, <1>2 DEF LabelInv, JobTypes, Working
  <1> QED BY <1>3, <1>4, <1>5, <1>6 DEF FlowInv

LEMMA FlowStop ==
  ASSUME TypeInv, FlowInv, StopScan \/ Destroy
  PROVE  FlowInv'
  <1> USE DEF TypeInv, TypeOK, StopScan, Destroy, WithJobCancelled, LabelAtStop, FlagAtStop
  <1>1. GenInv'
    BY BoundsAssumption DEF FlowInv, GenInv, JobTypes
  <1>2. EndInv'
    BY DEF FlowInv, EndInv, IsEnd
  <1>3. FlagInv' /\ LabelInv'
    BY DEF FlagInv, LabelInv
  <1> QED BY <1>1, <1>2, <1>3 DEF FlowInv

LEMMA FlowDeliverRow ==
  ASSUME TypeInv, FlowInv, DeliverRow
  PROVE  FlowInv'
  <1> USE DEF TypeInv, TypeOK, DeliverRow, jobVars
  <1>1. /\ Len(looper') = Len(looper) - 1 /\ Len(looper) \in Nat \ {0}
        /\ \A i \in 1..Len(looper') : looper'[i] = looper[i + 1]
        /\ looper[1].kind = "row"
    BY HeadTailProperties, LenProperties DEF LoopTypes
  <1>2. EndInv'
    <2>1. ASSUME NEW g \in Scans, job[g] = "ended"
          PROVE  \E i \in 1..Len(looper') : IsEnd(looper'[i], g)
      <3>1. PICK i \in 1..Len(looper) : IsEnd(looper[i], g)
        BY <2>1 DEF FlowInv, EndInv
      <3>2. i # 1 /\ i - 1 \in 1..Len(looper') /\ looper'[i - 1] = looper[i]
        BY <3>1, <1>1 DEF IsEnd
      <3> QED BY <3>1, <3>2
    <2>2. \A i \in 1..Len(looper') : i + 1 \in 1..Len(looper) /\ looper'[i] = looper[i + 1]
      BY <1>1
    <2>3. ASSUME NEW i \in 1..Len(looper'), NEW j \in 1..Len(looper'),
                 looper'[i].kind = "end", IsEnd(looper'[j], looper'[i].scan)
          PROVE  i = j
      <3>1. i + 1 = j + 1
        BY <2>2, <2>3 DEF FlowInv, EndInv
      <3> QED BY <3>1
    <2> QED BY <2>1, <2>2, <2>3 DEF FlowInv, EndInv, IsEnd
  <1>3. GenInv' /\ FlagInv' /\ LabelInv'
    BY DEF FlowInv, GenInv, FlagInv, LabelInv
  <1> QED BY <1>2, <1>3 DEF FlowInv

LEMMA FlowDeliverEnd ==
  ASSUME TypeInv, FlowInv, DeliverEnd
  PROVE  FlowInv'
  <1> USE DEF TypeInv, TypeOK, DeliverEnd
  <1> DEFINE g == looper[1].scan
  <1>1. /\ Len(looper') = Len(looper) - 1 /\ Len(looper) \in Nat \ {0}
        /\ \A i \in 1..Len(looper') : looper'[i] = looper[i + 1]
        /\ looper[1] = Head(looper) /\ looper[1].kind = "end"
    BY HeadTailProperties, LenProperties DEF LoopTypes
  <1>2. g \in Scans /\ job[g] = "ended"
    BY <1>1, ElementOfSeq DEF LoopTypes, Messages, FlowInv, EndInv
  <1>3. /\ job'[g] \in {"finished", "cancelled"} /\ \A h \in Scans \ {g} : job'[h] = job[h]
        /\ label' = "start" \/ (label' = label /\ g \in cancelled)
    BY <1>1, <1>2 DEF JobTypes
  <1>4. EndInv'
    <2>1. ASSUME NEW h \in Scans, job'[h] = "ended"
          PROVE  \E i \in 1..Len(looper') : IsEnd(looper'[i], h)
      <3>1. h # g /\ job[h] = "ended"
        BY <2>1, <1>3
      <3>2. PICK i \in 1..Len(looper) : IsEnd(looper[i], h)
        BY <3>1 DEF FlowInv, EndInv
      <3>3. i # 1 /\ i - 1 \in 1..Len(looper') /\ looper'[i - 1] = looper[i]
        BY <3>1, <3>2, <1>1 DEF IsEnd
      <3> QED BY <3>2, <3>3
    <2>2. ASSUME NEW i \in 1..Len(looper'), looper'[i].kind = "end"
          PROVE  job'[looper'[i].scan] = "ended"
      <3>1. i + 1 \in 1..Len(looper) /\ i + 1 # 1 /\ looper'[i] = looper[i + 1]
        BY <1>1
      <3>2. looper'[i].scan # g
        BY <3>1, <2>2, <1>1 DEF FlowInv, EndInv, IsEnd
      <3>3. looper'[i].scan \in Scans /\ job[looper'[i].scan] = "ended"
        BY <3>1, <2>2, ElementOfSeq DEF LoopTypes, Messages, FlowInv, EndInv
      <3> QED BY <3>2, <3>3, <1>3
    <2>3. ASSUME NEW i \in 1..Len(looper'), NEW j \in 1..Len(looper'),
                 looper'[i].kind = "end", IsEnd(looper'[j], looper'[i].scan)
          PROVE  i = j
      <3>1. /\ i + 1 \in 1..Len(looper) /\ looper'[i] = looper[i + 1]
            /\ j + 1 \in 1..Len(looper) /\ looper'[j] = looper[j + 1]
        BY <1>1
      <3>2. i + 1 = j + 1
        BY <3>1, <2>3 DEF FlowInv, EndInv
      <3> QED BY <3>2
    <2> QED BY <2>1, <2>2, <2>3 DEF EndInv
  <1>5. GenInv'
    BY <1>2, <1>3 DEF FlowInv, GenInv, JobTypes
  <1>6. FlagInv'
    BY <1>2, <1>3 DEF FlowInv, FlagInv, Working
  <1>7. LabelInv'
    BY <1>2, <1>3 DEF FlowInv, LabelInv
  <1> QED BY <1>4, <1>5, <1>6, <1>7 DEF FlowInv

\* Messages grow at the end: what append does to the looper.
LEMMA Posting ==
  ASSUME TypeInv, NEW m \in Messages, looper' = Append(looper, m)
  PROVE  /\ Len(looper') = Len(looper) + 1 /\ Len(looper) \in Nat
         /\ \A i \in 1..Len(looper) : looper'[i] = looper[i]
         /\ looper'[Len(looper) + 1] = m
  BY AppendProperties, LenProperties DEF TypeInv, TypeOK, LoopTypes

LEMMA FlowPostRow ==
  ASSUME TypeInv, FlowInv, NEW t \in Tasks, PostRow(t)
  PROVE  FlowInv'
  <1> USE DEF TypeInv, TypeOK, PostRow, uiVars, jobVars
  <1> DEFINE m == RowMsg(RowOf(t))
  <1>1. m \in Messages /\ m.kind = "row"
    BY RowType DEF Messages, RowMsg
  <1>2. /\ Len(looper') = Len(looper) + 1 /\ Len(looper) \in Nat
        /\ \A i \in 1..Len(looper) : looper'[i] = looper[i]
        /\ looper'[Len(looper) + 1].kind = "row"
    BY <1>1, Posting
  <1>3. EndInv'
    <2>1. \A i \in 1..Len(looper') : looper'[i].kind = "end" => i \in 1..Len(looper)
      BY <1>2
    <2>2. \A i \in 1..Len(looper) : i \in 1..Len(looper')
      BY <1>2
    <2> QED BY <2>1, <2>2, <1>2 DEF FlowInv, EndInv, IsEnd
  <1>4. GenInv' /\ FlagInv' /\ LabelInv'
    BY DEF FlowInv, GenInv, FlagInv, LabelInv
  <1> QED BY <1>3, <1>4 DEF FlowInv

LEMMA FlowBlockReturns ==
  ASSUME TypeInv, FlowInv, NEW g \in Scans, BlockReturns(g)
  PROVE  FlowInv'
  <1> USE DEF TypeInv, TypeOK, BlockReturns, uiVars
  <1>1. EndMsg(g) \in Messages /\ EndMsg(g).kind = "end" /\ EndMsg(g).scan = g
    BY DEF Messages, EndMsg
  <1>2. /\ Len(looper') = Len(looper) + 1 /\ Len(looper) \in Nat
        /\ \A i \in 1..Len(looper) : looper'[i] = looper[i]
        /\ looper'[Len(looper) + 1] = EndMsg(g)
    BY <1>1, Posting
  <1>3. job[g] = "closed" /\ job'[g] = "ended" /\ \A h \in Scans \ {g} : job'[h] = job[h]
    BY DEF JobTypes
  <1>4. ~\E i \in 1..Len(looper) : IsEnd(looper[i], g)
    BY <1>3 DEF FlowInv, EndInv, IsEnd
  <1>5. EndInv'
    <2>1. ASSUME NEW h \in Scans, job'[h] = "ended"
          PROVE  \E i \in 1..Len(looper') : IsEnd(looper'[i], h)
      <3>1. CASE h = g
        BY <3>1, <1>1, <1>2 DEF IsEnd
      <3>2. CASE h # g
        BY <3>2, <2>1, <1>2, <1>3 DEF FlowInv, EndInv
      <3> QED BY <3>1, <3>2
    <2>2. ASSUME NEW i \in 1..Len(looper'), looper'[i].kind = "end"
          PROVE  job'[looper'[i].scan] = "ended"
      <3>1. CASE i = Len(looper) + 1
        BY <3>1, <1>1, <1>2, <1>3
      <3>2. CASE i \in 1..Len(looper)
        <4>1. looper[i].kind = "end" /\ looper[i].scan \in Scans /\ job[looper[i].scan] = "ended"
          BY <3>2, <2>2, <1>2, ElementOfSeq DEF LoopTypes, Messages, FlowInv, EndInv
        <4> QED BY <4>1, <3>2, <1>2, <1>3
      <3> QED BY <3>1, <3>2, <1>2
    <2>3. ASSUME NEW i \in 1..Len(looper'), NEW j \in 1..Len(looper'),
                 looper'[i].kind = "end", IsEnd(looper'[j], looper'[i].scan)
          PROVE  i = j
      <3>1. CASE i \in 1..Len(looper) /\ j \in 1..Len(looper)
        BY <3>1, <2>3, <1>2 DEF FlowInv, EndInv
      <3>2. CASE i = Len(looper) + 1 /\ j \in 1..Len(looper)
        BY <3>2, <2>3, <1>1, <1>2, <1>4
      <3>3. CASE i \in 1..Len(looper) /\ j = Len(looper) + 1
        BY <3>3, <2>3, <1>1, <1>2, <1>4 DEF IsEnd
      <3>4. CASE i = Len(looper) + 1 /\ j = Len(looper) + 1
        BY <3>4
      <3> QED BY <3>1, <3>2, <3>3, <3>4, <1>2
    <2> QED BY <2>1, <2>2, <2>3 DEF EndInv
  <1>6. GenInv'
    BY <1>3 DEF FlowInv, GenInv, JobTypes
  <1>7. FlagInv'
    BY <1>3 DEF FlowInv, FlagInv, Working
  <1>8. LabelInv'
    BY <1>3 DEF FlowInv, LabelInv
  <1> QED BY <1>5, <1>6, <1>7, <1>8 DEF FlowInv

\* A body that the dispatcher starts, or drops because its Job was cancelled.
LEMMA FlowLaunch ==
  ASSUME TypeInv, FlowInv, NEW g \in Scans, LaunchBody(g)
  PROVE  FlowInv'
  <1> USE DEF TypeInv, TypeOK, LaunchBody, uiVars
  <1>1. CASE g \notin cancelled
    BY <1>1, FlowWork DEF Working
  <1>2. CASE g \in cancelled
    <2> USE <1>2 DEF JobTypes
    <2>1. EndInv'
      <3>1. \A h \in Scans : job[h] = "ended" <=> job'[h] = "ended"
        OBVIOUS
      <3>2. \A i \in 1..Len(looper) : looper[i].kind = "end" => looper[i].scan \in Scans
        BY ElementOfSeq DEF LoopTypes, Messages
      <3> QED BY <3>1, <3>2 DEF FlowInv, EndInv, IsEnd
    <2>2. GenInv' /\ FlagInv' /\ LabelInv'
      BY DEF FlowInv, GenInv, FlagInv, LabelInv
    <2> QED BY <2>1, <2>2 DEF FlowInv
  <1> QED BY <1>1, <1>2

\* The steps of a body at work.
LEMMA FlowBody ==
  ASSUME TypeInv, FlowInv, NEW g \in Scans,
         FinishCopy(g) \/ JoinPing(g) \/ BeginTests(g) \/ JoinFirst(g) \/ BeginRetry(g) \/ JoinRetry(g)
         \/ CloseBlock(g)
  PROVE  FlowInv'
  <1> USE DEF uiVars
  <1>1. CASE FinishCopy(g)
    <2>1. CASE job' = [job EXCEPT ![g] = "ping"]
      BY <1>1, <2>1, FlowWork DEF FinishCopy, Working
    <2>2. CASE UNCHANGED job
      BY <1>1, <2>2, FlowStutter DEF FinishCopy, flowVars
    <2> QED BY <1>1, <2>1, <2>2 DEF FinishCopy
  <1>2. CASE JoinPing(g)
    <2>1. CASE ~running /\ job' = [job EXCEPT ![g] = "closed"]
      <3>1. running' = FALSE
        BY <1>2, <2>1 DEF JoinPing, TypeInv, TypeOK, FlagTypes
      <3> QED BY <1>2, <2>1, <3>1, FlowClosed DEF JoinPing, Joined, Working
    <2>2. CASE running
      BY <1>2, <2>2, FlowWork DEF JoinPing, Joined, Working
    <2> QED BY <1>2, <2>1, <2>2 DEF JoinPing
  <1>3. CASE JoinFirst(g)
    <2>1. \E s \in Working : job' = [job EXCEPT ![g] = s]
      BY <1>3 DEF JoinFirst, Working
    <2> QED BY <1>3, <2>1, FlowWork DEF JoinFirst, Joined, Working
  <1>4. CASE JoinRetry(g)
    BY <1>4, FlowWork DEF JoinRetry, Joined, Working
  <1>5. CASE CloseBlock(g)
    BY <1>5, FlowClosed DEF CloseBlock, RunningAfterBlock, Working
  <1>6. CASE BeginTests(g) \/ BeginRetry(g)
    <2>1. \E s \in Working : job' = [job EXCEPT ![g] = s]
      BY <1>6 DEF BeginTests, BeginRetry, Working
    <2> QED BY <1>6, <2>1, FlowWork DEF BeginTests, BeginRetry, Working
  <1> QED BY <1>1, <1>2, <1>3, <1>4, <1>5, <1>6

LEMMA NextFlow == TypeInv /\ FlowInv /\ [Next]_vars => FlowInv'
  <1> SUFFICES ASSUME TypeInv, FlowInv, [Next]_vars PROVE FlowInv'
    OBVIOUS
  <1>1. CASE StartScan
    BY <1>1, FlowStart
  <1>2. CASE StopScan \/ Destroy
    BY <1>2, FlowStop
  <1>3. CASE DeliverRow
    BY <1>3, FlowDeliverRow
  <1>4. CASE DeliverEnd
    BY <1>4, FlowDeliverEnd
  <1>5. ASSUME NEW g \in Scans, Body(g) PROVE FlowInv'
    BY <1>5, FlowLaunch, FlowBody, FlowBlockReturns DEF Body
  <1>6. ASSUME NEW t \in Tasks, PostRow(t) PROVE FlowInv'
    BY <1>6, FlowPostRow
  <1>7. CASE ClearResults \/ RebuildPending \/ AddManual \/ FetchDone \/ ChinaLoaded
             \/ \E what \in {"fetch", "china"} : StartLoading(what)
    BY <1>7, FlowStutter DEF ClearResults, RebuildPending, AddManual, FetchDone, ChinaLoaded,
                             StartLoading, SetPending, flowVars, uiVars, jobVars
  <1>8. CASE \/ \E q \in Pools : StartQueued(q)
             \/ \E t \in Tasks : SubmitTask(t) \/ ReadFlag(t) \/ TakeEntry(t) \/ PingReturns(t) \/ TestReturns(t)
    BY <1>8, FlowStutter DEF StartQueued, SubmitTask, IsNext, ReadFlag, TakeEntry, PingReturns, TestReturns,
                             flowVars, uiVars, jobVars
  <1>9. CASE UNCHANGED vars
    BY <1>9, FlowStutter DEF vars, flowVars, uiVars, jobVars
  <1> QED BY <1>1, <1>2, <1>3, <1>4, <1>5, <1>6, <1>7, <1>8, <1>9 DEF Next, Thread

LEMMA FlowCorrect == Spec => [](TypeInv /\ FlowInv)
  BY InitType, NextType, InitFlow, NextFlow, PTL DEF Spec

\* The flag always has an owner: however stops, restarts, stale bodies and
\* stale tasks interleave, `running` is set only while the current scan's
\* body is at work and will clear it.
THEOREM FlagHasOwner == Spec => []RunningHasOwner
  <1>1. FlowInv => RunningHasOwner
    BY DEF FlowInv, FlagInv, RunningHasOwner, Busy, Working
  <1> QED BY FlowCorrect, <1>1, PTL

\* When nothing is left to run, the button offers to start and the flag is clear.
THEOREM SettlesIdle == Spec => []SettledIdle
  <1>1. TypeInv /\ FlowInv => SettledIdle
    <2> SUFFICES ASSUME TypeInv, FlowInv, ~destroyed, looper = <<>>, \A g \in Scans : ~Busy(g)
                 PROVE  label = "start" /\ ~running
      BY DEF SettledIdle
    <2>1. ~running
      BY DEF FlowInv, FlagInv, Busy, Working
    <2>2. \A g \in Scans : job[g] # "ended"
      BY DEF FlowInv, EndInv
    <2>3. label = "start"
      BY <2>2 DEF FlowInv, LabelInv, Working, Busy, TypeInv, TypeOK, UiTypes
    <2> QED BY <2>1, <2>3
  <1> QED BY FlowCorrect, <1>1, PTL
-----------------------------------------------------------------------------
(* The pools.                                                              *)

Running == {"loop", "poll", "probe", "won", "lost"}

\* A pool's queue holds the tasks that wait for it, none twice.
WaitingInv == \A q \in Pools :
  /\ \A i, j \in 1..Len(workQueue[q]) : workQueue[q][i] = workQueue[q][j] => i = j
  /\ \A i \in 1..Len(workQueue[q]) :
       pc[workQueue[q][i]] = "queued" /\ Pool(workQueue[q][i].pass) = q
  /\ \A t \in Tasks : Pool(t.pass) = q /\ pc[t] = "queued" =>
       \E i \in 1..Len(workQueue[q]) : workQueue[q][i] = t

ThreadsInv == \A q \in Pools :
  IsFiniteSet(Occupied(q)) /\ Cardinality(Occupied(q)) <= spawned[q]

PoolInv == WaitingInv /\ ThreadsInv

Places(q, e) == {i \in DOMAIN q : q[i] = e}

LEMMA InitPool == Init => PoolInv
  <1> SUFFICES ASSUME Init PROVE PoolInv
    OBVIOUS
  <1>1. WaitingInv
    BY DEF Init, WaitingInv
  <1>2. ASSUME NEW q \in Pools PROVE Occupied(q) = {}
    BY DEF Init, Occupied
  <1>3. ASSUME NEW q \in Pools
        PROVE  IsFiniteSet(Occupied(q)) /\ Cardinality(Occupied(q)) <= spawned[q]
    <2>1. IsFiniteSet(Occupied(q)) /\ Cardinality(Occupied(q)) = 0
      BY <1>2, FS_EmptySet
    <2>2. spawned[q] = 0
      BY DEF Init
    <2> QED BY <2>1, <2>2
  <1> QED BY <1>1, <1>3 DEF PoolInv, ThreadsInv

\* A task that goes on or leaves its thread disturbs no other.
LEMMA PoolQuiet ==
  ASSUME TypeInv, PoolInv, UNCHANGED <<spawned, workQueue>>,
         \A t \in Tasks : /\ pc'[t] = "queued" <=> pc[t] = "queued"
                          /\ pc'[t] \in Running => pc[t] \in Running
  PROVE  PoolInv'
  <1>1. WaitingInv'
    <2> SUFFICES ASSUME NEW q \in Pools
                 PROVE  /\ \A i, j \in 1..Len(workQueue[q]) : workQueue[q][i] = workQueue[q][j] => i = j
                        /\ \A i \in 1..Len(workQueue[q]) :
                             pc'[workQueue[q][i]] = "queued" /\ Pool(workQueue[q][i].pass) = q
                        /\ \A t \in Tasks : Pool(t.pass) = q /\ pc'[t] = "queued" =>
                             \E i \in 1..Len(workQueue[q]) : workQueue[q][i] = t
      BY DEF WaitingInv
    <2>1. \A i \in 1..Len(workQueue[q]) : workQueue[q][i] \in Tasks
      BY ElementOfSeq DEF TypeInv, TypeOK, PoolTypes
    <2> QED BY <2>1 DEF PoolInv, WaitingInv
  <1>2. ASSUME NEW q \in Pools
        PROVE  IsFiniteSet(Occupied(q)') /\ Cardinality(Occupied(q)') <= spawned'[q]
    <2>1. Occupied(q)' \in SUBSET Occupied(q)
      BY DEF Occupied, Running
    <2>2. /\ IsFiniteSet(Occupied(q)') /\ Cardinality(Occupied(q)') <= Cardinality(Occupied(q))
          /\ Cardinality(Occupied(q)) <= spawned[q] /\ spawned[q] \in Nat
          /\ IsFiniteSet(Occupied(q))
      BY <2>1, FS_Subset DEF PoolInv, ThreadsInv, TypeInv, TypeOK, PoolTypes
    <2>3. Cardinality(Occupied(q)') \in Nat /\ Cardinality(Occupied(q)) \in Nat
      BY <2>2, FS_CardinalityType
    <2> QED BY <2>2, <2>3
  <1> QED BY <1>1, <1>2 DEF PoolInv, ThreadsInv

\* onDestroy drops all the tasks that wait and no other.
LEMMA PoolDestroy == TypeInv /\ PoolInv /\ Destroy => PoolInv'
  <1> SUFFICES ASSUME TypeInv, PoolInv, Destroy PROVE PoolInv'
    OBVIOUS
  <1> USE DEF TypeInv, TypeOK, PoolTypes
  <1>1. \A t \in Tasks : /\ pc'[t] # "queued"
                         /\ pc'[t] \in Running <=> pc[t] \in Running
    BY DEF Destroy, Running
  <1>2. WaitingInv'
    BY <1>1 DEF Destroy, WaitingInv
  <1>3. \A q \in Pools : Occupied(q)' = Occupied(q)
    BY <1>1 DEF Occupied, Running
  <1> QED BY <1>2, <1>3 DEF PoolInv, ThreadsInv, Destroy

\* A pool that takes one more task has a thread for it.
LEMMA PoolOneMore ==
  ASSUME TypeInv, PoolInv, NEW t \in Tasks, NEW q \in Pools, q = Pool(t.pass),
         pc' = [pc EXCEPT ![t] = "loop"],
         spawned' \in [Pools -> Nat], \A r \in Pools \ {q} : spawned'[r] = spawned[r],
         Cardinality(Occupied(q)) + 1 <= spawned'[q]
  PROVE  ThreadsInv'
  <1> SUFFICES ASSUME NEW r \in Pools
               PROVE  IsFiniteSet(Occupied(r)') /\ Cardinality(Occupied(r)') <= spawned'[r]
    BY DEF ThreadsInv
  <1>0. pc \in [Tasks -> PcStates] /\ IsFiniteSet(Occupied(r)) /\ Cardinality(Occupied(r)) <= spawned[r]
    BY DEF TypeInv, TypeOK, PoolTypes, PoolInv, ThreadsInv
  <1>1. CASE r = q
    <2>1. Occupied(r)' = Occupied(r) \cup {t}
      BY <1>0, <1>1 DEF Occupied
    <2> DEFINE S == Occupied(r)
    <2>2. IsFiniteSet(S) /\ Cardinality(S) + 1 <= spawned'[r] /\ spawned'[r] \in Nat
      BY <1>0, <1>1
    <2> HIDE DEF S
    <2>3. Cardinality(S) \in Nat
      BY <2>2, FS_CardinalityType
    <2>4. /\ IsFiniteSet(S \cup {t})
          /\ Cardinality(S \cup {t}) = IF t \in S THEN Cardinality(S) ELSE Cardinality(S) + 1
      BY <2>2, FS_AddElement
    <2>5. Cardinality(S \cup {t}) <= spawned'[r]
      BY <2>2, <2>3, <2>4
    <2> QED BY <2>1, <2>4, <2>5 DEF S
  <1>2. CASE r # q
    <2>1. Occupied(r)' = Occupied(r)
      BY <1>0, <1>2 DEF Occupied
    <2> QED BY <1>0, <1>2, <2>1
  <1> QED BY <1>1, <1>2

LEMMA PoolSubmit ==
  ASSUME TypeInv, PoolInv, NEW t \in Tasks, SubmitTask(t)
  PROVE  PoolInv'
  <1> DEFINE q == Pool(t.pass)
  <1> USE DEF TypeInv, TypeOK, PoolTypes
  <1>0. /\ q \in Pools /\ pc[t] = "none" /\ workQueue[q] \in Seq(Tasks)
        /\ IsFiniteSet(Occupied(q)) /\ Cardinality(Occupied(q)) <= spawned[q] /\ spawned[q] \in Nat
    BY TaskTypes DEF SubmitTask, IsNext, PoolInv, ThreadsInv
  <1>1. \A r \in Pools : \A i \in 1..Len(workQueue[r]) : workQueue[r][i] \in Tasks /\ workQueue[r][i] # t
    <2> SUFFICES ASSUME NEW r \in Pools, NEW i \in 1..Len(workQueue[r])
                 PROVE  workQueue[r][i] \in Tasks /\ workQueue[r][i] # t
      OBVIOUS
    <2>1. workQueue[r] \in Seq(Tasks)
      OBVIOUS
    <2> QED BY <1>0, <2>1, ElementOfSeq DEF PoolInv, WaitingInv
  <1>2. CASE UNCHANGED poolVars
    BY <1>2, PoolQuiet DEF poolVars
  <1>3. CASE /\ spawned' = [spawned EXCEPT ![q] = @ + 1]
             /\ pc' = [pc EXCEPT ![t] = "loop"] /\ UNCHANGED workQueue
    <2>1. ThreadsInv'
      <3>1. Cardinality(Occupied(q)) \in Nat
        BY <1>0, FS_CardinalityType
      <3>2. Cardinality(Occupied(q)) + 1 <= spawned'[q]
        BY <1>0, <1>3, <3>1
      <3>3. spawned' \in [Pools -> Nat] /\ \A r \in Pools \ {q} : spawned'[r] = spawned[r]
        BY <1>0, <1>3
      <3> HIDE DEF q
      <3> QED BY <1>0, <1>3, <3>2, <3>3, PoolOneMore DEF q
    <2>2. WaitingInv'
      BY <1>0, <1>1, <1>3 DEF PoolInv, WaitingInv
    <2> QED BY <2>1, <2>2 DEF PoolInv
  <1>4. CASE /\ workQueue' = [workQueue EXCEPT ![q] = Append(@, t)]
             /\ pc' = [pc EXCEPT ![t] = "queued"] /\ UNCHANGED spawned
    <2>1. ThreadsInv'
      <3>1. \A r \in Pools : Occupied(r)' = Occupied(r)
        BY <1>0, <1>4 DEF Occupied
      <3> QED BY <1>4, <3>1 DEF PoolInv, ThreadsInv
    <2>2. WaitingInv'
      <3> SUFFICES ASSUME NEW r \in Pools
                   PROVE  /\ \A i, j \in 1..Len(workQueue'[r]) : workQueue'[r][i] = workQueue'[r][j] => i = j
                          /\ \A i \in 1..Len(workQueue'[r]) :
                               pc'[workQueue'[r][i]] = "queued" /\ Pool(workQueue'[r][i].pass) = r
                          /\ \A u \in Tasks : Pool(u.pass) = r /\ pc'[u] = "queued" =>
                               \E i \in 1..Len(workQueue'[r]) : workQueue'[r][i] = u
        BY DEF WaitingInv
      <3>1. CASE r # q
        <4>1. workQueue'[r] = workQueue[r]
          BY <1>4, <3>1
        <4> QED BY <1>1, <1>4, <3>1, <4>1 DEF PoolInv, WaitingInv
      <3>2. CASE r = q
        <4> DEFINE w == workQueue[q]
        <4>1. workQueue'[r] = Append(w, t)
          BY <1>0, <1>4, <3>2
        <4>2. /\ Len(Append(w, t)) = Len(w) + 1 /\ Len(w) \in Nat
              /\ \A i \in 1..Len(w) : Append(w, t)[i] = w[i]
              /\ Append(w, t)[Len(w) + 1] = t
          BY <1>0
        <4>3. /\ \A i, j \in 1..Len(w) : w[i] = w[j] => i = j
              /\ \A i \in 1..Len(w) : pc[w[i]] = "queued" /\ Pool(w[i].pass) = q /\ w[i] # t /\ w[i] \in Tasks
              /\ \A u \in Tasks : Pool(u.pass) = q /\ pc[u] = "queued" => \E i \in 1..Len(w) : w[i] = u
          BY <1>0, <1>1 DEF PoolInv, WaitingInv
        <4> DEFINE v == Append(w, t)
        <4> HIDE DEF w, v, q
        <4>4. ASSUME NEW i \in 1..Len(v) PROVE i \in 1..Len(w) \/ i = Len(w) + 1
          BY <4>2 DEF v
        <4>5. \A i, j \in 1..Len(v) : v[i] = v[j] => i = j
          <5> SUFFICES ASSUME NEW i \in 1..Len(v), NEW j \in 1..Len(v), v[i] = v[j] PROVE i = j
            OBVIOUS
          <5>1. CASE i \in 1..Len(w) /\ j \in 1..Len(w)
            BY <4>2, <4>3, <5>1 DEF v
          <5>2. CASE i = Len(w) + 1 /\ j \in 1..Len(w)
            BY <4>2, <4>3, <5>2 DEF v
          <5>3. CASE i \in 1..Len(w) /\ j = Len(w) + 1
            BY <4>2, <4>3, <5>3 DEF v
          <5> QED BY <4>4, <5>1, <5>2, <5>3
        <4>6. \A i \in 1..Len(v) : pc'[v[i]] = "queued" /\ Pool(v[i].pass) = q
          <5> SUFFICES ASSUME NEW i \in 1..Len(v) PROVE pc'[v[i]] = "queued" /\ Pool(v[i].pass) = q
            OBVIOUS
          <5>1. CASE i \in 1..Len(w)
            BY <1>4, <4>2, <4>3, <5>1 DEF v
          <5>2. CASE i = Len(w) + 1
            BY <1>4, <4>2, <5>2 DEF v, q
          <5> QED BY <4>4, <5>1, <5>2
        <4>7. ASSUME NEW u \in Tasks, Pool(u.pass) = q, pc'[u] = "queued"
              PROVE  \E i \in 1..Len(v) : v[i] = u
          <5>1. CASE u = t
            BY <4>2, <5>1 DEF v
          <5>2. CASE u # t
            <6>1. PICK i \in 1..Len(w) : w[i] = u
              BY <1>4, <4>3, <4>7, <5>2
            <6>2. i \in 1..Len(v) /\ v[i] = u
              BY <4>2, <6>1 DEF v
            <6> QED BY <6>2
          <5> QED BY <5>1, <5>2
        <4> QED BY <3>2, <4>1, <4>5, <4>6, <4>7 DEF v
      <3> QED BY <3>1, <3>2
    <2> QED BY <2>1, <2>2 DEF PoolInv
  <1> QED BY <1>2, <1>3, <1>4 DEF SubmitTask, IsNext, poolVars

\* What a free thread takes from a pool's queue is a task that waits for the pool.
LEMMA WaitingHead ==
  ASSUME TypeInv, PoolInv, NEW q \in Pools, workQueue[q] # <<>>
  PROVE  /\ Head(workQueue[q]) \in Tasks /\ pc[Head(workQueue[q])] = "queued"
         /\ Pool(Head(workQueue[q]).pass) = q
  <1>1. workQueue[q] \in Seq(Tasks)
    BY DEF TypeInv, TypeOK, PoolTypes
  <1>2. 1 \in 1..Len(workQueue[q]) /\ Head(workQueue[q]) = workQueue[q][1]
    BY <1>1, HeadTailProperties, EmptySeq
  <1> QED BY <1>1, <1>2, ElementOfSeq DEF PoolInv, WaitingInv

LEMMA PoolStartQueued ==
  ASSUME TypeInv, PoolInv, NEW q \in Pools, StartQueued(q)
  PROVE  PoolInv'
  <1> DEFINE w == workQueue[q]  t == Head(workQueue[q])
  <1> USE DEF TypeInv, TypeOK, PoolTypes
  <1>0. /\ w \in Seq(Tasks) /\ w # <<>> /\ FreeThread(q)
        /\ workQueue' = [workQueue EXCEPT ![q] = Tail(w)]
        /\ pc' = [pc EXCEPT ![t] = "loop"] /\ UNCHANGED spawned
    BY DEF StartQueued
  <1>1. /\ Len(w) \in Nat /\ Len(w) >= 1 /\ t = w[1] /\ t \in Tasks
        /\ Tail(w) \in Seq(Tasks) /\ Len(Tail(w)) = Len(w) - 1
        /\ \A i \in 1..(Len(w) - 1) : Tail(w)[i] = w[i + 1]
    BY <1>0, HeadTailProperties, EmptySeq
  <1>2. /\ \A i, j \in 1..Len(w) : w[i] = w[j] => i = j
        /\ \A i \in 1..Len(w) : pc[w[i]] = "queued" /\ Pool(w[i].pass) = q /\ w[i] \in Tasks
        /\ \A u \in Tasks : Pool(u.pass) = q /\ pc[u] = "queued" => \E i \in 1..Len(w) : w[i] = u
    BY <1>0, ElementOfSeq DEF PoolInv, WaitingInv
  <1>3. Pool(t.pass) = q /\ pc[t] = "queued"
    BY <1>1, <1>2
  <1>4. ThreadsInv'
    <2>1. Cardinality(Occupied(q)) \in Nat /\ spawned[q] \in Nat
      BY FS_CardinalityType DEF PoolInv, ThreadsInv
    <2>2. Cardinality(Occupied(q)) + 1 <= spawned'[q]
      BY <1>0, <2>1 DEF FreeThread
    <2>3. spawned' \in [Pools -> Nat] /\ \A r \in Pools \ {q} : spawned'[r] = spawned[r]
      BY <1>0
    <2> HIDE DEF t
    <2> QED BY <1>0, <1>1, <1>3, <2>2, <2>3, PoolOneMore
  <1>5. WaitingInv'
    <2> SUFFICES ASSUME NEW r \in Pools
                 PROVE  /\ \A i, j \in 1..Len(workQueue'[r]) : workQueue'[r][i] = workQueue'[r][j] => i = j
                        /\ \A i \in 1..Len(workQueue'[r]) :
                             pc'[workQueue'[r][i]] = "queued" /\ Pool(workQueue'[r][i].pass) = r
                        /\ \A u \in Tasks : Pool(u.pass) = r /\ pc'[u] = "queued" =>
                             \E i \in 1..Len(workQueue'[r]) : workQueue'[r][i] = u
      BY DEF WaitingInv
    <2>1. CASE r # q
      <3>1. workQueue'[r] = workQueue[r] /\ workQueue[r] \in Seq(Tasks)
        BY <1>0, <2>1
      <3>2. \A i \in 1..Len(workQueue[r]) : workQueue[r][i] \in Tasks /\ workQueue[r][i] # t
        <4> SUFFICES ASSUME NEW i \in 1..Len(workQueue[r])
                     PROVE  workQueue[r][i] \in Tasks /\ workQueue[r][i] # t
          OBVIOUS
        <4>1. workQueue[r][i] \in Tasks
          BY <3>1, ElementOfSeq
        <4>2. Pool(workQueue[r][i].pass) = r
          BY DEF PoolInv, WaitingInv
        <4> HIDE DEF t
        <4> QED BY <1>3, <2>1, <4>1, <4>2
      <3>3. \A u \in Tasks : pc'[u] = "queued" => pc[u] = "queued"
        BY <1>0, <1>1
      <3> QED BY <1>0, <3>1, <3>2, <3>3 DEF PoolInv, WaitingInv
    <2>2. CASE r = q
      <3> DEFINE v == Tail(w)
      <3>1. workQueue'[r] = v
        BY <1>0, <2>2
      <3> HIDE DEF w, v, t
      <3>2. ASSUME NEW i \in 1..Len(v)
            PROVE  i + 1 \in 1..Len(w) /\ v[i] = w[i + 1] /\ i + 1 # 1
        BY <1>1 DEF v
      <3>3. \A i, j \in 1..Len(v) : v[i] = v[j] => i = j
        <4> SUFFICES ASSUME NEW i \in 1..Len(v), NEW j \in 1..Len(v), v[i] = v[j] PROVE i = j
          OBVIOUS
        <4>1. i + 1 = j + 1
          BY <1>2, <3>2
        <4> QED BY <4>1
      <3>4. \A i \in 1..Len(v) : pc'[v[i]] = "queued" /\ Pool(v[i].pass) = q
        <4> SUFFICES ASSUME NEW i \in 1..Len(v) PROVE pc'[v[i]] = "queued" /\ Pool(v[i].pass) = q
          OBVIOUS
        <4>1. 1 \in 1..Len(w)
          BY <1>1
        <4>2. v[i] # t
          BY <1>1, <1>2, <3>2, <4>1
        <4> QED BY <1>0, <1>2, <3>2, <4>2
      <3>5. ASSUME NEW u \in Tasks, Pool(u.pass) = q, pc'[u] = "queued"
            PROVE  \E i \in 1..Len(v) : v[i] = u
        <4>1. u # t /\ pc[u] = "queued"
          BY <1>0, <1>1, <3>5
        <4>2. PICK k \in 1..Len(w) : w[k] = u
          BY <1>2, <3>5, <4>1
        <4>3. k # 1
          BY <1>1, <4>1, <4>2
        <4>4. k - 1 \in 1..Len(v) /\ v[k - 1] = w[(k - 1) + 1] /\ (k - 1) + 1 = k
          BY <1>1, <4>2, <4>3 DEF v
        <4> QED BY <4>2, <4>4
      <3> QED BY <2>2, <3>1, <3>3, <3>4, <3>5
    <2> QED BY <2>1, <2>2
  <1> QED BY <1>4, <1>5 DEF PoolInv

LEMMA NextPool == TypeInv /\ PoolInv /\ [Next]_vars => PoolInv'
  <1> SUFFICES ASSUME TypeInv, PoolInv, [Next]_vars PROVE PoolInv'
    OBVIOUS
  <1>1. CASE UNCHANGED <<pc, spawned, workQueue>>
    BY <1>1, PoolQuiet
  <1>2. ASSUME NEW t \in Tasks, Thread(t) PROVE PoolInv'
    <2>1. UNCHANGED <<spawned, workQueue>>
      BY <1>2 DEF Thread, ReadFlag, TakeEntry, PingReturns, TestReturns, PostRow
    <2>2. \A u \in Tasks : /\ pc'[u] = "queued" <=> pc[u] = "queued"
                           /\ pc'[u] \in Running => pc[u] \in Running
      BY <1>2 DEF Thread, ReadFlag, TakeEntry, PingReturns, TestReturns, PostRow, Running,
                  TypeInv, TypeOK, PoolTypes
    <2> QED BY <2>1, <2>2, PoolQuiet
  <1>3. CASE \/ StartScan \/ StopScan \/ ClearResults \/ RebuildPending \/ AddManual
             \/ \E what \in {"fetch", "china"} : StartLoading(what)
             \/ DeliverRow \/ DeliverEnd \/ FetchDone \/ ChinaLoaded
             \/ \E g \in Scans : Body(g)
             \/ UNCHANGED vars
    <2>1. UNCHANGED <<pc, spawned, workQueue>>
      BY <1>3 DEF StartScan, StopScan, ClearResults, RebuildPending, AddManual, StartLoading,
                  DeliverRow, DeliverEnd, FetchDone, ChinaLoaded, SetPending, Body, LaunchBody,
                  FinishCopy, JoinPing, BeginTests, JoinFirst, BeginRetry, JoinRetry, CloseBlock, BlockReturns, vars, poolVars
    <2> QED BY <2>1, <1>1
  <1> QED BY <1>2, <1>3, PoolDestroy, PoolSubmit, PoolStartQueued DEF Next

-----------------------------------------------------------------------------
(* A stop.                                                                 *)

Active == {"queued", "loop", "poll", "probe", "won", "lost"}

\* A task that waits or runs is of the pass its scan is at.
TaskInv ==
  /\ \A t \in Tasks : pc[t] \in Active => job[t.scan] = t.pass
  /\ \A t \in Tasks : job[t.scan] \in {"none", "launched", "copying"} => pc[t] = "none"

LEMMA InitTask == Init => TaskInv
  BY DEF Init, TaskInv, Active

LEMMA TaskQuiet ==
  ASSUME TypeInv, TaskInv,
         \A t \in Tasks : pc'[t] = pc[t] \/ (pc[t] \in Active /\ pc'[t] # "none")
                                          \/ (pc[t] = "none" /\ job[t.scan] = t.pass /\ pc'[t] \in Active),
         \A t \in Tasks : job'[t.scan] # job[t.scan] => pc'[t] \notin Active,
         \A g \in Scans : job'[g] \in {"none", "launched", "copying"} =>
                            job[g] \in {"none", "launched", "copying"}
  PROVE  TaskInv'
  <1>1. \A t \in Tasks : t.scan \in Scans /\ t.pass \in Passes /\ t.pass \notin {"none", "launched", "copying"}
    BY TaskTypes DEF Passes
  <1>2. ASSUME NEW t \in Tasks, pc'[t] \in Active PROVE job'[t.scan] = t.pass
    <2>1. job'[t.scan] = job[t.scan]
      BY <1>2
    <2> QED BY <1>2, <2>1 DEF TaskInv, Active
  <1>3. ASSUME NEW t \in Tasks, job'[t.scan] \in {"none", "launched", "copying"} PROVE pc'[t] = "none"
    <2>1. pc[t] = "none" /\ job[t.scan] # t.pass
      BY <1>1, <1>3 DEF TaskInv
    <2> QED BY <2>1 DEF Active
  <1> QED BY <1>2, <1>3 DEF TaskInv

\* The Job of a scan moves on when no task of it waits or runs.
LEMMA NextTask == TypeInv /\ FlowInv /\ PoolInv /\ TaskInv /\ [Next]_vars => TaskInv'
  <1> SUFFICES ASSUME TypeInv, FlowInv, PoolInv, TaskInv, [Next]_vars PROVE TaskInv'
    OBVIOUS
  <1>0. /\ pc \in [Tasks -> PcStates] /\ job \in [Scans -> JobStates]
        /\ \A t \in Tasks : t.scan \in Scans /\ t.pass \in Passes
    BY TaskTypes DEF TypeInv, TypeOK, PoolTypes, JobTypes
  <1>1. ASSUME UNCHANGED pc, NEW g \in Scans, NEW s \in JobStates, job' = [job EXCEPT ![g] = s],
               \A t \in Tasks : t.scan = g => pc[t] \notin Active,
               s \in {"launched", "copying"} => job[g] \in {"none", "launched"}, s # "none"
        PROVE  TaskInv'
    BY <1>0, <1>1, TaskQuiet
  <1>2. CASE UNCHANGED <<job, pc>>
    BY <1>2 DEF TaskInv
  <1>3. CASE StartScan
    <2>1. gen + 1 \in Scans /\ gen + 1 > gen
      BY <1>3, BoundsAssumption DEF StartScan, Scans, TypeInv, TypeOK, JobTypes
    <2>2. job[gen + 1] = "none"
      BY <2>1 DEF FlowInv, GenInv
    <2>3. \A t \in Tasks : t.scan = gen + 1 => pc[t] \notin Active
      BY <2>2 DEF TaskInv, Active
    <2>4. UNCHANGED pc /\ job' = [job EXCEPT ![gen + 1] = "launched"]
      BY <1>3 DEF StartScan, poolVars
    <2> QED BY <1>1, <2>1, <2>2, <2>3, <2>4 DEF JobStates
  <1>4. CASE DeliverEnd
    <2> DEFINE g == Head(looper).scan
    <2>1. looper \in Seq(Messages) /\ looper # <<>> /\ Head(looper).kind = "end"
      BY <1>4 DEF DeliverEnd, TypeInv, TypeOK, LoopTypes
    <2>2. g \in Scans /\ 1 \in 1..Len(looper) /\ Head(looper) = looper[1]
      BY <2>1, HeadTailProperties, EmptySeq DEF Messages
    <2>3. job[g] = "ended"
      BY <2>1, <2>2 DEF FlowInv, EndInv
    <2>4. UNCHANGED pc /\ \E s \in {"cancelled", "finished"} : job' = [job EXCEPT ![g] = s]
      BY <1>4 DEF DeliverEnd, poolVars
    <2> HIDE DEF g
    <2>5. \A t \in Tasks : t.scan = g => pc[t] \notin Active
      BY <1>0, <2>3 DEF TaskInv, Passes
    <2> QED BY <1>1, <2>2, <2>4, <2>5 DEF JobStates
  <1>5. ASSUME NEW g \in Scans, LaunchBody(g) \/ FinishCopy(g) PROVE TaskInv'
    <2>1. /\ UNCHANGED pc /\ job[g] \in {"launched", "copying"}
          /\ \/ job' = job
             \/ \E s \in {"cancelled", "copying", "ping"} : job' = [job EXCEPT ![g] = s]
                                                          /\ (s = "copying" => job[g] = "launched")
      BY <1>5 DEF LaunchBody, FinishCopy, poolVars
    <2>2. \A t \in Tasks : t.scan = g => pc[t] \notin Active
      BY <2>1 DEF TaskInv, Active
    <2> QED BY <1>1, <1>2, <2>1, <2>2 DEF JobStates
  <1>6. ASSUME NEW g \in Scans, JoinPing(g) \/ JoinFirst(g) \/ JoinRetry(g) PROVE TaskInv'
    <2>1. /\ UNCHANGED pc
          /\ \E s \in {"closed", "closing", "pinged", "tested"} : job' = [job EXCEPT ![g] = s]
          /\ \E q \in Passes : Joined(g, q)
      BY <1>6 DEF JoinPing, JoinFirst, JoinRetry, poolVars, Passes
    <2>2. ASSUME NEW t \in Tasks, t.scan = g PROVE pc[t] \notin Active
      BY <2>1, <2>2 DEF TaskInv, Joined, PassTasks, Active
    <2> QED BY <1>1, <2>1, <2>2 DEF JobStates
  <1>7. ASSUME NEW g \in Scans, BeginTests(g) \/ BeginRetry(g) \/ CloseBlock(g) \/ BlockReturns(g)
        PROVE  TaskInv'
    <2>1. UNCHANGED pc /\ job[g] \in {"pinged", "tested", "closing", "closed"}
      BY <1>7 DEF BeginTests, BeginRetry, CloseBlock, BlockReturns, poolVars
    <2>2. PICK s \in {"first", "retry", "closing", "closed", "ended"} : job' = [job EXCEPT ![g] = s]
      BY <1>7 DEF BeginTests, BeginRetry, CloseBlock, BlockReturns
    <2>3. \A t \in Tasks : t.scan = g => pc[t] \notin Active
      BY <1>0, <2>1 DEF TaskInv, Passes
    <2>4. s \in JobStates /\ s \notin {"none", "launched", "copying"}
      BY <2>2 DEF JobStates
    <2> QED BY <1>1, <2>1, <2>2, <2>3, <2>4
  <1>8. CASE Destroy
    BY <1>0, <1>8, TaskQuiet DEF Destroy, Active
  <1>9. ASSUME NEW t \in Tasks, Thread(t) \/ SubmitTask(t) PROVE TaskInv'
    <2>1. /\ UNCHANGED job
          /\ \/ UNCHANGED pc
             \/ \E s \in Active \cup {"done"} : pc[t] \in Active /\ pc' = [pc EXCEPT ![t] = s]
             \/ \E s \in Active : pc[t] = "none" /\ job[t.scan] = t.pass /\ pc' = [pc EXCEPT ![t] = s]
      BY <1>9 DEF Thread, ReadFlag, TakeEntry, PingReturns, TestReturns, PostRow, SubmitTask, IsNext, jobVars, poolVars, Active
    <2>2. CASE UNCHANGED pc
      BY <1>2, <2>1, <2>2
    <2>3. CASE ~UNCHANGED pc
      BY <1>0, <2>1, <2>3, TaskQuiet DEF Active
    <2> QED BY <2>2, <2>3
  <1>10. ASSUME NEW q \in Pools, StartQueued(q) PROVE TaskInv'
    <2>1. workQueue[q] \in Seq(Tasks) /\ workQueue[q] # <<>>
      BY <1>10 DEF StartQueued, TypeInv, TypeOK, PoolTypes
    <2>2. Head(workQueue[q]) \in Tasks /\ Head(workQueue[q]) = workQueue[q][1] /\ 1 \in 1..Len(workQueue[q])
      BY <2>1, HeadTailProperties, EmptySeq
    <2>3. pc[Head(workQueue[q])] = "queued"
      BY <2>2 DEF PoolInv, WaitingInv
    <2>4. pc' = [pc EXCEPT ![Head(workQueue[q])] = "loop"] /\ UNCHANGED job
      BY <1>10 DEF StartQueued, jobVars
    <2> QED BY <1>0, <2>2, <2>3, <2>4, TaskQuiet DEF Active
  <1>11. CASE \/ StopScan \/ ClearResults \/ RebuildPending \/ AddManual
              \/ \E what \in {"fetch", "china"} : StartLoading(what)
              \/ DeliverRow \/ FetchDone \/ ChinaLoaded \/ UNCHANGED vars
    <2>1. UNCHANGED <<job, pc>>
      BY <1>11 DEF StopScan, ClearResults, RebuildPending, AddManual, StartLoading, DeliverRow,
                   FetchDone, ChinaLoaded, SetPending, vars, jobVars, poolVars
    <2> QED BY <1>2, <2>1
  <1> QED BY <1>3, <1>4, <1>5, <1>6, <1>7, <1>8, <1>9, <1>10, <1>11 DEF Next, Body

\* What a step may do to the current scan once its Job is cancelled.
StopStep == \A g \in cancelled : gen = g =>
  /\ Committed(g)' \subseteq Committed(g)
  /\ Taken(g)' \ Taken(g) \subseteq Committed(g) \ Committed(g)'
  /\ job'[g] # job[g] => job'[g] \notin {"pinged", "tested", "finished"}
  /\ job'[g] # job[g] /\ job'[g] \in Passes =>
       Committed(g)' = {} /\ (job'[g] = "ping" \/ job[g] \in {"pinged", "tested"})

\* Only a task that finds the flag set goes on to poll, and only one that did takes an address.
LEMMA PollsWhileRunning ==
  ASSUME TypeInv, PoolInv, Next, NEW t \in Tasks
  PROVE  /\ pc'[t] = "poll" /\ pc[t] # "poll" => running
         /\ pc'[t] = "probe" /\ pc[t] # "probe" => pc[t] = "poll"
  <1> DEFINE Goal == /\ pc'[t] = "poll" /\ pc[t] # "poll" => running
                     /\ pc'[t] = "probe" /\ pc[t] # "probe" => pc[t] = "poll"
  <1> USE DEF TypeInv, TypeOK, PoolTypes
  <1>1. CASE UNCHANGED pc
    BY <1>1
  <1>2. CASE Destroy
    BY <1>2 DEF Destroy
  <1>3. ASSUME NEW q \in Pools, StartQueued(q) PROVE Goal
    BY <1>3, WaitingHead DEF StartQueued
  <1>4. ASSUME NEW u \in Tasks, SubmitTask(u) \/ PingReturns(u) \/ TestReturns(u) \/ PostRow(u)
        PROVE  Goal
    BY <1>4 DEF SubmitTask, IsNext, PingReturns, TestReturns, PostRow, poolVars
  <1>5. ASSUME NEW u \in Tasks, ReadFlag(u) PROVE Goal
    BY <1>5 DEF ReadFlag, GoesOn
  <1>6. ASSUME NEW u \in Tasks, TakeEntry(u) PROVE Goal
    BY <1>6 DEF TakeEntry
  <1>7. CASE \/ StartScan \/ StopScan \/ ClearResults \/ RebuildPending \/ AddManual
             \/ \E what \in {"fetch", "china"} : StartLoading(what)
             \/ DeliverRow \/ DeliverEnd \/ FetchDone \/ ChinaLoaded
             \/ \E g \in Scans : Body(g)
    <2>1. UNCHANGED pc
      BY <1>7 DEF StartScan, StopScan, ClearResults, RebuildPending, AddManual, StartLoading,
                  DeliverRow, DeliverEnd, FetchDone, ChinaLoaded, SetPending, Body, LaunchBody,
                  FinishCopy, JoinPing, BeginTests, JoinFirst, BeginRetry, JoinRetry, CloseBlock,
                  BlockReturns, poolVars
    <2> QED BY <2>1, <1>1
  <1> QED BY <1>2, <1>3, <1>4, <1>5, <1>6, <1>7 DEF Next, Thread

\* A scan decides on a test pass while the flag is set, begins a pass with no
\* task at work, and announces nothing once it was cancelled.
LEMMA AdvancesWhileRunning ==
  ASSUME TypeInv, FlowInv, Next, NEW g \in cancelled, gen = g, job'[g] # job[g]
  PROVE  /\ job'[g] \in {"pinged", "tested"} => running
         /\ job'[g] # "finished"
         /\ job'[g] \in Passes => /\ UNCHANGED pc /\ job[g] \notin Passes
                                  /\ job'[g] = "ping" \/ job[g] \in {"pinged", "tested"}
  <1> DEFINE Goal == /\ job'[g] \in {"pinged", "tested"} => running
                     /\ job'[g] # "finished"
                     /\ job'[g] \in Passes => /\ UNCHANGED pc /\ job[g] \notin Passes
                                              /\ job'[g] = "ping" \/ job[g] \in {"pinged", "tested"}
  <1> USE DEF TypeInv, TypeOK, JobTypes, Passes
  <1>0. g \in Scans
    OBVIOUS
  <1>1. CASE StartScan
    BY <1>0, <1>1, BoundsAssumption DEF StartScan, Scans
  <1>2. CASE DeliverEnd
    <2> DEFINE m == Head(looper)
    <2>1. m.scan \in Scans
      BY <1>2, HeadTailProperties DEF DeliverEnd, LoopTypes, Messages
    <2> QED BY <1>0, <1>2, <2>1 DEF DeliverEnd
  <1>3. ASSUME NEW h \in Scans, Body(h) PROVE Goal
    <2>1. CASE LaunchBody(h) \/ FinishCopy(h)
      BY <1>0, <2>1 DEF LaunchBody, FinishCopy, poolVars
    <2>2. CASE JoinPing(h) \/ JoinFirst(h) \/ JoinRetry(h)
      BY <1>0, <2>2 DEF JoinPing, JoinFirst, JoinRetry
    <2>3. CASE BeginTests(h) \/ BeginRetry(h)
      BY <1>0, <2>3 DEF BeginTests, BeginRetry, poolVars
    <2>4. CASE CloseBlock(h) \/ BlockReturns(h)
      BY <1>0, <2>4 DEF CloseBlock, BlockReturns
    <2> QED BY <1>3, <2>1, <2>2, <2>3, <2>4 DEF Body
  <1>4. CASE \/ StopScan \/ ClearResults \/ RebuildPending \/ AddManual \/ Destroy
             \/ \E what \in {"fetch", "china"} : StartLoading(what)
             \/ DeliverRow \/ FetchDone \/ ChinaLoaded
             \/ \E q \in Pools : StartQueued(q)
             \/ \E t \in Tasks : SubmitTask(t) \/ Thread(t)
    <2>1. UNCHANGED job
      BY <1>4 DEF StopScan, ClearResults, RebuildPending, AddManual, Destroy, StartLoading,
                  DeliverRow, FetchDone, ChinaLoaded, SetPending, StartQueued, SubmitTask, IsNext, Thread,
                  ReadFlag, TakeEntry, PingReturns, TestReturns, PostRow, jobVars
    <2> QED BY <2>1
  <1> QED BY <1>1, <1>2, <1>3, <1>4 DEF Next

LEMMA TaskCorrect == Spec => [](TypeInv /\ FlowInv /\ PoolInv /\ TaskInv)
  BY InitType, NextType, InitFlow, NextFlow, InitPool, NextPool, InitTask, NextTask, PTL DEF Spec

\* However stops and starts fall between a thread's look at the flag and what
\* it does next, a stopped scan only finishes what its threads had begun: no
\* task starts a round of its loop, each that had takes one address at most,
\* and a pass that begins nevertheless finds no task of it ready to poll.
THEOREM StopIsHeld == Spec => StopHolds
  <1>1. TypeInv /\ FlowInv /\ PoolInv /\ TaskInv /\ [Next]_vars => [StopStep]_vars
    <2> SUFFICES ASSUME TypeInv, FlowInv, PoolInv, TaskInv, Next, NEW g \in cancelled, gen = g
                 PROVE  /\ Committed(g)' \subseteq Committed(g)
                        /\ Taken(g)' \ Taken(g) \subseteq Committed(g) \ Committed(g)'
                        /\ job'[g] # job[g] => job'[g] \notin {"pinged", "tested", "finished"}
                        /\ job'[g] # job[g] /\ job'[g] \in Passes =>
                             Committed(g)' = {} /\ (job'[g] = "ping" \/ job[g] \in {"pinged", "tested"})
      BY DEF StopStep
    <2>1. ~running
      BY DEF FlowInv, FlagInv
    <2>2. \A t \in Tasks : /\ pc'[t] = "poll" => pc[t] = "poll"
                           /\ pc'[t] = "probe" /\ pc[t] # "probe" => pc[t] = "poll"
      BY <2>1, PollsWhileRunning
    <2>3. ASSUME job'[g] # job[g], job'[g] \in Passes PROVE Committed(g)' = {}
      <3>1. UNCHANGED pc /\ job[g] \notin Passes
        BY <2>3, AdvancesWhileRunning
      <3>2. \A t \in Tasks : t.scan = g => pc[t] # "poll"
        BY <3>1, TaskTypes DEF TaskInv, Active
      <3> QED BY <3>1, <3>2 DEF Committed
    <2> QED BY <2>1, <2>2, <2>3, AdvancesWhileRunning DEF Committed, Taken
  <1>2. StopHolds <=> [][StopStep]_vars
    BY PTL DEF StopHolds, StopStep
  <1> QED BY TaskCorrect, <1>1, <1>2, PTL DEF Spec

-----------------------------------------------------------------------------
(* The rows.                                                               *)

\* How often a row is shown or on its way to the list.
Out(r) == results[r] + Posted(r)
Yes(g, e, p) == [scan |-> g, entry |-> e, proto |-> p, ok |-> TRUE]
No(g, e, p)  == [scan |-> g, entry |-> e, proto |-> p, ok |-> FALSE]

TestTasks  == {t \in Tasks : t.pass # "ping"}
TestPasses == {"first", "retry"}
HasEntry   == {"probe", "won", "lost"}
EarlyJobs  == {"none", "launched", "copying", "ping", "pinged"}

LEMMA RowFacts ==
  ASSUME NEW g \in Scans, NEW e \in Entries, NEW p \in Protos
  PROVE  /\ Yes(g, e, p) \in Rows /\ No(g, e, p) \in Rows
         /\ Yes(g, e, p).scan = g /\ Yes(g, e, p).entry = e /\ Yes(g, e, p).proto = p /\ Yes(g, e, p).ok
         /\ No(g, e, p).scan = g /\ No(g, e, p).entry = e /\ No(g, e, p).proto = p /\ ~No(g, e, p).ok
         /\ Yes(g, e, p) # No(g, e, p)
  BY DEF Yes, No, Rows

LEMMA PlacesFinite ==
  ASSUME NEW S, NEW q \in Seq(S), NEW e
  PROVE  IsFiniteSet(Places(q, e)) /\ Cardinality(Places(q, e)) \in Nat
  <1>1. DOMAIN q = 1..Len(q) /\ Len(q) \in Nat
    BY LenProperties
  <1>2. IsFiniteSet(1..Len(q))
    BY <1>1, FS_Interval
  <1>3. Places(q, e) \in SUBSET (1..Len(q))
    BY <1>1 DEF Places
  <1> QED BY <1>2, <1>3, FS_Subset, FS_CardinalityType

LEMMA PlacesAppend ==
  ASSUME NEW S, NEW q \in Seq(S), NEW m \in S, NEW e
  PROVE  /\ m = e => Cardinality(Places(Append(q, m), e)) = Cardinality(Places(q, e)) + 1
         /\ m # e => Cardinality(Places(Append(q, m), e)) = Cardinality(Places(q, e))
  <1> DEFINE v == Append(q, m)
  <1>1. /\ DOMAIN q = 1..Len(q) /\ Len(q) \in Nat /\ v \in Seq(S)
        /\ DOMAIN v = 1..(Len(q) + 1) /\ v[Len(q) + 1] = m
        /\ \A i \in 1..Len(q) : v[i] = q[i]
    BY LenProperties, AppendProperties
  <1> HIDE DEF v
  <1>2. CASE m = e
    <2>1. Places(v, e) = Places(q, e) \cup {Len(q) + 1}
      BY <1>1, <1>2 DEF Places
    <2>2. Len(q) + 1 \notin Places(q, e)
      BY <1>1 DEF Places
    <2> DEFINE P == Places(q, e)
    <2>3. IsFiniteSet(P)
      BY PlacesFinite
    <2> HIDE DEF P
    <2>4. Cardinality(P \cup {Len(q) + 1}) = IF Len(q) + 1 \in P THEN Cardinality(P) ELSE Cardinality(P) + 1
      BY <2>3, FS_AddElement
    <2> QED BY <1>2, <2>1, <2>2, <2>4 DEF P, v
  <1>3. CASE m # e
    <2>1. Places(v, e) = Places(q, e)
      BY <1>1, <1>3 DEF Places
    <2> QED BY <1>3, <2>1 DEF v
  <1> QED BY <1>2, <1>3

LEMMA PlacesTail ==
  ASSUME NEW S, NEW q \in Seq(S), q # <<>>, NEW e
  PROVE  /\ Head(q) = e => Cardinality(Places(Tail(q), e)) + 1 = Cardinality(Places(q, e))
         /\ Head(q) # e => Cardinality(Places(Tail(q), e)) = Cardinality(Places(q, e))
  <1> DEFINE v == Tail(q)
  <1>1. /\ DOMAIN q = 1..Len(q) /\ Len(q) \in Nat /\ Len(q) >= 1 /\ Head(q) = q[1]
        /\ v \in Seq(S) /\ DOMAIN v = 1..(Len(q) - 1)
        /\ \A i \in 1..(Len(q) - 1) : v[i] = q[i + 1]
    BY LenProperties, HeadTailProperties, EmptySeq
  <1> HIDE DEF v
  <1> DEFINE P == Places(q, e)  T == Places(v, e)  f == [i \in T |-> i + 1]
  <1>2. IsFiniteSet(P) /\ IsFiniteSet(T) /\ Cardinality(P) \in Nat
    BY <1>1, PlacesFinite
  <1>3. f \in Bijection(T, P \ {1})
    <2>1. \A i \in T : i \in 1..(Len(q) - 1) /\ i + 1 \in P \ {1}
      BY <1>1 DEF Places
    <2>2. \A j \in P \ {1} : j - 1 \in T /\ (j - 1) + 1 = j
      BY <1>1 DEF Places
    <2>3. \A i, j \in T : i + 1 = j + 1 => i = j
      BY <2>1
    <2> HIDE DEF P, T
    <2>4. f \in Injection(T, P \ {1})
      BY <2>1, <2>3 DEF Injection, IsInjective
    <2>5. \A j \in P \ {1} : \E i \in T : f[i] = j
      BY <2>2
    <2> HIDE DEF f
    <2>6. f \in Surjection(T, P \ {1})
      BY <2>4, <2>5 DEF Surjection, Injection
    <2> QED BY <2>4, <2>6 DEF Bijection
  <1>4. 1 \in P <=> Head(q) = e
    BY <1>1 DEF Places
  <1> HIDE DEF P, T, f
  <1>5. /\ IsFiniteSet(P \ {1})
        /\ Cardinality(P \ {1}) = IF 1 \in P THEN Cardinality(P) - 1 ELSE Cardinality(P)
    BY <1>2, FS_RemoveElement
  <1>6. Cardinality(T) = Cardinality(P \ {1})
    <2>1. ExistsBijection(T, P \ {1})
      BY <1>3 DEF ExistsBijection
    <2> QED BY <1>2, <2>1, FS_Bijection
  <1>7. /\ Head(q) = e => Cardinality(T) + 1 = Cardinality(P)
        /\ Head(q) # e => Cardinality(T) = Cardinality(P)
    BY <1>2, <1>4, <1>5, <1>6
  <1> QED BY <1>7 DEF P, T, v

LEMMA PostedPlaces == \A r : Posted(r) = Cardinality(Places(looper, RowMsg(r)))
  BY DEF Posted, Places

LEMMA OutType == TypeInv => \A r \in Rows : results[r] \in Nat /\ Posted(r) \in Nat /\ Out(r) \in Nat
  <1> SUFFICES ASSUME TypeInv, NEW r \in Rows
               PROVE  results[r] \in Nat /\ Posted(r) \in Nat /\ Out(r) \in Nat
    OBVIOUS
  <1>1. results[r] \in Nat
    BY DEF TypeInv, TypeOK, UiTypes
  <1>2. looper \in Seq(Messages)
    BY DEF TypeInv, TypeOK, LoopTypes
  <1>3. Posted(r) \in Nat
    BY <1>2, PostedPlaces, PlacesFinite
  <1> QED BY <1>1, <1>3 DEF Out

LEMMA MessageFacts ==
  ASSUME NEW r \in Rows
  PROVE  /\ RowMsg(r) \in Messages
         /\ \A g \in Scans : EndMsg(g) \in Messages /\ EndMsg(g) # RowMsg(r)
         /\ \A s \in Rows : RowMsg(s) = RowMsg(r) => s = r
         /\ \A m \in Messages : m.kind = "end" => m # RowMsg(r)
         /\ \A m \in Messages : m.kind = "row" => m.row \in Rows /\ (m = RowMsg(r) <=> m.row = r)
  BY DEF Messages, RowMsg, EndMsg

\* Only a task that posts adds a row, and only the user takes rows away; the
\* looper moves them to the list.
LEMMA OutSteps ==
  ASSUME TypeInv, Next, ~\E t \in Tasks : PostRow(t)
  PROVE  \A r \in Rows : Out(r)' <= Out(r) /\ (Out(r)' = Out(r) \/ StartScan \/ ClearResults)
  <1> SUFFICES ASSUME NEW r \in Rows
               PROVE  Out(r)' <= Out(r) /\ (Out(r)' = Out(r) \/ StartScan \/ ClearResults)
    OBVIOUS
  <1>0. /\ looper \in Seq(Messages) /\ results \in [Rows -> Nat]
        /\ results[r] \in Nat /\ Posted(r) \in Nat /\ Out(r) = results[r] + Posted(r)
        /\ Out(r)' = results'[r] + Posted(r)'
        /\ Posted(r) = Cardinality(Places(looper, RowMsg(r)))
        /\ Posted(r)' = Cardinality(Places(looper', RowMsg(r)))
    BY OutType DEF TypeInv, TypeOK, LoopTypes, UiTypes, Out, Posted, Places
  <1>1. CASE UNCHANGED <<results, looper>>
    BY <1>0, <1>1
  <1>2. CASE StartScan \/ ClearResults
    <2>1. results'[r] = 0 /\ looper' = looper
      BY <1>2 DEF StartScan, ClearResults
    <2> QED BY <1>0, <1>2, <2>1
  <1>3. CASE DeliverRow
    <2>1. /\ looper # <<>> /\ Head(looper).kind = "row" /\ looper' = Tail(looper)
          /\ results' = [results EXCEPT ![Head(looper).row] = @ + 1]
      BY <1>3 DEF DeliverRow
    <2>2. Head(looper) \in Messages
      BY <1>0, <2>1, HeadTailProperties
    <2>3. Head(looper).row \in Rows /\ (Head(looper) = RowMsg(r) <=> Head(looper).row = r)
      BY <2>1, <2>2, MessageFacts
    <2>4. /\ Head(looper) = RowMsg(r) => Posted(r)' + 1 = Posted(r)
          /\ Head(looper) # RowMsg(r) => Posted(r)' = Posted(r)
      BY <1>0, <2>1, PlacesTail
    <2>5. Posted(r)' \in Nat
      <3>1. looper' \in Seq(Messages)
        BY <1>0, <2>1, HeadTailProperties
      <3> QED BY <1>0, <3>1, PlacesFinite
    <2>6. CASE Head(looper).row = r
      BY <1>0, <2>1, <2>3, <2>4, <2>5, <2>6
    <2>7. CASE Head(looper).row # r
      BY <1>0, <2>1, <2>3, <2>4, <2>5, <2>7
    <2> QED BY <2>6, <2>7
  <1>4. CASE DeliverEnd
    <2>1. /\ looper # <<>> /\ Head(looper).kind = "end" /\ looper' = Tail(looper) /\ results' = results
      BY <1>4 DEF DeliverEnd
    <2>2. Head(looper) \in Messages
      BY <1>0, <2>1, HeadTailProperties
    <2>3. Head(looper) # RowMsg(r)
      BY <2>1, <2>2, MessageFacts
    <2>4. Posted(r)' = Posted(r)
      BY <1>0, <2>1, <2>3, PlacesTail
    <2> QED BY <1>0, <2>1, <2>4
  <1>5. ASSUME NEW g \in Scans, BlockReturns(g)
        PROVE  Out(r)' <= Out(r) /\ (Out(r)' = Out(r) \/ StartScan \/ ClearResults)
    <2>1. looper' = Append(looper, EndMsg(g)) /\ results' = results
      BY <1>5 DEF BlockReturns, uiVars
    <2>2. EndMsg(g) \in Messages /\ EndMsg(g) # RowMsg(r)
      BY MessageFacts
    <2>3. Posted(r)' = Posted(r)
      BY <1>0, <2>1, <2>2, PlacesAppend
    <2> QED BY <1>0, <2>1, <2>3
  <1>6. CASE \/ StopScan \/ RebuildPending \/ AddManual \/ Destroy
             \/ \E what \in {"fetch", "china"} : StartLoading(what)
             \/ FetchDone \/ ChinaLoaded
             \/ \E g \in Scans : \/ LaunchBody(g) \/ FinishCopy(g) \/ JoinPing(g) \/ BeginTests(g) \/ JoinFirst(g) \/ BeginRetry(g)
                                 \/ JoinRetry(g) \/ CloseBlock(g)
             \/ \E q \in Pools : StartQueued(q)
             \/ \E t \in Tasks : SubmitTask(t) \/ ReadFlag(t) \/ TakeEntry(t) \/ PingReturns(t) \/ TestReturns(t)
    <2>1. UNCHANGED <<results, looper>>
      BY <1>6 DEF StopScan, RebuildPending, AddManual, Destroy, SetPending, StartLoading, FetchDone,
                  ChinaLoaded, LaunchBody, FinishCopy, JoinPing, BeginTests, JoinFirst, BeginRetry, JoinRetry, CloseBlock,
                  StartQueued, SubmitTask, IsNext, ReadFlag, TakeEntry, PingReturns, TestReturns, uiVars
    <2> QED BY <2>1, <1>1
  <1> QED BY <1>2, <1>3, <1>4, <1>5, <1>6 DEF Next, Body, Thread

LEMMA OutPost ==
  ASSUME TypeInv, NEW t \in Tasks, PostRow(t)
  PROVE  \A r \in Rows : /\ r = RowOf(t) => Out(r)' = Out(r) + 1
                         /\ r # RowOf(t) => Out(r)' = Out(r)
  <1> SUFFICES ASSUME NEW r \in Rows
               PROVE  /\ r = RowOf(t) => Out(r)' = Out(r) + 1
                      /\ r # RowOf(t) => Out(r)' = Out(r)
    OBVIOUS
  <1>1. /\ looper' = Append(looper, RowMsg(RowOf(t))) /\ results' = results
        /\ RowOf(t) \in Rows
    BY RowType DEF PostRow, uiVars
  <1>2. /\ looper \in Seq(Messages) /\ results[r] \in Nat /\ Posted(r) \in Nat
        /\ Out(r) = results[r] + Posted(r) /\ Out(r)' = results'[r] + Posted(r)'
        /\ Posted(r) = Cardinality(Places(looper, RowMsg(r)))
        /\ Posted(r)' = Cardinality(Places(looper', RowMsg(r)))
    BY OutType DEF TypeInv, TypeOK, LoopTypes, Out, Posted, Places
  <1>3. RowMsg(RowOf(t)) \in Messages /\ (RowMsg(RowOf(t)) = RowMsg(r) => r = RowOf(t))
    BY <1>1, MessageFacts
  <1> HIDE DEF RowMsg
  <1>4. /\ RowMsg(RowOf(t)) = RowMsg(r) => Posted(r)' = Posted(r) + 1
        /\ RowMsg(RowOf(t)) # RowMsg(r) => Posted(r)' = Posted(r)
    BY <1>1, <1>2, <1>3, PlacesAppend
  <1> QED BY <1>1, <1>2, <1>3, <1>4

\* A task that has no address in hand holds none; a ping has no verdict to post.
HandInv == /\ \A t \in TestTasks : pc[t] \notin HasEntry => hold[t] = NoEntry
           /\ \A t \in Tasks \ TestTasks : pc[t] \notin {"won", "lost"}

\* Before its first pass a scan has tested nothing.
EarlyInv == \A g \in Scans : job[g] \in EarlyJobs =>
  /\ queue[g]["first"] = {} /\ h3Fail[g] = {}
  /\ \A t \in TestTasks : t.scan = g => pc[t] = "none"
  /\ \A r \in Rows : r.scan = g => Out(r) = 0

\* Before the second pass all is of the first pass and its protocol.
FirstInv == \A g \in Scans : job[g] \in EarlyJobs \cup {"first", "tested"} =>
  /\ queue[g]["retry"] = {}
  /\ \A t \in TestTasks : t.scan = g /\ t.pass = "retry" => pc[t] = "none"
  /\ \A r \in Rows : r.scan = g /\ r.proto # ProtoOf(g, "first") => Out(r) = 0

\* Failures are noted, and a second pass made, in hybrid mode alone.
HybridInv == \A g \in Scans :
  /\ job[g] \in {"tested", "retry"} \/ queue[g]["retry"] # {} \/ h3Fail[g] # {} => mode[g] = "Hybrid"
  /\ \A t \in TestTasks : t.scan = g /\ t.pass = "retry" /\ pc[t] # "none" => mode[g] = "Hybrid"

Untested(g, e, p) ==
  /\ Out(Yes(g, e, p)) = 0 /\ Out(No(g, e, p)) = 0
  /\ \A t \in TestTasks : t.scan = g /\ ProtoOf(g, t.pass) = p => hold[t] # e

\* What a test pass has still in its queue has no row and is in no hand.
QueuedInv == \A g \in Scans : \A p \in TestPasses : \A e \in queue[g][p] :
  Untested(g, e, ProtoOf(g, p))

Single(g, e, p) ==
  /\ Out(Yes(g, e, p)) + Out(No(g, e, p)) <= 1
  /\ HeldFor(g, e, p) # {} => Out(Yes(g, e, p)) = 0 /\ Out(No(g, e, p)) = 0
  /\ \A t, u \in HeldFor(g, e, p) : t = u

\* One row of an address and protocol, or one task that will post it.
SingleInv == \A g \in Scans, e \in Entries, p \in Protos : Single(g, e, p)

\* An address whose failure was noted is not queued again by the first
\* pass, and neither has nor gets a row of success by HTTP/3.
FailInv == \A g \in Scans : \A e \in h3Fail[g] :
  /\ e \notin queue[g]["first"] /\ Out(Yes(g, e, "H3")) = 0
  /\ \A t \in TestTasks : t.scan = g /\ t.pass = "first" /\ hold[t] = e => pc[t] = "lost"

\* In hybrid mode only what failed by HTTP/3 is tested by TCP.
RetryInv == \A g \in Scans : mode[g] = "Hybrid" =>
  /\ queue[g]["retry"] \subseteq h3Fail[g]
  /\ \A t \in TestTasks : t.scan = g /\ t.pass = "retry" /\ hold[t] # NoEntry => hold[t] \in h3Fail[g]
  /\ \A e \in Entries : Out(Yes(g, e, "TCP")) > 0 \/ Out(No(g, e, "TCP")) > 0 => e \in h3Fail[g]

\* The rows of a scan in another mode are of its protocol.
ModeInv == \A r \in Rows :
  Out(r) > 0 => r.proto = ProtoOf(r.scan, "first") \/ mode[r.scan] = "Hybrid"

OnceInv == HandInv /\ EarlyInv /\ FirstInv /\ HybridInv /\ QueuedInv
           /\ SingleInv /\ FailInv /\ RetryInv /\ ModeInv

LEMMA InitOnce == Init => OnceInv
  <1> SUFFICES ASSUME Init PROVE OnceInv
    OBVIOUS
  <1>1. \A r \in Rows : Out(r) = 0
    <2> SUFFICES ASSUME NEW r \in Rows PROVE Out(r) = 0
      OBVIOUS
    <2>1. results[r] = 0 /\ looper = <<>>
      BY DEF Init
    <2>2. {i \in DOMAIN looper : looper[i] = RowMsg(r)} = {}
      BY <2>1
    <2>3. Posted(r) = 0
      BY <2>2, FS_EmptySet DEF Posted
    <2> QED BY <2>1, <2>3 DEF Out
  <1>2. /\ \A t \in Tasks : pc[t] = "none" /\ hold[t] = NoEntry
        /\ \A g \in Scans : job[g] = "none" /\ h3Fail[g] = {} /\ \A p \in TestPasses : queue[g][p] = {}
    BY DEF Init, TestPasses, Passes
  <1>3. HandInv /\ EarlyInv /\ FirstInv
    BY <1>1, <1>2 DEF HandInv, EarlyInv, FirstInv, TestTasks, TestPasses
  <1>6. HybridInv /\ QueuedInv /\ FailInv
    BY <1>2 DEF HybridInv, QueuedInv, FailInv, TestTasks, TestPasses, EarlyJobs
  <1>7. ModeInv
    <2> SUFFICES ASSUME NEW r \in Rows PROVE ~(Out(r) > 0)
      BY DEF ModeInv
    <2>1. Out(r) = 0
      BY <1>1
    <2> QED BY <2>1
  <1>4. SingleInv
    <2> SUFFICES ASSUME NEW g \in Scans, NEW e \in Entries, NEW p \in Protos PROVE Single(g, e, p)
      BY DEF SingleInv
    <2>1. Out(Yes(g, e, p)) = 0 /\ Out(No(g, e, p)) = 0
      BY <1>1, RowFacts
    <2>2. HeldFor(g, e, p) = {}
      BY <1>2, NoEntryAssumption DEF HeldFor
    <2>3. Out(Yes(g, e, p)) + Out(No(g, e, p)) <= 1
      BY <2>1
    <2> QED BY <2>2, <2>3 DEF Single
  <1>5. RetryInv
    <2>1. ASSUME NEW g \in Scans, NEW e \in Entries
          PROVE  ~(Out(Yes(g, e, "TCP")) > 0) /\ ~(Out(No(g, e, "TCP")) > 0)
      <3>1. Out(Yes(g, e, "TCP")) = 0 /\ Out(No(g, e, "TCP")) = 0
        BY <1>1, RowFacts DEF Protos
      <3> QED BY <3>1
    <2> QED BY <1>2, <2>1 DEF RetryInv, TestTasks, TestPasses
  <1> QED BY <1>3, <1>4, <1>5, <1>6, <1>7 DEF OnceInv

\* A step that tests nothing, queues nothing to test and adds no row.
Quiet ==
  /\ UNCHANGED <<mode, h3Fail>>
  /\ \A g \in Scans, p \in TestPasses : queue'[g][p] = queue[g][p]
  /\ \A t \in TestTasks :
       /\ hold'[t] = hold[t]
       /\ pc'[t] = pc[t] \/ (pc[t] \notin HasEntry /\ pc'[t] \notin HasEntry)
       /\ pc[t] = "none" /\ pc'[t] # "none" => job[t.scan] = t.pass /\ job'[t.scan] = t.pass
  /\ \A g \in Scans : /\ job'[g] \in EarlyJobs => job[g] \in EarlyJobs
                      /\ job'[g] \in TestPasses => job'[g] = job[g]
                      /\ job'[g] = "tested" /\ job[g] # "tested" => job[g] = "first" /\ mode[g] = "Hybrid"
  /\ \A t \in Tasks \ TestTasks : pc'[t] \in {"won", "lost"} => pc[t] \in {"won", "lost"}
  /\ \A r \in Rows : Out(r)' <= Out(r)

LEMMA OnceQuiet == TypeInv /\ TypeInv' /\ OnceInv /\ Quiet => OnceInv'
  <1> SUFFICES ASSUME TypeInv, TypeInv', OnceInv, Quiet PROVE OnceInv'
    OBVIOUS
  <1>1. \A r \in Rows : Out(r) \in Nat /\ Out(r)' \in Nat /\ Out(r)' <= Out(r)
    <2>1. (TypeInv => \A r \in Rows : results[r] \in Nat /\ Posted(r) \in Nat /\ Out(r) \in Nat)'
      BY OutType, PTL
    <2>2. \A r \in Rows : Out(r)' \in Nat
      BY <2>1
    <2> QED BY <2>2, OutType DEF Quiet
  <1>2. \A r \in Rows : Out(r) = 0 => Out(r)' = 0
    BY <1>1
  <1>3. \A r \in Rows : Out(r)' > 0 => Out(r) > 0
    BY <1>1
  <1>4. \A g, p : ProtoOf(g, p)' = ProtoOf(g, p)
    BY DEF Quiet, ProtoOf
  <1>5. \A t \in TestTasks : t \in Tasks /\ t.scan \in Scans /\ t.pass \in TestPasses
    BY TaskTypes DEF TestTasks, TestPasses, Passes
  <1> HIDE DEF TypeInv, ProtoOf
  <1>6. HandInv'
    BY DEF OnceInv, HandInv, Quiet
  <1>7. EarlyInv'
    BY <1>2, <1>5 DEF OnceInv, EarlyInv, Quiet, EarlyJobs, TestPasses
  <1>8. FirstInv'
    BY <1>2, <1>4, <1>5 DEF OnceInv, FirstInv, Quiet, EarlyJobs, TestPasses
  <1>9. HybridInv'
    BY <1>5 DEF OnceInv, HybridInv, Quiet, TestPasses
  <1>10. QueuedInv'
    <2> SUFFICES ASSUME NEW g \in Scans, NEW p \in TestPasses, NEW e \in queue'[g][p]
                 PROVE  Untested(g, e, ProtoOf(g, p))'
      BY DEF QueuedInv
    <2>1. e \in queue[g][p] /\ e \in Entries /\ ProtoOf(g, p) \in Protos
      BY DEF Quiet, TypeInv, TypeOK, DataTypes, TestPasses, Passes, ProtoOf, Protos
    <2>2. Untested(g, e, ProtoOf(g, p))
      BY <2>1 DEF OnceInv, QueuedInv
    <2>3. PICK k \in Protos : k = ProtoOf(g, p)
      BY <2>1
    <2>4. Out(Yes(g, e, k))' = 0 /\ Out(No(g, e, k))' = 0
      BY <1>2, <2>1, <2>2, <2>3, RowFacts DEF Untested
    <2>5. Untested(g, e, k)'
      BY <1>4, <2>2, <2>3, <2>4 DEF Untested, Quiet
    <2> QED BY <1>4, <2>3, <2>5
  <1>11. SingleInv'
    <2> SUFFICES ASSUME NEW g \in Scans, NEW e \in Entries, NEW p \in Protos PROVE Single(g, e, p)'
      BY DEF SingleInv
    <2>1. Single(g, e, p)
      BY DEF OnceInv, SingleInv
    <2>2. HeldFor(g, e, p)' = HeldFor(g, e, p)
      BY <1>4, <1>5 DEF HeldFor, Quiet, TestTasks
    <2> DEFINE yes == Yes(g, e, p)  no == No(g, e, p)
    <2>3. yes \in Rows /\ no \in Rows
      BY RowFacts
    <2>4. Out(yes) + Out(no) <= 1 /\ (HeldFor(g, e, p) # {} => Out(yes) = 0 /\ Out(no) = 0)
      BY <2>1 DEF Single
    <2> HIDE DEF yes, no
    <2>5. Out(yes)' + Out(no)' <= 1 /\ (HeldFor(g, e, p) # {} => Out(yes)' = 0 /\ Out(no)' = 0)
      BY <1>1, <2>3, <2>4
    <2> QED BY <2>1, <2>2, <2>5 DEF Single, yes, no
  <1>12. FailInv'
    <2> SUFFICES ASSUME NEW g \in Scans, NEW e \in h3Fail[g]
                 PROVE  /\ e \notin queue'[g]["first"] /\ Out(Yes(g, e, "H3"))' = 0
                        /\ \A t \in TestTasks : t.scan = g /\ t.pass = "first" /\ hold'[t] = e => pc'[t] = "lost"
      BY DEF FailInv, Quiet
    <2>1. e \in Entries
      BY DEF TypeInv, TypeOK, DataTypes
    <2>2. /\ e \notin queue[g]["first"] /\ Out(Yes(g, e, "H3")) = 0
          /\ \A t \in TestTasks : t.scan = g /\ t.pass = "first" /\ hold[t] = e => pc[t] = "lost"
      BY DEF OnceInv, FailInv
    <2>3. Yes(g, e, "H3") \in Rows
      BY <2>1, RowFacts DEF Protos
    <2>4. Out(Yes(g, e, "H3"))' = 0
      BY <1>2, <2>2, <2>3
    <2>5. ASSUME NEW t \in TestTasks, t.scan = g, t.pass = "first", hold'[t] = e PROVE pc'[t] = "lost"
      BY <2>2, <2>5 DEF Quiet, HasEntry
    <2>6. queue'[g]["first"] = queue[g]["first"]
      BY DEF Quiet, TestPasses
    <2> QED BY <2>2, <2>4, <2>5, <2>6
  <1>13. RetryInv'
    <2>1. ASSUME NEW g \in Scans, NEW e \in Entries, Out(Yes(g, e, "TCP"))' > 0 \/ Out(No(g, e, "TCP"))' > 0
          PROVE  Out(Yes(g, e, "TCP")) > 0 \/ Out(No(g, e, "TCP")) > 0
      BY <1>3, <2>1, RowFacts DEF Protos
    <2> QED BY <2>1 DEF OnceInv, RetryInv, Quiet, TestPasses
  <1>14. ModeInv'
    BY <1>3, <1>4 DEF OnceInv, ModeInv, Quiet
  <1> QED BY <1>6, <1>7, <1>8, <1>9, <1>10, <1>11, <1>12, <1>13, <1>14 DEF OnceInv

LEMMA OutSame == UNCHANGED <<results, looper>> => \A r \in Rows : Out(r)' = Out(r)
  BY DEF Out, Posted

LEMMA RowOfFacts ==
  ASSUME NEW t \in Tasks, NEW g, NEW e, NEW p
  PROVE  /\ RowOf(t).scan = t.scan /\ RowOf(t).proto = ProtoOf(t.scan, t.pass)
         /\ RowOf(t) = Yes(g, e, p) => /\ t.scan = g /\ hold[t] = e /\ ProtoOf(t.scan, t.pass) = p
                                       /\ pc[t] = "won"
         /\ RowOf(t) = No(g, e, p) => t.scan = g /\ hold[t] = e /\ ProtoOf(t.scan, t.pass) = p
  BY DEF RowOf, Yes, No

LEMMA TestTaskFacts ==
  ASSUME TypeInv, NEW t \in TestTasks
  PROVE  /\ t \in Tasks /\ t.scan \in Scans /\ t.pass \in TestPasses
         /\ ProtoOf(t.scan, t.pass) \in Protos
  BY TaskTypes DEF TestTasks, TestPasses, Passes, ProtoOf, Protos

\* The protocols of the passes.
LEMMA ProtoFacts ==
  ASSUME TypeInv, NEW g \in Scans
  PROVE  /\ ProtoOf(g, "retry") = "TCP" /\ ProtoOf(g, "first") \in Protos
         /\ mode[g] = "Hybrid" => ProtoOf(g, "first") = "H3"
         /\ mode[g] = "H3" => ProtoOf(g, "first") = "H3"
         /\ mode[g] = "TCP" => ProtoOf(g, "first") = "TCP"
         /\ mode[g] \in {"H3", "TCP", "Hybrid"}
  BY DEF ProtoOf, Protos, TypeInv, TypeOK, JobTypes, Modes

\* The row of a task that posts leaves its hand.
LEMMA OncePost ==
  ASSUME TypeInv, OnceInv, NEW t \in Tasks, PostRow(t)
  PROVE  OnceInv'
  <1> DEFINE g0 == t.scan  r0 == RowOf(t)
  <1>1. /\ pc[t] \in {"won", "lost"} /\ pc' = [pc EXCEPT ![t] = "loop"]
        /\ hold' = [hold EXCEPT ![t] = NoEntry]
        /\ pc \in [Tasks -> PcStates] /\ hold \in [Tasks -> Entries \cup {NoEntry}]
        /\ UNCHANGED <<job, mode, queue, h3Fail>>
    BY DEF PostRow, jobVars, dataVars, TypeInv, TypeOK, PoolTypes
  <1>2. t \in TestTasks
    BY <1>1 DEF OnceInv, HandInv
  <1>3. /\ g0 \in Scans /\ t.pass \in TestPasses /\ ProtoOf(g0, t.pass) \in Protos
        /\ hold[t] \in Entries
    BY <1>1, <1>2, TestTaskFacts DEF TypeInv, HoldsEntry
  <1>4. \A r \in Rows : /\ Out(r) \in Nat
                        /\ r = r0 => Out(r)' = Out(r) + 1
                        /\ r # r0 => Out(r)' = Out(r)
    BY OutType, OutPost
  <1>5. \A g, q : ProtoOf(g, q)' = ProtoOf(g, q)
    BY <1>1 DEF ProtoOf
  <1>6. r0.scan = g0 /\ r0.proto = ProtoOf(g0, t.pass)
    BY RowOfFacts
  <1>7. ASSUME NEW g, NEW e, NEW k
        PROVE  /\ r0 = Yes(g, e, k) => g0 = g /\ hold[t] = e /\ ProtoOf(g0, t.pass) = k /\ pc[t] = "won"
               /\ r0 = No(g, e, k) => g0 = g /\ hold[t] = e /\ ProtoOf(g0, t.pass) = k
    BY RowOfFacts
  <1>8. \A u \in TestTasks : u # t => u \in Tasks /\ pc'[u] = pc[u] /\ hold'[u] = hold[u]
    BY <1>1 DEF TestTasks
  <1>9. pc'[t] = "loop" /\ hold'[t] = NoEntry
    BY <1>1
  <1> HIDE DEF g0, r0
  <1>10. HandInv'
    BY <1>1, <1>8, <1>9 DEF OnceInv, HandInv
  <1>11. EarlyInv'
    <2> SUFFICES ASSUME NEW g \in Scans, job[g] \in EarlyJobs
                 PROVE  /\ queue[g]["first"] = {} /\ h3Fail[g] = {}
                        /\ \A u \in TestTasks : u.scan = g => pc'[u] = "none"
                        /\ \A r \in Rows : r.scan = g => Out(r)' = 0
      BY <1>1 DEF EarlyInv
    <2>1. g # g0
      BY <1>1, <1>2 DEF OnceInv, EarlyInv, g0
    <2> QED BY <1>4, <1>6, <1>8, <2>1 DEF OnceInv, EarlyInv, g0
  <1>12. FirstInv'
    <2> SUFFICES ASSUME NEW g \in Scans, job[g] \in EarlyJobs \cup {"first", "tested"}
                 PROVE  /\ queue[g]["retry"] = {}
                        /\ \A u \in TestTasks : u.scan = g /\ u.pass = "retry" => pc'[u] = "none"
                        /\ \A r \in Rows : r.scan = g /\ r.proto # ProtoOf(g, "first") => Out(r)' = 0
      BY <1>1, <1>5 DEF FirstInv
    <2>1. g0 = g => t.pass = "first"
      BY <1>1, <1>2, <1>3 DEF OnceInv, FirstInv, g0, TestPasses
    <2>2. \A u \in TestTasks : u.scan = g /\ u.pass = "retry" => u # t
      BY <2>1 DEF g0
    <2>3. ASSUME NEW r \in Rows, r.scan = g, r.proto # ProtoOf(g, "first") PROVE Out(r)' = 0
      <3>1. r # r0
        BY <1>6, <2>1, <2>3
      <3> QED BY <1>4, <2>3, <3>1 DEF OnceInv, FirstInv
    <2> QED BY <1>8, <2>2, <2>3 DEF OnceInv, FirstInv
  <1>13. HybridInv'
    BY <1>1, <1>2, <1>8 DEF OnceInv, HybridInv
  <1>14. QueuedInv'
    <2> SUFFICES ASSUME NEW g \in Scans, NEW q \in TestPasses, NEW e \in queue[g][q]
                 PROVE  Untested(g, e, ProtoOf(g, q))'
      BY <1>1 DEF QueuedInv
    <2>1. e \in Entries /\ ProtoOf(g, q) \in Protos
      BY DEF TypeInv, TypeOK, DataTypes, TestPasses, Passes, ProtoOf, Protos
    <2>2. PICK k \in Protos : k = ProtoOf(g, q)
      BY <2>1
    <2>3. Untested(g, e, k)
      BY <2>2 DEF OnceInv, QueuedInv
    <2>4. r0 # Yes(g, e, k) /\ r0 # No(g, e, k)
      BY <1>2, <1>7, <2>3 DEF Untested, g0
    <2>5. Out(Yes(g, e, k))' = 0 /\ Out(No(g, e, k))' = 0
      BY <1>4, <2>1, <2>3, <2>4, RowFacts DEF Untested
    <2>6. \A u \in TestTasks : u.scan = g /\ ProtoOf(g, u.pass) = k => hold'[u] # e
      BY <1>8, <1>9, <2>1, <2>3, NoEntryAssumption DEF Untested
    <2>7. Untested(g, e, k)'
      BY <1>5, <2>5, <2>6 DEF Untested
    <2> QED BY <1>5, <2>2, <2>7
  <1>15. SingleInv'
    <2> SUFFICES ASSUME NEW g \in Scans, NEW e \in Entries, NEW k \in Protos PROVE Single(g, e, k)'
      BY DEF SingleInv
    <2>1. /\ Out(Yes(g, e, k)) + Out(No(g, e, k)) <= 1
          /\ HeldFor(g, e, k) # {} => Out(Yes(g, e, k)) = 0 /\ Out(No(g, e, k)) = 0
          /\ \A u, w \in HeldFor(g, e, k) : u = w
      BY DEF OnceInv, SingleInv, Single
    <2>2. /\ Yes(g, e, k) \in Rows /\ No(g, e, k) \in Rows /\ Yes(g, e, k) # No(g, e, k)
      BY RowFacts
    <2>3. e # NoEntry
      BY NoEntryAssumption
    <2>4. HeldFor(g, e, k)' = HeldFor(g, e, k) \ {t}
      BY <1>1, <1>5, <1>8, <1>9, <2>3 DEF HeldFor, TestTasks
    <2>5. CASE t \in HeldFor(g, e, k)
      <3>1. HeldFor(g, e, k)' = {}
        BY <2>1, <2>4, <2>5
      <3>2. Out(Yes(g, e, k)) = 0 /\ Out(No(g, e, k)) = 0
        BY <2>1, <2>5
      <3> DEFINE yes == Yes(g, e, k)  no == No(g, e, k)
      <3>3. yes \in Rows /\ no \in Rows /\ yes # no /\ Out(yes) = 0 /\ Out(no) = 0
        BY <2>2, <3>2
      <3> HIDE DEF yes, no
      <3>4. Out(yes)' + Out(no)' <= 1
        BY <1>4, <3>3
      <3> QED BY <3>1, <3>4 DEF Single, yes, no
    <2>6. CASE t \notin HeldFor(g, e, k)
      <3>1. HeldFor(g, e, k)' = HeldFor(g, e, k)
        BY <2>4, <2>6
      <3>2. r0 # Yes(g, e, k) /\ r0 # No(g, e, k)
        BY <1>2, <1>7, <2>6 DEF HeldFor, g0, TestTasks
      <3>3. Out(Yes(g, e, k))' = Out(Yes(g, e, k)) /\ Out(No(g, e, k))' = Out(No(g, e, k))
        BY <1>4, <2>2, <3>2
      <3> QED BY <2>1, <3>1, <3>3 DEF Single
    <2> QED BY <2>5, <2>6
  <1>16. FailInv'
    <2> SUFFICES ASSUME NEW g \in Scans, NEW e \in h3Fail[g]
                 PROVE  /\ e \notin queue[g]["first"] /\ Out(Yes(g, e, "H3"))' = 0
                        /\ \A u \in TestTasks : u.scan = g /\ u.pass = "first" /\ hold'[u] = e => pc'[u] = "lost"
      BY <1>1 DEF FailInv
    <2>1. e \in Entries /\ e # NoEntry
      BY NoEntryAssumption DEF TypeInv, TypeOK, DataTypes
    <2>2. /\ e \notin queue[g]["first"] /\ Out(Yes(g, e, "H3")) = 0
          /\ \A u \in TestTasks : u.scan = g /\ u.pass = "first" /\ hold[u] = e => pc[u] = "lost"
      BY DEF OnceInv, FailInv
    <2>3. r0 # Yes(g, e, "H3")
      <3> SUFFICES ASSUME r0 = Yes(g, e, "H3") PROVE FALSE
        OBVIOUS
      <3>1. g0 = g /\ hold[t] = e /\ ProtoOf(g0, t.pass) = "H3" /\ pc[t] = "won"
        BY <1>7
      <3>2. t.pass = "first"
        BY <1>3, <3>1, ProtoFacts DEF TestPasses
      <3> QED BY <1>2, <2>2, <3>1, <3>2 DEF g0
    <2>4. Out(Yes(g, e, "H3"))' = 0
      BY <1>4, <2>1, <2>2, <2>3, RowFacts DEF Protos
    <2> QED BY <1>8, <1>9, <2>1, <2>2, <2>4
  <1>17. RetryInv'
    <2> SUFFICES ASSUME NEW g \in Scans, mode[g] = "Hybrid"
                 PROVE  /\ queue[g]["retry"] \subseteq h3Fail[g]
                        /\ \A u \in TestTasks : u.scan = g /\ u.pass = "retry" /\ hold'[u] # NoEntry => hold'[u] \in h3Fail[g]
                        /\ \A e \in Entries : Out(Yes(g, e, "TCP"))' > 0 \/ Out(No(g, e, "TCP"))' > 0 => e \in h3Fail[g]
      BY <1>1 DEF RetryInv
    <2>1. ASSUME NEW e \in Entries, Out(Yes(g, e, "TCP"))' > 0 \/ Out(No(g, e, "TCP"))' > 0
          PROVE  e \in h3Fail[g]
      <3>1. CASE r0 = Yes(g, e, "TCP") \/ r0 = No(g, e, "TCP")
        <4>1. g0 = g /\ hold[t] = e /\ ProtoOf(g0, t.pass) = "TCP"
          BY <1>7, <3>1
        <4>2. t.pass = "retry"
          BY <1>3, <4>1, ProtoFacts DEF TestPasses
        <4>3. hold[t] # NoEntry
          BY <1>3, NoEntryAssumption
        <4> QED BY <1>2, <4>1, <4>2, <4>3 DEF OnceInv, RetryInv, g0
      <3>2. CASE r0 # Yes(g, e, "TCP") /\ r0 # No(g, e, "TCP")
        <4>1. Out(Yes(g, e, "TCP")) > 0 \/ Out(No(g, e, "TCP")) > 0
          BY <1>4, <2>1, <3>2, RowFacts DEF Protos
        <4> QED BY <4>1 DEF OnceInv, RetryInv
      <3> QED BY <3>1, <3>2
    <2> QED BY <1>8, <1>9, <2>1 DEF OnceInv, RetryInv
  <1>18. ModeInv'
    <2> SUFFICES ASSUME NEW r \in Rows, Out(r)' > 0
                 PROVE  r.proto = ProtoOf(r.scan, "first") \/ mode[r.scan] = "Hybrid"
      BY <1>1, <1>5 DEF ModeInv
    <2>1. CASE r = r0
      <3>1. CASE t.pass = "first"
        BY <1>6, <2>1, <3>1
      <3>2. CASE t.pass = "retry"
        BY <1>1, <1>2, <1>3, <1>6, <2>1, <3>2 DEF OnceInv, HybridInv, g0
      <3> QED BY <1>3, <3>1, <3>2 DEF TestPasses
    <2>2. CASE r # r0
      BY <1>4, <2>2 DEF OnceInv, ModeInv
    <2> QED BY <2>1, <2>2
  <1> QED BY <1>10, <1>11, <1>12, <1>13, <1>14, <1>15, <1>16, <1>17, <1>18 DEF OnceInv

\* A test that ends keeps its address; a failure in hybrid mode is noted.
LEMMA OnceTest ==
  ASSUME TypeInv, OnceInv, NEW t \in Tasks, TestReturns(t)
  PROVE  OnceInv'
  <1> DEFINE g0 == t.scan  e0 == hold[t]
  <1>1. /\ pc[t] = "probe" /\ pc'[t] \in {"won", "lost"} /\ UNCHANGED <<job, mode, queue, hold>>
        /\ \A u \in Tasks : u # t => pc'[u] = pc[u]
        /\ t \in TestTasks
        /\ pc \in [Tasks -> PcStates] /\ h3Fail \in [Scans -> SUBSET Entries]
    BY DEF TestReturns, jobVars, TypeInv, TypeOK, PoolTypes, DataTypes, TestTasks
  <1>2. /\ g0 \in Scans /\ t.pass \in TestPasses /\ ProtoOf(g0, t.pass) \in Protos
        /\ e0 \in Entries
    BY <1>1, TestTaskFacts DEF TypeInv, HoldsEntry
  <1>3. \A r \in Rows : Out(r)' = Out(r)
    BY OutSame DEF TestReturns, uiVars
  <1>4. \A g, q : ProtoOf(g, q)' = ProtoOf(g, q)
    BY <1>1 DEF ProtoOf
  <1>5. \/ UNCHANGED h3Fail
        \/ /\ pc'[t] = "lost" /\ mode[g0] = "Hybrid" /\ t.pass = "first"
           /\ h3Fail' = [h3Fail EXCEPT ![g0] = @ \cup {e0}]
    BY <1>1 DEF TestReturns, NotesFailure
  <1>6. \A g \in Scans : h3Fail[g] \subseteq h3Fail'[g]
    BY <1>1, <1>2, <1>5
  <1>7. \A g \in Scans : g # g0 => h3Fail'[g] = h3Fail[g]
    BY <1>1, <1>2, <1>5
  <1>8. \A u \in TestTasks : u \in Tasks /\ (u # t => pc'[u] = pc[u])
    BY <1>1 DEF TestTasks
  <1> HIDE DEF g0, e0
  <1>9. HandInv'
    BY <1>1, <1>8 DEF OnceInv, HandInv, HasEntry
  <1>10. EarlyInv'
    <2> SUFFICES ASSUME NEW g \in Scans, job[g] \in EarlyJobs
                 PROVE  /\ queue[g]["first"] = {} /\ h3Fail'[g] = {}
                        /\ \A u \in TestTasks : u.scan = g => pc'[u] = "none"
                        /\ \A r \in Rows : r.scan = g => Out(r)' = 0
      BY <1>1 DEF EarlyInv
    <2>1. g # g0
      BY <1>1 DEF OnceInv, EarlyInv, g0
    <2> QED BY <1>3, <1>7, <1>8, <2>1 DEF OnceInv, EarlyInv, g0
  <1>11. FirstInv'
    <2> SUFFICES ASSUME NEW g \in Scans, job[g] \in EarlyJobs \cup {"first", "tested"}
                 PROVE  /\ queue[g]["retry"] = {}
                        /\ \A u \in TestTasks : u.scan = g /\ u.pass = "retry" => pc'[u] = "none"
                        /\ \A r \in Rows : r.scan = g /\ r.proto # ProtoOf(g, "first") => Out(r)' = 0
      BY <1>1, <1>4 DEF FirstInv
    <2>1. g0 = g => t.pass = "first"
      BY <1>1, <1>2 DEF OnceInv, FirstInv, g0, TestPasses
    <2>2. \A u \in TestTasks : u.scan = g /\ u.pass = "retry" => u # t
      BY <2>1 DEF g0
    <2> QED BY <1>3, <1>8, <2>2 DEF OnceInv, FirstInv
  <1>12. HybridInv'
    <2> SUFFICES ASSUME NEW g \in Scans
                 PROVE  /\ job[g] \in {"tested", "retry"} \/ queue[g]["retry"] # {} \/ h3Fail'[g] # {} => mode[g] = "Hybrid"
                        /\ \A u \in TestTasks : u.scan = g /\ u.pass = "retry" /\ pc'[u] # "none" => mode[g] = "Hybrid"
      BY <1>1 DEF HybridInv
    <2>1. h3Fail'[g] # {} => mode[g] = "Hybrid"
      BY <1>5, <1>7 DEF OnceInv, HybridInv
    <2> QED BY <1>1, <1>8, <2>1 DEF OnceInv, HybridInv
  <1>13. QueuedInv'
    <2> SUFFICES ASSUME NEW g \in Scans, NEW q \in TestPasses, NEW e \in queue[g][q]
                 PROVE  Untested(g, e, ProtoOf(g, q))'
      BY <1>1 DEF QueuedInv
    <2>1. e \in Entries /\ ProtoOf(g, q) \in Protos
      BY DEF TypeInv, TypeOK, DataTypes, TestPasses, Passes, ProtoOf, Protos
    <2>2. PICK k \in Protos : k = ProtoOf(g, q)
      BY <2>1
    <2>3. Untested(g, e, k)
      BY <2>2 DEF OnceInv, QueuedInv
    <2>4. Untested(g, e, k)'
      BY <1>1, <1>3, <1>4, <2>1, <2>3, RowFacts DEF Untested
    <2> QED BY <1>4, <2>2, <2>4
  <1>14. SingleInv'
    <2> SUFFICES ASSUME NEW g \in Scans, NEW e \in Entries, NEW k \in Protos PROVE Single(g, e, k)'
      BY DEF SingleInv
    <2>1. HeldFor(g, e, k)' = HeldFor(g, e, k)
      BY <1>1, <1>4 DEF HeldFor
    <2>2. Out(Yes(g, e, k))' = Out(Yes(g, e, k)) /\ Out(No(g, e, k))' = Out(No(g, e, k))
      BY <1>3, RowFacts
    <2>3. Single(g, e, k)
      BY DEF OnceInv, SingleInv
    <2> QED BY <2>1, <2>2, <2>3 DEF Single
  <1>15. FailInv'
    <2> SUFFICES ASSUME NEW g \in Scans, NEW e \in h3Fail'[g]
                 PROVE  /\ e \notin queue[g]["first"] /\ Out(Yes(g, e, "H3"))' = 0
                        /\ \A u \in TestTasks : u.scan = g /\ u.pass = "first" /\ hold[u] = e => pc'[u] = "lost"
      BY <1>1 DEF FailInv
    <2>1. CASE e \in h3Fail[g]
      <3>1. e \in Entries
        BY <1>1, <2>1
      <3>2. /\ e \notin queue[g]["first"] /\ Out(Yes(g, e, "H3")) = 0
            /\ \A u \in TestTasks : u.scan = g /\ u.pass = "first" /\ hold[u] = e => pc[u] = "lost"
        BY <2>1 DEF OnceInv, FailInv
      <3>3. Out(Yes(g, e, "H3"))' = 0
        BY <1>3, <3>1, <3>2, RowFacts DEF Protos
      <3> QED BY <1>1, <1>8, <3>2, <3>3
    <2>2. CASE e \notin h3Fail[g]
      <3>1. /\ g = g0 /\ e = e0 /\ pc'[t] = "lost" /\ mode[g] = "Hybrid" /\ t.pass = "first"
        BY <1>1, <1>2, <1>5, <2>2
      <3>2. ProtoOf(g, "first") = "H3" /\ "H3" \in Protos
        BY <3>1, ProtoFacts DEF Protos
      <3>3. t \in HeldFor(g, e, "H3")
        BY <1>1, <3>1, <3>2, TestTaskFacts DEF HeldFor, g0, e0, TestTasks
      <3>4. Single(g, e, "H3")
        BY <1>2, <3>1, <3>2 DEF OnceInv, SingleInv
      <3>5. Out(Yes(g, e, "H3"))' = 0
        BY <1>2, <1>3, <3>1, <3>2, <3>3, <3>4, RowFacts DEF Single
      <3>6. e \notin queue[g]["first"]
        <4>1. ~Untested(g, e, ProtoOf(g, "first"))
          BY <1>1, <3>1, <3>2 DEF Untested, g0, e0
        <4> QED BY <4>1 DEF OnceInv, QueuedInv, TestPasses
      <3>7. ASSUME NEW u \in TestTasks, u.scan = g, u.pass = "first", hold[u] = e PROVE pc'[u] = "lost"
        <4>1. u \in HeldFor(g, e, "H3")
          BY <3>2, <3>7 DEF HeldFor, TestTasks
        <4>2. u = t
          BY <3>3, <3>4, <4>1 DEF Single
        <4> QED BY <3>1, <4>2
      <3> QED BY <3>5, <3>6, <3>7
    <2> QED BY <2>1, <2>2
  <1>16. RetryInv'
    <2> SUFFICES ASSUME NEW g \in Scans, mode[g] = "Hybrid"
                 PROVE  /\ queue[g]["retry"] \subseteq h3Fail'[g]
                        /\ \A u \in TestTasks : u.scan = g /\ u.pass = "retry" /\ hold[u] # NoEntry => hold[u] \in h3Fail'[g]
                        /\ \A e \in Entries : Out(Yes(g, e, "TCP"))' > 0 \/ Out(No(g, e, "TCP"))' > 0 => e \in h3Fail'[g]
      BY <1>1 DEF RetryInv
    <2>1. ASSUME NEW e \in Entries
          PROVE  Out(Yes(g, e, "TCP"))' = Out(Yes(g, e, "TCP")) /\ Out(No(g, e, "TCP"))' = Out(No(g, e, "TCP"))
      BY <1>3, RowFacts DEF Protos
    <2> QED BY <1>6, <2>1 DEF OnceInv, RetryInv
  <1>17. ModeInv'
    BY <1>1, <1>3, <1>4 DEF OnceInv, ModeInv
  <1> QED BY <1>9, <1>10, <1>11, <1>12, <1>13, <1>14, <1>15, <1>16, <1>17 DEF OnceInv

\* A poll moves an address from the queue to one hand.
LEMMA OncePoll ==
  ASSUME TypeInv, OnceInv, NEW t \in TestTasks, NEW e0 \in queue[t.scan][t.pass], pc[t] = "poll",
         queue' = [queue EXCEPT ![t.scan][t.pass] = @ \ {e0}],
         hold' = [hold EXCEPT ![t] = e0], pc' = [pc EXCEPT ![t] = "probe"],
         UNCHANGED <<job, mode, h3Fail, results, looper>>
  PROVE  OnceInv'
  <1> DEFINE g0 == t.scan  p0 == t.pass
  <1>1. /\ t \in Tasks /\ g0 \in Scans /\ p0 \in TestPasses /\ p0 \in Passes /\ ProtoOf(g0, p0) \in Protos
        /\ pc \in [Tasks -> PcStates] /\ hold \in [Tasks -> Entries \cup {NoEntry}]
        /\ queue \in [Scans -> [Passes -> SUBSET Entries]]
    BY TestTaskFacts DEF TypeInv, TypeOK, PoolTypes, DataTypes, TestPasses, Passes
  <1>2. e0 \in Entries /\ e0 # NoEntry
    BY <1>1, NoEntryAssumption
  <1>3. \A r \in Rows : Out(r)' = Out(r)
    BY OutSame
  <1>4. \A g, q : ProtoOf(g, q)' = ProtoOf(g, q)
    BY DEF ProtoOf
  <1>5. /\ \A u \in TestTasks : u \in Tasks /\ (u # t => pc'[u] = pc[u] /\ hold'[u] = hold[u])
        /\ \A u \in Tasks \ TestTasks : pc'[u] = pc[u]
        /\ pc'[t] = "probe" /\ hold'[t] = e0 /\ hold[t] = NoEntry
    BY <1>1 DEF TestTasks, OnceInv, HandInv, HasEntry
  <1>6. /\ \A g \in Scans, q \in Passes : queue'[g][q] \subseteq queue[g][q]
        /\ e0 \notin queue'[g0][p0] /\ e0 \in queue[g0][p0]
    BY <1>1
  <1>7. Untested(g0, e0, ProtoOf(g0, p0))
    BY <1>1, <1>6 DEF OnceInv, QueuedInv
  <1>8. "first" \in TestPasses /\ "retry" \in TestPasses /\ "first" \in Passes /\ "retry" \in Passes
    BY DEF TestPasses, Passes
  <1> HIDE DEF g0, p0
  <1>9. HandInv'
    BY <1>5 DEF OnceInv, HandInv, HasEntry
  <1>10. EarlyInv'
    <2> SUFFICES ASSUME NEW g \in Scans, job[g] \in EarlyJobs
                 PROVE  /\ queue'[g]["first"] = {} /\ h3Fail[g] = {}
                        /\ \A u \in TestTasks : u.scan = g => pc'[u] = "none"
                        /\ \A r \in Rows : r.scan = g => Out(r)' = 0
      BY DEF EarlyInv
    <2>1. g # g0
      BY DEF OnceInv, EarlyInv, g0
    <2>2. queue'[g]["first"] = {}
      BY <1>6, <1>8 DEF OnceInv, EarlyInv
    <2> QED BY <1>3, <1>5, <2>1, <2>2 DEF OnceInv, EarlyInv, g0
  <1>11. FirstInv'
    <2> SUFFICES ASSUME NEW g \in Scans, job[g] \in EarlyJobs \cup {"first", "tested"}
                 PROVE  /\ queue'[g]["retry"] = {}
                        /\ \A u \in TestTasks : u.scan = g /\ u.pass = "retry" => pc'[u] = "none"
                        /\ \A r \in Rows : r.scan = g /\ r.proto # ProtoOf(g, "first") => Out(r)' = 0
      BY <1>4 DEF FirstInv
    <2>1. \A u \in TestTasks : u.scan = g /\ u.pass = "retry" => u # t
      BY DEF OnceInv, FirstInv
    <2>2. queue'[g]["retry"] = {}
      BY <1>6, <1>8 DEF OnceInv, FirstInv
    <2> QED BY <1>3, <1>5, <2>1, <2>2 DEF OnceInv, FirstInv
  <1>12. HybridInv'
    <2>1. \A g \in Scans : queue'[g]["retry"] # {} => queue[g]["retry"] # {}
      BY <1>6, <1>8
    <2> QED BY <1>5, <2>1 DEF OnceInv, HybridInv
  <1>13. QueuedInv'
    <2> SUFFICES ASSUME NEW g \in Scans, NEW q \in TestPasses, NEW e \in queue'[g][q]
                 PROVE  Untested(g, e, ProtoOf(g, q))'
      BY DEF QueuedInv
    <2>1. q \in Passes /\ e \in queue[g][q] /\ e \in Entries /\ ProtoOf(g, q) \in Protos
      BY <1>1, <1>6 DEF TestPasses, Passes, ProtoOf, Protos
    <2>2. PICK k \in Protos : k = ProtoOf(g, q)
      BY <2>1
    <2>3. Untested(g, e, k)
      BY <2>1, <2>2 DEF OnceInv, QueuedInv
    <2>4. ~(g0 = g /\ ProtoOf(g, p0) = k /\ e0 = e)
      <3> SUFFICES ASSUME g0 = g, ProtoOf(g, p0) = k, e0 = e PROVE FALSE
        OBVIOUS
      <3>1. p0 # q
        BY <1>6
      <3>2. mode[g] = "Hybrid"
        <4>1. CASE p0 = "retry"
          BY <4>1 DEF OnceInv, HybridInv, g0, p0
        <4>2. CASE q = "retry"
          BY <2>1, <4>2 DEF OnceInv, HybridInv
        <4> QED BY <1>1, <3>1, <4>1, <4>2 DEF TestPasses
      <3>3. ProtoOf(g, "first") # ProtoOf(g, "retry")
        BY <3>2, ProtoFacts
      <3> QED BY <1>1, <2>2, <3>1, <3>3 DEF TestPasses
    <2>5. Out(Yes(g, e, k))' = 0 /\ Out(No(g, e, k))' = 0
      BY <1>3, <2>1, <2>3, RowFacts DEF Untested
    <2>6. ASSUME NEW u \in TestTasks, u.scan = g, ProtoOf(g, u.pass) = k PROVE hold'[u] # e
      <3>1. CASE u = t
        BY <1>5, <2>4, <2>6, <3>1 DEF g0, p0
      <3>2. CASE u # t
        BY <1>5, <2>3, <2>6, <3>2 DEF Untested
      <3> QED BY <3>1, <3>2
    <2>7. Untested(g, e, k)'
      BY <1>4, <2>5, <2>6 DEF Untested
    <2> QED BY <1>4, <2>2, <2>7
  <1>14. SingleInv'
    <2> SUFFICES ASSUME NEW g \in Scans, NEW e \in Entries, NEW k \in Protos PROVE Single(g, e, k)'
      BY DEF SingleInv
    <2>1. Out(Yes(g, e, k))' = Out(Yes(g, e, k)) /\ Out(No(g, e, k))' = Out(No(g, e, k))
      BY <1>3, RowFacts
    <2>2. Single(g, e, k)
      BY DEF OnceInv, SingleInv
    <2>3. t \notin HeldFor(g, e, k)
      BY <1>5, NoEntryAssumption DEF HeldFor
    <2>4. CASE g = g0 /\ e = e0 /\ k = ProtoOf(g0, p0)
      <3>1. HeldFor(g, e, k) = {}
        BY <1>7, <2>4 DEF Untested, HeldFor, TestTasks
      <3>2. HeldFor(g, e, k)' \subseteq {t}
        BY <1>4, <1>5, <3>1 DEF HeldFor, TestTasks
      <3>3. Out(Yes(g, e, k)) = 0 /\ Out(No(g, e, k)) = 0
        BY <1>7, <2>4 DEF Untested
      <3>4. Out(Yes(g, e, k))' = 0 /\ Out(No(g, e, k))' = 0
        BY <2>1, <3>3
      <3>5. Out(Yes(g, e, k))' + Out(No(g, e, k))' <= 1
        BY <2>1, <2>2 DEF Single
      <3> QED BY <3>2, <3>4, <3>5 DEF Single
    <2>5. CASE ~(g = g0 /\ e = e0 /\ k = ProtoOf(g0, p0))
      <3>1. HeldFor(g, e, k)' = HeldFor(g, e, k)
        BY <1>4, <1>5, <2>3, <2>5 DEF HeldFor, TestTasks, g0, p0
      <3> QED BY <2>1, <2>2, <3>1 DEF Single
    <2> QED BY <2>4, <2>5
  <1>15. FailInv'
    <2> SUFFICES ASSUME NEW g \in Scans, NEW e \in h3Fail[g]
                 PROVE  /\ e \notin queue'[g]["first"] /\ Out(Yes(g, e, "H3"))' = 0
                        /\ \A u \in TestTasks : u.scan = g /\ u.pass = "first" /\ hold'[u] = e => pc'[u] = "lost"
      BY DEF FailInv
    <2>1. /\ e \notin queue[g]["first"] /\ Out(Yes(g, e, "H3")) = 0
          /\ \A u \in TestTasks : u.scan = g /\ u.pass = "first" /\ hold[u] = e => pc[u] = "lost"
      BY DEF OnceInv, FailInv
    <2>2. e \in Entries
      BY DEF TypeInv, TypeOK, DataTypes
    <2>3. Out(Yes(g, e, "H3"))' = 0
      BY <1>3, <2>1, <2>2, RowFacts DEF Protos
    <2>4. ASSUME NEW u \in TestTasks, u.scan = g, u.pass = "first", hold'[u] = e PROVE pc'[u] = "lost"
      <3>1. u # t
        BY <1>5, <1>6, <2>1, <2>4 DEF g0, p0
      <3> QED BY <1>5, <2>1, <2>4, <3>1
    <2> QED BY <1>6, <1>8, <2>1, <2>3, <2>4
  <1>16. RetryInv'
    <2> SUFFICES ASSUME NEW g \in Scans, mode[g] = "Hybrid"
                 PROVE  /\ queue'[g]["retry"] \subseteq h3Fail[g]
                        /\ \A u \in TestTasks : u.scan = g /\ u.pass = "retry" /\ hold'[u] # NoEntry => hold'[u] \in h3Fail[g]
                        /\ \A e \in Entries : Out(Yes(g, e, "TCP"))' > 0 \/ Out(No(g, e, "TCP"))' > 0 => e \in h3Fail[g]
      BY DEF RetryInv
    <2>1. /\ queue[g]["retry"] \subseteq h3Fail[g]
          /\ \A u \in TestTasks : u.scan = g /\ u.pass = "retry" /\ hold[u] # NoEntry => hold[u] \in h3Fail[g]
          /\ \A e \in Entries : Out(Yes(g, e, "TCP")) > 0 \/ Out(No(g, e, "TCP")) > 0 => e \in h3Fail[g]
      BY DEF OnceInv, RetryInv
    <2>2. ASSUME NEW e \in Entries
          PROVE  Out(Yes(g, e, "TCP"))' = Out(Yes(g, e, "TCP")) /\ Out(No(g, e, "TCP"))' = Out(No(g, e, "TCP"))
      BY <1>3, RowFacts DEF Protos
    <2>3. ASSUME NEW u \in TestTasks, u.scan = g, u.pass = "retry", hold'[u] # NoEntry
          PROVE  hold'[u] \in h3Fail[g]
      BY <1>5, <1>6, <2>1, <2>3 DEF g0, p0
    <2> QED BY <1>6, <1>8, <2>1, <2>2, <2>3
  <1>17. ModeInv'
    BY <1>3, <1>4 DEF OnceInv, ModeInv
  <1> QED BY <1>9, <1>10, <1>11, <1>12, <1>13, <1>14, <1>15, <1>16, <1>17 DEF OnceInv

\* The first pass begins where nothing was tested, in whatever mode.
LEMMA OnceBegin ==
  ASSUME TypeInv, OnceInv, NEW g0 \in Scans, NEW m \in Modes, NEW j \in {"closing", "first"},
         job[g0] = "pinged", mode' = [mode EXCEPT ![g0] = m], job' = [job EXCEPT ![g0] = j],
         queue' = [queue EXCEPT ![g0]["first"] = alive[g0]],
         UNCHANGED <<h3Fail, pc, hold, results, looper>>
  PROVE  OnceInv'
  <1>1. /\ queue \in [Scans -> [Passes -> SUBSET Entries]] /\ alive[g0] \subseteq Entries
        /\ job \in [Scans -> JobStates] /\ mode \in [Scans -> Modes]
        /\ h3Fail \in [Scans -> SUBSET Entries]
    BY DEF TypeInv, TypeOK, DataTypes, JobTypes
  <1>2. \A r \in Rows : Out(r)' = Out(r)
    BY OutSame
  <1>3. /\ h3Fail[g0] = {} /\ queue[g0]["retry"] = {}
        /\ \A t \in TestTasks : t.scan = g0 => pc[t] = "none" /\ hold[t] = NoEntry
        /\ \A r \in Rows : r.scan = g0 => Out(r) = 0
    BY DEF OnceInv, EarlyInv, FirstInv, HandInv, EarlyJobs, HasEntry
  <1>4. \A g \in Scans \ {g0} : /\ job'[g] = job[g] /\ mode'[g] = mode[g] /\ queue'[g] = queue[g]
                                /\ \A q : ProtoOf(g, q)' = ProtoOf(g, q)
    BY <1>1 DEF ProtoOf
  <1>5. /\ queue'[g0]["first"] = alive[g0] /\ queue'[g0]["retry"] = {}
        /\ job'[g0] = j /\ mode'[g0] = m
    BY <1>1, <1>3 DEF Passes
  <1>6. \A r \in Rows : r.scan \in Scans
    BY DEF Rows
  <1>7. HandInv'
    BY DEF OnceInv, HandInv
  <1>8. EarlyInv'
    <2> SUFFICES ASSUME NEW g \in Scans, job'[g] \in EarlyJobs
                 PROVE  /\ queue'[g]["first"] = {} /\ h3Fail[g] = {}
                        /\ \A u \in TestTasks : u.scan = g => pc[u] = "none"
                        /\ \A r \in Rows : r.scan = g => Out(r)' = 0
      BY DEF EarlyInv
    <2>1. g # g0
      BY <1>5 DEF EarlyJobs
    <2> QED BY <1>2, <1>4, <2>1 DEF OnceInv, EarlyInv
  <1>9. FirstInv'
    <2> SUFFICES ASSUME NEW g \in Scans, job'[g] \in EarlyJobs \cup {"first", "tested"}
                 PROVE  /\ queue'[g]["retry"] = {}
                        /\ \A u \in TestTasks : u.scan = g /\ u.pass = "retry" => pc[u] = "none"
                        /\ \A r \in Rows : r.scan = g /\ r.proto # ProtoOf(g, "first")' => Out(r)' = 0
      BY DEF FirstInv
    <2>1. CASE g = g0
      BY <1>2, <1>3, <1>5, <2>1
    <2>2. CASE g # g0
      BY <1>2, <1>4, <2>2 DEF OnceInv, FirstInv
    <2> QED BY <2>1, <2>2
  <1>10. HybridInv'
    <2> SUFFICES ASSUME NEW g \in Scans
                 PROVE  /\ job'[g] \in {"tested", "retry"} \/ queue'[g]["retry"] # {} \/ h3Fail[g] # {} => mode'[g] = "Hybrid"
                        /\ \A u \in TestTasks : u.scan = g /\ u.pass = "retry" /\ pc[u] # "none" => mode'[g] = "Hybrid"
      BY DEF HybridInv
    <2>1. CASE g = g0
      BY <1>3, <1>5, <2>1
    <2>2. CASE g # g0
      BY <1>4, <2>2 DEF OnceInv, HybridInv
    <2> QED BY <2>1, <2>2
  <1>11. QueuedInv'
    <2> SUFFICES ASSUME NEW g \in Scans, NEW q \in TestPasses, NEW e \in queue'[g][q]
                 PROVE  Untested(g, e, ProtoOf(g, q))'
      BY DEF QueuedInv
    <2>1. e \in Entries /\ ProtoOf(g, q)' \in Protos /\ e # NoEntry
      <3>1. e \in Entries
        BY <1>1, <1>4, <1>5 DEF TestPasses, Passes
      <3>2. ProtoOf(g, q)' \in Protos
        BY DEF ProtoOf, Protos
      <3> QED BY <3>1, <3>2, NoEntryAssumption
    <2>2. PICK k \in Protos : k = ProtoOf(g, q)'
      BY <2>1
    <2>3. CASE g = g0
      <3>1. Out(Yes(g, e, k))' = 0 /\ Out(No(g, e, k))' = 0
        BY <1>2, <1>3, <2>1, <2>3, RowFacts
      <3>2. Untested(g, e, k)'
        BY <1>3, <2>1, <2>3, <3>1 DEF Untested
      <3> QED BY <2>2, <3>2
    <2>4. CASE g # g0
      <3>1. e \in queue[g][q] /\ k = ProtoOf(g, q)
        BY <1>4, <2>2, <2>4
      <3>2. Untested(g, e, k)
        BY <3>1 DEF OnceInv, QueuedInv
      <3>3. Out(Yes(g, e, k))' = 0 /\ Out(No(g, e, k))' = 0
        BY <1>2, <2>1, <3>2, RowFacts DEF Untested
      <3>4. Untested(g, e, k)'
        BY <1>4, <2>4, <3>2, <3>3 DEF Untested
      <3> QED BY <2>2, <3>4
    <2> QED BY <2>3, <2>4
  <1>12. SingleInv'
    <2> SUFFICES ASSUME NEW g \in Scans, NEW e \in Entries, NEW k \in Protos PROVE Single(g, e, k)'
      BY DEF SingleInv
    <2>1. Out(Yes(g, e, k))' = Out(Yes(g, e, k)) /\ Out(No(g, e, k))' = Out(No(g, e, k))
      BY <1>2, RowFacts
    <2>2. Single(g, e, k)
      BY DEF OnceInv, SingleInv
    <2>3. CASE g = g0
      <3>1. HeldFor(g, e, k)' = {}
        BY <1>3, <2>3, NoEntryAssumption DEF HeldFor, TestTasks
      <3>2. Out(Yes(g, e, k))' + Out(No(g, e, k))' <= 1
        BY <2>1, <2>2 DEF Single
      <3> QED BY <3>1, <3>2 DEF Single
    <2>4. CASE g # g0
      <3>1. HeldFor(g, e, k)' = HeldFor(g, e, k)
        BY <1>4, <2>4 DEF HeldFor
      <3> QED BY <2>1, <2>2, <3>1 DEF Single
    <2> QED BY <2>3, <2>4
  <1>13. FailInv'
    <2> SUFFICES ASSUME NEW g \in Scans, NEW e \in h3Fail[g]
                 PROVE  /\ e \notin queue'[g]["first"] /\ Out(Yes(g, e, "H3"))' = 0
                        /\ \A u \in TestTasks : u.scan = g /\ u.pass = "first" /\ hold[u] = e => pc[u] = "lost"
      BY DEF FailInv
    <2>1. g # g0 /\ e \in Entries
      BY <1>1, <1>3
    <2>2. /\ e \notin queue[g]["first"] /\ Out(Yes(g, e, "H3")) = 0
          /\ \A u \in TestTasks : u.scan = g /\ u.pass = "first" /\ hold[u] = e => pc[u] = "lost"
      BY DEF OnceInv, FailInv
    <2>3. Out(Yes(g, e, "H3"))' = 0
      BY <1>2, <2>1, <2>2, RowFacts DEF Protos
    <2> QED BY <1>4, <2>1, <2>2, <2>3
  <1>14. RetryInv'
    <2> SUFFICES ASSUME NEW g \in Scans, mode'[g] = "Hybrid"
                 PROVE  /\ queue'[g]["retry"] \subseteq h3Fail[g]
                        /\ \A u \in TestTasks : u.scan = g /\ u.pass = "retry" /\ hold[u] # NoEntry => hold[u] \in h3Fail[g]
                        /\ \A e \in Entries : Out(Yes(g, e, "TCP"))' > 0 \/ Out(No(g, e, "TCP"))' > 0 => e \in h3Fail[g]
      BY DEF RetryInv
    <2>1. ASSUME NEW e \in Entries
          PROVE  Out(Yes(g, e, "TCP"))' = Out(Yes(g, e, "TCP")) /\ Out(No(g, e, "TCP"))' = Out(No(g, e, "TCP"))
      BY <1>2, RowFacts DEF Protos
    <2>2. CASE g = g0
      <3>1. ASSUME NEW e \in Entries PROVE ~(Out(Yes(g, e, "TCP"))' > 0 \/ Out(No(g, e, "TCP"))' > 0)
        <4>1. Out(Yes(g, e, "TCP")) = 0 /\ Out(No(g, e, "TCP")) = 0
          BY <1>3, <2>2, RowFacts DEF Protos
        <4>2. Out(Yes(g, e, "TCP"))' = 0 /\ Out(No(g, e, "TCP"))' = 0
          BY <2>1, <4>1
        <4> QED BY <4>2
      <3> QED BY <1>3, <1>5, <2>2, <3>1
    <2>3. CASE g # g0
      BY <1>4, <2>1, <2>3 DEF OnceInv, RetryInv
    <2> QED BY <2>2, <2>3
  <1>15. ModeInv'
    <2> SUFFICES ASSUME NEW r \in Rows, Out(r)' > 0
                 PROVE  r.proto = ProtoOf(r.scan, "first")' \/ mode'[r.scan] = "Hybrid"
      BY DEF ModeInv
    <2>1. Out(r) > 0
      BY <1>2
    <2>2. r.scan # g0
      <3> SUFFICES ASSUME r.scan = g0 PROVE FALSE
        OBVIOUS
      <3>1. Out(r) = 0
        BY <1>3
      <3> QED BY <2>1, <3>1
    <2>3. r.scan \in Scans \ {g0}
      BY <1>6, <2>2
    <2> QED BY <1>4, <2>1, <2>3 DEF OnceInv, ModeInv
  <1> QED BY <1>7, <1>8, <1>9, <1>10, <1>11, <1>12, <1>13, <1>14, <1>15 DEF OnceInv

\* The second pass begins with the noted failures, which TCP has not tested.
LEMMA OnceAgain ==
  ASSUME TypeInv, OnceInv, NEW g0 \in Scans, NEW j \in {"closing", "retry"}, job[g0] = "tested", mode[g0] = "Hybrid",
         job' = [job EXCEPT ![g0] = j],
         queue' = [queue EXCEPT ![g0]["retry"] = h3Fail[g0]],
         UNCHANGED <<mode, h3Fail, pc, hold, results, looper>>
  PROVE  OnceInv'
  <1>1. /\ queue \in [Scans -> [Passes -> SUBSET Entries]]
        /\ job \in [Scans -> JobStates] /\ h3Fail \in [Scans -> SUBSET Entries]
    BY DEF TypeInv, TypeOK, DataTypes, JobTypes
  <1>2. \A r \in Rows : Out(r)' = Out(r)
    BY OutSame
  <1>3. \A g, q : ProtoOf(g, q)' = ProtoOf(g, q)
    BY DEF ProtoOf
  <1>4. /\ \A g \in Scans \ {g0} : job'[g] = job[g] /\ queue'[g] = queue[g]
        /\ \A g \in Scans : queue'[g]["first"] = queue[g]["first"]
        /\ queue'[g0]["retry"] = h3Fail[g0] /\ job'[g0] = j
    BY <1>1 DEF Passes
  <1>5. HandInv' /\ SingleInv'
    <2>1. HandInv'
      BY DEF OnceInv, HandInv
    <2>2. ASSUME NEW g \in Scans, NEW e \in Entries, NEW k \in Protos PROVE Single(g, e, k)'
      <3>1. Out(Yes(g, e, k))' = Out(Yes(g, e, k)) /\ Out(No(g, e, k))' = Out(No(g, e, k))
        BY <1>2, RowFacts
      <3>2. Single(g, e, k)
        BY DEF OnceInv, SingleInv
      <3>3. HeldFor(g, e, k)' = HeldFor(g, e, k)
        BY <1>3 DEF HeldFor
      <3> QED BY <3>1, <3>2, <3>3 DEF Single
    <2> QED BY <2>1, <2>2 DEF SingleInv
  <1>6. EarlyInv'
    BY <1>2, <1>4 DEF OnceInv, EarlyInv, EarlyJobs
  <1>7. FirstInv'
    BY <1>2, <1>3, <1>4 DEF OnceInv, FirstInv, EarlyJobs
  <1>8. HybridInv'
    BY <1>4 DEF OnceInv, HybridInv
  <1>9. QueuedInv'
    <2> SUFFICES ASSUME NEW g \in Scans, NEW q \in TestPasses, NEW e \in queue'[g][q]
                 PROVE  Untested(g, e, ProtoOf(g, q))'
      BY DEF QueuedInv
    <2>1. e \in Entries /\ ProtoOf(g, q) \in Protos /\ e # NoEntry
      <3>1. e \in Entries
        BY <1>1, <1>4 DEF TestPasses, Passes
      <3>2. ProtoOf(g, q) \in Protos
        BY DEF ProtoOf, Protos
      <3> QED BY <3>1, <3>2, NoEntryAssumption
    <2>2. PICK k \in Protos : k = ProtoOf(g, q)
      BY <2>1
    <2>3. Untested(g, e, k)
      <3>1. CASE g = g0 /\ q = "retry"
        <4>1. k = "TCP" /\ ProtoOf(g, "first") = "H3"
          BY <2>2, <3>1, ProtoFacts
        <4>2. Out(Yes(g, e, k)) = 0 /\ Out(No(g, e, k)) = 0
          BY <2>1, <3>1, <4>1, RowFacts DEF OnceInv, FirstInv
        <4>3. ASSUME NEW u \in TestTasks, u.scan = g, ProtoOf(g, u.pass) = k PROVE hold[u] # e
          <5>1. u.pass = "retry"
            BY <4>1, <4>3, TestTaskFacts DEF TestPasses
          <5>2. pc[u] = "none"
            BY <3>1, <4>3, <5>1 DEF OnceInv, FirstInv
          <5> QED BY <2>1, <5>2 DEF OnceInv, HandInv, HasEntry
        <4> QED BY <4>2, <4>3 DEF Untested
      <3>2. CASE ~(g = g0 /\ q = "retry")
        <4>1. e \in queue[g][q]
          BY <1>4, <3>2 DEF TestPasses
        <4> QED BY <2>2, <4>1 DEF OnceInv, QueuedInv
      <3> QED BY <3>1, <3>2
    <2>4. Out(Yes(g, e, k))' = 0 /\ Out(No(g, e, k))' = 0
      BY <1>2, <2>1, <2>3, RowFacts DEF Untested
    <2>5. Untested(g, e, k)'
      BY <1>3, <2>3, <2>4 DEF Untested
    <2> QED BY <1>3, <2>2, <2>5
  <1>10. FailInv'
    <2> SUFFICES ASSUME NEW g \in Scans, NEW e \in h3Fail[g] PROVE Out(Yes(g, e, "H3"))' = 0
      BY <1>4 DEF OnceInv, FailInv
    <2>1. e \in Entries /\ Out(Yes(g, e, "H3")) = 0
      BY <1>1 DEF OnceInv, FailInv
    <2> QED BY <1>2, <2>1, RowFacts DEF Protos
  <1>11. RetryInv'
    <2>1. ASSUME NEW g \in Scans, NEW e \in Entries
          PROVE  Out(Yes(g, e, "TCP"))' = Out(Yes(g, e, "TCP")) /\ Out(No(g, e, "TCP"))' = Out(No(g, e, "TCP"))
      BY <1>2, RowFacts DEF Protos
    <2>2. \A g \in Scans : mode[g] = "Hybrid" => queue'[g]["retry"] \subseteq h3Fail[g]
      BY <1>4 DEF OnceInv, RetryInv
    <2> QED BY <2>1, <2>2 DEF OnceInv, RetryInv
  <1>12. ModeInv'
    BY <1>2, <1>3 DEF OnceInv, ModeInv
  <1> QED BY <1>5, <1>6, <1>7, <1>8, <1>9, <1>10, <1>11, <1>12 DEF OnceInv

\* The other steps are quiet: those of the main thread and the body first.
JobsQuiet == \A g \in Scans : /\ job'[g] \in EarlyJobs => job[g] \in EarlyJobs
                              /\ job'[g] \in TestPasses \cup {"tested"} => job'[g] = job[g]

LEMMA QuietMain ==
  ASSUME TypeInv, FlowInv,
         \/ StartScan \/ StopScan \/ ClearResults \/ RebuildPending \/ AddManual
         \/ \E what \in {"fetch", "china"} : StartLoading(what)
         \/ DeliverRow \/ DeliverEnd \/ FetchDone \/ ChinaLoaded
         \/ \E g \in Scans : LaunchBody(g) \/ JoinRetry(g) \/ CloseBlock(g) \/ BlockReturns(g)
  PROVE  UNCHANGED <<mode, h3Fail, queue, pc, hold>> /\ JobsQuiet
  <1>1. UNCHANGED <<mode, h3Fail, queue, pc, hold>>
    BY DEF StartScan, StopScan, ClearResults, RebuildPending, AddManual, StartLoading, DeliverRow,
           DeliverEnd, FetchDone, ChinaLoaded, SetPending, LaunchBody, JoinRetry, CloseBlock,
           BlockReturns, jobVars, dataVars, poolVars
  <1>2. job \in [Scans -> JobStates]
    BY DEF TypeInv, TypeOK, JobTypes
  <1>3. CASE StartScan
    <2>1. gen + 1 \in Scans /\ gen + 1 > gen
      BY <1>3, BoundsAssumption DEF StartScan, Scans, TypeInv, TypeOK, JobTypes
    <2>2. job[gen + 1] = "none"
      BY <2>1 DEF FlowInv, GenInv
    <2> QED BY <1>1, <1>2, <1>3, <2>1, <2>2 DEF StartScan, JobsQuiet, EarlyJobs, TestPasses
  <1>4. CASE DeliverEnd
    <2>1. Head(looper).scan \in Scans
      BY <1>4, HeadTailProperties DEF DeliverEnd, TypeInv, TypeOK, LoopTypes, Messages
    <2> QED BY <1>1, <1>2, <1>4, <2>1 DEF DeliverEnd, JobsQuiet, EarlyJobs, TestPasses
  <1>5. ASSUME NEW g \in Scans, LaunchBody(g) \/ JoinRetry(g) \/ CloseBlock(g) \/ BlockReturns(g)
        PROVE  JobsQuiet
    BY <1>2, <1>5 DEF LaunchBody, JoinRetry, CloseBlock, BlockReturns, JobsQuiet, EarlyJobs, TestPasses
  <1>6. CASE \/ StopScan \/ ClearResults \/ RebuildPending \/ AddManual
             \/ \E what \in {"fetch", "china"} : StartLoading(what)
             \/ DeliverRow \/ FetchDone \/ ChinaLoaded
    <2>1. UNCHANGED job
      BY <1>6 DEF StopScan, ClearResults, RebuildPending, AddManual, StartLoading, DeliverRow,
                  FetchDone, ChinaLoaded, SetPending, jobVars
    <2> QED BY <1>1, <2>1 DEF JobsQuiet
  <1> QED BY <1>1, <1>3, <1>4, <1>5, <1>6

\* A task of a pool starts, ends or is dropped with no address in hand, and a
\* ping is of no test pass.
LEMMA QuietPools ==
  ASSUME TypeInv, PoolInv, OnceInv, \A r \in Rows : Out(r)' <= Out(r),
         \/ Destroy
         \/ \E q \in Pools : StartQueued(q)
         \/ \E t \in Tasks : SubmitTask(t) \/ ReadFlag(t) \/ PingReturns(t)
  PROVE  Quiet
  <1>0. /\ pc \in [Tasks -> PcStates] /\ hold \in [Tasks -> Entries \cup {NoEntry}]
        /\ UNCHANGED <<job, mode, h3Fail, queue>>
        /\ \A t \in TestTasks : t \in Tasks /\ t.pass # "ping"
    BY DEF Destroy, StartQueued, SubmitTask, IsNext, ReadFlag, PingReturns, jobVars, dataVars,
           TypeInv, TypeOK, PoolTypes, TestTasks
  <1>1. CASE Destroy
    BY <1>0, <1>1 DEF Destroy, Quiet, HasEntry, EarlyJobs
  <1>2. ASSUME NEW q \in Pools, StartQueued(q) PROVE Quiet
    <2>1. workQueue[q] \in Seq(Tasks) /\ workQueue[q] # <<>>
      BY <1>2 DEF StartQueued, TypeInv, TypeOK, PoolTypes
    <2>2. Head(workQueue[q]) \in Tasks /\ Head(workQueue[q]) = workQueue[q][1] /\ 1 \in 1..Len(workQueue[q])
      BY <2>1, HeadTailProperties, EmptySeq
    <2>3. pc[Head(workQueue[q])] = "queued"
      BY <2>2 DEF PoolInv, WaitingInv
    <2>4. pc' = [pc EXCEPT ![Head(workQueue[q])] = "loop"] /\ hold' = hold
      BY <1>2 DEF StartQueued
    <2> QED BY <1>0, <2>2, <2>3, <2>4 DEF Quiet, HasEntry
  <1>3. ASSUME NEW t \in Tasks, SubmitTask(t) PROVE Quiet
    <2>1. /\ pc[t] = "none" /\ job[t.scan] = t.pass /\ hold' = hold
          /\ pc' = pc \/ \E s \in {"loop", "queued"} : pc' = [pc EXCEPT ![t] = s]
      BY <1>3 DEF SubmitTask, IsNext, poolVars
    <2> QED BY <1>0, <2>1 DEF Quiet, HasEntry
  <1>4. ASSUME NEW t \in Tasks, PingReturns(t) PROVE Quiet
    <2>1. /\ t.pass = "ping" /\ pc' = [pc EXCEPT ![t] = "loop"] /\ hold' = [hold EXCEPT ![t] = NoEntry]
      BY <1>4 DEF PingReturns
    <2> QED BY <1>0, <2>1 DEF Quiet
  <1>5. ASSUME NEW t \in Tasks, ReadFlag(t) PROVE Quiet
    <2>1. /\ pc[t] = "loop" /\ hold' = hold
          /\ \E s \in {"poll", "done"} : pc' = [pc EXCEPT ![t] = s]
      BY <1>5 DEF ReadFlag
    <2> QED BY <1>0, <2>1 DEF Quiet, HasEntry
  <1> QED BY <1>1, <1>2, <1>3, <1>4, <1>5

\* A copy, and a poll that leaves the loop or is of a ping.
LEMMA OnceTake ==
  ASSUME TypeInv, TypeInv', OnceInv, NEW t \in Tasks, TakeEntry(t)
  PROVE  OnceInv'
  <1>0. /\ pc[t] = "poll" /\ UNCHANGED <<job, mode, h3Fail, results, looper>>
        /\ pc \in [Tasks -> PcStates] /\ hold \in [Tasks -> Entries \cup {NoEntry}]
        /\ queue \in [Scans -> [Passes -> SUBSET Entries]]
        /\ t.scan \in Scans /\ t.pass \in Passes
        /\ \A u \in TestTasks : u \in Tasks /\ u.pass # "ping"
    BY TaskTypes DEF TakeEntry, jobVars, uiVars, TypeInv, TypeOK, PoolTypes, DataTypes, TestTasks
  <1>1. \A r \in Rows : Out(r)' <= Out(r)
    BY <1>0, OutSame, OutType
  <1>2. CASE pc' = [pc EXCEPT ![t] = "done"] /\ UNCHANGED <<queue, hold>>
    <2>1. Quiet
      BY <1>0, <1>1, <1>2 DEF Quiet, HasEntry
    <2> QED BY <2>1, OnceQuiet
  <1>3. ASSUME NEW e0 \in queue[t.scan][t.pass],
               queue' = [queue EXCEPT ![t.scan][t.pass] = @ \ {e0}],
               hold' = [hold EXCEPT ![t] = e0], pc' = [pc EXCEPT ![t] = "probe"]
        PROVE  OnceInv'
    <2>1. CASE t.pass = "ping"
      <3>1. \A g \in Scans, p \in TestPasses : queue'[g][p] = queue[g][p]
        BY <1>0, <1>3, <2>1 DEF TestPasses, Passes
      <3>2. Quiet
        BY <1>0, <1>1, <1>3, <2>1, <3>1 DEF Quiet
      <3> QED BY <3>2, OnceQuiet
    <2>2. CASE t.pass # "ping"
      <3>1. t \in TestTasks
        BY <2>2 DEF TestTasks
      <3> QED BY <1>0, <1>3, <3>1, OncePoll
    <2> QED BY <2>1, <2>2
  <1> QED BY <1>2, <1>3 DEF TakeEntry, Poll

LEMMA OnceBody ==
  ASSUME TypeInv, TypeInv', OnceInv, NEW g \in Scans,
         FinishCopy(g) \/ JoinPing(g) \/ BeginTests(g) \/ JoinFirst(g) \/ BeginRetry(g)
  PROVE  OnceInv'
  <1>0. /\ UNCHANGED <<h3Fail, pc, hold, results, looper>>
        /\ job \in [Scans -> JobStates] /\ queue \in [Scans -> [Passes -> SUBSET Entries]]
    BY DEF FinishCopy, JoinPing, BeginTests, JoinFirst, BeginRetry, uiVars, dataVars, poolVars,
           TypeInv, TypeOK, JobTypes, DataTypes
  <1>1. \A r \in Rows : Out(r)' <= Out(r)
    BY <1>0, OutSame, OutType
  <1>2. CASE FinishCopy(g)
    <2>1. /\ mode' = mode /\ job[g] = "copying" /\ (job' = job \/ job' = [job EXCEPT ![g] = "ping"])
          /\ queue' = queue \/ \E S : queue' = [queue EXCEPT ![g]["ping"] = S]
      BY <1>2 DEF FinishCopy
    <2>2. \A h \in Scans, p \in TestPasses : queue'[h][p] = queue[h][p]
      BY <1>0, <2>1 DEF TestPasses, Passes
    <2>3. Quiet
      BY <1>0, <1>1, <2>1, <2>2 DEF Quiet, EarlyJobs, TestPasses
    <2> QED BY <2>3, OnceQuiet
  <1>3. CASE JoinPing(g)
    <2>1. /\ job[g] = "ping" /\ UNCHANGED <<mode, queue>>
          /\ \E s \in {"pinged", "closed"} : job' = [job EXCEPT ![g] = s]
      BY <1>3 DEF JoinPing, Joined, dataVars
    <2>2. Quiet
      BY <1>0, <1>1, <2>1 DEF Quiet, EarlyJobs, TestPasses
    <2> QED BY <2>2, OnceQuiet
  <1>4. CASE BeginTests(g)
    <2>1. PICK m \in ProtoModes : mode' = [mode EXCEPT ![g] = m]
      BY <1>4 DEF BeginTests
    <2>2. m \in Modes
      BY ModesAssumption DEF Modes
    <2>3. PICK j \in {"closing", "first"} : job' = [job EXCEPT ![g] = j]
      BY <1>4 DEF BeginTests
    <2> QED BY <1>0, <1>4, <2>1, <2>2, <2>3, OnceBegin DEF BeginTests
  <1>5. CASE JoinFirst(g)
    <2>1. /\ job[g] = "first" /\ UNCHANGED <<mode, queue>>
          /\ \/ mode[g] = "Hybrid" /\ job' = [job EXCEPT ![g] = "tested"]
             \/ job' = [job EXCEPT ![g] = "closing"]
      BY <1>5 DEF JoinFirst, Joined, dataVars
    <2>2. Quiet
      BY <1>0, <1>1, <2>1 DEF Quiet, EarlyJobs, TestPasses
    <2> QED BY <2>2, OnceQuiet
  <1>6. CASE BeginRetry(g)
    <2>1. mode[g] = "Hybrid"
      BY <1>6 DEF BeginRetry, OnceInv, HybridInv
    <2>2. PICK j \in {"closing", "retry"} : job' = [job EXCEPT ![g] = j]
      BY <1>6 DEF BeginRetry
    <2> QED BY <1>0, <1>6, <2>1, <2>2, OnceAgain DEF BeginRetry
  <1> QED BY <1>2, <1>3, <1>4, <1>5, <1>6

LEMMA NextOnce ==
  TypeInv /\ TypeInv' /\ FlowInv /\ PoolInv /\ OnceInv /\ [Next]_vars => OnceInv'
  <1> SUFFICES ASSUME TypeInv, TypeInv', FlowInv, PoolInv, OnceInv, [Next]_vars PROVE OnceInv'
    OBVIOUS
  <1>1. CASE UNCHANGED vars
    <2>1. UNCHANGED <<job, mode, h3Fail, queue, pc, hold, results, looper>>
      BY <1>1 DEF vars, uiVars, jobVars, dataVars, poolVars
    <2>2. \A r \in Rows : Out(r)' <= Out(r)
      BY <2>1, OutSame, OutType
    <2>3. Quiet
      BY <2>1, <2>2 DEF Quiet
    <2> QED BY <2>3, OnceQuiet
  <1>2. CASE \E t \in Tasks : PostRow(t)
    BY <1>2, OncePost
  <1>3. CASE Next /\ ~\E t \in Tasks : PostRow(t)
    <2>0. \A r \in Rows : Out(r)' <= Out(r)
      BY <1>3, OutSteps
    <2>1. CASE \/ StartScan \/ StopScan \/ ClearResults \/ RebuildPending \/ AddManual
               \/ \E what \in {"fetch", "china"} : StartLoading(what)
               \/ DeliverRow \/ DeliverEnd \/ FetchDone \/ ChinaLoaded
               \/ \E g \in Scans : LaunchBody(g) \/ JoinRetry(g) \/ CloseBlock(g) \/ BlockReturns(g)
      <3>1. UNCHANGED <<mode, h3Fail, queue, pc, hold>> /\ JobsQuiet
        BY <2>1, QuietMain
      <3>2. Quiet
        BY <2>0, <3>1 DEF Quiet, JobsQuiet
      <3> QED BY <3>2, OnceQuiet
    <2>2. CASE \/ Destroy
               \/ \E q \in Pools : StartQueued(q)
               \/ \E t \in Tasks : SubmitTask(t) \/ ReadFlag(t) \/ PingReturns(t)
      BY <2>0, <2>2, QuietPools, OnceQuiet
    <2>3. CASE \E t \in Tasks : TakeEntry(t)
      BY <2>3, OnceTake
    <2>4. CASE \E t \in Tasks : TestReturns(t)
      BY <2>4, OnceTest
    <2>5. CASE \E g \in Scans : FinishCopy(g) \/ JoinPing(g) \/ BeginTests(g) \/ JoinFirst(g) \/ BeginRetry(g)
      BY <2>5, OnceBody
    <2> QED BY <1>3, <2>1, <2>2, <2>3, <2>4, <2>5 DEF Next, Body, Thread
  <1> QED BY <1>1, <1>2, <1>3

LEMMA OnceCorrect == Spec => [](TypeInv /\ OnceInv)
  <1>1. TypeInv /\ FlowInv /\ PoolInv /\ OnceInv /\ [Next]_vars => (TypeInv /\ FlowInv /\ PoolInv /\ OnceInv)'
    BY NextType, NextFlow, NextPool, NextOnce
  <1> QED BY InitType, InitFlow, InitPool, InitOnce, <1>1, PTL DEF Spec

\* However workers, stops, restarts and stale bodies interleave, an address
\* has at most one row, shown, posted or about to be, per scan and protocol.
THEOREM RowsComeOnce == Spec => []RowOnce
  <1>1. TypeInv /\ OnceInv => RowOnce
    <2> SUFFICES ASSUME TypeInv, OnceInv, NEW g \in Scans, NEW e \in Entries, NEW p \in Protos
                 PROVE  Copies(g, e, p) <= 1
      BY DEF RowOnce
    <2> DEFINE yes == Yes(g, e, p)  no == No(g, e, p)  H == HeldFor(g, e, p)
    <2>1. Copies(g, e, p) = results[yes] + results[no] + Posted(yes) + Posted(no) + Cardinality(H)
      BY DEF Copies, Yes, No
    <2>2. /\ yes \in Rows /\ no \in Rows
      BY RowFacts
    <2>3. /\ results[yes] \in Nat /\ results[no] \in Nat /\ Posted(yes) \in Nat /\ Posted(no) \in Nat
          /\ Out(yes) = results[yes] + Posted(yes) /\ Out(no) = results[no] + Posted(no)
      BY <2>2, OutType DEF Out
    <2>4. /\ Out(yes) + Out(no) <= 1 /\ (H # {} => Out(yes) = 0 /\ Out(no) = 0)
          /\ \A t, u \in H : t = u
      BY DEF OnceInv, SingleInv, Single
    <2> HIDE DEF yes, no, H
    <2>5. CASE H = {}
      <3>1. Cardinality(H) = 0
        BY <2>5, FS_EmptySet
      <3> QED BY <2>1, <2>3, <2>4, <3>1
    <2>6. CASE H # {}
      <3>1. PICK t \in H : TRUE
        BY <2>6
      <3>2. H = {t}
        BY <2>4, <3>1
      <3>3. Cardinality({t}) = 1
        BY FS_Singleton
      <3>4. Cardinality(H) = 1
        BY <3>2, <3>3
      <3> QED BY <2>1, <2>3, <2>4, <2>6, <3>4
    <2> QED BY <2>5, <2>6
  <1> QED BY OnceCorrect, <1>1, PTL

\* No address is usable by both protocols in one scan: the second pass of
\* hybridTestAll tests failures alone.
THEOREM SucceedsOnce == Spec => []OneSuccess
  <1>1. TypeInv /\ OnceInv => OneSuccess
    <2> SUFFICES ASSUME TypeInv, OnceInv, NEW g \in Scans, NEW e \in Entries
                 PROVE  LET won(p) == [scan |-> g, entry |-> e, proto |-> p, ok |-> TRUE]
                        IN results[won("H3")] + results[won("TCP")] + Posted(won("H3")) + Posted(won("TCP")) <= 1
      BY DEF OneSuccess
    <2> DEFINE a == Yes(g, e, "H3")  b == Yes(g, e, "TCP")
    <2>1. /\ a \in Rows /\ b \in Rows /\ a.scan = g /\ b.scan = g /\ a.proto = "H3" /\ b.proto = "TCP"
      BY RowFacts DEF Protos
    <2>2. /\ results[a] \in Nat /\ results[b] \in Nat /\ Posted(a) \in Nat /\ Posted(b) \in Nat
          /\ Out(a) = results[a] + Posted(a) /\ Out(b) = results[b] + Posted(b)
      BY <2>1, OutType DEF Out
    <2>3. Out(a) <= 1 /\ Out(b) <= 1
      <3>1. ASSUME NEW p \in Protos PROVE Out(Yes(g, e, p)) <= 1
        <4>1. Out(Yes(g, e, p)) + Out(No(g, e, p)) <= 1
          BY DEF OnceInv, SingleInv, Single
        <4>2. Yes(g, e, p) \in Rows /\ No(g, e, p) \in Rows
          BY RowFacts
        <4>3. Out(Yes(g, e, p)) \in Nat /\ Out(No(g, e, p)) \in Nat
          BY <4>2, OutType
        <4> QED BY <4>1, <4>3
      <3> QED BY <3>1 DEF Protos
    <2>4. Out(a) > 0 => Out(b) = 0
      <3> SUFFICES ASSUME Out(a) > 0, Out(b) > 0 PROVE FALSE
        BY <2>2
      <3>1. mode[g] = "Hybrid"
        BY <2>1, ProtoFacts DEF OnceInv, ModeInv
      <3>2. e \in h3Fail[g]
        BY <3>1 DEF OnceInv, RetryInv
      <3>3. Out(a) = 0
        BY <3>2 DEF OnceInv, FailInv
      <3> QED BY <3>3
    <2>5. results[a] + results[b] + Posted(a) + Posted(b) <= 1
      <3> HIDE DEF a, b
      <3> QED BY <2>2, <2>3, <2>4
    <2> QED BY <2>5 DEF Yes
  <1> QED BY OnceCorrect, <1>1, PTL
=============================================================================
