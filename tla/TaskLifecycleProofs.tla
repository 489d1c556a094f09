------------------------ MODULE TaskLifecycleProofs ------------------------
(***************************************************************************)
(* Theorems about TaskLifecycle, for every value of its constants: its     *)
(* type invariant, and that slots, reservations and workers have one owner *)
(* at a time.                                                              *)
(***************************************************************************)
EXTENDS TaskLifecycle, TLAPS

-----------------------------------------------------------------------------
(* What the helpers return                                                 *)

\* The "none" values belong to the sets they are used with.
LEMMA NoneTypes ==
    /\ Launches \subseteq AnyLaunch /\ 0 \in AnyLaunch
    /\ Tasks \subseteq AnyTask /\ 0 \in AnyTask
    /\ \A l \in AnyLaunch : l # 0 => l \in Launches
  BY BoundsAssumption DEF Launches, AnyLaunch, Tasks, AnyTask

\* get_platform finds a launch of the present runKey or nothing.
LEMMA FoundJobType ==
    ASSUME TypeOK
    PROVE  FoundJob \in AnyLaunch /\ (FoundJob = 0 \/ FoundJob \in item.mine)
  BY NoneTypes DEF FoundJob, NewestMine, RecordedMine, TypeOK, Items

\* The quota helpers return quota records.
LEMMA QuotaTypes ==
    ASSUME NEW q \in Quotas, NEW t \in AnyTask, NEW success \in BOOLEAN
    PROVE  Settle(q, success) \in Quotas /\ Absorb(q, t) \in Quotas
  BY DEF Settle, Absorb, Quotas, QuotaStates

\* The item helpers return queue items.
LEMMA FailedType ==
    ASSUME NEW it \in Items, NEW retryable \in BOOLEAN
    PROVE  Failed(it, retryable) \in Items
  <1>1. Bump(it.attempts) \in 0 .. AttemptsCap
    BY BoundsAssumption DEF Bump, Items
  <1> QED BY <1>1 DEF Failed, Items, Statuses

\* Taking an item as held leaves a queue item.
LEMMA HeldType ==
    ASSUME NEW it \in Items, NEW s \in Statuses
    PROVE  Held(it, s) \in Items
  BY DEF Held, Items

\* Dropping the placeholder reservations leaves a queue item.
LEMMA ReplacedType ==
    ASSUME NEW it \in Items
    PROVE  Replaced(it) \in Items
  BY DEF Replaced, Items

\* A requeue that has a stall retry left leaves a queue item.
LEMMA RequeuedType ==
    ASSUME NEW it \in Items, it.stalls < StalledLimit
    PROVE  Requeued(it) \in Items
  <1>1. it.stalls + 1 \in 0 .. StalledLimit
    BY BoundsAssumption DEF Items
  <1> QED BY <1>1, NoneTypes DEF Requeued, Items, Statuses

\* The facts a sync computes before it acts are of their types.
LEMMA SyncTypes ==
    ASSUME TypeOK
    PROVE  /\ ResultFile \in AnyLaunch
           /\ Root \in AnyLaunch
           /\ Tracked \in Items
           /\ Absorbed \in Quotas
           /\ Finalized \in [AnyLaunch -> {"none", "running", "finished", "failed"}]
  <1>1. ResultFile \in AnyLaunch
    BY FoundJobType DEF ResultFile, TypeOK, Items
  <1>2. Root \in AnyLaunch
    BY <1>1 DEF Root, TypeOK, Items
  <1>3. Tracked \in Items
    BY <1>2 DEF Tracked, TypeOK, Items
  <1>4. Absorbed \in Quotas
    BY <1>2, QuotaTypes DEF Absorbed, TypeOK
  <1>5. JobStatus(FoundJob) \in {"none", "running", "finished", "failed"}
    BY FoundJobType DEF JobStatus, TypeOK
  <1>6. Finalized \in [AnyLaunch -> {"none", "running", "finished", "failed"}]
    BY <1>5 DEF Finalized, TypeOK
  <1> QED BY <1>1, <1>2, <1>3, <1>4, <1>6

-----------------------------------------------------------------------------
(* Type correctness                                                        *)

\* The monitor starts from a well-typed state.
LEMMA TypeInit == Init => TypeOK
  BY BoundsAssumption, NoneTypes
  DEF Init, TypeOK, Items, Quotas, QuotaStates, FreshQuota, Statuses, Stages, Sessions

\* What a sync may change keeps its type.
LEMMA TypeSync ==
    ASSUME TypeOK, Sync
    PROVE  /\ item' \in Items
           /\ quota' \in Quotas
           /\ job' \in AnyLaunch
           /\ record' \in [AnyLaunch -> {"none", "running", "finished", "failed"}]
           /\ proc' \in [AnyLaunch -> {"none", "starting", "pushing", "waiting", "exited"}]
           /\ markers' \in {"none", "own", "dead"}
  <1> DEFINE Goal == /\ item' \in Items
                     /\ quota' \in Quotas
                     /\ record' \in [AnyLaunch -> {"none", "running", "finished", "failed"}]
                     /\ proc' \in [AnyLaunch -> {"none", "starting", "pushing", "waiting", "exited"}]
                     /\ markers' \in {"none", "own", "dead"}
  <1>a. Tracked \in Items /\ Absorbed \in Quotas /\ Replaced(Tracked) \in Items
    BY SyncTypes, ReplacedType
  <1>b. Settle(Absorbed, TRUE) \in Quotas /\ Settle(Absorbed, FALSE) \in Quotas
    BY <1>a, QuotaTypes, NoneTypes
  <1>c. \A s \in Statuses : Held(Tracked, s) \in Items /\ Held(Replaced(Tracked), s) \in Items
    BY <1>a, HeldType
  <1>d. \A r \in BOOLEAN : Failed(Tracked, r) \in Items
    BY <1>a, FailedType
  <1>1. CASE ~InQueue /\ UNCHANGED <<queueVars, job, record, proc, markers>>
    BY <1>1 DEF queueVars, TypeOK
  <1>2. CASE InQueue /\ GetPlatform /\ (SyncTerminal \/ SyncReleased \/ SyncStalled
                                         \/ SyncExited \/ SyncObserved \/ SyncFailed)
    <2>1. job' \in AnyLaunch
      BY <1>2, FoundJobType DEF GetPlatform, TypeOK
    <2>2. ASSUME Requeue, StallRetryLeft PROVE Goal
      <3>1. item' \in Items
        <4>1. Tracked.stalls = item.stalls
          BY DEF Tracked, TypeOK, Items
        <4> QED BY <2>2, <4>1, <1>a, RequeuedType DEF Requeue, StallRetryLeft
      <3>2. quota' \in Quotas
        BY <2>2, <1>b DEF Requeue
      <3> QED BY <2>2, <3>1, <3>2, FoundJobType DEF Requeue, TypeOK
    <2>3. CASE SyncTerminal
      <3>1. [Tracked EXCEPT !.status = "done", !.held = FALSE, !.slots = FALSE] \in Items
        BY <1>a DEF Items, Statuses
      <3>2. "triggered" \in Statuses
        BY DEF Statuses, ActiveStatuses
      <3> QED BY <2>1, <2>3, <3>1, <3>2, <1>a, <1>b, <1>c, <1>d, SyncTypes DEF SyncTerminal, TypeOK
    <2>4. CASE SyncReleased
      <3>1. [Tracked EXCEPT !.held = FALSE] \in Items
        BY <1>a DEF Items
      <3> QED BY <2>1, <2>4, <3>1, <1>a, SyncTypes DEF SyncReleased, TypeOK
    <2>5. CASE SyncStalled
      <3>1. "orphaned" \in Statuses
        BY DEF Statuses, ActiveStatuses
      <3> QED BY <2>1, <2>2, <2>5, <3>1, <1>a, <1>c, SyncTypes DEF SyncStalled, TypeOK
    <2>6. CASE SyncExited
      BY <2>1, <2>2, <2>6 DEF SyncExited, ExecutorGone
    <2>7. CASE SyncObserved
      <3>1. [Replaced(Tracked) EXCEPT !.status = IF @ \in {"pending", "launching"}
                                                 THEN "running" ELSE @] \in Items
        BY <1>a DEF Items, Statuses, ActiveStatuses
      <3>2. {"triggered", "orphaned"} \subseteq Statuses
        BY DEF Statuses, ActiveStatuses
      <3>3. item' \in Items
        BY <2>7, <3>1, <3>2, <1>a, <1>c DEF SyncObserved
      <3>4. markers' \in {"none", "own", "dead"}
        BY <2>7 DEF SyncObserved, ReplaceMarkers, TypeOK
      <3> QED BY <2>1, <2>7, <3>3, <3>4, <1>a, SyncTypes DEF SyncObserved, TypeOK
    <2>8. CASE SyncFailed
      <3>1. "orphaned" \in Statuses
        BY DEF Statuses, ActiveStatuses
      <3>2. item' \in Items
        BY <2>8, <3>1, <1>a, <1>c, <1>d DEF SyncFailed
      <3>3. quota' \in Quotas /\ markers' \in {"none", "own", "dead"}
        BY <2>8, <1>a, <1>b DEF SyncFailed, ReplaceMarkers, TypeOK
      <3> QED BY <2>1, <2>8, <3>2, <3>3, SyncTypes DEF SyncFailed, TypeOK
    <2> QED BY <1>2, <2>3, <2>4, <2>5, <2>6, <2>7, <2>8
  <1> QED BY <1>1, <1>2 DEF Sync

\* The launch a tick has spawned is counted; launch 0 is none.
SpawnCounted == pc = "spawned" => launched # 0

\* Every step of workers, sessions, tick, sync, reconcile and operator keeps the types.
LEMMA TypeStep == TypeOK /\ SpawnCounted /\ [Next]_vars => TypeOK'
  <1> SUFFICES ASSUME TypeOK, SpawnCounted, [Next]_vars PROVE TypeOK'
    OBVIOUS
  <1> USE NoneTypes DEF queueVars, jobVars, workerVars, sessionVars, tickVars, counters
  <1>i. item \in Items
    BY DEF TypeOK
  <1>q. FreshQuota \in Quotas
    BY DEF FreshQuota, Quotas, QuotaStates
  <1>r. Settle(quota, FALSE) \in Quotas
    BY QuotaTypes DEF TypeOK
  <1>s. Finalized \in [AnyLaunch -> {"none", "running", "finished", "failed"}] /\ FoundJob \in AnyLaunch
    BY SyncTypes, FoundJobType
  <1>c. ASSUME NEW t \in AnyTask, CancelTask(t)
        PROVE  tasks' \in [Tasks -> {"unused", "open", "cancelled"}]
    BY <1>c DEF CancelTask, TypeOK
  <1>1. CASE UNCHANGED vars
    BY <1>1 DEF vars, TypeOK
  <1>2. ASSUME NEW l \in Launches, Worker(l) \/ WorkerDies(l) PROVE TypeOK'
    BY <1>2 DEF Worker, WorkerInvalid, WorkerSubmitting, WorkerSubmitted, WorkerSubmitFailed,
                WorkerReports, WorkerWaitTimeout, WorkerDies, SetStage, Stages, TypeOK
  <1>3. ASSUME NEW l \in Launches, Session(l) PROVE TypeOK'
    <2>1. ASSUME NEW from, NEW to \in SUBSET Sessions, SessionStep(l, from, to) PROVE TypeOK'
      BY <2>1 DEF SessionStep, TypeOK
    <2>2. CASE SessionOpens(l) \/ SessionWrites(l) \/ SessionEnds(l) \/ SessionRecords(l)
      BY <2>1, <2>2 DEF SessionOpens, SessionWrites, SessionEnds, SessionRecords, Sessions
    <2>3. CASE ContainersStart(l) \/ ContainersStop(l)
      BY <2>3 DEF ContainersStart, ContainersStop, TypeOK
    <2>4. CASE SkillSelects(l)
      BY <2>4 DEF SkillSelects, TypeOK
    <2> QED BY <1>3, <2>2, <2>3, <2>4 DEF Session
  <1>4. ASSUME NEW l \in Launches, WaiterReturns(l) PROVE TypeOK'
    BY <1>4 DEF WaiterReturns, TypeOK
  <1>5. CASE Crash
    <2>1. crashes' \in 0 .. MaxCrashes
      BY <1>5, BoundsAssumption DEF Crash, TypeOK
    <2>2. markers' \in {"none", "own", "dead"}
      BY <1>5 DEF Crash, TypeOK
    <2> QED BY <1>5, <1>q, <2>1, <2>2 DEF Crash, TypeOK
  <1>6. CASE Restart
    <2>1. Recovered \subseteq AnyLaunch
      BY DEF Recovered, Recorded
    <2> QED BY <1>6, <2>1 DEF Restart, TypeOK
  <1>7. CASE SnapshotSync
    BY <1>7, TypeSync DEF SnapshotSync, Sync, TypeOK
  <1>8. CASE Tick
    <2>1. CASE TickReap
      BY <2>1 DEF TickReap, TypeOK
    <2>2. CASE TickSync
      BY <2>2, TypeSync DEF TickSync, Sync, TypeOK
    <2>3. CASE TickEnds
      BY <2>3 DEF TickEnds, TypeOK
    <2>10. CASE TickSkips
      <3>1. item' \in Items
        BY <2>10 DEF TickSkips, TypeOK, Items, Statuses
      <3> QED BY <2>10, <3>1 DEF TickSkips, TypeOK
    <2>4. CASE TickClaim
      <3>1. draft' \in Quotas
        BY <2>4 DEF TickClaim, TypeOK, Quotas, QuotaStates
      <3> QED BY <2>4, <3>1 DEF TickClaim, TypeOK
    <2>5. CASE TickSave
      <3>1. item' \in Items
        BY <2>5 DEF TickSave, TypeOK, Items, Statuses, ActiveStatuses
      <3> QED BY <2>5, <3>1, <1>q DEF TickSave, TypeOK
    <2>6. CASE TickStartFails
      <3>1. item' \in Items
        BY <2>6, <1>i DEF TickStartFails, Items, Statuses
      <3>2. quota' \in Quotas /\ tasks' \in [Tasks -> {"unused", "open", "cancelled"}]
        BY <2>6, <1>r, <1>c DEF TickStartFails, TypeOK, Quotas
      <3> QED BY <2>6, <3>1, <3>2 DEF TickStartFails, TypeOK
    <2>7. CASE TickSpawn
      <3>1. launched' \in AnyLaunch
        BY <2>7, BoundsAssumption DEF TickSpawn, TypeOK, AnyLaunch
      <3> QED BY <2>7, <3>1 DEF TickSpawn, TypeOK
    <2>8. CASE TickRecord
      <3>1. launched \in Launches
        BY <2>8 DEF TickRecord, TypeOK, SpawnCounted
      <3>2. item' \in Items
        BY <2>8, <3>1, <1>i DEF TickRecord, Items
      <3> QED BY <2>8, <3>1, <3>2 DEF TickRecord, TypeOK
    <2>9. CASE TickFinish
      <3>1. item' \in Items
        BY <2>9 DEF TickFinish, TypeOK, Items, Statuses, ActiveStatuses
      <3> QED BY <2>9, <3>1 DEF TickFinish, TypeOK
    <2> QED BY <1>8, <2>1, <2>2, <2>3, <2>4, <2>5, <2>6, <2>7, <2>8, <2>9, <2>10 DEF Tick
  <1>9. CASE Reconcile
    <2>1. CASE SweepDeadMarkers
      BY <2>1 DEF SweepDeadMarkers, TypeOK
    <2>2. CASE ReleaseInactiveReservations
      <3>1. item' \in Items
        BY <2>2 DEF ReleaseInactiveReservations, TypeOK, Items
      <3> QED BY <2>2, <3>1 DEF ReleaseInactiveReservations, TypeOK
    <2>3. CASE ReleaseStaleReservations
      <3>1. item' \in Items
        BY <2>3 DEF ReleaseStaleReservations, TypeOK, Items, Statuses
      <3>2. tasks' \in [Tasks -> {"unused", "open", "cancelled"}]
        BY <2>3, <1>c DEF ReleaseStaleReservations, TypeOK, Quotas
      <3> QED BY <2>3, <3>1, <3>2, <1>r DEF ReleaseStaleReservations, TypeOK
    <2>4. CASE ReleaseStuckOrphans
      <3>1. item' \in Items
        BY <2>4 DEF ReleaseStuckOrphans, TypeOK, Items, Statuses
      <3>2. tasks' \in [Tasks -> {"unused", "open", "cancelled"}]
        BY <2>4, <1>c DEF ReleaseStuckOrphans, TypeOK, Quotas
      <3> QED BY <2>4, <3>1, <3>2, <1>r, <1>s DEF ReleaseStuckOrphans, GetPlatform, TypeOK
    <2>5. CASE ForceSettleStaleQuota
      <3>1. tasks' \in [Tasks -> {"unused", "open", "cancelled"}]
        BY <2>5, <1>c DEF ForceSettleStaleQuota, TypeOK, Quotas
      <3> QED BY <2>5, <3>1, <1>r DEF ForceSettleStaleQuota, TypeOK
    <2>6. CASE ResyncFromResult
      BY <2>6, HeldType DEF ResyncFromResult, TypeOK, Statuses, ActiveStatuses
    <2>7. CASE ReleaseTerminalContainers
      BY <2>7 DEF ReleaseTerminalContainers, TypeOK
    <2> QED BY <1>9, <2>1, <2>2, <2>3, <2>4, <2>5, <2>6, <2>7 DEF Reconcile
  <1>10. CASE Operator
    <2>1. CASE Retry
      <3>1. item' \in Items
        <4>1. 0 \in 0 .. AttemptsCap /\ 0 \in 0 .. StalledLimit /\ "pending" \in Statuses
          BY BoundsAssumption DEF Statuses
        <4> QED BY <2>1, <4>1, <1>i DEF Retry, Items
      <3>2. retries' \in 0 .. MaxRetries
        BY <2>1, BoundsAssumption DEF Retry, TypeOK
      <3> QED BY <2>1, <3>1, <3>2, <1>q DEF Retry, TypeOK
    <2>2. CASE Release
      <3>1. item' \in Items
        BY <2>2 DEF Release, TypeOK, Items, Statuses
      <3> QED BY <2>2, <3>1, <1>s DEF Release, GetPlatform, TypeOK
    <2>3. CASE Remove
      BY <2>3 DEF Remove, TypeOK, Items, Statuses
    <2>4. CASE FailPending
      BY <2>4 DEF FailPending, TypeOK, Items, Statuses
    <2> QED BY <1>10, <2>1, <2>2, <2>3, <2>4 DEF Operator
  <1> QED BY <1>1, <1>2, <1>3, <1>4, <1>5, <1>6, <1>7, <1>8, <1>9, <1>10 DEF Next

\* A worker that was spawned but not recorded yet is a launch that was counted.
LEMMA SpawnStep == TypeOK /\ SpawnCounted /\ [Next]_vars => SpawnCounted'
  <1> SUFFICES ASSUME TypeOK, SpawnCounted, [Next]_vars, pc' = "spawned" PROVE launched' # 0
    BY DEF SpawnCounted
  <1>1. CASE TickSpawn
    BY <1>1, BoundsAssumption DEF TickSpawn, TypeOK, AnyLaunch
  <1>2. CASE UNCHANGED <<pc, launched>>
    BY <1>2 DEF SpawnCounted
  <1>3. CASE UNCHANGED vars
    BY <1>2, <1>3 DEF vars, tickVars, counters
  <1>4. ASSUME NEW l \in Launches, Worker(l) \/ WorkerDies(l) \/ Session(l) \/ WaiterReturns(l)
        PROVE  launched' # 0
    BY <1>2, <1>4 DEF Worker, WorkerInvalid, WorkerSubmitting, WorkerSubmitted, WorkerSubmitFailed,
        WorkerReports, WorkerWaitTimeout, WorkerDies, SetStage, Session, SessionOpens,
        SessionWrites, SessionEnds, SessionRecords, SessionStep, ContainersStart, ContainersStop,
        SkillSelects, WaiterReturns, tickVars, counters
  <1>5. CASE Crash \/ Restart \/ SnapshotSync
    BY <1>2, <1>5 DEF Crash, Restart, SnapshotSync, Sync, tickVars, counters
  <1>6. CASE Tick
    BY <1>1, <1>6 DEF Tick, TickReap, TickSync, TickEnds, TickSkips, TickClaim, TickSave, TickStartFails,
        TickRecord, TickFinish
  <1>7. CASE Reconcile \/ Operator
    BY <1>2, <1>7 DEF Reconcile, SweepDeadMarkers, ReleaseInactiveReservations,
        ReleaseStaleReservations, ReleaseStuckOrphans, ForceSettleStaleQuota, ResyncFromResult,
        ReleaseTerminalContainers, Operator, Retry, Release, Remove, FailPending, tickVars, counters
  <1> QED BY <1>1, <1>3, <1>4, <1>5, <1>6, <1>7 DEF Next

\* Every variable keeps its type: no handler leaves the queue, the job records,
\* the worker files or the quota in a shape the others do not know.
THEOREM TypeCorrect == Spec => []TypeOK
  <1>1. Init => TypeOK /\ SpawnCounted
    BY TypeInit DEF Init, SpawnCounted
  <1>2. TypeOK /\ SpawnCounted /\ [Next]_vars => TypeOK' /\ SpawnCounted'
    BY TypeStep, SpawnStep
  <1> QED BY <1>1, <1>2, PTL DEF Spec

-----------------------------------------------------------------------------
(* What the helpers do to the fields that SlotInv reads                    *)

\* What each helper makes of an item's status, slot and launches.
LEMMA HelperFields ==
    ASSUME NEW it \in Items
    PROVE  /\ \A s \in Statuses : /\ Held(it, s).status = s
                                  /\ Held(it, s).held
                                  /\ Held(it, s).mine = it.mine
           /\ \A r \in BOOLEAN : /\ Failed(it, r).status \in {"pending", "failed"}
                                 /\ ~Failed(it, r).held
                                 /\ Failed(it, r).mine = it.mine
           /\ Replaced(it).status = it.status
           /\ Replaced(it).held = it.held
           /\ Replaced(it).mine = it.mine
           /\ Requeued(it).status = "pending"
           /\ ~Requeued(it).held
           /\ Requeued(it).mine = {}
  <1>1. \A s \in Statuses : Held(it, s).status = s /\ Held(it, s).held /\ Held(it, s).mine = it.mine
    BY DEF Held, Items
  <1>2. \A r \in BOOLEAN : /\ Failed(it, r).status \in {"pending", "failed"}
                           /\ ~Failed(it, r).held
                           /\ Failed(it, r).mine = it.mine
    BY DEF Failed, Items
  <1>3. Replaced(it).status = it.status /\ Replaced(it).held = it.held /\ Replaced(it).mine = it.mine
    BY DEF Replaced, Items
  <1>4. Requeued(it).status = "pending" /\ ~Requeued(it).held /\ Requeued(it).mine = {}
    BY DEF Requeued, Items
  <1> QED BY <1>1, <1>2, <1>3, <1>4

\* Following another task root changes nothing that SlotInv reads.
LEMMA TrackedFields ==
    ASSUME TypeOK
    PROVE  /\ Tracked.status = item.status
           /\ Tracked.held = item.held
           /\ Tracked.mine = item.mine
  BY DEF Tracked, TypeOK, Items

\* A worker that get_platform reports as running is one of the present runKey.
LEMMA RunningFound ==
    ASSUME TypeOK, RecordInv, WorkerRunning
    PROVE  FoundJob \in item.mine /\ Runs(FoundJob)
  <1>1. record[FoundJob] = "running" /\ Alive(FoundJob)
    BY DEF WorkerRunning, JobStatus
  <1> QED BY <1>1, FoundJobType DEF RecordInv, Runs

\* Under the lock, a running worker of the present runKey is the one found.
LEMMA FoundRunning ==
    ASSUME TypeOK, SlotInv, up, NEW l \in item.mine, Runs(l)
    PROVE  FoundJob = l /\ WorkerRunning
  <1>1. l \in Launches
    BY DEF TypeOK, Items
  <1>2. job = l
    BY <1>1 DEF SlotInv, OwnerInv
  <1> QED BY <1>2 DEF FoundJob, WorkerRunning, JobStatus, Runs

\* finalize_dead_job only ever closes a record.
LEMMA FinalizedCloses ==
    ASSUME TypeOK, NEW l \in AnyLaunch
    PROVE  /\ Finalized[l] = "running" => record[l] = "running"
           /\ Finalized[l] = "none" <=> record[l] = "none"
  BY FoundJobType DEF Finalized, JobStatus, TypeOK

\* All that a sync does to slots, reservations, records and workers.
LEMMA SyncEffect ==
    ASSUME TypeOK, SlotInv, up, pc # "claimed", Sync
    PROVE  /\ HeldIffActive'
           /\ markers' = "own" => markers = "own" /\ Active'
           /\ item'.mine \in {item.mine, {}}
           /\ job' = job \/ (job \notin item.mine /\ job' \in item.mine)
           /\ \A l \in AnyLaunch : /\ record'[l] = "running" => record[l] = "running"
                                   /\ record'[l] = "none" <=> record[l] = "none"
                                   /\ Alive(l)' => Alive(l)
           /\ item'.status = "pending" => \A l \in item'.mine : ~Runs(l)'
  <1> DEFINE Closes == \A l \in AnyLaunch : /\ record'[l] = "running" => record[l] = "running"
                                            /\ record'[l] = "none" <=> record[l] = "none"
                                            /\ Alive(l)' => Alive(l)
             Idles == item'.status = "pending" => \A l \in item'.mine : ~Runs(l)'
             Keeps == markers' = "own" => markers = "own" /\ Active'
             Goal == HeldIffActive' /\ Keeps /\ item'.mine \in {item.mine, {}} /\ Closes /\ Idles
  <1>a. Tracked \in Items /\ Replaced(Tracked) \in Items
    BY SyncTypes, ReplacedType
  <1>b. item.mine \subseteq AnyLaunch
    BY NoneTypes DEF TypeOK, Items
  <1>c. markers = "own" => Active
    BY DEF SlotInv, ClaimInv
  <1>d. ASSUME record' = Finalized, UNCHANGED proc PROVE Closes
    BY <1>d, FinalizedCloses DEF Alive
  <1>e. ASSUME Closes, item'.mine \subseteq item.mine, ~WorkerRunning \/ item'.status # "pending"
        PROVE  Idles
    <2>1. SUFFICES ASSUME item'.status = "pending", NEW l \in item'.mine, Runs(l)' PROVE FALSE
      OBVIOUS
    <2>2. Runs(l)
      BY <1>e, <2>1, <1>b DEF Runs
    <2> QED BY <1>e, <2>1, <2>2, FoundRunning
  <1>f. ASSUME item.status = "pending", WorkerRunning PROVE FALSE
    BY <1>f, RunningFound DEF SlotInv, OwnerInv
  <1>g. ASSUME Requeue PROVE Goal
    <2>1. item'.status = "pending" /\ ~item'.held /\ item'.mine = {}
      BY <1>g, <1>a, HelperFields DEF Requeue
    <2>2. FoundJob # 0 => record[FoundJob] # "none"
      BY FoundJobType DEF SlotInv, RecordInv, Recorded
    <2>3. Closes
      BY <1>g, <2>2, FoundJobType DEF Requeue, Alive, TypeOK
    <2> QED BY <1>g, <2>1, <2>3 DEF Requeue, HeldIffActive, Active, ActiveStatuses
  <1>h. {"triggered", "orphaned"} \subseteq Statuses \cap ActiveStatuses
    BY DEF Statuses, ActiveStatuses
  <1>k. HeldIffActive
    BY DEF SlotInv
  <1> HIDE DEF Closes, Idles, Keeps
  <1>1. CASE ~InQueue /\ UNCHANGED <<queueVars, job, record, proc, markers>>
    <2>1. Closes
      BY <1>1 DEF Closes, Alive
    <2>2. Idles
      <3>1. CASE item.status = "pending"
        BY <1>1, <3>1 DEF InQueue, Idles, queueVars, SlotInv, OwnerInv, Runs, Alive
      <3>2. CASE item.status # "pending"
        BY <1>1, <3>2 DEF Idles, queueVars
      <3> QED BY <3>1, <3>2
    <2> QED BY <1>1, <1>c, <1>k, <2>1, <2>2 DEF Closes, Idles, Keeps, HeldIffActive, Active, queueVars
  <1>2. CASE InQueue /\ GetPlatform /\ (SyncTerminal \/ SyncReleased \/ SyncStalled
                                         \/ SyncExited \/ SyncObserved \/ SyncFailed)
    <2>1. job' = job \/ (job \notin item.mine /\ job' \in item.mine)
      BY <1>2, FoundJobType DEF GetPlatform, FoundJob
    <2>2. CASE SyncTerminal
      <3>1. Closes
        BY <2>2, <1>d DEF SyncTerminal
      <3>2. item'.mine = item.mine /\ HeldIffActive' /\ Keeps
            /\ (item'.status = "pending" => item.status = "pending")
        <4>1. CASE item' = Tracked /\ UNCHANGED markers
          BY <4>1, <1>c, <1>k, TrackedFields DEF HeldIffActive, Active, Keeps
        <4>2. CASE item' = Held(Tracked, "triggered") /\ UNCHANGED markers
          <5>1. item'.status = "triggered" /\ item'.held /\ item'.mine = item.mine
            BY <4>2, <1>a, <1>h, TrackedFields, HelperFields
          <5> QED BY <4>2, <5>1, <1>h DEF HeldIffActive, Active, Keeps
        <4>3. CASE item' = [Tracked EXCEPT !.status = "done", !.held = FALSE, !.slots = FALSE]
                   /\ markers' = "none"
          <5>1. item'.status = "done" /\ ~item'.held /\ item'.mine = item.mine
            BY <4>3, <1>a, TrackedFields DEF Items
          <5> QED BY <4>3, <5>1 DEF HeldIffActive, Active, ActiveStatuses, Keeps
        <4>4. CASE item' = Failed(Tracked, FALSE) /\ markers' = "none"
          <5>1. item'.status = "failed" /\ ~item'.held /\ item'.mine = item.mine
            BY <4>4, <1>a, TrackedFields DEF Failed, Items
          <5> QED BY <4>4, <5>1 DEF HeldIffActive, Active, ActiveStatuses, Keeps
        <4> QED BY <2>2, <4>1, <4>2, <4>3, <4>4 DEF SyncTerminal
      <3>3. Idles
        BY <3>1, <3>2, <1>e, <1>f
      <3> QED BY <2>1, <3>1, <3>2, <3>3 DEF Closes, Idles, Keeps
    <2>3. CASE SyncReleased
      <3>1. item'.status = "skipped" /\ ~item'.held /\ item'.mine = item.mine /\ markers' = markers
        BY <2>3, <1>a, TrackedFields DEF SyncReleased, ReleasedByHand, Items
      <3>2. Closes
        BY <2>3, <1>d DEF SyncReleased
      <3>3. Keeps
        BY <2>3, <3>1, <1>c DEF Keeps, SyncReleased, ReleasedByHand, Active, ActiveStatuses
      <3> QED BY <2>1, <3>1, <3>2, <3>3 DEF Closes, Idles, HeldIffActive, Active, ActiveStatuses, Keeps
    <2>4. CASE SyncStalled
      <3>1. CASE Requeue
        BY <3>1, <2>1, <1>g DEF Closes, Idles, Keeps
      <3>2. CASE item' = Held(Tracked, "orphaned") /\ record' = Finalized /\ UNCHANGED <<proc, markers>>
        <4>1. item'.status = "orphaned" /\ item'.held /\ item'.mine = item.mine
          BY <3>2, <1>a, <1>h, TrackedFields, HelperFields
        <4>2. Closes
          BY <3>2, <1>d
        <4> QED BY <3>2, <4>1, <4>2, <2>1, <1>h DEF Closes, Idles, Keeps, HeldIffActive, Active
      <3> QED BY <2>4, <3>1, <3>2 DEF SyncStalled
    <2>5. CASE SyncExited
      BY <2>5, <2>1, <1>g DEF SyncExited, Closes, Idles, Keeps
    <2>6. CASE SyncObserved
      <3>1. Closes
        BY <2>6, <1>d DEF SyncObserved
      <3>2. markers' = "own" => markers = "own"
        BY <2>6 DEF SyncObserved, ReplaceMarkers
      <3>3. ASSUME NEW s \in {"triggered", "orphaned"}, item' = Held(Replaced(Tracked), s)
            PROVE  item'.status = s /\ item'.held /\ item'.mine = item.mine
        BY <3>3, <1>a, <1>h, TrackedFields, HelperFields
      <3>4. CASE WorkerRunning /\ Submitted
        <4>1. item' = Held(Replaced(Tracked), "triggered")
          BY <2>6, <3>4 DEF SyncObserved
        <4> QED BY <4>1, <3>1, <3>2, <3>3, <2>1, <1>h DEF Closes, Idles, Keeps, HeldIffActive, Active
      <3>5. CASE WorkerRunning /\ ~Submitted
        <4>1. item' = [Replaced(Tracked) EXCEPT
                         !.status = IF @ \in {"pending", "launching"} THEN "running" ELSE @]
          BY <2>6, <3>5 DEF SyncObserved
        <4>2. item.status # "pending"
          BY <3>5, <1>f
        <4>3. Replaced(Tracked).status = item.status /\ Replaced(Tracked).held = item.held
              /\ Replaced(Tracked).mine = item.mine
          BY <1>a, TrackedFields, HelperFields
        <4>4. /\ item'.status = IF item.status = "launching" THEN "running" ELSE item.status
              /\ item'.held = item.held
              /\ item'.mine = item.mine
          BY <4>1, <4>2, <4>3, <1>a DEF Items
        <4> QED BY <4>2, <4>4, <3>1, <3>2, <2>1, <1>c, <1>k
                DEF Closes, Idles, Keeps, HeldIffActive, Active, ActiveStatuses
      <3>6. CASE ~WorkerRunning /\ item' = Replaced(Tracked)
        <4>1. item'.status = item.status /\ item'.held = item.held /\ item'.mine = item.mine
          BY <3>6, <1>a, TrackedFields, HelperFields
        <4>2. Idles
          BY <4>1, <3>6, <3>1, <1>e
        <4> QED BY <4>1, <4>2, <3>1, <3>2, <2>1, <1>c, <1>k
                DEF Closes, Idles, Keeps, HeldIffActive, Active
      <3>7. CASE ~WorkerRunning /\ \E s \in {"triggered", "orphaned"} : item' = Held(Replaced(Tracked), s)
        BY <3>7, <3>1, <3>2, <3>3, <2>1, <1>h DEF Closes, Idles, Keeps, HeldIffActive, Active
      <3> QED BY <2>6, <3>4, <3>5, <3>6, <3>7 DEF SyncObserved
    <2>7. CASE SyncFailed
      <3>1. Closes
        BY <2>7, <1>d DEF SyncFailed
      <3>2. ~WorkerRunning /\ ~item.held
        BY <2>7 DEF SyncFailed
      <3>3. markers # "own"
        BY <3>2, <1>c, <1>k DEF HeldIffActive
      <3>4. item'.mine = item.mine /\ HeldIffActive'
        <4>1. CASE item' = Held(Replaced(Tracked), "orphaned") \/ item' = Held(Tracked, "orphaned")
          BY <4>1, <1>a, <1>h, TrackedFields, HelperFields DEF HeldIffActive, Active
        <4>2. CASE \E r \in BOOLEAN : item' = Failed(Tracked, r)
          BY <4>2, <1>a, TrackedFields, HelperFields DEF HeldIffActive, Active, ActiveStatuses
        <4>3. CASE item' = Replaced(Tracked)
          BY <4>3, <1>a, <1>k, TrackedFields, HelperFields DEF HeldIffActive, Active
        <4> QED BY <2>7, <4>1, <4>2, <4>3 DEF SyncFailed
      <3>5. Idles
        BY <3>1, <3>2, <3>4, <1>e
      <3>6. markers' # "own"
        BY <2>7, <3>3 DEF SyncFailed, ReplaceMarkers
      <3> QED BY <2>1, <3>1, <3>4, <3>5, <3>6 DEF Closes, Idles, Keeps
    <2> QED BY <1>2, <2>2, <2>3, <2>4, <2>5, <2>6, <2>7
  <1> QED BY <1>1, <1>2 DEF Sync

-----------------------------------------------------------------------------
(* SlotInv is inductive                                                    *)

\* A step closes records and ends workers at most.
Closes ==
    \A l \in AnyLaunch : /\ record'[l] = "running" => record[l] = "running"
                         /\ record'[l] = "none" <=> record[l] = "none"
                         /\ Alive(l)' => Alive(l)

\* No worker of the present runKey runs where one is about to be launched.
NoRival == item.status = "pending" \/ pc = "saved" => \A l \in item.mine : ~Runs(l)

\* Every step but a crash, a restart and the two that launch a worker.
LEMMA SlotKeeps ==
    ASSUME TypeOK, SlotInv, Closes, HeldIffActive', ClaimInv', NoRival',
           launched' = launched, up' = up,
           item'.mine \in {item.mine, {}},
           job' = job \/ (job \notin item.mine /\ job' \in item.mine),
           pc' = "spawned" => pc = "spawned"
    PROVE  SlotInv'
  <1>1. Recorded' = Recorded
    BY NoneTypes DEF Closes, Recorded
  <1>2. \A l \in AnyLaunch : Runs(l)' => Runs(l)
    BY DEF Closes, Runs
  <1>3. RecordInv'
    BY <1>1, NoneTypes DEF SlotInv, RecordInv, Closes, Recorded, TypeOK
  <1>4. ASSUME up', NEW l \in Launches, Runs(l)' PROVE job' = l
    <2>1. job = l
      BY <1>2, <1>4, NoneTypes DEF SlotInv, OwnerInv
    <2>2. l # 0
      BY DEF Launches
    <2> QED BY <2>1, <2>2 DEF SlotInv, RecordInv
  <1>5. OwnerInv'
    BY <1>2, <1>4, NoneTypes DEF SlotInv, OwnerInv, NoRival
  <1> QED BY <1>3, <1>5 DEF SlotInv

\* The monitor starts with no slot, reservation, record or worker.
LEMMA SlotInit == Init => SlotInv
  BY NoneTypes DEF Init, SlotInv, HeldIffActive, Active, ActiveStatuses, ClaimInv, RecordInv,
                   OwnerInv, Recorded, Runs

\* Every step keeps slots, reservations, records and workers with their owner.
LEMMA SlotStep == TypeOK /\ SpawnCounted /\ SlotInv /\ [Next]_vars => SlotInv'
  <1> SUFFICES ASSUME TypeOK, SpawnCounted, SlotInv, [Next]_vars PROVE SlotInv'
    OBVIOUS
  <1> USE DEF queueVars, jobVars, workerVars, sessionVars, tickVars, counters
  <1>a. HeldIffActive /\ ClaimInv /\ RecordInv /\ OwnerInv /\ item \in Items
    BY DEF SlotInv, TypeOK
  <1>b. item.mine \subseteq Launches
    BY DEF TypeOK, Items
  <1>c. ASSUME UNCHANGED <<record, proc>> PROVE Closes
    BY <1>c DEF Closes, Alive
  <1>d. ASSUME Closes, item'.mine \subseteq item.mine,
               item'.status = "pending" \/ pc' = "saved" => item.status = "pending" \/ pc = "saved"
        PROVE  NoRival'
    BY <1>a, <1>b, <1>d, NoneTypes DEF Closes, NoRival, OwnerInv, Runs
  <1>e. ASSUME Closes, UNCHANGED <<item, job, markers, pc, up, launched>> PROVE SlotInv'
    <2>1. HeldIffActive' /\ ClaimInv'
      BY <1>a, <1>e DEF HeldIffActive, ClaimInv, Active
    <2> QED BY <1>d, <1>e, <2>1, SlotKeeps
  <1>1. CASE UNCHANGED vars
    BY <1>1, <1>c, <1>e DEF vars
  <1>2. ASSUME NEW l \in Launches, Worker(l) \/ WorkerDies(l) PROVE SlotInv'
    <2>1. UNCHANGED <<item, job, record, markers, pc, up, launched>>
          /\ \A k \in AnyLaunch : Alive(k)' => Alive(k)
      BY <1>2, NoneTypes DEF Worker, WorkerInvalid, WorkerSubmitting, WorkerSubmitted,
          WorkerSubmitFailed, WorkerReports, WorkerWaitTimeout, WorkerDies, SetStage, Alive, TypeOK
    <2> QED BY <2>1, <1>e DEF Closes
  <1>3. ASSUME NEW l \in Launches, Session(l) PROVE SlotInv'
    <2>1. UNCHANGED <<item, job, record, proc, markers, pc, up, launched>>
      BY <1>3 DEF Session, SessionOpens, SessionWrites, SessionEnds, SessionRecords, SessionStep,
          ContainersStart, ContainersStop, SkillSelects
    <2> QED BY <2>1, <1>c, <1>e
  <1>4. ASSUME NEW l \in Launches, WaiterReturns(l) PROVE SlotInv'
    <2>1. Closes
      BY <1>4, <1>a DEF WaiterReturns, Closes, RecordInv, Alive, TypeOK
    <2> QED BY <1>4, <2>1, <1>e DEF WaiterReturns
  <1>5. CASE Crash
    <2>1. UNCHANGED <<item, record, proc, launched>> /\ job' = 0 /\ ~up' /\ pc' = "idle" /\ markers' # "own"
      BY <1>5 DEF Crash
    <2> QED BY <2>1, <1>a DEF SlotInv, HeldIffActive, Active, ClaimInv, RecordInv, OwnerInv, Recorded,
                              Runs, Alive
  <1>6. CASE Restart
    <2>1. UNCHANGED <<item, record, markers, pc, launched>> /\ up'
      BY <1>6 DEF Restart
    <2>2. pc = "idle" /\ markers # "own"
      BY <1>6, <1>a DEF Restart, ClaimInv, TypeOK
    <2>3. \A l \in Launches : Runs(l)' => Runs(l) /\ l \in Recovered
      BY <1>6, NoneTypes DEF Restart, Runs, Alive, TypeOK
    <2>4. \A k, l \in Recovered : k = l
      <3>1. \A k, l \in Recovered : k <= l /\ l <= k
        BY DEF Recovered
      <3>2. \A l \in Recovered : l \in Nat
        BY BoundsAssumption DEF Recovered, Recorded, Launches
      <3> QED BY <3>1, <3>2
    <2>5. \A l \in Recovered : job' = l
      BY <1>6, <2>4 DEF Restart
    <2>6. job' = 0 \/ job' \in Recovered
      BY <1>6 DEF Restart
    <2>7. ASSUME NEW l \in Recovered, item.mine # {} PROVE l \in item.mine
      <3>1. PICK m \in item.mine : l <= m
        BY <2>7, <1>a DEF RecordInv, Recovered
      <3>2. m \in Recorded
        BY <1>a DEF RecordInv
      <3>3. m <= l /\ l \in Nat /\ m \in Nat
        BY <3>2, BoundsAssumption DEF Recovered, Recorded, Launches
      <3> QED BY <3>1, <3>3
    <2>8. RecordInv'
      BY <2>1, <2>2, <2>6, <2>7, <1>a DEF RecordInv, Recovered, Recorded
    <2>9. OwnerInv'
      BY <2>1, <2>2, <2>3, <2>5, <1>a, <1>b DEF OwnerInv
    <2> QED BY <2>1, <2>2, <2>8, <2>9, <1>a DEF SlotInv, HeldIffActive, Active, ClaimInv
  <1>7. ASSUME Sync, up, pc \in {"idle", "reaped"}, pc' \in {"idle", "synced"} PROVE SlotInv'
    <2>1. /\ HeldIffActive'
          /\ markers' = "own" => markers = "own" /\ Active'
          /\ item'.mine \in {item.mine, {}}
          /\ job' = job \/ (job \notin item.mine /\ job' \in item.mine)
          /\ Closes
          /\ item'.status = "pending" => \A l \in item'.mine : ~Runs(l)'
      BY <1>7, SyncEffect DEF Closes
    <2>2. up' /\ launched' = launched
      BY <1>7 DEF Sync
    <2>3. ClaimInv' /\ NoRival'
      BY <1>7, <2>1, <2>2 DEF ClaimInv, NoRival
    <2> QED BY <1>7, <2>1, <2>2, <2>3, SlotKeeps
  <1>8. CASE SnapshotSync
    BY <1>7, <1>8 DEF SnapshotSync, QueueFree
  <1>9. CASE Tick
    <2>0. pc # "idle" => up
      BY <1>a DEF ClaimInv
    <2>1. CASE TickReap
      <3>1. Closes
        BY <2>1, <1>a DEF TickReap, Closes, Alive, TypeOK
      <3>2. HeldIffActive' /\ ClaimInv'
        BY <2>1, <1>a DEF TickReap, QueueFree, HeldIffActive, ClaimInv, Active
      <3> QED BY <2>1, <3>1, <3>2, <1>d, SlotKeeps DEF TickReap
    <2>2. CASE TickSync
      BY <2>0, <2>2, <1>7 DEF TickSync
    <2>3. CASE TickEnds
      <3>1. HeldIffActive' /\ ClaimInv'
        BY <2>3, <1>a DEF TickEnds, HeldIffActive, ClaimInv, Active
      <3> QED BY <2>3, <3>1, <1>c, <1>d, SlotKeeps DEF TickEnds
    <2>10. CASE TickSkips
      <3>1. item'.status = "skipped" /\ item'.held = item.held /\ item'.mine = item.mine
        BY <2>10, <1>a DEF TickSkips, Items
      <3>2. ~item.held
        BY <2>10, <1>a DEF TickSkips, HeldIffActive, Active, ActiveStatuses
      <3>3. HeldIffActive' /\ ClaimInv'
        BY <2>0, <2>10, <3>1, <3>2, <1>a DEF TickSkips, HeldIffActive, ClaimInv, Active, ActiveStatuses
      <3> QED BY <2>0, <2>10, <3>1, <3>3, <1>c, <1>d, SlotKeeps DEF TickSkips
    <2>4. CASE TickClaim
      <3>1. HeldIffActive' /\ ClaimInv'
        BY <2>0, <2>4, <1>a DEF TickClaim, HeldIffActive, ClaimInv, Active
      <3> QED BY <2>4, <3>1, <1>c, <1>d, SlotKeeps DEF TickClaim
    <2>5. CASE TickSave
      <3>1. item'.status = "launching" /\ item'.held /\ item'.mine = item.mine
        BY <2>5, <1>a DEF TickSave, Items
      <3>2. item.status = "pending"
        BY <2>5, <1>a DEF TickSave, ClaimInv
      <3>3. HeldIffActive' /\ ClaimInv'
        BY <2>0, <2>5, <3>1, <1>a DEF TickSave, HeldIffActive, ClaimInv, Active, ActiveStatuses
      <3> QED BY <2>5, <3>1, <3>2, <3>3, <1>c, <1>d, SlotKeeps DEF TickSave
    <2>6. CASE TickStartFails
      <3>1. item'.status \in {"failed", "pending"} /\ ~item'.held /\ item'.mine = item.mine
        BY <2>6, <1>a DEF TickStartFails, Items
      <3>2. HeldIffActive' /\ ClaimInv'
        BY <2>6, <3>1, <1>a DEF TickStartFails, HeldIffActive, ClaimInv, Active, ActiveStatuses
      <3> QED BY <2>6, <3>1, <3>2, <1>c, <1>d, SlotKeeps DEF TickStartFails
    <2>7. CASE TickSpawn
      <3>1. /\ UNCHANGED <<item, job, record, markers, up>>
            /\ launched' = launched + 1
            /\ pc = "saved" /\ pc' = "spawned"
            /\ record[job] # "running"
        BY <2>7 DEF TickSpawn
      <3>2. launched \in Nat /\ launched' \in Launches
        BY <2>7, <3>1, BoundsAssumption DEF TickSpawn, TypeOK, AnyLaunch, Launches
      <3>3. \A l \in Launches : l \in Nat
        BY BoundsAssumption DEF Launches
      <3>4. record[launched'] = "none"
        <4>1. launched' \notin Recorded
          BY <3>1, <3>2, <1>a DEF RecordInv
        <4> QED BY <3>2, <4>1 DEF Recorded
      <3>5. \A l \in AnyLaunch : l # launched' => (Alive(l)' <=> Alive(l))
        BY <2>7 DEF TickSpawn, Alive, TypeOK
      <3>6. ASSUME NEW l \in Launches, Runs(l)' PROVE FALSE
        <4>1. Runs(l)
          BY <3>1, <3>4, <3>5, <3>6, NoneTypes DEF Runs
        <4> QED BY <4>1, <3>1, <2>0, <1>a DEF OwnerInv, Runs
      <3>7. OwnerInv'
        BY <3>1, <3>6, <1>b DEF OwnerInv
      <3>8. RecordInv'
        <4>1. \A l \in Recorded : l <= launched'
          BY <3>1, <3>2, <3>3, <1>a DEF RecordInv, Recorded
        <4> QED BY <3>1, <3>4, <4>1, <1>a DEF RecordInv, Recorded
      <3> QED BY <3>1, <3>7, <3>8, <1>a DEF SlotInv, HeldIffActive, ClaimInv, Active
    <2>8. CASE TickRecord
      <3>1. /\ UNCHANGED <<proc, markers, up, launched>>
            /\ pc = "spawned" /\ pc' = "recorded"
            /\ job' = launched
            /\ record' = [record EXCEPT ![launched] = "running"]
        BY <2>8 DEF TickRecord
      <3>2. launched \in Launches /\ \A l \in Launches : l \in Nat
        BY <3>1, NoneTypes, BoundsAssumption DEF SpawnCounted, TypeOK, Launches
      <3>3. item'.status = item.status /\ item'.held = item.held /\ item'.mine = item.mine \cup {launched}
        BY <2>8, <1>a DEF TickRecord, Items
      <3>4. record'[launched] = "running" /\ \A l \in AnyLaunch : l # launched => record'[l] = record[l]
        BY <3>1 DEF TypeOK
      <3>5. Recorded' = Recorded \cup {launched}
        BY <3>2, <3>4, NoneTypes DEF Recorded
      <3>6. ASSUME NEW l \in Launches, Runs(l)' PROVE l = launched
        BY <3>1, <3>4, <3>6, <1>a, NoneTypes DEF OwnerInv, Runs, Alive
      <3>7. RecordInv'
        <4>1. 0 # launched
          BY <3>2 DEF Launches
        <4>2. \A l \in Recorded' : l <= launched
          BY <3>2, <3>5, <1>a DEF RecordInv
        <4>3. record'[0] = "none" /\ record'[job'] # "none" /\ job' \in item'.mine
          BY <3>1, <3>3, <3>4, <4>1, NoneTypes, <1>a DEF RecordInv
        <4> QED BY <3>1, <3>3, <3>5, <4>2, <4>3, <1>a DEF RecordInv
      <3>8. item.status = "launching"
        BY <3>1, <1>a DEF ClaimInv
      <3>9. OwnerInv'
        BY <3>1, <3>3, <3>6, <3>8 DEF OwnerInv
      <3>10. HeldIffActive' /\ ClaimInv'
        BY <3>1, <3>3, <3>8, <1>a DEF HeldIffActive, ClaimInv, Active
      <3> QED BY <3>7, <3>9, <3>10 DEF SlotInv
    <2>9. CASE TickFinish
      <3>1. item'.status = "running" /\ item'.held = item.held /\ item'.mine = item.mine
        BY <2>9, <1>a DEF TickFinish, Items
      <3>2. item.status = "launching"
        BY <2>9, <1>a DEF TickFinish, ClaimInv
      <3>3. HeldIffActive' /\ ClaimInv'
        BY <2>0, <2>9, <3>1, <3>2, <1>a DEF TickFinish, HeldIffActive, ClaimInv, Active, ActiveStatuses
      <3> QED BY <2>9, <3>1, <3>3, <1>c, <1>d, SlotKeeps DEF TickFinish
    <2> QED BY <1>9, <2>1, <2>2, <2>3, <2>4, <2>5, <2>6, <2>7, <2>8, <2>9, <2>10 DEF Tick
  <1>10. CASE Reconcile
    <2>0. QueueFree => up /\ pc = "idle" /\ (markers = "own" => Active)
      BY <1>a DEF QueueFree, ClaimInv
    <2>j. GetPlatform => job' = job \/ (job \notin item.mine /\ job' \in item.mine)
      BY FoundJobType DEF GetPlatform, FoundJob
    <2>f. record' = Finalized /\ UNCHANGED proc => Closes
      BY FinalizedCloses DEF Closes, Alive
    <2>1. CASE SweepDeadMarkers
      <3>1. HeldIffActive' /\ ClaimInv'
        BY <2>1, <1>a DEF SweepDeadMarkers, HeldIffActive, ClaimInv, Active
      <3> QED BY <2>1, <3>1, <1>c, <1>d, SlotKeeps DEF SweepDeadMarkers
    <2>2. CASE ReleaseInactiveReservations
      <3>1. item'.status = item.status /\ item'.held = item.held /\ item'.mine = item.mine
        BY <2>2, <1>a DEF ReleaseInactiveReservations, Items
      <3>2. HeldIffActive' /\ ClaimInv'
        BY <2>0, <2>2, <3>1, <1>a DEF ReleaseInactiveReservations, HeldIffActive, ClaimInv, Active
      <3> QED BY <2>2, <3>1, <3>2, <1>c, <1>d, SlotKeeps DEF ReleaseInactiveReservations
    <2>3. CASE ReleaseStaleReservations
      <3>1. item'.status = "pending" /\ ~item'.held /\ item'.mine = item.mine
        BY <2>3, <1>a DEF ReleaseStaleReservations, Items
      <3>2. HeldIffActive' /\ ClaimInv'
        BY <2>0, <2>3, <3>1 DEF ReleaseStaleReservations, HeldIffActive, ClaimInv, Active, ActiveStatuses
      <3>3. Closes
        BY <2>3, <1>a DEF ReleaseStaleReservations, Closes, RecordInv, Alive, TypeOK
      <3>4. NoRival'
        <4>1. SUFFICES ASSUME NEW l \in item.mine, Runs(l)' PROVE FALSE
          BY <3>1 DEF NoRival
        <4>2. job = l /\ l \in Launches
          BY <2>0, <2>3, <3>3, <4>1, <1>a, <1>b, NoneTypes DEF ReleaseStaleReservations, OwnerInv, Closes, Runs
        <4>3. record'[l] = "failed"
          BY <2>3, <4>2 DEF ReleaseStaleReservations, TypeOK, Launches
        <4> QED BY <4>1, <4>3 DEF Runs
      <3> QED BY <2>0, <2>3, <3>1, <3>2, <3>3, <3>4, SlotKeeps DEF ReleaseStaleReservations
    <2>4. CASE ReleaseStuckOrphans
      <3>1. item'.status = "skipped" /\ ~item'.held /\ item'.mine = item.mine
        BY <2>4, <1>a DEF ReleaseStuckOrphans, Items
      <3>2. HeldIffActive' /\ ClaimInv'
        BY <2>0, <2>4, <3>1 DEF ReleaseStuckOrphans, HeldIffActive, ClaimInv, Active, ActiveStatuses
      <3>3. Closes
        BY <2>4, <2>f DEF ReleaseStuckOrphans
      <3> QED BY <2>0, <2>4, <2>j, <3>1, <3>2, <3>3, <1>d, SlotKeeps DEF ReleaseStuckOrphans
    <2>5. CASE ForceSettleStaleQuota
      BY <2>5, <1>c, <1>e DEF ForceSettleStaleQuota
    <2>6. CASE ResyncFromResult
      <3>1. item'.status = "triggered" /\ item'.held /\ item'.mine = item.mine
        BY <2>6, <1>a, HelperFields DEF ResyncFromResult, Statuses, ActiveStatuses
      <3>2. HeldIffActive' /\ ClaimInv'
        BY <2>0, <2>6, <3>1 DEF ResyncFromResult, HeldIffActive, ClaimInv, Active, ActiveStatuses
      <3> QED BY <2>0, <2>6, <3>1, <3>2, <1>c, <1>d, SlotKeeps DEF ResyncFromResult
    <2>7. CASE ReleaseTerminalContainers
      BY <2>7, <1>c, <1>e DEF ReleaseTerminalContainers
    <2> QED BY <1>10, <2>1, <2>2, <2>3, <2>4, <2>5, <2>6, <2>7 DEF Reconcile
  <1>11. CASE Operator
    <2>0. QueueFree => up /\ pc = "idle" /\ (markers = "own" => Active)
      BY <1>a DEF QueueFree, ClaimInv
    <2>1. CASE Retry
      <3>1. item'.status = "pending" /\ item'.held = item.held /\ item'.mine = {}
        BY <2>1, <1>a DEF Retry, Items
      <3>2. HeldIffActive' /\ ClaimInv'
        BY <2>0, <2>1, <3>1 DEF Retry, HeldIffActive, ClaimInv, Active, ActiveStatuses
      <3> QED BY <2>0, <2>1, <3>1, <3>2, <1>c, SlotKeeps DEF Retry, NoRival
    <2>2. CASE Release
      <3>1. item'.status = "skipped" /\ ~item'.held /\ item'.mine = item.mine
        BY <2>2, <1>a DEF Release, Items
      <3>2. HeldIffActive' /\ ClaimInv'
        BY <2>0, <2>2, <3>1 DEF Release, HeldIffActive, ClaimInv, Active, ActiveStatuses
      <3>3. Closes
        BY <2>2, FinalizedCloses DEF Release, Closes, Alive
      <3>4. job' = job \/ (job \notin item.mine /\ job' \in item.mine)
        BY <2>2, FoundJobType DEF Release, GetPlatform, FoundJob
      <3> QED BY <2>0, <2>2, <3>1, <3>2, <3>3, <3>4, <1>d, SlotKeeps DEF Release
    <2>3. CASE Remove \/ FailPending
      <3>1. item'.status \in {"removed", "failed"} /\ item'.held = item.held /\ item'.mine = item.mine
        BY <2>3, <1>a DEF Remove, FailPending, Items
      <3>2. ~item.held /\ ~Active
        BY <2>3, <1>a DEF Remove, FailPending, HeldIffActive, Active, ActiveStatuses
      <3>3. HeldIffActive' /\ ClaimInv'
        BY <2>0, <2>3, <3>1, <3>2 DEF Remove, FailPending, HeldIffActive, ClaimInv, Active, ActiveStatuses
      <3> QED BY <2>0, <2>3, <3>1, <3>3, <1>c, <1>d, SlotKeeps DEF Remove, FailPending
    <2> QED BY <1>11, <2>1, <2>2, <2>3 DEF Operator
  <1> QED BY <1>1, <1>2, <1>3, <1>4, <1>5, <1>6, <1>8, <1>9, <1>10, <1>11 DEF Next

\* Slots, reservations and workers have one owner at a time, for any number of
\* launches, retries and crashes.
THEOREM SlotsOwned == Spec => []SlotInv
  <1>1. Init => TypeOK /\ SpawnCounted /\ SlotInv
    BY TypeInit, SlotInit DEF Init, SpawnCounted
  <1>2. TypeOK /\ SpawnCounted /\ SlotInv /\ [Next]_vars => TypeOK' /\ SpawnCounted' /\ SlotInv'
    BY TypeStep, SpawnStep, SlotStep
  <1> QED BY <1>1, <1>2, PTL DEF Spec

\* An item holds its desktop slot exactly while its status is an active one.
THEOREM SlotFollowsStatus == Spec => []HeldIffActive
  <1>1. SlotInv => HeldIffActive
    BY DEF SlotInv
  <1> QED BY <1>1, SlotsOwned, PTL

\* No reservation of this monitor outlives the slot of its item.
THEOREM ReservationsHeld == Spec => []MarkersHaveHolder
  <1>1. SlotInv => MarkersHaveHolder
    BY DEF SlotInv, ClaimInv, MarkersHaveHolder, QueueFree, Holds
  <1> QED BY <1>1, SlotsOwned, PTL

\* Whoever asks the JobManager about a live worker is told of it.
THEOREM WorkersOwned == Spec => []RunningRecordIsOwned
  <1>1. SlotInv => RunningRecordIsOwned
    BY DEF SlotInv, OwnerInv, Runs, RunningRecordIsOwned, QueueFree
  <1> QED BY <1>1, SlotsOwned, PTL
-----------------------------------------------------------------------------
(* Every live worker is watched                                            *)

\* No worker comes to life, and no record of one that lives on is closed.
Watches == \A l \in AnyLaunch : Alive(l)' => Alive(l) /\ (record[l] = "running" => record'[l] = "running")

LEMMA FinalizedWatches ==
    ASSUME TypeOK, record' = Finalized, proc' = proc
    PROVE  Watches
  BY FoundJobType DEF Watches, Finalized, JobStatus, Alive, TypeOK

LEMMA RequeueWatches ==
    ASSUME TypeOK, Requeue
    PROVE  Watches
<1>. SUFFICES ASSUME NEW l \in AnyLaunch, Alive(l)'
              PROVE  Alive(l) /\ (record[l] = "running" => record'[l] = "running")
  BY DEF Watches
<1>1. CASE l # FoundJob
  BY <1>1, FoundJobType DEF Requeue, Alive, TypeOK
<1>2. CASE l = FoundJob
  <2>1. ~WorkerRunning /\ Alive(l)
    BY <1>2, FoundJobType DEF Requeue, Alive, TypeOK
  <2>. QED BY <1>2, <2>1 DEF WorkerRunning, JobStatus
<1>. QED BY <1>1, <1>2

LEMMA SyncWatches ==
    ASSUME TypeOK, Sync
    PROVE  Watches
<1>1. CASE ~InQueue
  BY <1>1 DEF Sync, Watches, Alive, queueVars
<1>2. CASE SyncTerminal \/ SyncReleased \/ SyncObserved \/ SyncFailed
  BY <1>2, FinalizedWatches DEF SyncTerminal, SyncReleased, SyncObserved, SyncFailed
<1>3. CASE SyncStalled \/ SyncExited
  BY <1>3, FinalizedWatches, RequeueWatches DEF SyncStalled, SyncExited
<1>. QED BY <1>1, <1>2, <1>3 DEF Sync

\* get_platform puts a record in memory only where there was none.
LEMMA FoundWhenEmpty ==
    ASSUME TypeOK, RecordInv, GetPlatform
    PROVE  job' = job \/ job = 0
  BY FoundJobType DEF GetPlatform, FoundJob, RecordInv

LEMMA WatchKeeps ==
    ASSUME TypeOK, TypeOK', WatchInv, Watches,
           UNCHANGED <<waiter, launched, up>>,
           job' = job \/ (job = 0 /\ pc # "spawned"),
           pc = "spawned" => pc' = "spawned"
    PROVE  WatchInv'
<1>1. ASSUME up', NEW l \in Launches, Alive(l)'
      PROVE  job' = l \/ l \in waiter' \/ (pc' = "spawned" /\ l = launched')
  <2>1. Alive(l) /\ l # 0
    BY <1>1, NoneTypes DEF Watches, Launches
  <2>. QED BY <1>1, <2>1 DEF WatchInv
<1>2. ASSUME up', job' # 0, Alive(job)', job' \notin waiter'
      PROVE  waiter' = {} /\ record'[job'] = "running"
  <2>1. job' \in Launches /\ job' \in AnyLaunch
    BY <1>2, NoneTypes DEF TypeOK
  <2>2. /\ Alive(job)' => /\ proc[job'] \in {"starting", "pushing", "waiting"}
                          /\ record[job'] = "running" => record'[job'] = "running"
    BY <2>1 DEF Watches, Alive
  <2>3. job' = job
    BY <1>2, <2>1, <2>2 DEF WatchInv, Alive
  <2>. QED BY <1>2, <2>2, <2>3 DEF WatchInv, Alive
<1>. QED BY <1>1, <1>2 DEF WatchInv

LEMMA WatchStep ==
    ASSUME TypeOK, TypeOK', SpawnCounted, SlotInv, WatchInv, [Next]_vars
    PROVE  WatchInv'
<1>. USE DEF queueVars, jobVars, workerVars, sessionVars, tickVars, counters
<1>a. ClaimInv /\ RecordInv /\ OwnerInv
  BY DEF SlotInv
<1>b. ASSUME UNCHANGED <<job, record, proc, waiter, launched, up>>, pc = "spawned" => pc' = "spawned"
      PROVE  WatchInv'
  BY <1>b, WatchKeeps DEF Watches, Alive
<1>1. CASE UNCHANGED vars
  BY <1>1, <1>b DEF vars
<1>2. ASSUME NEW l \in Launches, Worker(l) \/ WorkerDies(l) PROVE WatchInv'
  <2>1. UNCHANGED <<job, record, waiter, pc, up, launched>> /\ \A k \in AnyLaunch : Alive(k)' => Alive(k)
    BY <1>2, NoneTypes DEF Worker, WorkerInvalid, WorkerSubmitting, WorkerSubmitted,
        WorkerSubmitFailed, WorkerReports, WorkerWaitTimeout, WorkerDies, SetStage, Alive, TypeOK
  <2>. QED BY <2>1, WatchKeeps DEF Watches
<1>3. ASSUME NEW l \in Launches, Session(l) PROVE WatchInv'
  <2>1. UNCHANGED <<job, record, proc, waiter, pc, up, launched>>
    BY <1>3 DEF Session, SessionOpens, SessionWrites, SessionEnds, SessionRecords, SessionStep,
        ContainersStart, ContainersStop, SkillSelects
  <2>. QED BY <2>1, <1>b
<1>4. ASSUME NEW l \in Launches, WaiterReturns(l) PROVE WatchInv'
  <2>1. waiter' = waiter \ {l} /\ l \in waiter /\ ~Alive(l) /\ UNCHANGED <<job, proc, pc, up, launched>>
    BY <1>4 DEF WaiterReturns, Alive
  <2>2. \A k \in AnyLaunch : Alive(k)' <=> Alive(k)
    BY <2>1 DEF Alive
  <2>3. job \in AnyLaunch
    BY DEF TypeOK
  <2>. QED BY <2>1, <2>2, <2>3, NoneTypes DEF WatchInv
<1>5. CASE Crash
  BY <1>5 DEF Crash, WatchInv
<1>6. CASE Restart
  <2>1. up' /\ waiter' = {} /\ record' = record
    BY <1>6 DEF Restart, WatchInv
  <2>2. \A l \in AnyLaunch : Alive(l)' => l \in Recovered
    BY <1>6 DEF Restart, Alive, TypeOK
  <2>3. \A k, l \in Recovered : k = l
    <3>1. \A k, l \in Recovered : k <= l /\ l <= k
      BY DEF Recovered
    <3>2. \A l \in Recovered : l \in Nat
      BY BoundsAssumption DEF Recovered, Recorded, Launches
    <3>. QED BY <3>1, <3>2
  <2>4. \A l \in Recovered : job' = l
    BY <1>6, <2>3 DEF Restart
  <2>5. job' # 0 => job' \in Recovered
    BY <1>6 DEF Restart
  <2>. QED BY <2>1, <2>2, <2>4, <2>5, NoneTypes DEF WatchInv, Recovered
<1>7. ASSUME Sync, pc # "spawned" PROVE WatchInv'
  <2>1. job' = job \/ job = 0
    BY <1>7, <1>a, FoundWhenEmpty DEF Sync
  <2>2. UNCHANGED <<waiter, launched, up>>
    BY <1>7 DEF Sync
  <2>. QED BY <1>7, <2>1, <2>2, SyncWatches, WatchKeeps
<1>8. CASE SnapshotSync
  BY <1>7, <1>8 DEF SnapshotSync, QueueFree
<1>9. CASE Tick
  <2>1. CASE TickReap
    <3>1. Watches
      BY <2>1 DEF TickReap, Watches, Alive, TypeOK
    <3>. QED BY <2>1, <3>1, WatchKeeps DEF TickReap, QueueFree
  <2>2. CASE TickSync
    BY <2>2, <1>7 DEF TickSync
  <2>3. CASE TickEnds \/ TickSkips \/ TickClaim \/ TickSave \/ TickStartFails \/ TickFinish
    BY <2>3, <1>b DEF TickEnds, TickSkips, TickClaim, TickSave, TickStartFails, TickFinish
  <2>4. CASE TickSpawn
    <3>1. UNCHANGED <<job, record, waiter, up>> /\ pc' = "spawned" /\ pc = "saved" /\ launched' = launched + 1
      BY <2>4 DEF TickSpawn
    <3>2. \A l \in AnyLaunch : l # launched' => (Alive(l)' <=> Alive(l))
      BY <2>4 DEF TickSpawn, Alive, TypeOK
    <3>3. job # launched' \/ job = 0
      <4>1. job # 0 => job \in Recorded
        BY <1>a, NoneTypes DEF RecordInv, Recorded, TypeOK
      <4>2. launched \in Nat
        BY BoundsAssumption DEF TypeOK, AnyLaunch
      <4>. QED BY <3>1, <4>1, <4>2, <1>a DEF RecordInv
    <3>4. job \in AnyLaunch
      BY DEF TypeOK
    <3>. QED BY <3>1, <3>2, <3>3, <3>4, NoneTypes DEF WatchInv
  <2>5. CASE TickRecord
    <3>1. /\ UNCHANGED <<proc, up, launched>> /\ job' = launched /\ waiter' = waiter \cup {launched}
          /\ pc = "spawned"
      BY <2>5 DEF TickRecord
    <3>2. \A l \in AnyLaunch : Alive(l)' <=> Alive(l)
      BY <3>1 DEF Alive
    <3>3. ASSUME up, NEW l \in Launches, Alive(l) PROVE l = launched \/ l \in waiter
      <4>1. ~Runs(l)
        BY <3>1, <3>3, <1>a DEF OwnerInv
      <4>2. CASE job = l /\ l \notin waiter
        <5>1. record[l] = "running"
          BY <4>2, <3>3 DEF WatchInv, Launches
        <5>. QED BY <5>1, <4>1, <3>3 DEF Runs
      <4>. QED BY <4>2, <3>1, <3>3 DEF WatchInv
    <3>4. up
      BY <3>1, <1>a DEF ClaimInv
    <3>. QED BY <3>1, <3>2, <3>3, <3>4, NoneTypes DEF WatchInv
  <2>. QED BY <1>9, <2>1, <2>2, <2>3, <2>4, <2>5 DEF Tick
<1>10. CASE Reconcile
  <2>1. CASE SweepDeadMarkers \/ ReleaseInactiveReservations \/ ForceSettleStaleQuota
             \/ ResyncFromResult \/ ReleaseTerminalContainers
    BY <2>1, <1>b DEF SweepDeadMarkers, ReleaseInactiveReservations, ForceSettleStaleQuota,
        ResyncFromResult, ReleaseTerminalContainers
  <2>2. CASE ReleaseStaleReservations
    <3>1. Watches
      BY <2>2 DEF ReleaseStaleReservations, Watches, Alive, TypeOK
    <3>. QED BY <2>2, <3>1, WatchKeeps DEF ReleaseStaleReservations
  <2>3. CASE ReleaseStuckOrphans
    BY <2>3, <1>a, FinalizedWatches, FoundWhenEmpty, WatchKeeps DEF ReleaseStuckOrphans, QueueFree
  <2>. QED BY <1>10, <2>1, <2>2, <2>3 DEF Reconcile
<1>11. CASE Operator
  <2>1. CASE Retry \/ Remove \/ FailPending
    BY <2>1, <1>b DEF Retry, Remove, FailPending
  <2>2. CASE Release
    BY <2>2, <1>a, FinalizedWatches, FoundWhenEmpty, WatchKeeps DEF Release, QueueFree
  <2>. QED BY <1>11, <2>1, <2>2 DEF Operator
<1>. QED BY <1>1, <1>2, <1>3, <1>4, <1>5, <1>6, <1>8, <1>9, <1>10, <1>11 DEF Next

\* No worker runs on unseen, after any restart and beside any late thread.
THEOREM WorkersWatched == Spec => []WorkersAreWatched
<1>1. Init => WatchInv /\ SpawnCounted
  BY NoneTypes DEF Init, WatchInv, Alive, SpawnCounted
<1>2. WatchInv => WorkersAreWatched
  BY DEF WatchInv, WorkersAreWatched, QueueFree
<1>. QED BY <1>1, <1>2, WatchStep, SpawnStep, TypeCorrect, SlotsOwned, PTL DEF Spec
=============================================================================
