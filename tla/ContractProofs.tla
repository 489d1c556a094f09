--------------------------- MODULE ContractProofs ---------------------------
(***************************************************************************)
(* TaskLifecycle implements ItemContract: every step of tick, sync,        *)
(* reconcile, operator, workers, crash and restart is one step of the      *)
(* contract or none.                                                       *)
(***************************************************************************)
EXTENDS TaskLifecycleProofs

\* The quota the tick has claimed is the one the contract lets it save.
DraftInv ==
    /\ pc = "claimed" => draft.state = IF quota.state = "pending" THEN "claimed" ELSE quota.state
    /\ pc = "saved" => quota.state # "pending"

\* Quota and draft change together with the place of the tick.
LEMMA DraftKept == Spec => []DraftInv
<1>1. Init => DraftInv
  BY DEF Init, DraftInv
<1>2. TypeOK /\ DraftInv /\ [Next]_vars => DraftInv'
  <2>. SUFFICES ASSUME TypeOK, DraftInv, [Next]_vars PROVE DraftInv'
    OBVIOUS
  <2>. USE DEF queueVars, jobVars, workerVars, sessionVars, tickVars, counters
  <2>1. CASE UNCHANGED <<quota, draft, pc>>
    BY <2>1 DEF DraftInv
  <2>2. CASE pc' \notin {"claimed", "saved"}
    BY <2>2 DEF DraftInv
  <2>3. CASE TickClaim
    <3>1. quota' = quota /\ pc' = "claimed" /\ quota \in Quotas
      BY <2>3 DEF TickClaim, TypeOK
    <3>2. draft'.state = IF quota.state = "pending" THEN "claimed" ELSE quota.state
      BY <2>3, <3>1 DEF TickClaim, Quotas
    <3>. QED BY <3>1, <3>2 DEF DraftInv
  <2>4. CASE TickSave
    BY <2>4 DEF TickSave, DraftInv
  <2>. QED
    <3>1. ASSUME NEW l \in Launches, Worker(l) \/ WorkerDies(l) PROVE UNCHANGED <<quota, draft, pc>>
      BY <3>1 DEF Worker, WorkerInvalid, WorkerSubmitting, WorkerSubmitted, WorkerSubmitFailed,
                  WorkerReports, WorkerWaitTimeout, WorkerDies, SetStage
    <3>2. ASSUME NEW l \in Launches, Session(l) \/ WaiterReturns(l) PROVE UNCHANGED <<quota, draft, pc>>
      BY <3>2 DEF Session, SessionOpens, SessionWrites, SessionEnds, SessionRecords, SessionStep,
                  ContainersStart, ContainersStop, SkillSelects, WaiterReturns
    <3>3. Crash \/ SnapshotSync => pc' = "idle"
      BY DEF Crash, SnapshotSync, QueueFree
    <3>4. Restart => UNCHANGED <<quota, draft, pc>>
      BY DEF Restart
    <3>5. Tick => TickClaim \/ TickSave \/ pc' \notin {"claimed", "saved"}
      BY DEF Tick, TickReap, TickSync, TickEnds, TickSkips, TickStartFails, TickSpawn, TickRecord, TickFinish
    <3>6. Reconcile => UNCHANGED <<quota, draft, pc>> \/ pc' = "idle"
      BY DEF Reconcile, SweepDeadMarkers, ReleaseInactiveReservations, ReleaseStaleReservations,
             ReleaseStuckOrphans, ForceSettleStaleQuota, ResyncFromResult, ReleaseTerminalContainers, QueueFree
    <3>7. Operator => pc' = "idle"
      BY DEF Operator, Retry, Release, Remove, FailPending, QueueFree
    <3>8. UNCHANGED vars => UNCHANGED <<quota, draft, pc>>
      BY DEF vars
    <3>. QED BY <2>1, <2>2, <2>3, <2>4, <3>1, <3>2, <3>3, <3>4, <3>5, <3>6, <3>7, <3>8 DEF Next
<1>. QED BY <1>1, <1>2, TypeCorrect, PTL DEF Spec

-----------------------------------------------------------------------------
(* The mapping                                                             *)

\* Where an item stands follows from its status.
LEMMA PlaceByStatus ==
    ASSUME TypeOK, HeldIffActive
    PROVE  /\ Place = "over" <=> item.status \in {"done", "removed"}
           /\ Place = "in" <=> Active
           /\ Place = "waits" <=> item.status = "pending"
           /\ Place = "out" <=> item.status \in {"failed", "skipped"}
BY DEF Place, InQueue, Active, ActiveStatuses, HeldIffActive, TypeOK, Items, Statuses

\* So it does in the next state.
LEMMA PlaceByStatusNext ==
    ASSUME TypeOK', HeldIffActive'
    PROVE  /\ Place' = "over" <=> item'.status \in {"done", "removed"}
           /\ Place' = "in" <=> item'.status \in ActiveStatuses
           /\ Place' = "waits" <=> item'.status = "pending"
           /\ Place' = "out" <=> item'.status \in {"failed", "skipped"}
BY DEF Place, InQueue, Active, ActiveStatuses, HeldIffActive, TypeOK, Items, Statuses

\* A step that closes records and ends workers at most lets workers wane.
LEMMA WaneByCloses ==
    ASSUME Closes
    PROVE  AtWork' \subseteq AtWork /\ Recorded' = Recorded
BY NoneTypes DEF Closes, AtWork, Recorded, Runs

\* The executor's choice and the settlement, as the contract names them.
LEMMA AccountMoves ==
    ASSUME TypeOK
    PROVE  /\ Absorbed.state \in Item!Followed
           /\ Settle(Absorbed, TRUE).state \in Item!Closed("settled")
           /\ Settle(Absorbed, FALSE).state \in Item!Closed("refunded")
           /\ Settle(quota, FALSE).state \in Item!Closed("refunded")
           /\ quota.state \in Item!Followed
<1>1. Absorbed \in Quotas /\ quota \in Quotas
  BY SyncTypes DEF TypeOK
<1>2. Absorbed.state \in {quota.state, "superseded"}
  BY <1>1 DEF Absorbed, Absorb, Quotas
<1>. QED BY <1>1, <1>2 DEF Item!Followed, Item!Closed, Settle, Quotas

\* What the helpers make of the status, and that they leave a manual release.
LEMMA HelperPlaces ==
    ASSUME NEW it \in Items
    PROVE  /\ \A s \in Statuses : Held(it, s).status = s /\ Held(it, s).manual = it.manual
           /\ \A r \in BOOLEAN : /\ Failed(it, r).status \in {"pending", "failed"}
                                 /\ Failed(it, r).manual = it.manual
           /\ Replaced(it).status = it.status /\ Replaced(it).manual = it.manual
           /\ Requeued(it).status = "pending" /\ Requeued(it).manual = it.manual
<1>1. \A s \in Statuses : Held(it, s).status = s /\ Held(it, s).manual = it.manual
  BY DEF Held, Items
<1>2. \A r \in BOOLEAN : Failed(it, r).status \in {"pending", "failed"} /\ Failed(it, r).manual = it.manual
  BY DEF Failed, Items
<1>3. Replaced(it).status = it.status /\ Replaced(it).manual = it.manual
  BY DEF Replaced, Items
<1>4. Requeued(it).status = "pending" /\ Requeued(it).manual = it.manual
  BY DEF Requeued, Items
<1>. QED BY <1>1, <1>2, <1>3, <1>4

\* A sync follows the item, gives the attempt up or completes it.
LEMMA SyncOutcome ==
    ASSUME TypeOK, Sync, InQueue
    PROVE  /\ item'.manual = item.manual
           /\ \/ /\ item'.status \in {item.status} \cup ActiveStatuses
                 /\ quota'.state \in Item!Followed \cup Item!Closed("refunded")
              \/ item'.status \in {"pending", "failed"} /\ quota'.state \in Item!Closed("refunded")
              \/ item'.status = "done" /\ quota'.state \in Item!Closed("settled")
<1>. DEFINE Follows == /\ item'.manual = item.manual
                       /\ item'.status \in {item.status} \cup ActiveStatuses
                       /\ quota'.state \in Item!Followed \cup Item!Closed("refunded")
            GivesUp == /\ item'.manual = item.manual
                       /\ item'.status \in {"pending", "failed"}
                       /\ quota'.state \in Item!Closed("refunded")
            Completes == /\ item'.manual = item.manual
                         /\ item'.status = "done"
                         /\ quota'.state \in Item!Closed("settled")
<1>a. Tracked \in Items /\ Replaced(Tracked) \in Items
  BY SyncTypes, ReplacedType
<1>b. /\ Tracked.status = item.status /\ Tracked.manual = item.manual
      /\ Replaced(Tracked).status = item.status /\ Replaced(Tracked).manual = item.manual
  <2>1. Tracked.status = item.status /\ Tracked.manual = item.manual
    BY DEF Tracked, TypeOK, Items
  <2>. QED BY <1>a, <2>1, HelperPlaces
<1>c. {"triggered", "orphaned", "running"} \subseteq Statuses \cap ActiveStatuses
  BY DEF Statuses, ActiveStatuses
<1>d. /\ Absorbed.state \in Item!Followed
      /\ Settle(Absorbed, TRUE).state \in Item!Closed("settled")
      /\ Settle(Absorbed, FALSE).state \in Item!Closed("refunded")
  BY AccountMoves
<1>e. ASSUME NEW it \in {Tracked, Replaced(Tracked)}, NEW s \in {"triggered", "orphaned"}, item' = Held(it, s)
      PROVE  item'.manual = item.manual /\ item'.status \in {item.status} \cup ActiveStatuses
  BY <1>e, <1>a, <1>b, <1>c, HelperPlaces
<1>f. ASSUME Requeue PROVE GivesUp
  BY <1>f, <1>a, <1>b, <1>d, HelperPlaces DEF Requeue
<1>. HIDE DEF Follows, GivesUp, Completes
<1>1. CASE SyncTerminal
  <2>1. CASE item' = Tracked /\ quota' = Absorbed
    BY <2>1, <1>b, <1>d DEF Follows
  <2>2. CASE item' = Held(Tracked, "triggered") /\ quota' = Absorbed
    BY <2>2, <1>d, <1>e DEF Follows
  <2>3. CASE item' = [Tracked EXCEPT !.status = "done", !.held = FALSE, !.slots = FALSE] /\ quota' = Settle(Absorbed, TRUE)
    <3>1. item'.status = "done" /\ item'.manual = item.manual
      BY <2>3, <1>a, <1>b DEF Items
    <3>. QED BY <2>3, <3>1, <1>d DEF Completes
  <2>4. CASE item' = Failed(Tracked, FALSE) /\ quota' = Settle(Absorbed, FALSE)
    BY <2>4, <1>a, <1>b, <1>d, HelperPlaces DEF GivesUp
  <2>. QED BY <1>1, <2>1, <2>2, <2>3, <2>4 DEF SyncTerminal, Follows, GivesUp, Completes
<1>2. CASE SyncReleased
  <2>1. item'.status = item.status /\ item'.manual = item.manual
    BY <1>2, <1>a, <1>b DEF SyncReleased, Items
  <2>. QED BY <1>2, <2>1, <1>d DEF SyncReleased, Follows
<1>3. CASE SyncStalled
  <2>1. CASE item' = Held(Tracked, "orphaned") /\ quota' = Absorbed
    BY <2>1, <1>d, <1>e DEF Follows
  <2>. QED BY <1>3, <2>1, <1>f DEF SyncStalled, Follows, GivesUp
<1>4. CASE SyncExited
  BY <1>4, <1>f DEF SyncExited, GivesUp
<1>5. CASE SyncObserved
  <2>1. quota' = Absorbed
    BY <1>5 DEF SyncObserved
  <2>2. CASE \E s \in {"triggered", "orphaned"} : item' = Held(Replaced(Tracked), s)
    BY <2>1, <2>2, <1>d, <1>e DEF Follows
  <2>3. CASE item' = Replaced(Tracked)
    BY <2>1, <2>3, <1>b, <1>d DEF Follows
  <2>4. CASE item' = [Replaced(Tracked) EXCEPT !.status = IF @ \in {"pending", "launching"} THEN "running" ELSE @]
    <3>1. item'.status \in {item.status, "running"} /\ item'.manual = item.manual
      BY <2>4, <1>a, <1>b DEF Items
    <3>. QED BY <2>1, <3>1, <1>c, <1>d DEF Follows
  <2>. QED BY <1>5, <2>2, <2>3, <2>4 DEF SyncObserved, Follows
<1>6. CASE SyncFailed
  <2>1. CASE item' = Held(Replaced(Tracked), "orphaned") /\ quota' = Settle(Absorbed, FALSE)
    BY <2>1, <1>d, <1>e DEF Follows
  <2>2. CASE (\E r \in BOOLEAN : item' = Failed(Tracked, r)) /\ quota' = Settle(Absorbed, FALSE)
    <3>1. PICK r \in BOOLEAN : item' = Failed(Tracked, r)
      BY <2>2
    <3>2. item'.status \in {"pending", "failed"} /\ item'.manual = item.manual
      BY <3>1, <1>a, <1>b, HelperPlaces
    <3>. QED BY <2>2, <3>2, <1>d DEF GivesUp
  <2>3. CASE item' = Replaced(Tracked) /\ quota' = Absorbed
    BY <2>3, <1>b, <1>d DEF Follows
  <2>. QED BY <1>6, <2>1, <2>2, <2>3 DEF SyncFailed, Follows, GivesUp
<1>. QED BY <1>1, <1>2, <1>3, <1>4, <1>5, <1>6 DEF Sync, Follows, GivesUp, Completes

-----------------------------------------------------------------------------
(* The refinement                                                          *)

\* A step that changes neither status, manual release nor quota lets workers
\* end at most.
LEMMA EndMaps ==
    ASSUME TypeOK, TypeOK', HeldIffActive, HeldIffActive', Closes,
           item'.status = item.status, item'.manual = item.manual, quota'.state = quota.state
    PROVE  Item!End
<1>1. Place' = Place
  BY PlaceByStatus, PlaceByStatusNext DEF Active, TypeOK, Items, Statuses, ActiveStatuses
<1>. QED BY <1>1, WaneByCloses DEF Item!End, Item!Wane

\* Every step is a step of the contract, or changes nothing it speaks of.
LEMMA StepMaps ==
    TypeOK /\ TypeOK' /\ SpawnCounted /\ SlotInv /\ SlotInv' /\ DraftInv /\ [Next]_vars
        => [Item!Next]_(Item!vars)
<1>. SUFFICES ASSUME TypeOK, TypeOK', SpawnCounted, SlotInv, SlotInv', DraftInv, [Next]_vars
              PROVE  [Item!Next]_(Item!vars)
  OBVIOUS
<1>. USE DEF queueVars, jobVars, workerVars, sessionVars, tickVars, counters
<1>a. /\ HeldIffActive /\ ClaimInv /\ RecordInv /\ OwnerInv /\ HeldIffActive'
      /\ item \in Items /\ item' \in Items /\ quota \in Quotas
  BY DEF SlotInv, TypeOK
<1>b. ASSUME UNCHANGED <<record, proc>> PROVE Closes
  BY <1>b DEF Closes, Alive
<1>c. ASSUME record' = Finalized, UNCHANGED proc PROVE Closes
  BY <1>c, FinalizedCloses DEF Closes, Alive
<1>d. ASSUME Closes, UNCHANGED <<item, quota>> PROVE Item!End
  BY <1>a, <1>d, EndMaps
<1>e. Item!End => Item!Next
  BY DEF Item!Next
<1>1. CASE UNCHANGED vars
  <2>1. UNCHANGED Item!vars
    BY <1>1 DEF vars, Item!vars, Place, InQueue, Recorded, AtWork, Runs, Alive
  <2>. QED BY <2>1
<1>2. ASSUME NEW l \in Launches, Worker(l) \/ WorkerDies(l) PROVE Item!Next
  <2>1. UNCHANGED <<item, quota, record>> /\ \A k \in AnyLaunch : Alive(k)' => Alive(k)
    BY <1>2, NoneTypes DEF Worker, WorkerInvalid, WorkerSubmitting, WorkerSubmitted,
        WorkerSubmitFailed, WorkerReports, WorkerWaitTimeout, WorkerDies, SetStage, Alive, TypeOK
  <2>. QED BY <2>1, <1>d, <1>e DEF Closes
<1>3. ASSUME NEW l \in Launches, Session(l) PROVE Item!Next
  <2>1. UNCHANGED <<item, quota, record, proc>>
    BY <1>3 DEF Session, SessionOpens, SessionWrites, SessionEnds, SessionRecords, SessionStep,
        ContainersStart, ContainersStop, SkillSelects
  <2>. QED BY <2>1, <1>b, <1>d, <1>e
<1>4. ASSUME NEW l \in Launches, WaiterReturns(l) PROVE Item!Next
  <2>1. Closes
    BY <1>4, <1>a DEF WaiterReturns, Closes, RecordInv, Alive, TypeOK
  <2>. QED BY <1>4, <2>1, <1>d, <1>e DEF WaiterReturns
<1>5. CASE Crash
  BY <1>5, <1>b, <1>d, <1>e DEF Crash
<1>6. CASE Restart
  <2>1. Closes
    BY <1>6, NoneTypes DEF Restart, Closes, Alive, TypeOK
  <2>. QED BY <1>6, <2>1, <1>d, <1>e DEF Restart
<1>7. ASSUME Sync, up, pc # "claimed" PROVE Item!Next
  <2>1. Closes
    BY <1>7, SyncEffect DEF Closes
  <2>2. CASE ~InQueue
    <3>1. UNCHANGED <<item, quota>>
      BY <1>7, <2>2 DEF Sync, SyncTerminal, SyncReleased, SyncStalled, SyncExited, SyncObserved, SyncFailed
    <3>. QED BY <2>1, <3>1, <1>d, <1>e
  <2>3. CASE InQueue
    <3>1. Item!Wane /\ UNCHANGED item.manual /\ Place # "over"
      BY <1>7, <2>1, <2>3, WaneByCloses, SyncOutcome DEF Item!Wane, Place
    <3>2. CASE /\ item'.status \in {item.status} \cup ActiveStatuses
               /\ quota'.state \in Item!Followed \cup Item!Closed("refunded")
      <4>1. Place' \in {Place, "in"}
        BY <3>2, <1>a, PlaceByStatus, PlaceByStatusNext DEF Active, Items, Statuses, ActiveStatuses
      <4>. QED BY <3>1, <3>2, <4>1 DEF Item!Follow, Item!Next
    <3>3. CASE item'.status \in {"pending", "failed"} /\ quota'.state \in Item!Closed("refunded")
      <4>1. Place' \in {"waits", "out"}
        BY <3>3, <1>a, PlaceByStatusNext
      <4>. QED BY <3>1, <3>3, <4>1 DEF Item!GiveUp, Item!Next
    <3>4. CASE item'.status = "done" /\ quota'.state \in Item!Closed("settled")
      <4>1. Place' = "over"
        BY <3>4, <1>a, PlaceByStatusNext
      <4>. QED BY <3>1, <3>4, <4>1 DEF Item!Complete, Item!Next
    <3>. QED BY <1>7, <2>3, <3>2, <3>3, <3>4, SyncOutcome
  <2>. QED BY <2>2, <2>3
<1>8. CASE SnapshotSync
  BY <1>7, <1>8 DEF SnapshotSync, QueueFree
<1>9. CASE Tick
  <2>1. CASE TickReap
    <3>1. Closes
      BY <2>1, <1>a DEF TickReap, Closes, Alive, TypeOK
    <3>. QED BY <2>1, <3>1, <1>d, <1>e DEF TickReap
  <2>2. CASE TickSync
    BY <2>2, <1>7, <1>a DEF TickSync, ClaimInv
  <2>3. CASE TickEnds \/ TickClaim
    BY <2>3, <1>b, <1>d, <1>e DEF TickEnds, TickClaim
  <2>4. CASE TickSkips
    <3>1. item'.status = "skipped" /\ item'.manual = item.manual /\ item.status = "pending"
      BY <2>4, <1>a DEF TickSkips, Items
    <3>2. Place = "waits" /\ Place' = "out"
      BY <3>1, <1>a, PlaceByStatus, PlaceByStatusNext
    <3>3. Item!Wane /\ quota' = quota
      BY <2>4, <1>b, WaneByCloses DEF TickSkips, Item!Wane
    <3>. QED BY <3>1, <3>2, <3>3 DEF Item!Drop, Item!Next
  <2>5. CASE TickSave
    <3>1. item'.status = "launching" /\ item'.manual = item.manual /\ item.status = "pending"
      BY <2>5, <1>a DEF TickSave, ClaimInv, Items
    <3>2. Place = "waits" /\ Place' = "in"
      BY <3>1, <1>a, PlaceByStatus, PlaceByStatusNext DEF ActiveStatuses
    <3>3. quota'.state = IF quota.state = "pending" THEN "claimed" ELSE quota.state
      BY <2>5 DEF TickSave, DraftInv
    <3>4. Item!Wane
      BY <2>5, <1>b, WaneByCloses DEF TickSave, Item!Wane
    <3>. QED BY <3>1, <3>2, <3>3, <3>4 DEF Item!Claim, Item!Next
  <2>6. CASE TickStartFails
    <3>1. item'.status \in {"failed", "pending"} /\ item'.manual = item.manual /\ item.status = "launching"
      BY <2>6, <1>a DEF TickStartFails, ClaimInv, Items
    <3>2. Place = "in" /\ Place' \in {"waits", "out"}
      BY <3>1, <1>a, PlaceByStatus, PlaceByStatusNext DEF Active, ActiveStatuses
    <3>3. quota'.state \in Item!Closed("refunded")
      <4>1. CASE quota.state = "claimed" /\ quota' = Settle(quota, FALSE)
        BY <4>1, AccountMoves
      <4>2. CASE quota.state # "claimed" /\ quota' = quota
        <5>1. quota.state # "pending"
          BY <2>6 DEF TickStartFails, DraftInv
        <5>. QED BY <4>2, <5>1 DEF Item!Closed, Item!Followed
      <4>. QED BY <2>6, <4>1, <4>2 DEF TickStartFails
    <3>4. Item!Wane
      BY <2>6, <1>b, WaneByCloses DEF TickStartFails, Item!Wane
    <3>. QED BY <3>1, <3>2, <3>3, <3>4 DEF Item!GiveUp, Item!Next
  <2>7. CASE TickSpawn
    <3>1. launched + 1 \notin Recorded /\ UNCHANGED <<item, quota, record>>
      BY <2>7, <1>a, BoundsAssumption DEF TickSpawn, RecordInv, TypeOK, AnyLaunch
    <3>2. \A k \in AnyLaunch : k # launched + 1 => (Alive(k)' <=> Alive(k))
      BY <2>7 DEF TickSpawn, Alive, TypeOK
    <3>3. AtWork' \subseteq AtWork /\ Recorded' = Recorded
      BY <3>1, <3>2, NoneTypes DEF AtWork, Recorded, Runs
    <3>4. UNCHANGED Place
      BY <3>1 DEF Place, InQueue
    <3>. QED BY <3>1, <3>3, <3>4, <1>e DEF Item!End, Item!Wane
  <2>8. CASE TickRecord
    <3>1. /\ UNCHANGED <<proc, quota>> /\ pc = "spawned" /\ record' = [record EXCEPT ![launched] = "running"]
          /\ item' = [item EXCEPT !.mine = @ \cup {launched}]
      BY <2>8 DEF TickRecord
    <3>2. launched \in Launches
      BY <3>1, NoneTypes DEF SpawnCounted, TypeOK
    <3>3. record'[launched] = "running" /\ \A l \in AnyLaunch : l # launched => record'[l] = record[l]
      BY <3>1, <3>2, NoneTypes DEF TypeOK
    <3>4. Recorded' = Recorded \cup {launched}
      BY <3>2, <3>3, NoneTypes DEF Recorded
    <3>5. AtWork = {} /\ AtWork' \subseteq {launched}
      <4>1. \A l \in Launches : ~Runs(l)
        BY <3>1, <1>a DEF OwnerInv
      <4>2. \A l \in Launches : Runs(l)' => l = launched
        BY <3>1, <3>3, <4>1, NoneTypes DEF Runs, Alive
      <4>. QED BY <4>1, <4>2 DEF AtWork
    <3>6. \A k \in Recorded : k < launched
      <4>1. launched \notin Recorded
        BY <3>1, <1>a DEF RecordInv, Recorded
      <4>2. \A k \in Recorded : k <= launched /\ k # launched /\ k \in Nat /\ launched \in Nat
        BY <3>2, <4>1, <1>a, BoundsAssumption DEF RecordInv, Recorded, Launches
      <4>. QED BY <4>2
    <3>7. item'.status = item.status /\ item'.manual = item.manual /\ item.status = "launching"
      BY <3>1, <1>a DEF ClaimInv, Items
    <3>8. Place = "in" /\ Place' = "in"
      BY <3>7, <1>a, PlaceByStatus, PlaceByStatusNext DEF Active, ActiveStatuses
    <3>9. Item!Begin(launched)
      BY <3>1, <3>4, <3>5, <3>6, <3>7, <3>8 DEF Item!Begin
    <3>. QED BY <3>2, <3>9 DEF Item!Next
  <2>9. CASE TickFinish
    <3>1. item'.status = "running" /\ item'.manual = item.manual /\ item.status = "launching"
      BY <2>9, <1>a DEF TickFinish, ClaimInv, Items
    <3>2. UNCHANGED Place
      BY <3>1, <1>a, PlaceByStatus, PlaceByStatusNext DEF Active, ActiveStatuses
    <3>3. Item!Wane /\ quota' = quota
      BY <2>9, <1>b, WaneByCloses DEF TickFinish, Item!Wane
    <3>. QED BY <3>1, <3>2, <3>3, <1>e DEF Item!End
  <2>. QED BY <1>9, <2>1, <2>2, <2>3, <2>4, <2>5, <2>6, <2>7, <2>8, <2>9 DEF Tick
<1>10. CASE Reconcile
  <2>1. CASE SweepDeadMarkers \/ ReleaseTerminalContainers
    BY <2>1, <1>b, <1>d, <1>e DEF SweepDeadMarkers, ReleaseTerminalContainers
  <2>2. CASE ReleaseInactiveReservations
    <3>1. item'.status = item.status /\ item'.manual = item.manual /\ quota' = quota
      BY <2>2, <1>a DEF ReleaseInactiveReservations, Items
    <3>2. Closes
      BY <2>2, <1>b DEF ReleaseInactiveReservations
    <3>. QED BY <3>1, <3>2, <1>a, <1>e, EndMaps
  <2>3. CASE ReleaseStaleReservations \/ ReleaseStuckOrphans
    <3>1. item'.status \in {"pending", "skipped"} /\ item'.manual = item.manual /\ Active
      BY <2>3, <1>a DEF ReleaseStaleReservations, ReleaseStuckOrphans, Items, Active, ActiveStatuses
    <3>2. Place = "in" /\ Place' \in {"waits", "out"}
      BY <3>1, <1>a, PlaceByStatus, PlaceByStatusNext
    <3>3. quota'.state \in Item!Closed("refunded")
      BY <2>3, AccountMoves DEF ReleaseStaleReservations, ReleaseStuckOrphans
    <3>4. Closes
      <4>1. CASE ReleaseStaleReservations
        BY <4>1, <1>a DEF ReleaseStaleReservations, Closes, RecordInv, Alive, TypeOK
      <4>2. CASE ReleaseStuckOrphans
        BY <4>2, <1>c DEF ReleaseStuckOrphans
      <4>. QED BY <2>3, <4>1, <4>2
    <3>. QED BY <3>1, <3>2, <3>3, <3>4, WaneByCloses DEF Item!GiveUp, Item!Wane, Item!Next
  <2>4. CASE ForceSettleStaleQuota
    <3>1. UNCHANGED <<item, Place>> /\ Place # "over" /\ quota' = Settle(quota, FALSE)
      BY <2>4 DEF ForceSettleStaleQuota, Place, InQueue
    <3>2. Closes
      BY <2>4, <1>b DEF ForceSettleStaleQuota
    <3>. QED BY <3>1, <3>2, AccountMoves, WaneByCloses DEF Item!Follow, Item!Wane, Item!Next
  <2>5. CASE ResyncFromResult
    <3>1. item'.status = "triggered" /\ item'.manual = item.manual /\ item.status = "pending" /\ quota' = quota
      BY <2>5, <1>a, HelperPlaces DEF ResyncFromResult, Statuses, ActiveStatuses
    <3>2. Place = "waits" /\ Place' = "in"
      BY <3>1, <1>a, PlaceByStatus, PlaceByStatusNext DEF ActiveStatuses
    <3>3. Closes
      BY <2>5, <1>b DEF ResyncFromResult
    <3>. QED BY <3>1, <3>2, <3>3, AccountMoves, WaneByCloses DEF Item!Follow, Item!Wane, Item!Next
  <2>. QED BY <1>10, <2>1, <2>2, <2>3, <2>4, <2>5 DEF Reconcile
<1>11. CASE Operator
  <2>1. CASE Retry
    <3>1. item'.status = "pending" /\ ~item'.manual /\ quota'.state = "pending" /\ InQueue /\ ~Active
      BY <2>1, <1>a DEF Retry, Items, FreshQuota
    <3>2. Place \in {"waits", "out"} /\ Place' = "waits"
      BY <3>1, <1>a, PlaceByStatus, PlaceByStatusNext DEF InQueue, Active, Items, Statuses
    <3>3. Closes
      BY <2>1, <1>b DEF Retry
    <3>. QED BY <3>1, <3>2, <3>3, WaneByCloses DEF Item!Retry, Item!Wane, Item!Next
  <2>2. CASE Release
    <3>1. item'.status = "skipped" /\ item'.manual /\ quota' = quota
      BY <2>2, <1>a DEF Release, Items
    <3>2. Active
      BY <2>2, <1>a DEF Release, Holds, HeldIffActive
    <3>3. Place = "in" /\ Place' = "out"
      BY <3>1, <3>2, <1>a, PlaceByStatus, PlaceByStatusNext
    <3>4. Closes
      BY <2>2, <1>c DEF Release
    <3>5. item'.manual = TRUE
      BY <3>1, <1>a DEF Items
    <3>. QED BY <3>1, <3>3, <3>4, <3>5, WaneByCloses DEF Item!Release, Item!Wane, Item!Next
  <2>3. CASE Remove \/ FailPending
    <3>1. /\ item'.status \in {"removed", "failed"} /\ item'.manual = item.manual /\ quota' = quota
          /\ InQueue /\ ~Active
      BY <2>3, <1>a DEF Remove, FailPending, Items, InQueue, Active, ActiveStatuses
    <3>2. Place \in {"waits", "out"} /\ Place' \in {"out", "over"}
      BY <3>1, <1>a, PlaceByStatus, PlaceByStatusNext DEF InQueue, Active, Items, Statuses
    <3>3. Closes
      BY <2>3, <1>b DEF Remove, FailPending
    <3>. QED BY <3>1, <3>2, <3>3, WaneByCloses DEF Item!Drop, Item!Wane, Item!Next
  <2>. QED BY <1>11, <2>1, <2>2, <2>3 DEF Operator
<1>. QED BY <1>1, <1>2, <1>3, <1>4, <1>5, <1>6, <1>8, <1>9, <1>10, <1>11 DEF Next

\* TaskLifecycle implements the contract of an item.
THEOREM ImplementsContract == Spec => KeepsContract
<1>1. Init => Item!Init
  <2>. SUFFICES ASSUME Init PROVE Item!Init
    OBVIOUS
  <2>1. \A l \in Launches : record[l] = "none"
    BY NoneTypes DEF Init
  <2>2. Recorded = {} /\ AtWork = {}
    BY <2>1 DEF Recorded, AtWork, Runs
  <2>3. item.manual = FALSE /\ quota.state = "pending" /\ Place = "waits"
    BY DEF Init, FreshQuota, Place, InQueue
  <2>. QED BY <2>2, <2>3 DEF Item!Init
<1>2. Init => TypeOK /\ SpawnCounted
  BY TypeInit DEF Init, SpawnCounted
<1>3. TypeOK /\ SpawnCounted /\ [Next]_vars => TypeOK' /\ SpawnCounted'
  BY TypeStep, SpawnStep
<1>. QED BY <1>1, <1>2, <1>3, StepMaps, SlotsOwned, DraftKept, PTL DEF Spec, KeepsContract, Item!Spec

\* So a claim is held by an item in its slot unless an operator took that away,
\* an account is settled with the end of the item only, and one worker runs.
THEOREM ContractPromised == Spec => []Item!Promise
BY ImplementsContract, Item!PromiseKept, PTL DEF KeepsContract
=============================================================================
