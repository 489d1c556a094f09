---------------------------- MODULE AttemptProofs ----------------------------
(***************************************************************************)
(* What belongs to the present attempt of an item: a success is that of    *)
(* one of its launches, the platform task that success settles is one      *)
(* nobody has cancelled, a session that goes on keeps its slot, the        *)
(* launches of an item are paid for by its retries, its platform task is   *)
(* paid for once and not forgotten, and its changes are those of Refill.   *)
(***************************************************************************)
EXTENDS ContractProofs, FiniteSetTheorems

-----------------------------------------------------------------------------
(* A done item is done by its own launch                                   *)

\* What the item names is of the present run key, and nothing is launch 0.
OwnInv ==
    /\ session[0] = "none"
    /\ item.root \in item.mine \cup {0} /\ item.file \in item.mine \cup {0}
    /\ pc = "recorded" => launched \in item.mine
    /\ DoneIsOwn

\* A sync names the root it has found, or forgets the attempt with all it named.
LEMMA SyncNames ==
    ASSUME TypeOK, Sync, InQueue
    PROVE  /\ \/ item'.mine = item.mine /\ item'.root = Root /\ item'.file = item.file
              \/ item'.mine = {} /\ item'.root = 0 /\ item'.file = 0
           /\ item'.status = "done" => session[Root] \in SuccessSessions /\ item'.root = Root /\ item'.mine = item.mine
           /\ quota' \in {Absorbed, Settle(Absorbed, TRUE), Settle(Absorbed, FALSE)}
<1>. DEFINE Same(it) == it.mine = item.mine /\ it.root = Root /\ it.file = item.file
            Kept == item'.mine = item.mine /\ item'.root = Root /\ item'.file = item.file
            Goal == /\ \/ item'.mine = item.mine /\ item'.root = Root /\ item'.file = item.file
                       \/ item'.mine = {} /\ item'.root = 0 /\ item'.file = 0
                    /\ item'.status = "done" => session[Root] \in SuccessSessions /\ item'.root = Root /\ item'.mine = item.mine
<1>a. Tracked \in Items /\ Replaced(Tracked) \in Items
  BY SyncTypes, ReplacedType
<1>b. Same(Tracked)
  BY DEF Tracked, TypeOK, Items
<1>c. Same(Replaced(Tracked))
  BY <1>a, <1>b DEF Replaced, Items
<1>d. Tracked.status = item.status /\ Replaced(Tracked).status = item.status /\ item.status # "done"
  <2>1. Tracked.status = item.status
    BY DEF Tracked, TypeOK, Items
  <2>. QED BY <1>a, <2>1, HelperPlaces DEF InQueue
<1>n. Kept /\ (item'.status = "done" => session[Root] \in SuccessSessions) => Goal
  OBVIOUS
<1>e. ASSUME NEW it \in {Tracked, Replaced(Tracked)}, item' = it PROVE Goal
  BY <1>b, <1>c, <1>d, <1>e
<1>f. ASSUME NEW it \in {Tracked, Replaced(Tracked)}, NEW s \in {"triggered", "orphaned"}, item' = Held(it, s) PROVE Goal
  <2>1. Kept /\ item'.status = s
    BY <1>a, <1>b, <1>c, <1>f DEF Held, Items
  <2>. QED BY <2>1
<1>g. ASSUME NEW r \in BOOLEAN, item' = Failed(Tracked, r) PROVE Goal
  <2>1. Kept /\ item'.status # "done"
    BY <1>a, <1>b, <1>g DEF Failed, Items
  <2>. QED BY <2>1
<1>h. ASSUME Requeue PROVE Goal
  <2>1. item'.mine = {} /\ item'.root = 0 /\ item'.file = 0 /\ item'.status # "done"
    BY <1>a, <1>h DEF Requeue, Requeued, Items
  <2>. QED BY <2>1
<1>. HIDE DEF Goal
<1>1. CASE SyncTerminal
  <2>q. quota' \in {Absorbed, Settle(Absorbed, TRUE), Settle(Absorbed, FALSE)}
    BY <1>1 DEF SyncTerminal
  <2>1. CASE session[Root] \in SuccessSessions /\ item' = [Tracked EXCEPT !.status = "done", !.held = FALSE, !.slots = FALSE]
    <3>1. Kept
      BY <1>a, <1>b, <2>1 DEF Items
    <3>2. session[Root] \in SuccessSessions
      BY <2>1
    <3>. HIDE DEF Kept
    <3>. QED BY <2>q, <3>1, <3>2, <1>n DEF Goal
  <2>. QED BY <1>1, <1>e, <1>f, <1>g, <2>1 DEF SyncTerminal, Goal
<1>2. CASE SyncReleased
  <2>q. quota' \in {Absorbed, Settle(Absorbed, TRUE), Settle(Absorbed, FALSE)}
    BY <1>2 DEF SyncReleased
  <2>1. Kept /\ item'.status = item.status
    BY <1>2, <1>a, <1>b, <1>d DEF SyncReleased, Items
  <2>2. item'.status # "done"
    BY <2>1, <1>d
  <2>. HIDE DEF Kept
  <2>. QED BY <2>q, <2>1, <2>2, <1>n DEF Goal
<1>3. CASE SyncStalled \/ SyncExited
  BY <1>3, <1>f, <1>h DEF SyncStalled, SyncExited, Requeue, Goal
<1>4. CASE SyncObserved
  <2>q. quota' \in {Absorbed, Settle(Absorbed, TRUE), Settle(Absorbed, FALSE)}
    BY <1>4 DEF SyncObserved
  <2>1. CASE item' = [Replaced(Tracked) EXCEPT !.status = IF @ \in {"pending", "launching"} THEN "running" ELSE @]
    <3>1. Kept /\ item'.status # "done"
      BY <1>a, <1>c, <1>d, <2>1 DEF Items
    <3>. HIDE DEF Kept
    <3>. QED BY <2>q, <3>1, <1>n DEF Goal
  <2>. QED BY <1>4, <1>e, <1>f, <2>1 DEF SyncObserved, Goal
<1>5. CASE SyncFailed
  BY <1>5, <1>e, <1>f, <1>g DEF SyncFailed, Goal
<1>6. SyncTerminal \/ SyncReleased \/ SyncStalled \/ SyncExited \/ SyncObserved \/ SyncFailed
  BY Sync, InQueue DEF Sync
<1>. QED BY <1>1, <1>2, <1>3, <1>4, <1>5, <1>6

\* The root a sync finds is of the present run key.
LEMMA RootIsOwn ==
    ASSUME TypeOK, OwnInv
    PROVE  Root \in item.mine \cup {0}
BY FoundJobType DEF OwnInv, Root, ResultFile

\* A step that keeps what the item names, or adds a launch to it.
LEMMA NamesKept ==
    ASSUME TypeOK, OwnInv, item'.root = item.root, item'.file = item.file, item.mine \subseteq item'.mine,
           item'.status = "done" => item.status = "done", session'[0] = session[0],
           pc' = "recorded" => launched' \in item'.mine
    PROVE  OwnInv'
BY DEF OwnInv, DoneIsOwn

\* What an item names belongs to its present run key, through every step.
LEMMA OwnStep == TypeOK /\ OwnInv /\ [Next]_vars => OwnInv'
<1>. SUFFICES ASSUME TypeOK, OwnInv, [Next]_vars PROVE OwnInv'
  OBVIOUS
<1>. USE DEF queueVars, jobVars, workerVars, sessionVars, tickVars, counters
<1>a. item \in Items
  BY DEF TypeOK
<1>1. CASE UNCHANGED <<item, session, pc, launched>>
  BY <1>1, NamesKept DEF OwnInv
<1>2. ASSUME NEW l \in Launches, Session(l) PROVE OwnInv'
  <2>1. UNCHANGED <<item, pc, launched>>
    BY <1>2 DEF Session, SessionOpens, SessionWrites, SessionEnds, SessionRecords, SessionStep,
        ContainersStart, ContainersStop, SkillSelects
  <2>2. UNCHANGED session \/ \E s \in Sessions : session' = [session EXCEPT ![l] = s]
    BY <1>2 DEF Session, SessionOpens, SessionWrites, SessionEnds, SessionRecords, SessionStep,
        ContainersStart, ContainersStop, SkillSelects, Sessions
  <2>3. l # 0 /\ session'[0] = session[0]
    <3>1. l # 0
      BY BoundsAssumption DEF Launches
    <3>. QED BY <2>2, <3>1, NoneTypes DEF TypeOK
  <2>. QED BY <2>1, <2>3, NamesKept DEF OwnInv
<1>3. ASSUME Sync, pc' # "recorded" PROVE OwnInv'
  <2>1. session' = session
    BY <1>3 DEF Sync
  <2>2. CASE ~InQueue
    <3>1. item' = item
      BY <1>3, <2>2 DEF Sync, SyncTerminal, SyncReleased, SyncStalled, SyncExited, SyncObserved, SyncFailed
    <3>. QED BY <1>3, <2>1, <3>1, NamesKept DEF OwnInv
  <2>3. CASE InQueue
    <3>1. /\ \/ item'.mine = item.mine /\ item'.root = Root /\ item'.file = item.file
             \/ item'.mine = {} /\ item'.root = 0 /\ item'.file = 0
          /\ item'.status = "done" => session[Root] \in SuccessSessions /\ item'.root = Root /\ item'.mine = item.mine
      BY <1>3, <2>3, SyncNames
    <3>2. Root \in item.mine \cup {0}
      BY RootIsOwn
    <3>3. item'.status = "done" => item'.root \in item'.mine
      BY <3>1, <3>2 DEF OwnInv, SuccessSessions
    <3>. QED BY <1>3, <2>1, <3>1, <3>2, <3>3 DEF OwnInv, DoneIsOwn
  <2>. QED BY <2>2, <2>3
<1>4. CASE SnapshotSync
  BY <1>3, <1>4 DEF SnapshotSync, QueueFree
<1>5. CASE Tick
  <2>1. CASE TickReap \/ TickEnds \/ TickClaim \/ TickSpawn
    BY <2>1, NamesKept DEF TickReap, TickEnds, TickClaim, TickSpawn
  <2>2. CASE TickSync
    BY <2>2, <1>3 DEF TickSync
  <2>3. CASE TickSkips \/ TickSave \/ TickStartFails
    <3>1. /\ item'.root = item.root /\ item'.file = item.file /\ item'.mine = item.mine
          /\ item'.status # "done" /\ session' = session /\ pc' # "recorded"
      BY <2>3, <1>a DEF TickSkips, TickSave, TickStartFails, Items
    <3>. QED BY <3>1, NamesKept
  <2>4. CASE TickRecord
    <3>1. /\ item'.root = item.root /\ item'.file = item.file /\ item'.mine = item.mine \cup {launched}
          /\ item'.status = item.status /\ session' = session /\ launched' = launched
      BY <2>4, <1>a DEF TickRecord, Items
    <3>. QED BY <3>1, NamesKept
  <2>5. CASE TickFinish
    <3>1. /\ item'.root = item.root /\ item'.file = launched /\ item'.mine = item.mine
          /\ item'.status = "running" /\ session' = session /\ pc' = "idle" /\ pc = "recorded"
      BY <2>5, <1>a DEF TickFinish, Items
    <3>. QED BY <3>1 DEF OwnInv, DoneIsOwn
  <2>. QED BY <1>5, <2>1, <2>2, <2>3, <2>4, <2>5 DEF Tick
<1>6. CASE Reconcile
  <2>1. CASE SweepDeadMarkers \/ ForceSettleStaleQuota \/ ReleaseTerminalContainers
    BY <2>1, <1>1 DEF SweepDeadMarkers, ForceSettleStaleQuota, ReleaseTerminalContainers
  <2>2. CASE ReleaseInactiveReservations \/ ReleaseStaleReservations \/ ReleaseStuckOrphans \/ ResyncFromResult
    <3>1. /\ item'.root = item.root /\ item'.file = item.file /\ item'.mine = item.mine
          /\ item'.status \in {item.status, "pending", "skipped", "triggered"} /\ session' = session
          /\ pc' = "idle"
      BY <2>2, <1>a DEF ReleaseInactiveReservations, ReleaseStaleReservations, ReleaseStuckOrphans,
          ResyncFromResult, Held, Items, QueueFree
    <3>. QED BY <3>1, NamesKept
  <2>. QED BY <1>6, <2>1, <2>2 DEF Reconcile
<1>7. CASE Operator
  <2>1. CASE Retry
    <3>1. /\ item'.root = 0 /\ item'.file = 0 /\ item'.status = "pending" /\ session' = session /\ pc' = "idle"
      BY <2>1, <1>a DEF Retry, Items, QueueFree
    <3>. QED BY <3>1 DEF OwnInv, DoneIsOwn
  <2>2. CASE Release \/ Remove \/ FailPending
    <3>1. /\ item'.root = item.root /\ item'.file = item.file /\ item'.mine = item.mine
          /\ item'.status # "done" /\ session' = session /\ pc' = "idle"
      BY <2>2, <1>a DEF Release, Remove, FailPending, Items, QueueFree
    <3>. QED BY <3>1, NamesKept
  <2>. QED BY <1>7, <2>1, <2>2 DEF Operator
<1>8. ASSUME NEW l \in Launches, Worker(l) \/ WorkerDies(l) \/ WaiterReturns(l) PROVE OwnInv'
  BY <1>8, <1>1 DEF Worker, WorkerInvalid, WorkerSubmitting, WorkerSubmitted, WorkerSubmitFailed,
      WorkerReports, WorkerWaitTimeout, WorkerDies, SetStage, WaiterReturns
<1>9. CASE Crash
  BY <1>9, NamesKept DEF Crash
<1>10. CASE Restart \/ UNCHANGED vars
  BY <1>10, <1>1 DEF Restart, vars
<1>. QED BY <1>2, <1>4, <1>5, <1>6, <1>7, <1>8, <1>9, <1>10 DEF Next

\* Success is credited to a launch of the present attempt.
THEOREM DoneByOwnLaunch == Spec => []DoneIsOwn
<1>1. Init => OwnInv
  BY NoneTypes DEF Init, OwnInv, DoneIsOwn
<1>2. OwnInv => DoneIsOwn
  BY DEF OwnInv
<1>. QED BY <1>1, <1>2, OwnStep, TypeCorrect, PTL DEF Spec
-----------------------------------------------------------------------------
(* What success has settled is not cancelled                               *)

\* Nothing has happened yet for launch 0 and the launches to come.
FreshInv ==
    \A l \in AnyLaunch : l = 0 \/ l > launched => ~Alive(l) /\ session[l] = "none" /\ chosen[l] = 0

\* A cancel closes the account, and until a retry opens another, with a run key
\* of its own, no task of the attempt and none the account names is cancelled.
Open(t) == t # 0 => tasks[t] # "cancelled"
PaidInv ==
    /\ quota.state \in {"pending", "claimed", "settled"} => Open(quota.task)
    /\ quota.state \in {"pending", "claimed"} => \A l \in item.mine : Open(chosen[l])
    /\ pc = "claimed" => draft.task = quota.task \/ Open(draft.task)
    /\ pc = "spawned" => Open(chosen[launched])

\* A step that starts no worker and leaves sessions and choices alone.
LEMMA FreshKept ==
    ASSUME FreshInv, UNCHANGED <<launched, session, chosen>>, \A l \in AnyLaunch : Alive(l)' => Alive(l)
    PROVE  FreshInv'
BY DEF FreshInv

\* A launch leaves no trace before it is made.
LEMMA FreshStep == TypeOK /\ SlotInv /\ FreshInv /\ [Next]_vars => FreshInv'
<1>. SUFFICES ASSUME TypeOK, SlotInv, FreshInv, [Next]_vars PROVE FreshInv'
  OBVIOUS
<1>. USE DEF queueVars, jobVars, workerVars, sessionVars, tickVars, counters
<1>a. ASSUME UNCHANGED <<launched, session, chosen, proc>> PROVE FreshInv'
  BY <1>a, FreshKept DEF Alive
<1>1. ASSUME NEW l \in Launches, Worker(l) \/ WorkerDies(l) PROVE FreshInv'
  <2>1. UNCHANGED <<launched, session, chosen>> /\ \A k \in AnyLaunch : Alive(k)' => Alive(k)
    BY <1>1, NoneTypes DEF Worker, WorkerInvalid, WorkerSubmitting, WorkerSubmitted,
        WorkerSubmitFailed, WorkerReports, WorkerWaitTimeout, WorkerDies, SetStage, Alive, TypeOK
  <2>. QED BY <2>1, FreshKept
<1>2. ASSUME NEW l \in Launches, Session(l) PROVE FreshInv'
  <2>1. l \in AnyLaunch /\ UNCHANGED <<launched, proc>>
    BY <1>2, NoneTypes DEF Session, SessionOpens, SessionWrites, SessionEnds, SessionRecords, SessionStep,
        ContainersStart, ContainersStop, SkillSelects
  <2>2. UNCHANGED <<session, chosen>> \/ Alive(l) \/ session[l] # "none"
    BY <1>2 DEF Session, SessionOpens, SessionWrites, SessionEnds, SessionRecords, SessionStep,
        ContainersStart, ContainersStop, SkillSelects, Alive
  <2>3. \A k \in AnyLaunch : k # l => session'[k] = session[k] /\ chosen'[k] = chosen[k]
    BY <1>2 DEF Session, SessionOpens, SessionWrites, SessionEnds, SessionRecords, SessionStep,
        ContainersStart, ContainersStop, SkillSelects, TypeOK
  <2>4. CASE UNCHANGED <<session, chosen>>
    BY <1>a, <2>1, <2>4
  <2>5. CASE ~UNCHANGED <<session, chosen>>
    BY <2>1, <2>2, <2>3, <2>5 DEF FreshInv, Alive
  <2>. QED BY <2>4, <2>5
<1>3. ASSUME NEW l \in Launches, WaiterReturns(l) PROVE FreshInv'
  BY <1>3, <1>a DEF WaiterReturns
<1>4. CASE Crash
  BY <1>4, <1>a DEF Crash
<1>5. CASE Restart
  <2>1. UNCHANGED <<launched, session, chosen>> /\ \A k \in AnyLaunch : Alive(k)' => Alive(k)
    BY <1>5 DEF Restart, Alive
  <2>. QED BY <2>1, FreshKept
<1>6. ASSUME Sync, up, pc # "claimed" PROVE FreshInv'
  BY <1>6, SyncEffect, FreshKept DEF Closes, Sync
<1>7. CASE SnapshotSync
  BY <1>6, <1>7 DEF SnapshotSync, QueueFree
<1>8. CASE Tick
  <2>1. CASE TickReap
    <3>1. UNCHANGED <<launched, session, chosen>> /\ \A k \in AnyLaunch : Alive(k)' => Alive(k)
      BY <2>1 DEF TickReap, Alive, TypeOK
    <3>. QED BY <3>1, FreshKept
  <2>2. CASE TickSync
    BY <2>2, <1>6 DEF TickSync, SlotInv, ClaimInv
  <2>3. CASE TickSpawn
    <3>1. UNCHANGED <<session, chosen>> /\ launched' = launched + 1 /\ proc' = [proc EXCEPT ![launched + 1] = "starting"]
      BY <2>3 DEF TickSpawn
    <3>2. \A k \in AnyLaunch : k = 0 \/ k > launched + 1 => k # launched + 1 /\ (k = 0 \/ k > launched)
      BY BoundsAssumption DEF TypeOK, AnyLaunch
    <3>3. \A k \in AnyLaunch : k # launched + 1 => proc'[k] = proc[k]
      BY <3>1 DEF TypeOK
    <3>. QED BY <3>1, <3>2, <3>3 DEF FreshInv, Alive
  <2>4. CASE TickEnds \/ TickSkips \/ TickClaim \/ TickSave \/ TickStartFails \/ TickRecord \/ TickFinish
    BY <2>4, <1>a DEF TickEnds, TickSkips, TickClaim, TickSave, TickStartFails, TickRecord, TickFinish
  <2>. QED BY <1>8, <2>1, <2>2, <2>3, <2>4 DEF Tick
<1>9. CASE Reconcile
  <2>1. CASE ReleaseStaleReservations
    <3>1. UNCHANGED <<launched, session, chosen>> /\ \A k \in AnyLaunch : Alive(k)' => Alive(k)
      BY <2>1 DEF ReleaseStaleReservations, Alive, TypeOK
    <3>. QED BY <3>1, FreshKept
  <2>2. CASE ~ReleaseStaleReservations
    BY <1>9, <2>2, <1>a DEF Reconcile, SweepDeadMarkers, ReleaseInactiveReservations, ReleaseStuckOrphans,
        ForceSettleStaleQuota, ResyncFromResult, ReleaseTerminalContainers
  <2>. QED BY <2>1, <2>2
<1>10. CASE Operator \/ UNCHANGED vars
  BY <1>10, <1>a DEF Operator, Retry, Release, Remove, FailPending, vars
<1>. QED BY <1>1, <1>2, <1>3, <1>4, <1>5, <1>7, <1>8, <1>9, <1>10 DEF Next

\* A step that cancels nothing and opens nothing.
LEMMA PaidKept ==
    ASSUME TypeOK, PaidInv, quota' = quota, chosen' = chosen, item'.mine \subseteq item.mine,
           \A t \in Tasks : tasks[t] # "cancelled" => tasks'[t] # "cancelled",
           pc' = "claimed" => pc = "claimed" /\ draft' = draft,
           pc' = "spawned" => pc = "spawned" /\ launched' = launched
    PROVE  PaidInv'
<1>1. \A t \in AnyTask : Open(t) => (t # 0 => tasks'[t] # "cancelled")
  BY NoneTypes DEF Open, AnyTask, Tasks
<1>2. quota.task \in AnyTask /\ draft.task \in AnyTask /\ chosen[launched] \in AnyTask
      /\ \A l \in item.mine : chosen[l] \in AnyTask
  BY NoneTypes DEF TypeOK, Quotas, Items
<1>. QED BY <1>1, <1>2 DEF PaidInv, Open

\* A step that closes the account without settling it.
LEMMA PaidClosed ==
    ASSUME quota'.state \notin {"pending", "claimed", "settled"}, pc' = "idle"
    PROVE  PaidInv'
BY DEF PaidInv

\* A sync settles with the task of the attempt it follows, and cancels nothing.
LEMMA PaidSync ==
    ASSUME TypeOK, OwnInv, FreshInv, PaidInv, Sync, quota.state = "settled" => ~InQueue,
           pc' \notin {"claimed", "spawned"}
    PROVE  PaidInv'
<1>1. UNCHANGED <<chosen, tasks>>
  BY Sync DEF Sync, sessionVars
<1>2. CASE ~InQueue
  <2>1. UNCHANGED <<item, quota>>
    BY <1>2, Sync DEF Sync, SyncTerminal, SyncReleased, SyncStalled, SyncExited, SyncObserved, SyncFailed, queueVars
  <2>. QED BY <1>1, <2>1, PaidKept
<1>3. CASE InQueue
  <2>1. item'.mine \subseteq item.mine /\ quota' \in {Absorbed, Settle(Absorbed, TRUE), Settle(Absorbed, FALSE)}
    BY <1>3, Sync, SyncNames
  <2>2. Root \in item.mine \cup {0} /\ chosen[0] = 0 /\ Root \in AnyLaunch
    BY RootIsOwn, NoneTypes DEF FreshInv, TypeOK, Items
  <2>3. Absorbed \in Quotas /\ quota \in Quotas /\ chosen[Root] \in AnyTask
    BY <2>2, SyncTypes DEF TypeOK
  <2>4. \/ Absorbed = quota
        \/ /\ chosen[Root] # 0 /\ Absorbed.task = chosen[Root]
           /\ Absorbed.state \in {quota.state, "superseded"}
    BY DEF Absorbed, Absorb
  <2>5. quota.state \in {"pending", "claimed"} => Open(quota.task) /\ Open(chosen[Root])
    BY <2>2 DEF PaidInv, Open
  <2>6. Absorbed.state \in {"pending", "claimed"} => quota.state \in {"pending", "claimed"} /\ Open(Absorbed.task)
    BY <2>4, <2>5
  <2>7. Absorbed.state # "settled"
    BY <1>3, <2>4
  <2>8. /\ quota'.task = Absorbed.task
        /\ quota'.state \in {"pending", "claimed", "settled"} => Absorbed.state \in {"pending", "claimed"}
        /\ quota'.state \in {"pending", "claimed"} => Absorbed.state \in {"pending", "claimed"}
    BY <2>1, <2>3, <2>7 DEF Settle, Quotas
  <2>9. \A l \in item'.mine : quota.state \in {"pending", "claimed"} => Open(chosen[l])
    BY <2>1 DEF PaidInv
  <2>. QED BY <1>1, <2>6, <2>8, <2>9 DEF PaidInv, Open
<1>. QED BY <1>2, <1>3

\* Every step keeps the tasks of an open or settled account.
LEMMA PaidStep ==
    TypeOK /\ SlotInv /\ DraftInv /\ OwnInv /\ FreshInv /\ PaidInv /\ Item!SettledIsOver /\ [Next]_vars
        => PaidInv'
<1>. SUFFICES ASSUME TypeOK, SlotInv, DraftInv, OwnInv, FreshInv, PaidInv, Item!SettledIsOver, [Next]_vars
              PROVE  PaidInv'
  OBVIOUS
<1>. USE DEF queueVars, jobVars, workerVars, sessionVars, tickVars, counters
<1>a. item \in Items /\ quota \in Quotas /\ draft \in Quotas
  BY DEF TypeOK
<1>b. quota.state = "settled" => ~InQueue
  BY DEF Item!SettledIsOver, Place
<1>c. ASSUME UNCHANGED <<quota, chosen, item, tasks, pc, draft, launched>> PROVE PaidInv'
  BY <1>c, PaidKept
<1>d. ASSUME UNCHANGED <<quota, chosen, tasks>>, item'.mine \subseteq item.mine, pc' \notin {"claimed", "spawned"} PROVE PaidInv'
  BY <1>d, PaidKept
<1>e. ASSUME quota' = Settle(quota, FALSE), quota.state # "settled", pc' = "idle" PROVE PaidInv'
  <2>1. quota'.state \notin {"pending", "claimed", "settled"}
    BY <1>a, <1>e DEF Settle, Quotas, QuotaStates
  <2>. QED BY <1>e, <2>1, PaidClosed
<1>1. ASSUME NEW l \in Launches, Worker(l) \/ WorkerDies(l) \/ WaiterReturns(l) PROVE PaidInv'
  BY <1>1, <1>c DEF Worker, WorkerInvalid, WorkerSubmitting, WorkerSubmitted, WorkerSubmitFailed,
      WorkerReports, WorkerWaitTimeout, WorkerDies, SetStage, WaiterReturns
<1>2. ASSUME NEW l \in Launches, Session(l) PROVE PaidInv'
  <2>1. CASE SkillSelects(l)
    <3>1. UNCHANGED <<item, quota, pc, draft, launched>>
      BY <2>1 DEF SkillSelects
    <3>2. PICK t \in Tasks : /\ tasks[t] = "unused" /\ tasks' = [tasks EXCEPT ![t] = "open"]
                             /\ chosen' = [chosen EXCEPT ![l] = t]
      BY <2>1 DEF SkillSelects
    <3>3. \A u \in AnyTask : Open(u) => (u # 0 => tasks'[u] # "cancelled")
      BY <3>2, NoneTypes DEF Open, TypeOK, AnyTask, Tasks
    <3>4. tasks'[t] # "cancelled" /\ t \in AnyTask
      BY <3>2, NoneTypes DEF TypeOK
    <3>5. \A k \in AnyLaunch : chosen'[k] \in {t, chosen[k]} /\ chosen[k] \in AnyTask
      BY <3>2 DEF TypeOK
    <3>6. \A k \in AnyLaunch : Open(chosen[k]) => (chosen'[k] # 0 => tasks'[chosen'[k]] # "cancelled")
      BY <3>3, <3>4, <3>5
    <3>7. quota.task \in AnyTask /\ draft.task \in AnyTask /\ launched \in AnyLaunch /\ item.mine \subseteq AnyLaunch
      BY <1>a, NoneTypes DEF TypeOK, Items, Quotas
    <3>. QED BY <3>1, <3>3, <3>6, <3>7 DEF PaidInv, Open
  <2>2. CASE ~SkillSelects(l)
    BY <1>2, <2>2, <1>c DEF Session, SessionOpens, SessionWrites, SessionEnds, SessionRecords, SessionStep,
        ContainersStart, ContainersStop
  <2>. QED BY <2>1, <2>2
<1>3. CASE Crash
  BY <1>3, <1>d DEF Crash
<1>4. CASE Restart
  BY <1>4, <1>c DEF Restart
<1>5. CASE SnapshotSync
  BY <1>5, <1>b, PaidSync DEF SnapshotSync, QueueFree
<1>6. CASE Tick
  <2>1. CASE TickReap \/ TickEnds
    BY <2>1, <1>d DEF TickReap, TickEnds
  <2>2. CASE TickSync
    BY <2>2, <1>b, PaidSync DEF TickSync
  <2>3. CASE TickSkips \/ TickFinish
    <3>1. item'.mine = item.mine
      BY <2>3, <1>a DEF TickSkips, TickFinish, Items
    <3>. QED BY <2>3, <3>1, <1>d DEF TickSkips, TickFinish
  <2>4. CASE TickClaim
    <3>1. UNCHANGED <<item, quota, chosen>> /\ pc' = "claimed"
      BY <2>4 DEF TickClaim
    <3>2. CASE draft'.task = quota.task /\ UNCHANGED tasks
      BY <3>1, <3>2 DEF PaidInv, Open
    <3>3. ASSUME NEW t \in Tasks, tasks[t] = "unused", tasks' = [tasks EXCEPT ![t] = "open"],
                 draft'.task \in {t, quota.task}
          PROVE  PaidInv'
      <4>1. \A u \in AnyTask : Open(u) => (u # 0 => tasks'[u] # "cancelled")
        BY <3>3, NoneTypes DEF Open, TypeOK, AnyTask, Tasks
      <4>2. tasks'[t] # "cancelled"
        BY <3>3 DEF TypeOK
      <4>3. quota.task \in AnyTask /\ \A k \in item.mine : chosen[k] \in AnyTask
        BY <1>a, NoneTypes DEF TypeOK, Items, Quotas
      <4>. QED BY <3>1, <3>3, <4>1, <4>2, <4>3 DEF PaidInv, Open
    <3>4. \/ draft'.task = quota.task /\ UNCHANGED tasks
          \/ \E t \in Tasks : /\ tasks[t] = "unused" /\ tasks' = [tasks EXCEPT ![t] = "open"]
                              /\ draft'.task \in {t, quota.task}
      BY <2>4, <1>a DEF TickClaim, Quotas
    <3>. QED BY <3>2, <3>3, <3>4
  <2>5. CASE TickSave
    <3>1. item'.mine = item.mine /\ UNCHANGED <<chosen, tasks>> /\ pc' = "saved" /\ quota' = draft /\ pc = "claimed"
      BY <2>5, <1>a DEF TickSave, Items
    <3>2. draft.state = IF quota.state = "pending" THEN "claimed" ELSE quota.state
      BY <3>1 DEF DraftInv
    <3>. QED BY <3>1, <3>2 DEF PaidInv, Open
  <2>6. CASE TickStartFails
    <3>1. pc' = "idle" /\ item'.mine = item.mine /\ chosen' = chosen
      BY <2>6, <1>a DEF TickStartFails, Items
    <3>2. CASE quota.state = "claimed" /\ quota' = Settle(quota, FALSE)
      BY <3>1, <3>2, <1>e
    <3>3. CASE UNCHANGED <<quota, tasks>>
      BY <3>1, <3>3, <1>d
    <3>. QED BY <2>6, <3>2, <3>3 DEF TickStartFails
  <2>7. CASE TickSpawn
    <3>1. UNCHANGED <<item, quota, chosen, tasks>> /\ pc' = "spawned" /\ launched' = launched + 1 /\ launched < MaxLaunches
      BY <2>7 DEF TickSpawn
    <3>2. launched + 1 \in AnyLaunch /\ launched + 1 > launched
      BY <3>1, BoundsAssumption DEF TypeOK, AnyLaunch
    <3>3. chosen[launched + 1] = 0
      BY <3>2 DEF FreshInv
    <3>. QED BY <3>1, <3>3 DEF PaidInv, Open
  <2>8. CASE TickRecord
    <3>1. /\ item'.mine = item.mine \cup {launched} /\ UNCHANGED <<quota, chosen, tasks>> /\ pc' = "recorded"
          /\ pc = "spawned"
      BY <2>8, <1>a DEF TickRecord, Items
    <3>. QED BY <3>1 DEF PaidInv, Open
  <2>. QED BY <1>6, <2>1, <2>2, <2>3, <2>4, <2>5, <2>6, <2>7, <2>8 DEF Tick
<1>7. CASE Reconcile
  <2>1. CASE SweepDeadMarkers \/ ReleaseTerminalContainers
    BY <2>1, <1>c DEF SweepDeadMarkers, ReleaseTerminalContainers
  <2>2. CASE ReleaseInactiveReservations \/ ResyncFromResult
    <3>1. item'.mine = item.mine
      BY <2>2, <1>a DEF ReleaseInactiveReservations, ResyncFromResult, Held, Items
    <3>. QED BY <2>2, <3>1, <1>d DEF ReleaseInactiveReservations, ResyncFromResult, QueueFree
  <2>3. CASE ReleaseStaleReservations \/ ReleaseStuckOrphans \/ ForceSettleStaleQuota
    <3>1. quota' = Settle(quota, FALSE) /\ pc' = "idle"
      BY <2>3 DEF ReleaseStaleReservations, ReleaseStuckOrphans, ForceSettleStaleQuota, QueueFree
    <3>2. InQueue
      BY <2>3 DEF ReleaseStaleReservations, ReleaseStuckOrphans, ForceSettleStaleQuota, InQueue
    <3>. QED BY <3>1, <3>2, <1>b, <1>e
  <2>. QED BY <1>7, <2>1, <2>2, <2>3 DEF Reconcile
<1>8. CASE Operator
  <2>1. CASE Retry
    <3>1. item'.mine = {} /\ quota' = FreshQuota /\ pc' = "idle"
      BY <2>1, <1>a DEF Retry, Items, QueueFree
    <3>. QED BY <3>1 DEF PaidInv, Open, FreshQuota
  <2>2. CASE Release \/ Remove \/ FailPending
    <3>1. item'.mine = item.mine
      BY <2>2, <1>a DEF Release, Remove, FailPending, Items
    <3>. QED BY <2>2, <3>1, <1>d DEF Release, Remove, FailPending, QueueFree
  <2>. QED BY <1>8, <2>1, <2>2 DEF Operator
<1>9. CASE UNCHANGED vars
  BY <1>9, <1>c DEF vars
<1>. QED BY <1>1, <1>2, <1>3, <1>4, <1>5, <1>6, <1>7, <1>8, <1>9 DEF Next

\* A task that was settled as spent is never cancelled.
THEOREM SettledKeepsPaid == Spec => []SettledStaysPaid
<1>1. Init => OwnInv /\ FreshInv /\ PaidInv
  BY NoneTypes DEF Init, OwnInv, DoneIsOwn, FreshInv, PaidInv, Open, FreshQuota, Alive
<1>2. PaidInv => SettledStaysPaid
  BY DEF PaidInv, Open, SettledStaysPaid
<1>3. Item!Promise => Item!SettledIsOver
  BY DEF Item!Promise
<1>. QED BY <1>1, <1>2, <1>3, OwnStep, FreshStep, PaidStep, TypeCorrect, SlotsOwned, DraftKept,
            ContractPromised, PTL DEF Spec
-----------------------------------------------------------------------------
(* A session that is known to work keeps its slot                          *)

\* A started session leaves the sync two branches, and both hold the slot.
LEMMA SyncHolds ==
    ASSUME TypeOK, Sync, InQueue, session[Root] = "working", ~ReleasedByHand
    PROVE  item'.held
<1>1. ~Terminal /\ Submitted
  BY DEF Terminal, Submitted, Started, StateFile, SuccessSessions
<1>2. Tracked \in Items /\ Replaced(Tracked) \in Items
  BY SyncTypes, ReplacedType
<1>3. ASSUME NEW it \in Items, NEW s, item' = Held(it, s) PROVE item'.held
  BY <1>3 DEF Held, Items
<1>4. CASE SyncStalled
  BY <1>2, <1>3, <1>4 DEF SyncStalled
<1>5. CASE SyncObserved
  BY <1>1, <1>2, <1>3, <1>5 DEF SyncObserved
<1>6. ~SyncTerminal /\ ~SyncReleased /\ ~SyncExited /\ ~SyncFailed
  BY <1>1 DEF SyncTerminal, SyncReleased, SyncExited, ExecutorGone, SyncFailed
<1>. QED BY <1>4, <1>5, <1>6 DEF Sync

\* No sync gives up the slot of an item whose session shows a state file that
\* goes on: not for silence, not for a dead worker, not for a restart.
THEOREM TrackedKeepsSlot == Spec => SyncHoldsTracked
<1>1. TypeOK /\ [Next]_vars => [Sync /\ session[Root] = "working" /\ ~ReleasedByHand /\ InQueue => item'.held]_vars
  BY SyncHolds
<1>. QED BY <1>1, TypeCorrect, PTL DEF Spec, SyncHoldsTracked
-----------------------------------------------------------------------------
(* Launches stay within what retries pay for                               *)

\* The step takes nothing back, and pays if it makes the item wait again.
Pays ==
    /\ item.stalls <= item'.stalls /\ item.attempts <= item'.attempts
    /\ item'.status = "pending" => \/ item.status = "pending"
                                   \/ item.stalls < item'.stalls
                                   \/ item.attempts < item'.attempts
                                   \/ AttemptsCap <= item'.attempts

LEMMA CountersAreNumbers ==
    ASSUME TypeOK
    PROVE  /\ item.stalls \in Nat /\ item.attempts \in Nat /\ launched \in Nat
           /\ launched <= MaxLaunches /\ MaxLaunches \in Nat /\ AttemptsCap \in Nat
<1>1. item \in Items /\ launched \in 0 .. MaxLaunches
  BY DEF TypeOK, AnyLaunch
<1>. QED BY <1>1, BoundsAssumption DEF Items

LEMMA PaidStays ==
    ASSUME MaxLaunches <= AttemptsCap, TypeOK, TypeOK', BudgetInv, Pays, launched' = launched,
           pc' \in {"claimed", "saved"} => item.status = "pending" \/ pc \in {"claimed", "saved"}
    PROVE  BudgetInv'
<1>1. item'.stalls \in Nat /\ item'.attempts \in Nat
  <2>1. item' \in Items
    BY DEF TypeOK
  <2>. QED BY <2>1 DEF Items
<1>. QED BY <1>1, CountersAreNumbers DEF BudgetInv, Pays

LEMMA SyncPays ==
    ASSUME TypeOK, Sync
    PROVE  Pays
<1>a. Tracked \in Items /\ Replaced(Tracked) \in Items /\ item \in Items
  BY SyncTypes, ReplacedType DEF TypeOK
<1>b. ASSUME NEW it \in {Tracked, Replaced(Tracked)}
      PROVE  it.status = item.status /\ it.stalls = item.stalls /\ it.attempts = item.attempts
  BY <1>a, <1>b DEF Tracked, Replaced, Items
<1>c. item.stalls \in Nat /\ item.attempts \in Nat /\ AttemptsCap \in Nat
  BY <1>a, BoundsAssumption DEF Items
<1>d. ASSUME item'.stalls = item.stalls, item'.attempts = item.attempts,
             item'.status = "pending" => item.status = "pending"
      PROVE  Pays
  BY <1>c, <1>d DEF Pays
<1>e. ASSUME NEW it \in {Tracked, Replaced(Tracked)}, NEW s \in {"triggered", "orphaned"}, item' = Held(it, s)
      PROVE  Pays
  <2>1. item'.status = s /\ item'.stalls = it.stalls /\ item'.attempts = it.attempts
    BY <1>a, <1>e DEF Held, Items
  <2>. QED BY <2>1, <1>b, <1>d
<1>f. ASSUME NEW it \in {Tracked, Replaced(Tracked)}, item' = it PROVE Pays
  BY <1>b, <1>d, <1>f
<1>g. ASSUME NEW r \in BOOLEAN, item' = Failed(Tracked, r) PROVE Pays
  <2>1. item'.stalls = item.stalls /\ item'.attempts = Bump(item.attempts)
    BY <1>a, <1>b, <1>g DEF Failed, Items
  <2>. QED BY <2>1, <1>c DEF Pays, Bump
<1>h. ASSUME Requeue PROVE Pays
  <2>1. item'.stalls = item.stalls + 1 /\ item'.attempts = item.attempts
    BY <1>a, <1>b, <1>h DEF Requeue, Requeued, Items
  <2>. QED BY <2>1, <1>c DEF Pays
<1>1. CASE ~InQueue
  <2>1. item' = item
    BY <1>1 DEF Sync, queueVars
  <2>. QED BY <2>1, <1>d
<1>2. CASE SyncTerminal
  <2>1. CASE item' = [Tracked EXCEPT !.status = "done", !.held = FALSE, !.slots = FALSE]
    <3>1. item'.status = "done" /\ item'.stalls = Tracked.stalls /\ item'.attempts = Tracked.attempts
      BY <1>a, <2>1 DEF Items
    <3>. QED BY <3>1, <1>b, <1>d
  <2>. QED BY <1>2, <1>e, <1>f, <1>g, <2>1 DEF SyncTerminal
<1>3. CASE SyncReleased
  <2>1. item'.status = Tracked.status /\ item'.stalls = Tracked.stalls /\ item'.attempts = Tracked.attempts
    BY <1>3, <1>a DEF SyncReleased, Items
  <2>. QED BY <2>1, <1>b, <1>d
<1>4. CASE SyncStalled \/ SyncExited
  BY <1>4, <1>e, <1>h DEF SyncStalled, SyncExited
<1>5. CASE SyncObserved
  <2>1. CASE item' = [Replaced(Tracked) EXCEPT !.status = IF @ \in {"pending", "launching"} THEN "running" ELSE @]
    <3>1. /\ item'.status = "pending" => Replaced(Tracked).status = "pending"
          /\ item'.stalls = Replaced(Tracked).stalls /\ item'.attempts = Replaced(Tracked).attempts
      BY <1>a, <2>1 DEF Items
    <3>. QED BY <3>1, <1>b, <1>d
  <2>. QED BY <1>5, <1>e, <1>f, <2>1 DEF SyncObserved
<1>6. CASE SyncFailed
  BY <1>6, <1>e, <1>f, <1>g DEF SyncFailed
<1>. QED BY <1>1, <1>2, <1>3, <1>4, <1>5, <1>6 DEF Sync

LEMMA BudgetStep ==
    ASSUME MaxLaunches <= AttemptsCap, MaxRetries = 0, "slowContainers" \notin Events,
           TypeOK, TypeOK', SlotInv, BudgetInv, [Next]_vars
    PROVE  BudgetInv'
<1>. USE DEF queueVars, jobVars, workerVars, sessionVars, tickVars, counters
<1>a. item \in Items /\ item.stalls \in Nat /\ item.attempts \in Nat /\ launched \in Nat
  BY CountersAreNumbers DEF TypeOK
<1>b. ASSUME item'.stalls = item.stalls, item'.attempts = item.attempts, launched' = launched,
             item'.status = "pending" => item.status = "pending" \/ pc \in {"claimed", "saved"},
             pc' \in {"claimed", "saved"} => item.status = "pending" \/ pc \in {"claimed", "saved"}
      PROVE  BudgetInv'
  BY <1>a, <1>b DEF BudgetInv
<1>1. CASE UNCHANGED <<item, pc, launched>>
  BY <1>1, <1>b
<1>2. ASSUME NEW l \in Launches, Worker(l) \/ WorkerDies(l) \/ Session(l) \/ WaiterReturns(l) PROVE BudgetInv'
  BY <1>1, <1>2 DEF Worker, WorkerInvalid, WorkerSubmitting, WorkerSubmitted, WorkerSubmitFailed,
      WorkerReports, WorkerWaitTimeout, WorkerDies, SetStage, WaiterReturns, Session, SessionOpens,
      SessionWrites, SessionEnds, SessionRecords, SessionStep, ContainersStart, ContainersStop, SkillSelects
<1>3. CASE Crash \/ Restart \/ UNCHANGED vars
  <2>1. UNCHANGED <<item, launched>> /\ (pc' = pc \/ pc' = "idle")
    BY <1>3 DEF Crash, Restart, vars
  <2>. QED BY <2>1, <1>b
<1>4. ASSUME Sync, pc' \notin {"claimed", "saved"} PROVE BudgetInv'
  <2>1. launched' = launched
    BY <1>4 DEF Sync
  <2>. QED BY <1>4, <2>1, SyncPays, PaidStays
<1>5. CASE SnapshotSync
  BY <1>4, <1>5 DEF SnapshotSync, QueueFree
<1>6. CASE Tick
  <2>1. CASE TickReap \/ TickEnds \/ TickClaim
    BY <2>1, <1>b DEF TickReap, TickEnds, TickClaim
  <2>2. CASE TickSync
    BY <2>2, <1>4 DEF TickSync
  <2>3. CASE TickSkips \/ TickSave \/ TickStartFails \/ TickRecord \/ TickFinish
    <3>1. /\ item'.stalls = item.stalls /\ item'.attempts = item.attempts /\ launched' = launched
          /\ item'.status = "pending" => item.status = "pending" \/ pc = "saved"
          /\ pc' \in {"claimed", "saved"} => pc = "claimed"
      BY <2>3, <1>a DEF TickSkips, TickSave, TickStartFails, TickRecord, TickFinish, Items
    <3>. QED BY <3>1, <1>b
  <2>4. CASE TickSpawn
    <3>1. /\ item' = item /\ launched' = launched + 1 /\ pc = "saved" /\ pc' = "spawned"
          /\ item.status = "launching"
      BY <2>4 DEF TickSpawn, SlotInv, ClaimInv
    <3>. QED BY <3>1, <1>a DEF BudgetInv
  <2>. QED BY <1>6, <2>1, <2>2, <2>3, <2>4 DEF Tick
<1>7. CASE Reconcile
  <2>1. CASE SweepDeadMarkers \/ ForceSettleStaleQuota \/ ReleaseTerminalContainers
    BY <2>1, <1>1 DEF SweepDeadMarkers, ForceSettleStaleQuota, ReleaseTerminalContainers
  <2>2. CASE ReleaseInactiveReservations \/ ReleaseStuckOrphans \/ ResyncFromResult
    <3>1. /\ item'.stalls = item.stalls /\ item'.attempts = item.attempts /\ launched' = launched
          /\ item'.status = "pending" => item.status = "pending"
          /\ pc' = "idle"
      BY <2>2, <1>a DEF ReleaseInactiveReservations, ReleaseStuckOrphans, ResyncFromResult, Held, Items, QueueFree
    <3>. QED BY <3>1, <1>b
  <2>3. ~ReleaseStaleReservations
    BY DEF ReleaseStaleReservations
  <2>. QED BY <1>7, <2>1, <2>2, <2>3 DEF Reconcile
<1>8. CASE Operator
  <2>1. ~Retry
    BY DEF Retry, TypeOK
  <2>2. CASE Release \/ Remove \/ FailPending
    <3>1. /\ item'.stalls = item.stalls /\ item'.attempts = item.attempts /\ launched' = launched
          /\ item'.status # "pending" /\ pc' = "idle"
      BY <2>2, <1>a DEF Release, Remove, FailPending, Items, QueueFree
    <3>. QED BY <3>1, <1>b
  <2>. QED BY <1>8, <2>1, <2>2 DEF Operator
<1>. QED BY <1>2, <1>3, <1>5, <1>6, <1>7, <1>8 DEF Next

\* Without reservation timeouts and retries by hand, the two limits bound the
\* launches of an item, through crashes, failed starts and late threads; the
\* bound on the counter must not saturate first.
THEOREM LaunchesPaid ==
    ASSUME MaxLaunches <= AttemptsCap, MaxRetries = 0, "slowContainers" \notin Events
    PROVE  Spec => []LaunchBudget
<1>1. Init => BudgetInv
  BY BoundsAssumption DEF Init, BudgetInv
<1>2. TypeOK /\ TypeOK' /\ SlotInv /\ BudgetInv /\ [Next]_vars => BudgetInv'
  BY BudgetStep
<1>3. TypeOK /\ BudgetInv => LaunchBudget
  BY CountersAreNumbers DEF BudgetInv, LaunchBudget
<1>. QED BY <1>1, <1>2, <1>3, TypeCorrect, SlotsOwned, PTL DEF Spec
-----------------------------------------------------------------------------
(* Platform tasks are created once and not forgotten                       *)

\* A step that neither claims nor saves, and loses no task unless the executor
\* has chosen another.
Still ==
    /\ UNCHANGED <<draft, chosen, retries, crashes>>
    /\ \A t \in Tasks : tasks'[t] = "unused" <=> tasks[t] = "unused"
    /\ quota'.task # quota.task =>
         /\ quota'.task \in {chosen[l] : l \in Launches}
         /\ quota.task = 0 \/ quota'.state = "superseded"
    /\ quota'.state = "pending" => quota' = quota /\ item'.mine \subseteq item.mine
    /\ \/ pc' = pc
       \/ pc' \notin {"claimed", "saved", "spawned", "recorded"}
       \/ pc \in {"saved", "spawned"} /\ pc' \in {"spawned", "recorded"}
    /\ pc = "claimed" => pc' = "claimed" /\ quota' = quota

\* What is named is a task that has been created, or nothing.
LEMMA NamedCreated ==
    ASSUME TypeOK, AccountInv, NEW t \in Named, t # 0
    PROVE  t \in Tasks /\ tasks[t] # "unused"
BY NoneTypes DEF Named, TypeOK, Quotas, AnyTask, Tasks, AccountInv

\* Refunding cancels a task that there is, and keeps the name of it.
LEMMA RefundKeepsUsed ==
    ASSUME TypeOK, AccountInv, CancelTask(quota.task), NEW q, q \in {quota, Settle(quota, FALSE)}
    PROVE  /\ \A t \in Tasks : tasks'[t] = "unused" <=> tasks[t] = "unused"
           /\ q.task = quota.task /\ (q.state = "pending" => q = quota)
<1>1. quota.task # 0 => quota.task \in Tasks /\ tasks[quota.task] # "unused"
  BY NoneTypes DEF AccountInv, Named, TypeOK, Quotas, AnyTask, Tasks
<1>2. \A t \in Tasks : tasks'[t] = "unused" <=> tasks[t] = "unused"
  BY <1>1 DEF CancelTask, TypeOK
<1>3. q.task = quota.task /\ (q.state = "pending" => q = quota)
  BY DEF Settle, TypeOK, Quotas
<1>. QED BY <1>2, <1>3

\* A sync moves the account as the executor and the outcome say.
LEMMA SyncStill ==
    ASSUME TypeOK, OwnInv, FreshInv, AccountInv, Sync, draft' = draft,
           pc' \notin {"claimed", "saved", "spawned", "recorded"}, pc # "claimed"
    PROVE  Still
<1>1. UNCHANGED <<chosen, tasks, retries, crashes>>
  BY DEF Sync, sessionVars, counters
<1>2. CASE ~InQueue
  <2>1. UNCHANGED <<item, quota>>
    BY <1>2 DEF Sync, SyncTerminal, SyncReleased, SyncStalled, SyncExited, SyncObserved, SyncFailed, queueVars
  <2>. QED BY <1>1, <2>1 DEF Still
<1>3. CASE InQueue
  <2>1. /\ item'.mine \subseteq item.mine
        /\ quota' \in {Absorbed, Settle(Absorbed, TRUE), Settle(Absorbed, FALSE)}
    BY <1>3, SyncNames
  <2>2. /\ Root \in item.mine \cup {0} /\ item.mine \subseteq Launches
        /\ chosen[0] = 0 /\ Absorbed \in Quotas /\ quota \in Quotas
    BY RootIsOwn, NoneTypes, SyncTypes DEF FreshInv, TypeOK, Items
  <2>3. /\ quota'.task = Absorbed.task
        /\ quota'.state = "pending" => quota' = Absorbed
        /\ Absorbed.state = "superseded" => quota'.state = "superseded"
    BY <2>1, <2>2 DEF Settle, Quotas
  <2>4. CASE chosen[Root] = 0
    BY <1>1, <2>1, <2>3, <2>4 DEF Still, Absorbed, Absorb
  <2>5. CASE chosen[Root] # 0
    <3>1. Root \in Launches /\ quota.state # "pending"
      BY <2>2, <2>5 DEF AccountInv
    <3>2. /\ Absorbed.task = chosen[Root]
          /\ Absorbed.state \in {quota.state, "superseded"}
          /\ Absorbed.task # quota.task => quota.task = 0 \/ Absorbed.state = "superseded"
      BY <2>5 DEF Absorbed, Absorb
    <3>. QED BY <1>1, <2>3, <3>1, <3>2 DEF Still
  <2>. QED BY <2>4, <2>5
<1>. QED BY <1>2, <1>3

\* The steps that claim, save, open an account or choose a task, and the others.
LEMMA TaskMoves ==
    ASSUME TypeOK, OwnInv, FreshInv, AccountInv, [Next]_vars
    PROVE  Still \/ TickClaim \/ TickSave \/ Crash \/ Retry \/ \E l \in Launches : SkillSelects(l)
<1>. USE DEF queueVars, jobVars, workerVars, sessionVars, tickVars, counters
<1>a. ASSUME UNCHANGED <<quota, draft, chosen, tasks, retries, crashes, pc>>, item'.mine \subseteq item.mine
      PROVE  Still
  BY <1>a DEF Still
<1>1. ASSUME NEW l \in Launches, Worker(l) \/ WorkerDies(l) \/ WaiterReturns(l) PROVE Still
  BY <1>1, <1>a DEF Worker, WorkerInvalid, WorkerSubmitting, WorkerSubmitted, WorkerSubmitFailed,
      WorkerReports, WorkerWaitTimeout, WorkerDies, SetStage, WaiterReturns
<1>2. ASSUME NEW l \in Launches, Session(l), ~SkillSelects(l) PROVE Still
  BY <1>2, <1>a DEF Session, SessionOpens, SessionWrites, SessionEnds, SessionRecords, SessionStep,
      ContainersStart, ContainersStop
<1>3. CASE Restart \/ UNCHANGED vars
  BY <1>3, <1>a DEF Restart, vars
<1>4. CASE SnapshotSync
  BY <1>4, SyncStill DEF SnapshotSync, QueueFree
<1>5. CASE Tick /\ ~TickClaim /\ ~TickSave
  <2>1. CASE TickReap \/ TickEnds \/ TickSkips
    <3>1. item'.mine = item.mine
      BY <2>1 DEF TickReap, TickEnds, TickSkips, TypeOK, Items
    <3>. QED BY <2>1, <3>1 DEF TickReap, TickEnds, TickSkips, QueueFree, Still
  <2>2. CASE TickSync
    BY <2>2, SyncStill DEF TickSync
  <2>3. CASE TickStartFails
    <3>1. /\ item'.mine = item.mine /\ pc = "saved" /\ pc' = "idle"
          /\ UNCHANGED <<draft, chosen, retries, crashes>>
      BY <2>3 DEF TickStartFails, TypeOK, Items
    <3>2. CASE quota.state = "claimed"
      <4>1. CancelTask(quota.task) /\ quota' = Settle(quota, FALSE)
        BY <2>3, <3>2 DEF TickStartFails
      <4>2. /\ \A t \in Tasks : tasks'[t] = "unused" <=> tasks[t] = "unused"
            /\ quota'.task = quota.task /\ (quota'.state = "pending" => quota' = quota)
        BY <4>1, RefundKeepsUsed
      <4>. QED BY <3>1, <4>2 DEF Still
    <3>3. CASE quota.state # "claimed"
      BY <2>3, <3>1, <3>3 DEF TickStartFails, Still
    <3>. QED BY <3>2, <3>3
  <2>4. CASE TickSpawn \/ TickRecord \/ TickFinish
    <3>1. /\ UNCHANGED <<quota, draft, chosen, tasks, retries, crashes>>
          /\ \/ pc = "saved" /\ pc' = "spawned"
             \/ pc = "spawned" /\ pc' = "recorded"
             \/ pc = "recorded" /\ pc' = "idle"
      BY <2>4 DEF TickSpawn, TickRecord, TickFinish
    <3>2. quota.state # "pending"
      BY <3>1 DEF AccountInv
    <3>. QED BY <3>1, <3>2 DEF Still
  <2>. QED BY <1>5, <2>1, <2>2, <2>3, <2>4 DEF Tick
<1>6. CASE Reconcile
  <2>1. CASE SweepDeadMarkers \/ ReleaseInactiveReservations \/ ResyncFromResult \/ ReleaseTerminalContainers
    <3>1. item'.mine = item.mine
      BY <2>1 DEF SweepDeadMarkers, ReleaseInactiveReservations, ResyncFromResult, ReleaseTerminalContainers,
          Held, TypeOK, Items
    <3>. QED BY <2>1, <3>1, <1>a DEF SweepDeadMarkers, ReleaseInactiveReservations, ResyncFromResult,
          ReleaseTerminalContainers
  <2>2. CASE ReleaseStaleReservations \/ ReleaseStuckOrphans \/ ForceSettleStaleQuota
    <3>1. /\ item'.mine = item.mine /\ pc = "idle" /\ pc' = pc
          /\ UNCHANGED <<draft, chosen, retries, crashes>>
          /\ CancelTask(quota.task) /\ quota' = Settle(quota, FALSE)
      BY <2>2 DEF ReleaseStaleReservations, ReleaseStuckOrphans, ForceSettleStaleQuota, QueueFree, TypeOK, Items
    <3>2. /\ \A t \in Tasks : tasks'[t] = "unused" <=> tasks[t] = "unused"
          /\ quota'.task = quota.task /\ (quota'.state = "pending" => quota' = quota)
      BY <3>1, RefundKeepsUsed
    <3>. QED BY <3>1, <3>2 DEF Still
  <2>. QED BY <1>6, <2>1, <2>2 DEF Reconcile
<1>7. CASE Operator /\ ~Retry
  <2>1. item'.mine = item.mine
    BY <1>7 DEF Operator, Release, Remove, FailPending, TypeOK, Items
  <2>. QED BY <1>7, <2>1, <1>a DEF Operator, Release, Remove, FailPending
<1>. QED BY <1>1, <1>2, <1>3, <1>4, <1>5, <1>6, <1>7 DEF Next, Session

\* No account is paid twice and what is named has been created.
LEMMA AccountStep ==
    ASSUME TypeOK, DraftInv, OwnInv, FreshInv, AccountInv, [Next]_vars
    PROVE  AccountInv'
<1>. USE DEF queueVars, jobVars, workerVars, sessionVars, tickVars, counters
<1>1. CASE Still
  <2>1. chosen' = chosen /\ draft' = draft
    BY <1>1 DEF Still
  <2>2. Named' \subseteq Named
    <3>1. CASE quota'.task = quota.task
      BY <2>1, <3>1 DEF Named
    <3>2. CASE quota'.task # quota.task
      <4>1. quota'.task \in {chosen[l] : l \in Launches}
        BY <1>1, <3>2 DEF Still
      <4>. QED BY <2>1, <4>1 DEF Named
    <3>. QED BY <3>1, <3>2
  <2>3. \A t \in Named' : t # 0 => tasks'[t] # "unused"
    BY <1>1, <2>2, NamedCreated DEF Still
  <2>. QED BY <1>1, <2>3 DEF Still, AccountInv
<1>2. CASE TickClaim
  <2>1. UNCHANGED <<item, quota, chosen>> /\ pc = "synced" /\ pc' = "claimed" /\ quota \in Quotas
    BY <1>2 DEF TickClaim, TypeOK
  <2>2. CASE tasks' = tasks /\ draft'.task = quota.task
    BY <2>1, <2>2 DEF AccountInv, Named
  <2>3. CASE quota.state = "pending" /\ \E t \in Tasks :
                /\ tasks[t] = "unused" /\ tasks' = [tasks EXCEPT ![t] = "open"]
                /\ draft'.task \in {t, quota.task}
    <3>1. PICK t \in Tasks : /\ tasks[t] = "unused" /\ tasks' = [tasks EXCEPT ![t] = "open"]
                             /\ draft'.task \in {t, quota.task}
      BY <2>3
    <3>2. \A u \in Named : u # 0 => u \in Tasks /\ tasks[u] # "unused"
      BY NamedCreated
    <3>3. Named' \subseteq Named \cup {t}
      BY <2>1, <3>1 DEF Named
    <3>4. \A u \in Named' : u # 0 => tasks'[u] # "unused"
      BY <3>1, <3>2, <3>3 DEF TypeOK
    <3>. QED BY <2>1, <2>3, <3>4 DEF AccountInv
  <2>. QED BY <1>2, <2>1, <2>2, <2>3 DEF TickClaim, Quotas
<1>3. CASE TickSave
  <2>1. /\ quota' = draft /\ draft' = FreshQuota /\ pc' = "saved" /\ pc = "claimed"
        /\ UNCHANGED <<chosen, tasks>>
    BY <1>3 DEF TickSave
  <2>2. quota'.state # "pending"
    BY <2>1 DEF DraftInv
  <2>3. Named' \subseteq Named \cup {0}
    BY <2>1 DEF Named, FreshQuota
  <2>4. \A t \in Named' : t # 0 => tasks'[t] # "unused"
    BY <2>1, <2>3, NamedCreated
  <2>. QED BY <2>1, <2>2, <2>4 DEF AccountInv
<1>4. CASE Crash
  BY <1>4 DEF Crash, AccountInv, Named, FreshQuota
<1>5. CASE Retry
  <2>1. /\ quota' = FreshQuota /\ item'.mine = {} /\ pc = "idle" /\ pc' = pc
        /\ UNCHANGED <<draft, chosen, tasks>>
    BY <1>5 DEF Retry, QueueFree, TypeOK, Items
  <2>. QED BY <2>1 DEF AccountInv, Named, FreshQuota
<1>6. ASSUME NEW l \in Launches, SkillSelects(l) PROVE AccountInv'
  <2>1. PICK t \in Tasks : /\ tasks[t] = "unused" /\ tasks' = [tasks EXCEPT ![t] = "open"]
                           /\ chosen' = [chosen EXCEPT ![l] = t]
    BY <1>6 DEF SkillSelects
  <2>2. UNCHANGED <<item, quota, draft, pc>>
    BY <1>6 DEF SkillSelects
  <2>3. Named' \subseteq Named \cup {t}
    BY <2>1, <2>2, NoneTypes DEF Named, TypeOK
  <2>4. \A u \in Named : u # 0 => u \in Tasks /\ tasks[u] # "unused"
    BY NamedCreated
  <2>5. \A u \in Named' : u # 0 => tasks'[u] # "unused"
    BY <2>1, <2>3, <2>4 DEF TypeOK
  <2>. QED BY <2>2, <2>5 DEF AccountInv
<1>. QED BY <1>1, <1>2, <1>3, <1>4, <1>5, <1>6, TaskMoves
\* The tasks the monitor has created are finitely many.
LEMMA CreatedFinite ==
    IsFiniteSet(Created) /\ Cardinality(Created) \in Nat
<1>1. IsFiniteSet(Tasks)
  BY FS_Interval, BoundsAssumption DEF Tasks
<1>. QED BY <1>1, FS_Subset, FS_CardinalityType DEF Created

LEMMA CreatedStep ==
    ASSUME TypeOK, DraftInv, OwnInv, FreshInv, AccountInv, CreatedInv, [Next]_vars
    PROVE  CreatedInv'
<1>. USE CreatedFinite DEF queueVars, jobVars, workerVars, sessionVars, tickVars, counters
<1>n. retries \in Nat /\ crashes \in Nat
  BY BoundsAssumption DEF TypeOK
<1>1. CASE Still
  <2>1. Created' = Created
    BY <1>1 DEF Still, Created
  <2>2. UNCHANGED <<retries, crashes>>
        /\ (quota'.state = "pending" /\ pc' # "claimed" => quota.state = "pending" /\ pc # "claimed")
    BY <1>1 DEF Still
  <2>. QED BY <1>n, <2>1, <2>2 DEF CreatedInv
<1>2. CASE TickClaim
  <2>1. UNCHANGED <<quota, chosen, retries, crashes>> /\ pc = "synced" /\ pc' = "claimed"
    BY <1>2 DEF TickClaim
  <2>2. CASE tasks' = tasks
    <3>1. Created' = Created
      BY <2>1, <2>2 DEF Created
    <3>. QED BY <1>n, <2>1, <3>1 DEF CreatedInv
  <2>3. CASE quota.state = "pending" /\ \E t \in Tasks : tasks[t] = "unused" /\ tasks' = [tasks EXCEPT ![t] = "open"]
    <3>1. PICK t \in Tasks : tasks[t] = "unused" /\ tasks' = [tasks EXCEPT ![t] = "open"]
      BY <2>3
    <3>2. t \notin Created /\ Created' \subseteq Created \cup {t}
      BY <2>1, <3>1 DEF Created, TypeOK
    <3>3. IsFiniteSet(Created \cup {t}) /\ Cardinality(Created \cup {t}) = Cardinality(Created) + 1
      BY <3>2, FS_AddElement
    <3>4. Cardinality(Created') \in Nat /\ Cardinality(Created') <= Cardinality(Created) + 1
      BY <3>2, <3>3, FS_Subset, FS_CardinalityType
    <3>5. Cardinality(Created)' = Cardinality(Created')
      OBVIOUS
    <3>. QED BY <1>n, <2>1, <2>3, <3>4, <3>5 DEF CreatedInv
  <2>. QED BY <1>2, <2>2, <2>3 DEF TickClaim
<1>3. CASE TickSave
  <2>1. quota' = draft /\ pc = "claimed" /\ UNCHANGED <<chosen, tasks, retries, crashes>>
    BY <1>3 DEF TickSave
  <2>2. quota'.state # "pending" /\ Created' = Created
    BY <2>1 DEF DraftInv, Created
  <2>. QED BY <1>n, <2>1, <2>2 DEF CreatedInv
<1>4. CASE Crash
  <2>1. crashes' = crashes + 1 /\ UNCHANGED <<quota, chosen, tasks, retries>>
    BY <1>4 DEF Crash
  <2>2. Created' = Created
    BY <2>1 DEF Created
  <2>. QED BY <1>n, <2>1, <2>2 DEF CreatedInv
<1>5. CASE Retry
  <2>1. retries' = retries + 1 /\ UNCHANGED <<chosen, tasks, crashes>>
    BY <1>5 DEF Retry
  <2>2. Created' = Created
    BY <2>1 DEF Created
  <2>. QED BY <1>n, <2>1, <2>2 DEF CreatedInv
<1>6. ASSUME NEW l \in Launches, SkillSelects(l) PROVE CreatedInv'
  <2>1. PICK t \in Tasks : /\ tasks[t] = "unused" /\ tasks' = [tasks EXCEPT ![t] = "open"]
                           /\ chosen' = [chosen EXCEPT ![l] = t]
    BY <1>6 DEF SkillSelects
  <2>2. chosen[l] = 0 /\ UNCHANGED <<quota, pc, retries, crashes>> /\ l \in AnyLaunch
    BY <1>6, NoneTypes DEF SkillSelects
  <2>3. chosen'[l] = t /\ \A k \in Launches : k # l => chosen'[k] = chosen[k]
    BY <2>1, <2>2, NoneTypes DEF TypeOK
  <2>4. \A u \in Tasks : u # t => tasks'[u] = tasks[u]
    BY <2>1 DEF TypeOK
  <2>5. 0 \notin Tasks
    BY DEF Tasks
  <2>6. \A u \in Tasks : u \in Created' <=> u \in Created
    BY <2>1, <2>2, <2>3, <2>4, <2>5 DEF Created
  <2>7. Created' = Created
    BY <2>6 DEF Created
  <2>. QED BY <1>n, <2>2, <2>7 DEF CreatedInv
<1>. QED BY <1>1, <1>2, <1>3, <1>4, <1>5, <1>6, TaskMoves

\* What the monitor and the executors know of tasks and accounts, in every state.
LEMMA AccountsKnown == Spec => [](OwnInv /\ FreshInv /\ AccountInv)
<1>1. Init => OwnInv /\ FreshInv /\ AccountInv
  BY NoneTypes DEF Init, OwnInv, DoneIsOwn, FreshInv, AccountInv, Named, FreshQuota, Alive
<1>2. TypeOK /\ DraftInv /\ OwnInv /\ FreshInv /\ AccountInv /\ [Next]_vars => AccountInv'
  BY AccountStep
<1>. QED BY <1>1, <1>2, OwnStep, FreshStep, TypeCorrect, SlotsOwned, DraftKept, PTL DEF Spec

\* However often an item is launched, the monitor pays for it once, and once more
\* for each retry by hand and each crash.
THEOREM PaidOnce == Spec => []TasksPaid
<1>1. Init => CreatedInv
  <2>1. ASSUME Init PROVE Created = {}
    BY <2>1 DEF Init, Created
  <2>. QED BY <2>1, FS_EmptySet DEF Init, CreatedInv
<1>2. TypeOK /\ DraftInv /\ OwnInv /\ FreshInv /\ AccountInv /\ CreatedInv /\ [Next]_vars => CreatedInv'
  BY CreatedStep
<1>3. TypeOK /\ CreatedInv => TasksPaid
  BY CreatedFinite, BoundsAssumption DEF CreatedInv, TasksPaid, TypeOK
<1>. QED BY <1>1, <1>2, <1>3, TypeCorrect, DraftKept, AccountsKnown, PTL DEF Spec

\* A platform task that is still open is forgotten by a crash before the quota is
\* saved, by a retry by hand and by the choice of the executor, and by nothing else.
THEOREM OpenTasksKept == Spec => TasksKept
<1>1. ASSUME TypeOK, OwnInv, FreshInv, AccountInv, [Next]_vars, NEW t \in Tasks, Forgotten(t)
      PROVE  (Crash /\ pc = "claimed") \/ Retry \/ quota'.state = "superseded"
  <2>. USE DEF queueVars, jobVars, workerVars, sessionVars, tickVars, counters
  <2>a. t # 0 /\ t \in Named /\ t \notin Named'
    BY <1>1 DEF Forgotten, Tasks
  <2>1. CASE Still
    <3>1. quota'.task # quota.task => quota.task = 0 \/ quota'.state = "superseded"
      BY <2>1 DEF Still
    <3>2. {chosen'[l] : l \in Launches} = {chosen[l] : l \in Launches} /\ draft' = draft
      BY <2>1 DEF Still
    <3>. QED BY <2>a, <3>1, <3>2 DEF Named
  <2>2. CASE TickClaim
    <3>1. UNCHANGED <<quota, chosen>> /\ draft = FreshQuota
      BY <2>2, <1>1 DEF TickClaim, AccountInv
    <3>. QED BY <2>a, <3>1 DEF Named, FreshQuota
  <2>3. CASE TickSave
    <3>1. UNCHANGED chosen /\ quota' = draft /\ quota.task \in {0, draft.task}
      BY <2>3, <1>1 DEF TickSave, AccountInv
    <3>. QED BY <2>a, <3>1 DEF Named
  <2>4. CASE Crash /\ pc # "claimed"
    <3>1. UNCHANGED <<quota, chosen>> /\ draft = FreshQuota /\ draft' = FreshQuota
      BY <2>4, <1>1 DEF Crash, AccountInv
    <3>. QED BY <2>a, <3>1 DEF Named
  <2>5. ASSUME NEW l \in Launches, SkillSelects(l) PROVE FALSE
    <3>1. PICK u \in Tasks : chosen' = [chosen EXCEPT ![l] = u]
      BY <2>5 DEF SkillSelects
    <3>2. chosen[l] = 0 /\ UNCHANGED <<quota, draft>>
      BY <2>5 DEF SkillSelects
    <3>3. \A k \in Launches : k # l => chosen'[k] = chosen[k]
      BY <3>1, <1>1, NoneTypes DEF TypeOK
    <3>. QED BY <2>a, <3>2, <3>3 DEF Named
  <2>. QED BY <1>1, <2>1, <2>2, <2>3, <2>4, <2>5, TaskMoves
<1>2. TypeOK /\ OwnInv /\ FreshInv /\ AccountInv /\ [Next]_vars
        => [\A t \in Tasks : Forgotten(t) =>
              (Crash /\ pc = "claimed") \/ Retry \/ quota'.state = "superseded"]_vars
  BY <1>1
<1>. QED BY <1>2, TypeCorrect, AccountsKnown, PTL DEF Spec, TasksKept

-----------------------------------------------------------------------------
(* Refill has a step for whatever becomes of the item                      *)

\* Launch 0 has no result file.
NoFile == stage[0] = "none"

LEMMA NoFileStep == TypeOK /\ NoFile /\ [Next]_vars => NoFile'
<1>. SUFFICES ASSUME TypeOK, NoFile, [Next]_vars PROVE NoFile'
  OBVIOUS
<1>. USE DEF queueVars, jobVars, workerVars, sessionVars, tickVars, counters
<1>1. ASSUME NEW l \in Launches, Worker(l) \/ WorkerDies(l) PROVE NoFile'
  <2>1. l # 0
    BY BoundsAssumption DEF Launches
  <2>2. \E s \in Stages : stage' = [stage EXCEPT ![l] = s]
    BY <1>1, NoneTypes DEF Worker, WorkerInvalid, WorkerSubmitting, WorkerSubmitted,
        WorkerSubmitFailed, WorkerReports, WorkerWaitTimeout, WorkerDies, SetStage, Stages, TypeOK
  <2>. QED BY <2>1, <2>2, NoneTypes DEF NoFile, TypeOK
<1>2. CASE UNCHANGED stage
  BY <1>2 DEF NoFile
<1>3. ASSUME NEW l \in Launches, Session(l) \/ WaiterReturns(l) PROVE NoFile'
  BY <1>2, <1>3 DEF Session, SessionOpens, SessionWrites, SessionEnds, SessionRecords, SessionStep,
      ContainersStart, ContainersStop, SkillSelects, WaiterReturns
<1>4. CASE Crash \/ Restart \/ UNCHANGED vars
  BY <1>2, <1>4 DEF Crash, Restart, vars
<1>5. CASE SnapshotSync
  BY <1>2, <1>5 DEF SnapshotSync, Sync
<1>6. CASE Tick
  BY <1>2, <1>6 DEF Tick, TickReap, TickSync, Sync, TickEnds, TickSkips, TickClaim, TickSave, TickStartFails,
      TickSpawn, TickRecord, TickFinish
<1>7. CASE Reconcile
  BY <1>2, <1>7 DEF Reconcile, SweepDeadMarkers, ReleaseInactiveReservations, ReleaseStaleReservations,
      ReleaseStuckOrphans, ForceSettleStaleQuota, ResyncFromResult, ReleaseTerminalContainers
<1>8. CASE Operator
  BY <1>2, <1>8 DEF Operator, Retry, Release, Remove, FailPending
<1>. QED BY <1>1, <1>3, <1>4, <1>5, <1>6, <1>7, <1>8 DEF Next

\* A change of what Refill reads of the item, as an assignment of it.
LEMMA Turned == Queue!Became(1, QueueStatus', Attempted')
<1>1. 1 \in 1 .. 1 /\ \A i \in 1 .. 1 : i = 1
  OBVIOUS
<1>. DEFINE f == [i \in 1 .. 1 |-> [code |-> 0, status |-> QueueStatus, begun |-> Attempted]]
            g == [f EXCEPT ![1].status = QueueStatus', ![1].begun = Attempted']
            new == [code |-> 0, status |-> QueueStatus', begun |-> Attempted']
<1>2. f = [i \in 1 .. 1 |-> f[i]] /\ f[1] = [code |-> 0, status |-> QueueStatus, begun |-> Attempted]
  BY <1>1
<1>3. [f[1] EXCEPT !.status = QueueStatus'] = [code |-> 0, status |-> QueueStatus', begun |-> Attempted]
  BY <1>2
<1>4. [[code |-> 0, status |-> QueueStatus', begun |-> Attempted] EXCEPT !.begun = Attempted'] = new
  OBVIOUS
<1>5. g[1] = new
  BY <1>1, <1>2, <1>3, <1>4
<1>6. g = [i \in 1 .. 1 |-> g[i]]
  BY <1>1, <1>2
<1>. HIDE DEF g, new
<1>8. g = [i \in 1 .. 1 |-> new]
  BY <1>1, <1>5, <1>6
<1>. USE DEF g, new
<1>. QED BY <1>8 DEF Queue!Became

\* The changes of status and of what is begun that Refill allows.
LEMMA Allowed ==
    ASSUME \/ QueueStatus = "pending" /\ QueueStatus' = "active"
           \/ QueueStatus = "pending" /\ QueueStatus' \in {"skipped", "failed"} /\ Attempted' = Attempted
           \/ QueueStatus \in {"pending", "failed", "skipped"} /\ QueueStatus' = "gone" /\ Attempted' = Attempted
           \/ /\ QueueStatus \in {"pending", "active", "orphaned", "failed", "skipped"}
              /\ QueueStatus' \in {"failed", "done"} /\ Attempted /\ Attempted'
           \/ QueueStatus = "active" /\ QueueStatus' \in {"pending", "orphaned"}
           \/ QueueStatus = "orphaned" /\ QueueStatus' \in {"skipped", "active"}
           \/ QueueStatus \in {"pending", "failed", "skipped"} /\ QueueStatus' = "orphaned" /\ Attempted
           \/ QueueStatus \in {"failed", "skipped"} /\ QueueStatus' \in {"pending", "active"} /\ Attempted /\ Attempted'
           \/ QueueStatus \in {"pending", "orphaned", "failed", "skipped"} /\ QueueStatus' = "pending" /\ ~Attempted'
    PROVE  Queue!Changes(1)
<1>. DEFINE old == QueueStatus
            new == QueueStatus'
            before == [i \in 1 .. 1 |-> [code |-> 0, status |-> QueueStatus, begun |-> Attempted]][1]
<1>1. before.status = old /\ before.begun = Attempted
  OBVIOUS
<1>2. new \in {"active", "orphaned"} => Attempted'
  BY DEF Attempted
<1>3. Attempted' \in BOOLEAN /\ Queue!Became(1, new, Attempted')
  BY Turned DEF Attempted
<1>4. Attempted' => Queue!Became(1, new, TRUE)
  <2>1. Attempted' => Attempted' = TRUE
    BY <1>3
  <2>. QED BY <1>3, <2>1
<1>5. ~Attempted' => Queue!Became(1, new, FALSE)
  <2>1. ~Attempted' => Attempted' = FALSE
    BY <1>3
  <2>. QED BY <1>3, <2>1
<1>6. Attempted' = Attempted => Queue!Became(1, new, before.begun)
  BY <1>1, <1>3
<1>. HIDE DEF old, new
<1>. USE <1>1 DEF Queue!Turns
<1>7. CASE old = "pending" /\ new = "active"
  BY <1>2, <1>4, <1>7 DEF Queue!Launches, Queue!Changes
<1>8. CASE old = "pending" /\ new \in {"skipped", "failed"} /\ Attempted' = Attempted
  BY <1>6, <1>8 DEF Queue!Skips, Queue!Fails, Queue!Changes
<1>9. CASE old \in {"pending", "failed", "skipped"} /\ new = "gone" /\ Attempted' = Attempted
  BY <1>6, <1>9 DEF Queue!Removes, Queue!Changes
<1>10. CASE /\ old \in {"pending", "active", "orphaned", "failed", "skipped"} /\ new \in {"failed", "done"}
            /\ Attempted /\ Attempted'
  BY <1>4, <1>10 DEF Queue!SyncEnds, Queue!Changes
<1>11. CASE old = "active" /\ new = "pending"
  BY <1>3, <1>11 DEF Queue!Requeue, Queue!Changes
<1>12. CASE old = "active" /\ new = "orphaned"
  BY <1>2, <1>4, <1>12 DEF Queue!Orphans, Queue!Changes
<1>13. CASE old = "orphaned" /\ new = "skipped"
  BY <1>3, <1>13 DEF Queue!Orphans, Queue!Changes
<1>14. CASE old \in {"pending", "failed", "skipped"} /\ new = "orphaned" /\ Attempted
  <2>1. CASE old = "pending"
    <3>1. Queue!Turns(1, {"pending"}, {"active", "orphaned"}, TRUE)
      BY <1>2, <1>4, <1>14, <2>1
    <3>. QED BY <1>14, <3>1 DEF Queue!Follows, Queue!Changes
  <2>2. CASE old \in {"failed", "skipped"}
    <3>1. Queue!Turns(1, {"failed", "skipped"}, {"orphaned"}, TRUE)
      BY <1>2, <1>4, <1>14, <2>2
    <3>. QED BY <1>14, <3>1 DEF Queue!Follows, Queue!Changes
  <2>. QED BY <1>14, <2>1, <2>2
<1>15. CASE old = "orphaned" /\ new = "active"
  BY <1>2, <1>4, <1>15 DEF Queue!Revives, Queue!Changes
<1>16. CASE old \in {"failed", "skipped"} /\ new \in {"pending", "active"} /\ Attempted /\ Attempted'
  BY <1>4, <1>16 DEF Queue!Revives, Queue!Changes
<1>17. CASE old = "orphaned" /\ new = "pending" /\ ~Attempted'
  BY <1>5, <1>17 DEF Queue!Revives, Queue!Changes
<1>18. CASE old \in {"pending", "failed", "skipped"} /\ new = "pending" /\ ~Attempted'
  BY <1>5, <1>18 DEF Queue!Retries, Queue!Changes
<1>. QED BY <1>7, <1>8, <1>9, <1>10, <1>11, <1>12, <1>13, <1>14, <1>15, <1>16, <1>17, <1>18 DEF old, new

\* What a sync finds of an attempt is found because the item has one.
LEMMA SyncSees ==
    ASSUME TypeOK, SlotInv, OwnInv, NoFile, Sync, InQueue
    PROVE  \/ item'.status = item.status /\ item'.mine = item.mine
           \/ /\ item'.status \in {"running", "triggered", "orphaned"} /\ item'.mine = item.mine
              /\ Active \/ item.mine # {}
           \/ item'.status \in {"done", "failed"} /\ item'.mine = item.mine /\ item.mine # {}
           \/ /\ item'.status = "pending" /\ item'.mine = item.mine /\ item.mine # {}
              /\ item.status \in {"failed", "skipped"}
           \/ item'.status = "pending" /\ item'.mine = {} /\ Active
<1>. DEFINE Goal == \/ item'.status = item.status /\ item'.mine = item.mine
                    \/ /\ item'.status \in {"running", "triggered", "orphaned"} /\ item'.mine = item.mine
                       /\ Active \/ item.mine # {}
                    \/ item'.status \in {"done", "failed"} /\ item'.mine = item.mine /\ item.mine # {}
                    \/ /\ item'.status = "pending" /\ item'.mine = item.mine /\ item.mine # {}
                       /\ item.status \in {"failed", "skipped"}
                    \/ item'.status = "pending" /\ item'.mine = {} /\ Active
            Kept(it) == it \in Items /\ it.status = item.status /\ it.mine = item.mine
<1>. SUFFICES Goal
  OBVIOUS
<1>a. Kept(Tracked) /\ Kept(Replaced(Tracked))
  BY SyncTypes, TrackedFields, HelperFields, ReplacedType
<1>b. Root \in item.mine \cup {0} /\ session[0] = "none" /\ stage[0] = "none"
  BY RootIsOwn DEF OwnInv, NoFile
<1>c. session[Root] \in StateFile => item.mine # {}
  BY <1>b DEF StateFile, SuccessSessions
<1>d. ResultFile \in item.mine \cup {0}
  BY FoundJobType DEF ResultFile, OwnInv
<1>e. stage[ResultFile] \in SubmittedStages \cup FailedStages => item.mine # {}
  BY <1>b, <1>d DEF SubmittedStages, FailedStages
<1>f. WorkerRunning => item.mine # {}
  BY RunningFound DEF SlotInv
<1>g. Submitted => item.mine # {}
  BY <1>c, <1>e DEF Submitted, Started
<1>h. item.status \in Statuses /\ (item.held <=> Active)
  BY DEF TypeOK, Items, SlotInv, HeldIffActive
<1>1. ASSUME item' = Tracked \/ item' = Replaced(Tracked) PROVE Goal
  BY <1>a, <1>1
<1>2. ASSUME NEW s \in {"triggered", "orphaned"}, item' = Held(Tracked, s) \/ item' = Held(Replaced(Tracked), s),
             Active \/ item.mine # {}
      PROVE  Goal
  <2>1. item'.status = s /\ item'.mine = item.mine
    BY <1>a, <1>2, HelperFields DEF Statuses, ActiveStatuses
  <2>. QED BY <1>2, <2>1
<1>3. ASSUME Requeue, Active PROVE Goal
  <2>1. item'.status = "pending" /\ item'.mine = {}
    BY <1>a, <1>3, HelperFields DEF Requeue
  <2>. QED BY <1>3, <2>1
<1>. HIDE DEF Goal, Kept
<1>4. CASE SyncTerminal
  <2>1. item.mine # {}
    BY <1>4, <1>c DEF SyncTerminal, Terminal, StateFile
  <2>2. CASE item' = [Tracked EXCEPT !.status = "done", !.held = FALSE, !.slots = FALSE]
    <3>1. item'.status = "done" /\ item'.mine = item.mine
      BY <1>a, <2>2 DEF Kept, Items
    <3>. QED BY <2>1, <3>1 DEF Goal
  <2>3. CASE item' = Failed(Tracked, FALSE)
    <3>1. item'.status = "failed" /\ item'.mine = item.mine
      BY <1>a, <2>3 DEF Kept, Items, Failed
    <3>. QED BY <2>1, <3>1 DEF Goal
  <2>. QED BY <1>1, <1>2, <1>4, <2>1, <2>2, <2>3 DEF SyncTerminal
<1>5. CASE SyncReleased
  <2>1. item'.status = item.status /\ item'.mine = item.mine
    BY <1>5, <1>a DEF SyncReleased, Kept, Items
  <2>. QED BY <2>1 DEF Goal
<1>6. CASE SyncStalled \/ SyncExited
  BY <1>2, <1>3, <1>6 DEF SyncStalled, SyncExited, StallRetryLeft, ExecutorGone
<1>7. CASE SyncObserved
  <2>1. CASE WorkerRunning /\ item' = [Replaced(Tracked) EXCEPT
                                         !.status = IF @ \in {"pending", "launching"} THEN "running" ELSE @]
    <3>1. item'.mine = item.mine /\ item'.status \in {"running", item.status}
      BY <1>a, <2>1 DEF Kept, Items
    <3>. QED BY <1>f, <2>1, <3>1 DEF Goal
  <2>2. CASE Submitted /\ \E s \in {"triggered", "orphaned"} : item' = Held(Replaced(Tracked), s)
    BY <1>2, <1>g, <2>2
  <2>3. CASE (item.status = "orphaned" \/ item.held) /\ item' = Held(Replaced(Tracked), "orphaned")
    BY <1>2, <1>h, <2>3 DEF Active, ActiveStatuses
  <2>. QED BY <1>1, <1>7, <2>1, <2>2, <2>3 DEF SyncObserved
<1>8. CASE SyncFailed
  <2>1. item.status \in {"failed", "skipped"} /\ ~Active
    BY <1>8, <1>h, InQueue DEF SyncFailed, InQueue, Active, ActiveStatuses, Statuses
  <2>2. CASE stage[ResultFile] = "waitTimeout" /\ item' = Held(Replaced(Tracked), "orphaned")
    BY <1>2, <1>e, <2>2 DEF FailedStages
  <2>3. CASE /\ stage[ResultFile] \in FailedStages \/ FoundJob # 0
             /\ \E r \in BOOLEAN : item' = Failed(Tracked, r)
    <3>1. item'.status \in {"pending", "failed"} /\ item'.mine = item.mine
      BY <1>a, <2>3, HelperFields DEF Kept
    <3>2. item.mine # {}
      BY <1>e, <2>3, FoundJobType
    <3>. QED BY <2>1, <3>1, <3>2 DEF Goal
  <2>4. \A r \in {FALSE, stage[ResultFile] \notin NotRetryableStages} : r \in BOOLEAN
    OBVIOUS
  <2>. QED BY <1>1, <1>8, <2>1, <2>2, <2>3, <2>4 DEF SyncFailed
<1>9. SyncTerminal \/ SyncReleased \/ SyncStalled \/ SyncExited \/ SyncObserved \/ SyncFailed
  BY Sync, InQueue DEF Sync
<1>. QED BY <1>4, <1>5, <1>6, <1>7, <1>8, <1>9

\* Refill has a step for every sync with no launch under way.
LEMMA SyncChanges ==
    ASSUME TypeOK, SlotInv, OwnInv, NoFile, Sync, ~Launching, ~Launching'
    PROVE  Queue!Changes(1) \/ UNCHANGED <<QueueStatus, Attempted>>
<1>1. CASE ~InQueue
  <2>1. item' = item
    BY <1>1, Sync DEF Sync, SyncTerminal, SyncReleased, SyncStalled, SyncExited, SyncObserved, SyncFailed, queueVars
  <2>. QED BY <2>1 DEF QueueStatus, Attempted, Launching
<1>2. CASE InQueue
  <2>1. item.status \in Statuses /\ item.status \notin {"done", "removed"}
    BY <1>2 DEF InQueue, TypeOK, Items
  <2>2. Attempted = (QueueStatus \in {"active", "orphaned"} \/ item.mine # {})
        /\ Attempted' = (QueueStatus' \in {"active", "orphaned"} \/ item'.mine # {})
    BY DEF Attempted, Launching
  <2>3. CASE item'.status = item.status /\ item'.mine = item.mine
    BY <2>3 DEF QueueStatus, Attempted, Launching
  <2>4. CASE /\ item'.status \in {"running", "triggered", "orphaned"} /\ item'.mine = item.mine
             /\ Active \/ item.mine # {}
    BY <2>1, <2>2, <2>4, Allowed DEF QueueStatus, Launching, Active, ActiveStatuses, Statuses
  <2>5. CASE item'.status \in {"done", "failed"} /\ item'.mine = item.mine /\ item.mine # {}
    BY <2>1, <2>2, <2>5, Allowed DEF QueueStatus, Launching, ActiveStatuses, Statuses
  <2>6. CASE item'.status = "pending" /\ item'.mine = item.mine /\ item.mine # {} /\ item.status \in {"failed", "skipped"}
    BY <2>1, <2>2, <2>6, Allowed DEF QueueStatus, Launching, ActiveStatuses, Statuses
  <2>7. CASE item'.status = "pending" /\ item'.mine = {} /\ Active
    BY <2>1, <2>2, <2>7, Allowed DEF QueueStatus, Launching, Active, ActiveStatuses, Statuses
  <2>. QED BY <1>2, <2>3, <2>4, <2>5, <2>6, <2>7, SyncSees
<1>. QED BY <1>1, <1>2

\* A step that leaves alone what Refill sees.
LEMMA SeenStill ==
    ASSUME UNCHANGED <<item, launched>>, Launching' <=> Launching, pc' = "recorded" <=> pc = "recorded"
    PROVE  UNCHANGED <<QueueStatus, Attempted>>
BY DEF QueueStatus, Attempted

\* Every step of every process is one of Refill's or leaves its view alone.
LEMMA QueueStep ==
    ASSUME TypeOK, SlotInv, OwnInv, NoFile, [Next]_vars
    PROVE  Queue!Changes(1) \/ UNCHANGED <<QueueStatus, Attempted>>
<1>. DEFINE Goal == Queue!Changes(1) \/ UNCHANGED <<QueueStatus, Attempted>>
<1>. SUFFICES Goal
  OBVIOUS
<1>. USE DEF queueVars, jobVars, workerVars, sessionVars, tickVars, counters
<1>a. item \in Items /\ item.status \in Statuses
  BY DEF TypeOK, Items
<1>b. ASSUME UNCHANGED <<item, pc, launched>> PROVE Goal
  BY <1>b, SeenStill DEF Launching
<1>c. ASSUME ~Launching
      PROVE  Attempted = (QueueStatus \in {"active", "orphaned"} \/ item.mine # {})
  BY <1>c DEF Attempted, Launching
<1>d. ASSUME ~Launching'
      PROVE  Attempted' = (QueueStatus' \in {"active", "orphaned"} \/ item'.mine # {})
  BY <1>d DEF Attempted, Launching
<1>e. ASSUME item'.status = item.status, item'.mine = item.mine, ~Launching, ~Launching' PROVE Goal
  BY <1>e DEF QueueStatus, Attempted, Launching
<1>. HIDE DEF Goal
<1>1. ASSUME NEW l \in Launches, Worker(l) \/ WorkerDies(l) \/ Session(l) \/ WaiterReturns(l) PROVE Goal
  BY <1>1, <1>b DEF Worker, WorkerInvalid, WorkerSubmitting, WorkerSubmitted, WorkerSubmitFailed,
      WorkerReports, WorkerWaitTimeout, WorkerDies, SetStage, Session, SessionOpens, SessionWrites, SessionEnds,
      SessionRecords, SessionStep, ContainersStart, ContainersStop, SkillSelects, WaiterReturns
<1>2. CASE Restart \/ UNCHANGED vars
  BY <1>2, <1>b DEF Restart, vars
<1>3. CASE Crash
  <2>1. item' = item /\ ~Launching'
    BY <1>3 DEF Crash, Launching
  <2>2. CASE Launching
    <3>1. item.status = "launching" /\ QueueStatus = "pending"
      BY <2>2 DEF Launching, SlotInv, ClaimInv, QueueStatus
    <3>2. QueueStatus' = "active"
      BY <2>1, <3>1 DEF QueueStatus
    <3>. QED BY <3>1, <3>2, Allowed DEF Goal
  <2>3. CASE ~Launching
    BY <1>e, <2>1, <2>3
  <2>. QED BY <2>2, <2>3
<1>4. CASE SnapshotSync
  BY <1>4, SyncChanges DEF SnapshotSync, QueueFree, Launching, Goal
<1>5. CASE Tick
  <2>1. CASE TickReap \/ TickEnds \/ TickClaim
    BY <2>1, <1>e DEF TickReap, TickEnds, TickClaim, QueueFree, Launching
  <2>2. CASE TickSync
    BY <2>2, SyncChanges DEF TickSync, Launching, Goal
  <2>3. CASE TickSkips
    <3>1. item.status = "pending" /\ item'.status = "skipped" /\ item'.mine = item.mine /\ ~Launching /\ ~Launching'
      BY <2>3, <1>a DEF TickSkips, Items, Launching
    <3>2. QueueStatus = "pending" /\ QueueStatus' = "skipped"
      BY <3>1 DEF QueueStatus
    <3>3. Attempted' = Attempted
      BY <1>c, <1>d, <3>1, <3>2
    <3>. QED BY <3>2, <3>3, Allowed DEF Goal
  <2>4. CASE TickSave
    <3>1. item.status = "pending" /\ item'.mine = item.mine /\ ~Launching /\ Launching' /\ pc' # "recorded"
      BY <2>4, <1>a DEF TickSave, Items, Launching, SlotInv, ClaimInv
    <3>2. QueueStatus = "pending" /\ QueueStatus' = "pending"
      BY <3>1 DEF QueueStatus
    <3>3. Attempted' = Attempted
      BY <3>1, <3>2 DEF Attempted, Launching
    <3>. QED BY <3>2, <3>3 DEF Goal
  <2>5. CASE TickStartFails
    <3>1. /\ item'.status \in {"failed", "pending"} /\ item'.mine = item.mine
          /\ Launching /\ ~Launching' /\ pc # "recorded"
      BY <2>5, <1>a DEF TickStartFails, Items, Launching
    <3>2. QueueStatus = "pending" /\ QueueStatus' = item'.status
      BY <3>1 DEF QueueStatus
    <3>3. Attempted' = Attempted
      BY <1>d, <3>1, <3>2 DEF Attempted
    <3>4. QueueStatus' = "pending" => UNCHANGED <<QueueStatus, Attempted>>
      BY <3>2, <3>3
    <3>. QED BY <3>1, <3>2, <3>3, <3>4, Allowed DEF Goal
  <2>6. CASE TickSpawn
    <3>1. item' = item /\ Launching /\ Launching' /\ pc # "recorded" /\ pc' # "recorded"
      BY <2>6 DEF TickSpawn, Launching
    <3>. QED BY <3>1 DEF QueueStatus, Attempted, Goal
  <2>7. CASE TickRecord
    <3>1. item'.mine = item.mine \cup {launched} /\ launched' = launched /\ pc = "spawned" /\ pc' = "recorded"
      BY <2>7, <1>a DEF TickRecord, Items
    <3>2. launched \notin item.mine
      BY <3>1 DEF SlotInv, RecordInv, Recorded
    <3>3. item'.mine \ {launched'} = item.mine \ {}
      BY <3>1, <3>2
    <3>4. QueueStatus = "pending" /\ QueueStatus' = "pending"
      BY <3>1 DEF QueueStatus, Launching
    <3>. QED BY <3>1, <3>3, <3>4 DEF Attempted, Goal
  <2>8. CASE TickFinish
    <3>1. item'.status = "running" /\ pc = "recorded" /\ pc' = "idle"
      BY <2>8, <1>a DEF TickFinish, Items
    <3>2. QueueStatus = "pending" /\ QueueStatus' = "active"
      BY <3>1 DEF QueueStatus, Launching
    <3>. QED BY <3>2, Allowed DEF Goal
  <2>. QED BY <1>5, <2>1, <2>2, <2>3, <2>4, <2>5, <2>6, <2>7, <2>8 DEF Tick
<1>6. CASE Reconcile
  <2>1. CASE SweepDeadMarkers \/ ForceSettleStaleQuota \/ ReleaseTerminalContainers
    BY <2>1, <1>b DEF SweepDeadMarkers, ForceSettleStaleQuota, ReleaseTerminalContainers
  <2>2. CASE ReleaseInactiveReservations
    <3>1. item'.status = item.status /\ item'.mine = item.mine /\ ~Launching /\ ~Launching'
      BY <2>2, <1>a DEF ReleaseInactiveReservations, Items, QueueFree, Launching
    <3>. QED BY <1>e, <3>1
  <2>3. CASE ReleaseStaleReservations
    <3>1. item.status \in {"launching", "running"} /\ item'.status = "pending" /\ ~Launching /\ ~Launching'
      BY <2>3, <1>a DEF ReleaseStaleReservations, Items, QueueFree, Launching
    <3>2. QueueStatus = "active" /\ QueueStatus' = "pending"
      BY <3>1 DEF QueueStatus
    <3>. QED BY <3>2, Allowed DEF Goal
  <2>4. CASE ReleaseStuckOrphans
    <3>1. item.status = "orphaned" /\ item'.status = "skipped" /\ ~Launching /\ ~Launching'
      BY <2>4, <1>a DEF ReleaseStuckOrphans, Items, QueueFree, Launching
    <3>2. QueueStatus = "orphaned" /\ QueueStatus' = "skipped"
      BY <3>1 DEF QueueStatus
    <3>. QED BY <3>2, Allowed DEF Goal
  <2>5. CASE ResyncFromResult
    <3>1. item.status = "pending" /\ item'.status = "triggered" /\ ~Launching /\ ~Launching'
      BY <2>5, <1>a DEF ResyncFromResult, Held, Items, QueueFree, Launching
    <3>2. QueueStatus = "pending" /\ QueueStatus' = "active"
      BY <3>1 DEF QueueStatus
    <3>. QED BY <3>2, Allowed DEF Goal
  <2>. QED BY <1>6, <2>1, <2>2, <2>3, <2>4, <2>5 DEF Reconcile
<1>7. CASE Operator
  <2>1. ASSUME InQueue, ~Active PROVE item.status \in {"pending", "failed", "skipped"}
    BY <1>a, <2>1 DEF InQueue, Active, Statuses, ActiveStatuses
  <2>2. CASE Retry
    <3>1. item.status \in {"pending", "failed", "skipped"} /\ item'.status = "pending" /\ item'.mine = {}
          /\ ~Launching /\ ~Launching'
      BY <2>1, <2>2, <1>a DEF Retry, Items, QueueFree, Launching
    <3>2. QueueStatus = item.status /\ QueueStatus' = "pending"
      BY <3>1 DEF QueueStatus
    <3>3. ~Attempted'
      BY <1>d, <3>1, <3>2
    <3>. QED BY <3>1, <3>2, <3>3, Allowed DEF Goal
  <2>3. CASE Release
    <3>1. item.status \in {"orphaned", "failed", "skipped"} /\ (item.held \/ Active) /\ (item.held <=> Active)
      BY <2>3 DEF Release, Holds, SlotInv, HeldIffActive
    <3>2. item.status = "orphaned" /\ item'.status = "skipped" /\ ~Launching /\ ~Launching'
      BY <2>3, <1>a, <3>1 DEF Release, Items, QueueFree, Launching, Active, ActiveStatuses
    <3>3. QueueStatus = "orphaned" /\ QueueStatus' = "skipped"
      BY <3>2 DEF QueueStatus
    <3>. QED BY <3>3, Allowed DEF Goal
  <2>4. CASE Remove
    <3>1. item.status \in {"pending", "failed", "skipped"} /\ item'.status = "removed" /\ item'.mine = item.mine
          /\ ~Launching /\ ~Launching'
      BY <2>1, <2>4, <1>a DEF Remove, Items, QueueFree, Launching
    <3>2. QueueStatus = item.status /\ QueueStatus' = "gone"
      BY <3>1 DEF QueueStatus
    <3>3. Attempted' = Attempted
      BY <1>c, <1>d, <3>1, <3>2
    <3>. QED BY <3>1, <3>2, <3>3, Allowed DEF Goal
  <2>5. CASE FailPending
    <3>1. item.status = "pending" /\ item'.status = "failed" /\ item'.mine = item.mine /\ ~Launching /\ ~Launching'
      BY <2>5, <1>a DEF FailPending, Items, QueueFree, Launching
    <3>2. QueueStatus = "pending" /\ QueueStatus' = "failed"
      BY <3>1 DEF QueueStatus
    <3>3. Attempted' = Attempted
      BY <1>c, <1>d, <3>1, <3>2
    <3>. QED BY <3>2, <3>3, Allowed DEF Goal
  <2>. QED BY <1>7, <2>2, <2>3, <2>4, <2>5 DEF Operator
<1>. QED BY <1>1, <1>2, <1>3, <1>4, <1>5, <1>6, <1>7 DEF Next

\* The few changes of status that Refill gives an item are all that tick, sync,
\* reconcile loop, operator and crashes make of it, in whatever order they come
\* and wherever the monitor dies: Refill leaves out no way an item can change.
THEOREM ImplementsQueueItem == Spec => RefillAllows
<1>1. Init => NoFile
  BY NoneTypes DEF Init, NoFile
<1>2. Spec => []NoFile
  BY <1>1, NoFileStep, TypeCorrect, PTL DEF Spec
<1>3. TypeOK /\ SlotInv /\ OwnInv /\ NoFile /\ [Next]_vars
        => [UNCHANGED <<QueueStatus, Attempted>> \/ Queue!Changes(1)]_vars
  BY QueueStep
<1>. QED BY <1>2, <1>3, TypeCorrect, SlotsOwned, AccountsKnown, PTL DEF Spec, RefillAllows
=============================================================================
