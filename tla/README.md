# TLA+ models of the sg-auto monitor

The monitor keeps a queue of platform projects, launches a worker process for
each, watches the ChatGPT desktop session that the worker opens, and pays for
every attempt with a platform task at the Solo manager. This directory holds
the models of that queue, of what fills it, of the automatic resume of local
tasks and of the stream the pages live on, the TLC runs that check them and the
theorems TLAPS proves about them. Line numbers refer to `src/api/scheduler.py` unless a file is
named.

    tlc -workers 2 -config MCLifeCrash.cfg MCTaskLifecycle
    tlapm TaskLifecycleProofs.tla

## 1. The system

| Part | State it keeps | Operations | Where |
|---|---|---|---|
| QueueManager | `queue.json`: items with status, `capacityHeld`, `slotMarkers`, `runKey`, `taskRoot`, `resultFile`, `attempts`, `stalledRetryCount`, quota record | `tick`, `_sync_running_locked`, add, retry, release, remove, fail | scheduler.py 862-2870 |
| JobManager | records in memory by key, one sidecar file per launch, a waiter thread per worker | start, find, recover, reap, terminate | scheduler.py 109-665 |
| Queue worker | one process per launch; `result.json` with its stage | validate, push the prompt, wait for the task | queue_worker.py |
| Desktop session (external) | `monitor/state.json`, `init-failure.json`, `platform/selection.json`, candidate containers | runs by itself; nobody can stop it | seen through the files |
| ReconcileLoop | none | eight periodic corrections | 2876-3240 |
| ContainerLedger | reservation marker files with the pid of their owner | reserve, release, sweep | 683-856 |
| Quota ledger | the quota record of an item; platform tasks at the manager | claim, settle, refund, absorb the executor's choice | 1941-1961, 2452-2490, 2805-2870 |
| DockerCache | the last `docker ps`, two seconds | get | tasks.py 452-529 |
| Refill, blocklist (SchedulerService) | `disabledProjects` in `settings.json`, the copies of it in the platform client and in the queue | refill a round at a time; disable, enable, add by request | service.py 825-872, 1024-1209 |
| Automatic resume (SchedulerService) | `auto.json`: starts per side, last start | a pass over the sides of all tasks | service.py 1005-1021, 1211-1262 |
| Local runners (external) | `monitor/state.json`: pid and status of a side | run by themselves; outlive the monitor | seen through the files |
| SnapshotHub | last snapshot, revision, subscriber queues | build, push, subscribe | service.py 63-196 |
| SchedulerLog | last number, ring, file, subscriber queues | emit, replay, rotate, recover | logs.py |
| Pages | cards shown, last number seen | connect, apply, fetch | static/app.js, index.html |
| Server | instance lock | HTTP, event stream | server.py |

**How they interact.** The tick, the snapshot builder, the reconcile loop and the
HTTP threads all call the QueueManager under one re-entrant lock, so that their
handlers are atomic against each other. Not under that lock: workers (processes
in sessions of their own, which survive the monitor), desktop sessions, the
waiter threads of the JobManager, and the sweep of dead markers. Everything the
queue knows of a launch it reads back from files, at the next sync. A handler of
the service that makes several calls of the queue takes the lock for each of
them: the refill and the requests run between each other's calls. The hub, the log and the
JobManager have locks of their own; a page sees all of it through one stream and
its fetches.

**What is hard.** A launch is a chain of writes to different places (platform task,
markers, `queue.json`, process, job record, `queue.json` again) and the monitor
may die between any two. A worker may be stopped but its session may not: a
session outlives the attempt that opened it. Five different timers give an
attempt up, each from a different view of the files. Six writers change status,
held flag, quota and markers of one item and must keep them consistent. The count
of used capacity is taken from a `docker ps` that is older than the launches
decided on. The refill decides from five views of different moments, while
operators disable what it is about to add. The stream sends only what has changed,
through queues that drop, over connections that break, and the page never
compares a revision. `PROJECT.json` lists these hazards at their lines, with the
properties that guard against each.

**What makes each part correct.**

* Item life cycle: the slot is held exactly while the item is active; it comes
  back; success is recorded, and only from the attempt the item is on; launches
  are bounded by the retry limits.
* Workers: at most one per item; the one that runs is the one the JobManager knows.
* Reservations: none without an owner that holds a slot.
* Quota: what was paid is not cancelled afterwards; what is refunded is cancelled.
* Admission: launches stay within the capacity, whatever the age of the count;
  nothing that waits starves.
* Refill and blocklist: the lists in memory follow the settings; what waits is not
  thrown away over a failed read; nothing is added twice; the queue does not run
  dry. A disabled project stays out: that one does not hold (section 6).
* Automatic resume: one runner per side; relaunches and jobs within their limits,
  over restarts; a failed side is taken up again.
* Event stream: a client that applies the deltas ends in the state of the server,
  and misses no log entry.

## 2. Modules

| Module | Subject |
|---|---|
| `TaskLifecycle` | one platform item through tick, worker, session, sync, reconcile, operator, crash and restart |
| `TaskLifecycleProofs` | its theorems |
| `Admission` | which items a tick may launch: gates, loop, capacity count over several items |
| `AdmissionProofs` | its theorems |
| `ItemContract` | what an item promises to the rest of the monitor, abstractly; its consequences as a theorem |
| `ContractProofs` | `TaskLifecycle` implements `ItemContract` |
| `AttemptProofs` | theorems on what belongs to an attempt: its success, its payment, its slot, the number of launches; the item is that of `Refill` |
| `Refill` | the items of several projects, the refill, the requests that disable, enable, add and retry |
| `RefillProofs` | its theorems |
| `Resume` | runners of local tasks: automatic resume, operators, job records |
| `ResumeProofs` | its theorems |
| `EventStream` | snapshot hub, scheduler log, stream handler and one page |
| `EventStreamProofs` | its theorems |
| `MCTaskLifecycle`, `MCAdmission`, `MCRefill`, `MCResume`, `MCEventStream` | the modules TLC is started on; the `.cfg` files give the values |

The first two models cut the system along its own seam. The tick decides about an item
from a count over all items, and afterwards no step of one item reads another.
`TaskLifecycle` therefore follows one item in full detail with the gates as a
choice (`TickEnds`, `TickClaim`), and `Admission` follows several items with the
life of each reduced to what the count reads: held or not, how far the candidate
race is, how many containers run. `Refill` reduces an item further, to its status
and whether it names the files of an attempt; that nothing is lost by it is proved
(`RefillAllows`). Definitions whose comment begins with *Fault*
are wrong variants of the definition that follows them. No specification uses
them; each is named in `PROJECT.json` with the property it breaks.

### TaskLifecycle

Launches are numbered 1, 2, ... and stand for the run: its job sidecar, result
file, task directory, process and session. 0 is "none".

* `item`, `quota` are what `queue.json` holds. `item.root` is `taskRoot`, `item.file`
  is `resultFile`, `item.mine` is the set of launches that carry the present
  `runKey`, `item.slots` says that markers are listed, `item.manual` is the manual
  release. `draft` is a quota claimed in memory and not saved yet. The `orphaned`
  flag mirrors the status and is dropped.
* `job`, `record`, `waiter` are the JobManager: record in memory, status in each
  sidecar, waiter threads that have not returned.
* `proc`, `stage` are worker processes and result files; `session`, `racing`,
  `chosen` are the desktop sessions with their containers and the platform task
  the skill selects itself; `tasks` are the platform tasks at the manager.
* `pc` is the place of the tick, which keeps the lock over several steps:
  reap, sync, claim and reserve, save, Popen, record, save. Workers, sessions and
  waiters run between them and the monitor may die at each.

Every other handler is one step with the lock free (`QueueFree`). `Sync` is
`_sync_running_locked` for the item, in the order of its branches: terminal state,
manual release, stall, executor exited, running or orphaned, failed. It is part of
the tick (`TickSync`) and of every snapshot (`SnapshotSync`).

Time is abstracted: a timer may have expired whenever the code's bounds allow it.
Stall retry, startup timeout, reservation timeout, orphan grace and quota timeout
are at least 60 seconds, and a worker needs less from its start to the end of its
push, hence the guards on `"starting"` and `"pushing"`. The hours of a worker's
own wait do not pass while a tick holds the lock.

Left out, and why:

* The branches of sync for a `launching` item and for `uncertain` stages reached
  with a free slot (2389-2426) need an active item that holds no slot. That cannot
  be (`SlotFollowsStatus`), except for wait-timeout, which is in `SyncFailed`.
* `desktop-start-timeout` needs a missing task directory, which `start_platform`
  creates (492). A wait timeout of zero or less is not configured.
* A state file that leaves a terminal status again; the stability window is a
  choice whether a terminal state is acted upon yet.
* The addition of the item (it is in `Refill`), `enforce_stop_tasks` (service.py
  947-997), the archive of done items and its
  recovery (920-965), attempts alerts: no effect on what the properties tell apart.
* `docker rm` of terminal containers happens outside the lock; it is one step.

### Admission

`status`, `delayed` are the queue, in its order; `race`, `running` are the attempt
of each item; `ghosts` and `strays` are sessions of given up attempts that may
still start containers, and those that have; `docker` is the cached snapshot, of
any age; `inUse`, `estimated`, `cursor` are the locals of the tick's loop, which
read the count once and then add what they launch. `SameProject` names items of
one project: containers of one match the reservation of the other, as
`_capacity_usage_locked` matches by task root or else by project code. An attempt
that is given up (`LeaveAttempt`, at a requeue and at the launch over it) leaves its session
behind as a ghost. `TrackAgain` is the sync that finds the attempt of a waiting, orphaned or
released item alive: it gives the slot back past the gates of the tick.

Left out: excluded projects and active-root scoping (they take items and groups out
of the count together), local tasks, a reservation that is counted a little longer
than needed (an ended item whose worker still lives), two reservations of one
project that share a group name before either has a task root. Paused, startup
grace and runner check are gates that are closed. The container count may exceed
the hard limit by design (2611-2619), so there is no property that forbids it.

### ItemContract

The item as the rest of the monitor may count on it: `place` (waits, in its slot,
out of it, over), `account` (the state of its quota), `released` by an operator,
the launches that have `begun` and those whose worker is at `work`. Its actions
say what may happen and nothing of how: a launch begins in the slot, after all
others and with none at work; an attempt given up keeps no claim; only success
settles and success is the end; only a retry opens a new account.
`TaskLifecycle` implements it under `Item == INSTANCE ItemContract WITH ...`:
place from status, held flag and queue; `begun` from the sidecars, so that a launch
begins with `TickRecord`; `work` from processes whose sidecar runs. `KeepsContract`
is the abstract specification as a property of the detailed one.

### Refill

`items` is the queue with its archive, `offered` what the manager offers,
`disabled` the settings and `offBlocked`, `addBlocked` the two copies of it.
`refill` and `request` hold the places and locals of the refill and of requests.
One step is one call that takes the lock, or one read or write of the settings:
the refill reads the offer (`RefillReads`, with stages that fail and the cut after
200 exclusions as sets left out of both lists), looks at the queue, fails unfit items
one by one, counts, tracks, and adds one item at a time, each addition in two steps,
because `add_platform` looks at the blocklist before it takes the lock. Requests
run in threads of their own, and nothing keeps one that reads and writes the settings
from running beside another: each is its read, its write, the second read of
`_sync_blocklist` and its two copies, in any interleaving. Two history variables
record what goes wrong: `overtaken` are the requests that hold a list older than the
settings, `outdated` the blocklists such a request has copied last. The tick is in the
refill's thread (`refill.at = "idle"`).
Task types are left out, since they only order a random choice, and so is the order of
the queue.

What becomes of an item is a handful of relations on its status (`Launches`, `Skips`,
`Fails`, `SyncEnds`, `Requeue`, `Orphans`, `Follows`, `Revives`, `Retries`, `Removes`),
together `Changes`; `Tick`, `Sync` and the requests use them. `begun` says that the item names the files of an
attempt: a sync ends, follows or revives nothing else. `TaskLifecycle` has these relations
as an abstraction under `Queue == INSTANCE Refill WITH ...`: `QueueStatus` is the status,
with the three active ones as one and what the tick does with the lock held
as nothing yet; `Attempted` is `begun`. `RefillAllows` says that each step of the life cycle
is one of `Changes` there, or none; it was also checked once with two launches, in the bounds of `life_relaunch`.

### Resume

Sides in the order of the snapshot, their `runners`, the `folder` each writes, the
`jobs` in memory and the `files` on disk. A start is two steps, Popen and record,
with the JobManager's lock held (`launch`); a crash may fall between. `pass` is
the place of `maybe_auto_resume` and the sides it has left; `history` and `saved`
are the starts it counts and those in `auto.json`. Cooldown and window are two settings
(service.py 1007-1008) of which either may be the longer one: `cooled` and `expired` each
grow in the order of the starts, and independently. Queue workers are a number, since they count as jobs.
Left out: `set_auto`, which nothing calls; exceptions while a record is written;
pruning of starts older than a day.

### EventStream

`world` is what a build would find; `hub` reads, commits and pushes in three
steps, the push after the lock; `log` is the last number and where ring and file
begin; `stream` is the handler with its two queues, `wire` the frames under way,
`page` what a page shows. `FetchAnswered` and `FetchApplied` are the fetches
beside the stream. Losses the code accepts are kept in history variables, so that the
properties can name them: `doubted` (set by a snapshot beside the stream or
before the first build), `lost` (last delta fell off a full queue), `cut` (dropped by
a bound of the log), `wrapped` (numbers began anew). The size of a frame and the
time of a rotation are choices.

## 3. Runs

All runs use `CHECK_DEADLOCK FALSE`: an item that is done or removed, or a bound
that is used up, leaves nothing to do.

| Run | Bounds | Distinct states | Shows |
|---|---|---|---|
| `life_crash` | 1 launch, 2 tasks, 1 crash, all events | 1.06 million | `HeldIffActive`, `MarkersHaveHolder`, `SettledStaysPaid`, `SyncHoldsTracked`, `TasksKept`, `KeepsContract`, `RefillAllows` |
| `life_relaunch` | 2 launches, 2 tasks, 1 operator retry, 1 crash, session failures | 1.50 million | `TypeOK`, `SlotInv`, `RunningRecordIsOwned`, `WorkersAreWatched`, `DoneIsOwn`, `TasksPaid`, `KeepsContract` |
| `life_liveness` | 2 launches, 1 task, 1 crash | 91 thousand | `LaunchBudget`, `SlotReturns`, `CompletionIsSeen` |
| `admission` | 4 items, two of them of one project, capacity 2, no mishap | 1.93 million | `TypeOK`, `ProjectsWithinCapacity` |
| `admission_liveness` | 2 items, capacity 1, hard limit 1, threshold 2, batch 2, interval, 1 mishap, all events | 173 thousand | `LaunchWithinCapacity`, `WaitingEnds` |
| `refill` | 2 projects, 2 items, 2 threads for requests, 2 disturbances, target 2, batch 1; retries, orphans, revivals, partial reads | 487 thousand | `TypeOK`, `BlocklistAgrees`, `OnlyOwnProject`, `NoWorkDiscarded`, `AddsNeverDouble`, `WantedIsQueued` |
| `stream` | 1 card, 2 changes, 2 log entries, queues of 1, ring 2, 1 fetch, 2 mishaps | 1.02 million | `TypeOK`, `CardsInStep`, `LogComplete`, `PageConverges` |
| `resume` | 2 sides, limit 1, 1 job, 2 starts, 1 queue worker, 1 mishap | 327 thousand | `TypeOK`, `OneRunner`, `RelaunchesBounded`, `OwnWithinMax`, `CooldownKept`, `NeedIsServed` |
| `life_one_session`, `life_refund`, `life_orphan`, `refill_disabled` | the smallest that show it | | violations, section 6 |

**Bounds.** The properties of one attempt need one launch, a crash at any step and
every failure of the environment: `life_crash`. Those about the change from one
attempt to the next need two launches, and between them stall retry, retryable
failure and operator retry; a third launch meets the second as the second meets
the first. Two platform tasks are the claimed one and the executor's own. A
second crash finds what the first has left, with fewer threads. `AttemptsCap`
saturates the attempts counter, which the code reads only to compare it with
`MaxAttempts`. In `admission` a project with two items and two more projects are one
more than the capacity, so that a launch too many can happen, with two launches in one
tick; in `admission_liveness` the threshold above
the limit and the batch larger than it are the configurations that once stalled
the queue. `mishaps` bounds how often the environment may disturb; items that
stay undisturbed behave freely. `LaunchWithinCapacity` was also checked once with three items
of different projects, a capacity of two, a mishap and all events (2.1 million states).

In `refill` both projects are on offer at the start and one of them is disabled; they meet a
refill and two disturbances at any of its steps: two requests, which may overlap,
a request and a restart, a change of the offer and an attempt that is orphaned, and so on
(`MaxDisturbances` counts them together). That an orphan runs again or is requeued costs none, since
its orphaning did. Two requests are enough for one to overtake the other at each of its steps, and
for a list copied late to replace a newer one. That a later request or a restart makes up for
it takes more of them: the safety properties and `SyncInv` were also checked once
with three disturbances and one item (2.3 million states), and with four and no item
(0.9 million). Two items in all suffice for a doubled project
and for a queue that runs dry. In `stream` queues of one message and a ring of two
entries are full at once: every drop happens. Two mishaps are a rotation and the
restart after it, or a break during the recovery of another. One card is enough for
`CardsInStep`, whose statement is about each card by itself; that deltas name
several is covered by the proof. In `resume` two sides compete for one job, so that
the limit bites, and the second start is a relaunch beyond the limit if one is
let through. The window and the cooldown end independently, so that a start which has left the window
may still cool down: with a limit of one, `RelaunchesBounded` does not imply `CooldownKept`, and
a pass that does not look at the cooldown breaks the second alone. With more than one
relaunch in a window it was checked once, with one side, a limit of two, three starts and two restarts
(621 thousand states). The other safety properties of `Resume` were also checked once with room for two
jobs and three starts (8.5 million states).

That two workers never live at once is not claimed. When a waiter thread is late, it
closes the record of the next worker, and a third launch then starts beside the
second (section 6). What the code keeps is weaker, and holds for every number of
launches: no launch begins beside a worker whose *record* runs (`KeepsContract`), and
no live worker is lost sight of (`WorkersAreWatched`, also checked once with three
launches, 10.2 million states).

**Fairness.** `MonitorFairness`: the tick, once begun, ends; a dead monitor is
restarted; sync and the release of stuck orphans run again and again (strong
fairness: they are periodic, and another sync may change the status in between);
workers and waiter threads run. The loops catch every exception and go on (service.py
346-366, scheduler.py 2908-2917). `StableSync` says that the stability window closes.
`SessionFairness`: a session that was opened writes its state file and ends.
`OrphanReleased` is refuted without that last assumption, because the README of
the program claims it for sessions that hang. Launching is not fair: gates may be closed
for ever. `Admission` assumes the same of its tick, of docker reads, timers,
containers and sessions; how often `docker ps` or a start fails is bounded by
`MaxMishaps`. A start that fails without a claimed quota is otherwise retried at
every tick for ever, and so is the whole queue while docker is down.

`Refill`: the scheduler thread begins a round again and again and catches every
exception (service.py 346-358), rounds and requests that have begun end, and the offer is
read in full again and again (strong fairness: rounds with failing reads lie in between).
This assumes that automatic refill is enabled. `Resume`: the loop calls a pass
again and again; runners end; queue workers leave room; time passes. Strong
fairness for the beginning of a pass and for waiter threads, because the lock they
need is taken by operators in between. `EventStream`: the hub's loop goes on after
every exception, the handler sends (strong fairness: the wire may be full in between),
the page reads and connects again after every break (app.js 272-278). How often
connections break is bounded by `MaxMishaps`.

## 4. Proofs

**TaskLifecycle.** For all values of the constants that satisfy `BoundsAssumption`:

* `TypeCorrect`: `Spec => []TypeOK`.
* `SlotsOwned`: `Spec => []SlotInv`, and from it `SlotFollowsStatus` (`HeldIffActive`),
  `ReservationsHeld` (`MarkersHaveHolder`) and `WorkersOwned` (`RunningRecordIsOwned`).
* `WorkersWatched`: `Spec => []WorkersAreWatched`.

None of the invariants is inductive. A tick that spawns while another worker's record runs
would break `RunningRecordIsOwned`, so the invariant must say that none runs when
the tick has claimed the item; that holds because `start_platform` refuses while
the record in memory runs *and* because every live worker's record is that one. After
a crash, recovery looks at the newest sidecar only, so records must be ordered as
launches are. The sync decides from the record it finds under the present run key,
so those launches must be the newest. `SlotInv` is the conjunction of
`HeldIffActive`, `ClaimInv` (what the tick's place says of the item, and who may own
markers), `RecordInv` (order of records, the run key's launches are the newest) and
`OwnerInv` (live workers with running records). `WorkersWatched` adds `WatchInv`: a
worker without a thread was adopted at a restart, there are no threads while it lives,
so nothing but its own end closes its record, and no other is launched over it. The proof has one lemma per
handler and per conjunct the handler disturbs; the sync is split into its branches.

**Admission.** `TypeCorrect`; `ProjectsFit`: `Spec => ProjectsWithinCapacity`, for every number of items, any
of them of one project, every capacity, batch, limit and
mode. The property is about a step, so the proof needs what is true when the loop
launches: `LoopInv` adds to the types that while the loop is open the projects with an item
held before the end of its race are at most `inUse`. It holds when the loop opens by `CountMissesNone`:
each such project is in the docker snapshot as a group or counted as a
reservation, and `UnionBound` says that this makes them no more than the count. Inside the loop
only launches add to the
set, and each is counted. From it `LaunchesFit`: if no two items are of one project, the *tasks*
in their race are within the capacity. The assumption is needed, as TLC shows within seconds
when two of three items are of one project and `LaunchWithinCapacity` is asked for: with an orphaned
item and a waiting one of the same project the reservation of one is hidden by the
containers of the other (section 6). That the estimate is a number is a sum over a
finite set, here the number of members of a set of pairs (`EstimateType`).

**The contract.** `ImplementsContract`: `Spec => KeepsContract`, for all constants
that satisfy `BoundsAssumption`. `StepMaps` shows that a step from a state of
`TypeOK`, `SlotInv` and `DraftInv` is a step of the contract or none, handler by
handler. `SlotInv` is what makes a launch begin with nobody at work; `DraftInv` ties
the quota claimed in memory to the one the contract lets the tick save. From it and
`ItemContract`'s own `PromiseKept` follows `ContractPromised`: one worker at work
among the recorded, a settled item is over, a claim belongs to a slot or to an item
an operator released.

**The attempt.** `DoneByOwnLaunch` (`DoneIsOwn`) rests on `OwnInv`: root and result
file the item names are of its present run key, which a requeue forgets together.
`SettledKeepsPaid` (`SettledStaysPaid`) rests on `PaidInv`: a claimed or settled
task is not cancelled, and neither is one the executor will choose. It uses the
contract's promise (a settled item is over, so no handler that refunds looks at
it again), `FreshInv` (launches that have not been spawned have left no trace) and
`DraftInv`.

`TrackedKeepsSlot` (`SyncHoldsTracked`) is about a step and needs only that the types
are right: with a state file that goes on, the sync is left with two branches and
both hold the slot. `LaunchesPaid` (`LaunchBudget`) rests on `BudgetInv`: an item that
waits, or is being launched, has its next launch paid for. Its assumptions are needed:
`_release_stale_reservations` puts an item back without counting, a retry by hand
starts the count anew, and the model's cap on the attempts counter must not be reached
before the last launch.

**The account.** `PaidOnce` (`TasksPaid`): the platform tasks the monitor creates are at most one
for the item, one for each retry by hand and one for each crash, however often it
is requeued, fails, or is refunded. `OpenTasksKept` (`TasksKept`): no step drops an open platform
task from what the item, the tick and the sessions name, but a crash between claim and
save, a retry by hand, and a session that has chosen a task of its own. The first two are among the
findings of section 6. Neither follows from the state of the quota
alone: `AccountInv` says when a quota may still be unclaimed (no launch has begun under the
run key, and the tick is not past its save) and that the draft of the tick is an account
over the same task; `CreatedInv` counts an unclaimed quota as a task to come, so that
a claim spends what the retry or the crash has allowed. `TaskMoves` is the lemma both use:
only claim, save, crash, retry and the executor's choice move the tasks of an item.

**The item of Refill.** `ImplementsQueueItem`: `Spec => RefillAllows`. Each handler of the life cycle maps to one of the
item relations of `Refill`, so that what is proved of the refill holds with the real tick,
sync, reconcile loop, operator and crashes under it. `Allowed` lists the changes by
status; `SyncSees` says that a sync that acts on a session, a result or a record has found
them under the item's present run key, which is what keeps an item that has never been
launched from being followed or ended. It needs `SlotInv`, `OwnInv` and that launch 0
has no files. Attempts at this proof, and the run before it, found what the two smaller models had
left out: a retry of an item that still waits forgets its files, and
a reservation that times out keeps them, whatever the race has come to. Both are now in `Refill` and `Admission`.

**Refill.** `TypeCorrect`; `WaitingWorkKept` (`NoWorkDiscarded`) from `DoubtInv`:
what a read found excluded, and the items listed to be failed, have been off the offer
since the round began; it is about the steps of the refill (`RefillFails`), since a sync may end an item of
any project. `AdditionsUnique` (`AddsNeverDouble`) from the check under
the lock; it excepts a retry by hand and `Revives`, in which an attempt that comes back
doubles its project although nothing was added; `BlocklistsFollow` (`BlocklistAgrees`) and
`WritesOwnProject` (`OnlyOwnProject`) from `SyncInv`: a list in the hands of a request is that of the
settings, but for its own project before the write, as long as no other request has
written since; and a blocklist is current once nobody is left to copy, unless an overtaken request
copied it last. They hold for any number of requests beside each other. What overtaking does is the
exception that both name, and a finding (section 6).

**Resume.** `TypeCorrect`; `OneRunnerPerSide` from `RunnerInv`: the one runner of a
side is on record or being started, and a record that was dropped at a restart
belongs to a dead one. `RelaunchesWithinLimit` from `CountInv`: the starts counted are those
there were, and between passes they are on disk. `RelaunchesCoolDown` (`CooldownKept`) rests on it too: the
pass compares the last start it has counted, and a pass that was cut short by a stop of the monitor is the
one way to lose that. `ResumeWithinMax` from `RoomInv`:
while a pass may still start a runner there is room for one; operators' starts do
not count as the resume's own.

**EventStream.** `TypeCorrect`; `PageInStep` (`CardsInStep`) from `CardInv`: the last
word on a card is right wherever it is, in the delta to be pushed, else in the queue,
else on the wire, else on the page. `LogMissesNothing` (`LogComplete`) from `LogInv`:
every entry up to one that is under way is known to the page, dropped, or before
it on its way. Both hold for queues and rings of any size.

**Model-checked only.** Every invariant and every action property of the passing runs is
a theorem, the two refinements included. Left to TLC is what holds under fairness: `SlotReturns`,
`CompletionIsSeen`, `WaitingEnds`, `WantedIsQueued`, `PageConverges`, `NeedIsServed`. Liveness
and ENABLED are out of the prover's reach, as are inductions over data and recursive operators. No
module here declares one. Within the theorems the assumptions are those their statements
name: no two items of a project (`LaunchesFit`), neither
reservation timeouts nor retries by hand (`LaunchesPaid`).

## 5. Properties worth knowing

* `SyncHoldsTracked` is the rule behind `stalled_held`: once the session the item
  follows shows a state file that goes on, no sync gives the slot up, whatever
  became of the worker.
* `WorkersAreWatched` is what recovery owes after a crash between spawn and record: a
  worker nobody has a record of is stopped, not left running (`RestartSparesWorkers`).
* `SettledStaysPaid` relates the quota record, the order of absorb, settle and refund
  in four handlers, and the manager.
* `DoneIsOwn` depends on `requeue_stalled` clearing the task root when it gives the
  item a new run key: with the old root, the success of a given up session would end
  the new attempt (the mutant `RequeuedRooted`).
* `CompletionIsSeen` holds through dead workers, stall timeouts and restarts,
  because the sync trusts the state file before anything else.
* `TasksPaid` and `TasksKept` are the two sides of the account: nothing is bought twice,
  nothing bought is mislaid. A requeue that hands the next attempt an unclaimed quota breaks
  the first (`RequeueUnpaid`), an absorbed choice that does not mark the claim superseded
  the second (`AbsorbSilently`).
* `RefillAllows` would catch a sync that takes the job of an earlier attempt for the item's
  (`FoundJobAnyKey`): the item is ended without an attempt of its own.
* `ProjectsWithinCapacity` is what the count by groups can promise when a project
  has several items; the tasks themselves it cannot bound.
* `KeepsContract` is one statement about every handler, as in `RequeueUnsettled`, a
  requeue that forgets to close the claim of the attempt it gives up.
* `NoWorkDiscarded` is the reason the refill lists exclusions with their reasons: what is
  merely absent from the offer may have been lost in a read (`UnfitUnlisted`).
* `OnlyOwnProject` and `BlocklistAgrees` say how far requests without a lock may go: only a
  write after another's read loses an update, and only a copy of an overtaken list is left
  behind. A disable that starts from the list in memory would take a project off the
  settings although nobody overtook it (`DisableReadsCopy`).
* `CardsInStep` holds although nothing compares revisions, because a stream subscribes
  before it reads the snapshot, and a push after the lock repeats but never reorders.
* `OwnWithinMax` needs the comparison after each start: the first one is older than the
  operators' starts (`AfterStartUncrowded`).

## 6. Where code and documents disagree

The runs that expect a violation show, each with a trace of the code's own steps:

| Run | The statement | What happens |
|---|---|---|
| `life_one_session` | comment 2252-2258 | a silent session without a state file is requeued, and two sessions work at once |
| `life_refund` | README.md:96 | a refund by sync is only booked locally; the platform task is not cancelled |
| `life_orphan` | README.md:117 | an orphan that submitted and never wrote a state file keeps its slot |
| `refill_disabled` | docstring service.py:835, tests/test_scheduler.py:862 | a project that passed the blocklist check before it was disabled is added afterwards and launched |

`PROJECT.json` lists more, found while modelling and without a run:

* Life cycle: a failed item gains an attempt at every sync (docstring 3157); refunded
  or superseded quota that a later success does not settle; relaunches with a refunded
  task; a platform task created twice around a crash; a released item whose claimed
  task a retry forgets; a released orphan that fails or is requeued at the next sync; a
  stale result file after a crash; a requeue after a submission; the waiter thread
  that finishes its successor's record; the worker's startup timeout that cannot fire.
* Admission: one tick starts several items in spite of the interval (comment
  2562-2565); a second item of an orphaned project leads to one launch too many
  (docstring 4-8); the container gate's docstring.
* Refill: a second item of a disabled project stays, and a retry asks no blocklist;
  overlapping requests lose a disabled project or leave the older list in memory.
* Resume: the record of a runner that was recovered after a restart never ends, blocks
  its side and holds a reservation (`Ghost`, which `NeedIsServed` excepts); one pass
  starts A and B together, against the docstring of `start_action`; queue workers
  count for its limit; an exception that is not a `MonitorError` loses the counts.
* Stream: an answer to a fetch overwrites newer deltas; cards from before the
  first build stay; a full queue loses a change for good; log numbers begin anew after a
  rotation and a restart; a page that missed more than 500 entries gets the last
  500; an entry between subscription and backlog is sent twice.

## 7. Not modelled, and what is left

Not modelled for good: HTTP routing, authentication and listing at the
manager, task scanning and trace parsing apart from `needsResume`, log formatting,
desktop folders, validation of settings, rendering. They keep no state that the
properties above depend on.

Not modelled yet, in the order of what it would add:

1. The state file that leaves a terminal status, with the stability window as a
   counter instead of a choice (1206).
2. Excluded projects and active-root scoping in `Admission`.
3. `enforce_stop_tasks` (service.py 947-997), which kills processes by their command
   line while the queue follows them.
4. Several pages on one hub, with an abstract specification of the copy a page
   keeps.
5. The item of `Admission` as an abstraction of `TaskLifecycle`, as `RefillAllows` is for
   `Refill`: its races and containers need the sessions of the life cycle.
