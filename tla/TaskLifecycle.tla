--------------------------- MODULE TaskLifecycle ---------------------------
(***************************************************************************)
(* The life of one platform queue item of the monitor: the scheduler tick  *)
(* that claims and launches it, the queue worker process it launches, the  *)
(* ChatGPT desktop session that the worker opens and cannot stop, the      *)
(* waiter thread of each worker, the sync that reads all of that back, the *)
(* reconcile loop, the operator, the platform task that pays for it, and   *)
(* crashes and restarts of the monitor.                                    *)
(*                                                                         *)
(* QueueManager, ReconcileLoop and JobManager run under one queue lock:    *)
(* every handler here is one step taken while the lock is free, except the *)
(* tick, whose steps hold the lock (pc # "idle") while workers, sessions   *)
(* and waiter threads, which do not need it, run in between.               *)
(*                                                                         *)
(* Ages and timeouts are choices: a timer may have expired whenever the    *)
(* code's own bounds let it.  Launch 0 stands for "no launch".             *)
(***************************************************************************)
EXTENDS Naturals, FiniteSets

CONSTANTS
    MaxLaunches,       \* bound: workers ever launched for the item
    MaxTasks,          \* bound: platform tasks ever created for it
    StalledLimit,      \* automation.stalledTaskRetryLimit
    MaxAttempts,       \* automation.maxAttempts
    AttemptsCap,       \* bound: the attempts counter saturates here
    MaxRetries,        \* bound: operator retries
    MaxCrashes,        \* bound: crashes of the monitor
    Events             \* optional behaviours of the environment in this instance

\* "aborted", "reviewable", "failure": endings of a desktop session besides
\* "complete"; "containers": candidate containers; "dies": a worker process
\* dies by itself; "helperTimesOut": the push helper is killed after it has
\* submitted; "skillSelects": the skill picks a platform task of its own;
\* "createFails", "answerLost", "cancelFails": calls to the Solo manager fail
\* or their answer is lost; "startFails": start_platform raises;
\* "slowContainers": no container comes up within the reservation window;
\* "operator": an operator removes and releases, the refill or the stop list drops
\* a waiting item.
AllEvents == {"aborted", "reviewable", "failure", "containers", "dies", "helperTimesOut",
              "skillSelects", "createFails", "answerLost", "cancelFails", "startFails",
              "slowContainers", "operator"}

ASSUME BoundsAssumption ==
    /\ MaxLaunches \in Nat \ {0}
    /\ MaxTasks \in Nat \ {0}
    /\ StalledLimit \in Nat
    /\ MaxAttempts \in Nat \ {0}
    /\ AttemptsCap \in Nat
    /\ MaxRetries \in Nat
    /\ MaxCrashes \in Nat
    /\ Events \subseteq AllEvents

Launches == 1 .. MaxLaunches
AnyLaunch == 0 .. MaxLaunches
Tasks == 1 .. MaxTasks
AnyTask == 0 .. MaxTasks

VARIABLES
    \* queue.json
    item,       \* the queue item
    quota,      \* its quota record as last saved
    \* JobManager
    job,        \* launch whose record is in memory under platform:{id}, or 0
    record,     \* status in each launch's job sidecar file
    waiter,     \* launches whose _wait thread has not returned yet
    \* worker processes and desktop sessions
    proc,       \* state of each worker process
    stage,      \* stage in each launch's result file
    session,    \* state of the desktop session of each launch
    racing,     \* launches whose candidate containers are up
    chosen,     \* platform task the skill itself selected, or 0
    \* the rest
    tasks,      \* platform tasks at the Solo manager
    markers,    \* the item's reservation marker files
    pc, draft,  \* where the tick is, and the quota it has not saved yet
    up,         \* whether the monitor runs
    launched, retries, crashes

queueVars == <<item, quota>>
jobVars == <<job, record, waiter>>
workerVars == <<proc, stage>>
sessionVars == <<session, racing, chosen>>
tickVars == <<pc, draft>>
counters == <<launched, retries, crashes>>
vars == <<queueVars, jobVars, workerVars, sessionVars, tasks, markers,
          tickVars, up, counters>>

-----------------------------------------------------------------------------
(* Types and predicates                                                    *)

ActiveStatuses == {"launching", "running", "triggered", "orphaned"}
Statuses == ActiveStatuses \cup {"pending", "done", "failed", "skipped", "removed"}
QuotaStates == {"pending", "claimed", "settled", "refunded", "superseded"}

\* Stages of the result file.  "invalid" stands for validate-workdir and
\* validate-prompt, whose result carries no taskRoot; "submitFailed" for
\* resolve-push-helper and desktop-submit.
Stages == {"none", "invalid", "submitting", "submitFailed", "submitted",
           "running", "complete", "initFailed", "stateFailed", "waitTimeout"}
RootedStages == Stages \ {"none", "invalid"}
SubmittedStages == {"submitted", "running"}
FailedStages == {"invalid", "submitFailed", "initFailed", "stateFailed", "waitTimeout"}
NotRetryableStages == {"submitted", "running", "initFailed", "stateFailed", "waitTimeout"}

\* "opened": submitted to ChatGPT, nothing written yet; "aborted": wrote
\* init-failure.json; the others are statuses of monitor/state.json.
\* "reviewable" is terminal for the queue but not for the worker.
Sessions == {"none", "opened", "aborted", "working", "reviewable", "complete", "failure"}
SuccessSessions == {"reviewable", "complete"}
StateFile == {"working", "failure"} \cup SuccessSessions

Items == [status : Statuses, held : BOOLEAN, slots : BOOLEAN, manual : BOOLEAN,
          root : AnyLaunch, file : AnyLaunch, mine : SUBSET Launches,
          attempts : 0 .. AttemptsCap, stalls : 0 .. StalledLimit]
Quotas == [state : QuotaStates, task : AnyTask]

TypeOK ==
    /\ item \in Items
    /\ quota \in Quotas
    /\ job \in AnyLaunch
    /\ record \in [AnyLaunch -> {"none", "running", "finished", "failed"}]
    /\ waiter \in SUBSET Launches
    /\ proc \in [AnyLaunch -> {"none", "starting", "pushing", "waiting", "exited"}]
    /\ stage \in [AnyLaunch -> Stages]
    /\ session \in [AnyLaunch -> Sessions]
    /\ racing \in SUBSET Launches
    /\ chosen \in [AnyLaunch -> AnyTask]
    /\ tasks \in [Tasks -> {"unused", "open", "cancelled"}]
    /\ markers \in {"none", "own", "dead"}
    /\ pc \in {"idle", "reaped", "synced", "claimed", "saved", "spawned", "recorded"}
    /\ draft \in Quotas
    /\ up \in BOOLEAN
    /\ launched \in AnyLaunch
    /\ retries \in 0 .. MaxRetries
    /\ crashes \in 0 .. MaxCrashes

Alive(l) == proc[l] \in {"starting", "pushing", "waiting"}
InQueue == item.status \notin {"done", "removed"}
Active == item.status \in ActiveStatuses
Holds == Active \/ item.held                        \* _item_holds_slot
QueueFree == up /\ pc = "idle"

\* A new attempt of an item starts from this quota.
FreshQuota == [state |-> "pending", task |-> 0]

Init ==
    /\ item = [status |-> "pending", held |-> FALSE, slots |-> FALSE, manual |-> FALSE,
               root |-> 0, file |-> 0, mine |-> {}, attempts |-> 0, stalls |-> 0]
    /\ quota = FreshQuota
    /\ job = 0
    /\ record = [l \in AnyLaunch |-> "none"]
    /\ waiter = {}
    /\ proc = [l \in AnyLaunch |-> "none"]
    /\ stage = [l \in AnyLaunch |-> "none"]
    /\ session = [l \in AnyLaunch |-> "none"]
    /\ racing = {}
    /\ chosen = [l \in AnyLaunch |-> 0]
    /\ tasks = [t \in Tasks |-> "unused"]
    /\ markers = "none"
    /\ pc = "idle"
    /\ draft = FreshQuota
    /\ up = TRUE
    /\ launched = 0
    /\ retries = 0
    /\ crashes = 0

-----------------------------------------------------------------------------
(* The worker process (queue_worker.py) and the desktop session            *)

SetStage(l, p, s) ==
    /\ proc' = [proc EXCEPT ![l] = p]
    /\ stage' = [stage EXCEPT ![l] = s]
    /\ UNCHANGED <<queueVars, jobVars, sessionVars, tasks, markers, tickVars, up, counters>>

\* Missing workdir or prompt, or no push helper: only that result has a taskRoot.
WorkerInvalid(l) ==
    /\ proc[l] = "starting"
    /\ SetStage(l, "exited", "invalid") \/ SetStage(l, "exited", "submitFailed")

WorkerSubmitting(l) ==
    /\ proc[l] = "starting"
    /\ SetStage(l, "pushing", "submitting")

\* The helper returned 0: it has submitted the prompt.
WorkerSubmitted(l) ==
    /\ proc[l] = "pushing"
    /\ session[l] # "none"
    /\ SetStage(l, "waiting", "submitted")

\* The helper failed, or was killed after its 40 seconds.
WorkerSubmitFailed(l) ==
    /\ proc[l] = "pushing"
    /\ session[l] = "none" \/ "helperTimesOut" \in Events
    /\ SetStage(l, "exited", "submitFailed")

\* One round of wait_for_task that writes the result file.
WorkerReports(l) ==
    /\ proc[l] = "waiting"
    /\ \/ session[l] \in StateFile /\ stage[l] = "submitted" /\ SetStage(l, "waiting", "running")
       \/ session[l] = "aborted" /\ SetStage(l, "exited", "initFailed")
       \/ session[l] = "complete" /\ SetStage(l, "exited", "complete")
       \/ session[l] = "failure" /\ SetStage(l, "exited", "stateFailed")

WorkerWaitTimeout(l) ==
    /\ proc[l] = "waiting"
    /\ pc = "idle"                       \* no tick holds the lock for hours
    /\ session[l] \notin {"aborted", "complete", "failure"}
    /\ SetStage(l, "exited", "waitTimeout")

\* The process dies without a last word (signal, out of memory, logout).
WorkerDies(l) ==
    /\ "dies" \in Events
    /\ Alive(l)
    /\ SetStage(l, "exited", stage[l])

Worker(l) ==
    \/ WorkerInvalid(l) \/ WorkerSubmitting(l) \/ WorkerSubmitted(l)
    \/ WorkerSubmitFailed(l) \/ WorkerReports(l) \/ WorkerWaitTimeout(l)

SessionStep(l, from, to) ==
    /\ session[l] \in from
    /\ \E s \in to : session' = [session EXCEPT ![l] = s]
    /\ UNCHANGED <<queueVars, jobVars, workerVars, racing, chosen, tasks, markers,
                   tickVars, up, counters>>

\* The push helper hands the prompt to ChatGPT.
SessionOpens(l) == proc[l] = "pushing" /\ SessionStep(l, {"none"}, {"opened"})
SessionWrites(l) == SessionStep(l, {"opened"}, {"working"} \cup ({"aborted"} \cap Events))
SessionEnds(l) == SessionStep(l, {"working"}, {"complete"} \cup ({"reviewable", "failure"} \cap Events))
SessionRecords(l) == SessionStep(l, {"reviewable"}, {"complete"} \cup ({"failure"} \cap Events))

\* Candidate containers come up during the race and go away at any time.
ContainersStart(l) ==
    /\ "containers" \in Events
    /\ session[l] = "working"
    /\ l \notin racing
    /\ racing' = racing \cup {l}
    /\ UNCHANGED <<queueVars, jobVars, workerVars, session, chosen, tasks, markers,
                   tickVars, up, counters>>
ContainersStop(l) ==
    /\ l \in racing
    /\ racing' = racing \ {l}
    /\ UNCHANGED <<queueVars, jobVars, workerVars, session, chosen, tasks, markers,
                   tickVars, up, counters>>

\* The skill selects a platform task itself (platform/selection.json).
SkillSelects(l) ==
    /\ "skillSelects" \in Events
    /\ session[l] = "working"
    /\ chosen[l] = 0
    /\ \E t \in Tasks :
         /\ tasks[t] = "unused"
         /\ tasks' = [tasks EXCEPT ![t] = "open"]
         /\ chosen' = [chosen EXCEPT ![l] = t]
    /\ UNCHANGED <<queueVars, jobVars, workerVars, session, racing, markers,
                   tickVars, up, counters>>

Session(l) ==
    \/ SessionOpens(l) \/ SessionWrites(l) \/ SessionEnds(l) \/ SessionRecords(l)
    \/ ContainersStart(l) \/ ContainersStop(l) \/ SkillSelects(l)

-----------------------------------------------------------------------------
(* JobManager: records, waiter threads, recovery                           *)

\* get_platform looks in memory, then at the newest sidecar with the item's
\* runKey; item.mine is the set of launches that carry that runKey.
RecordedMine == {l \in item.mine : record[l] # "none"}
NewestMine == {l \in RecordedMine : \A k \in RecordedMine : k <= l}
\* Fault: the job in memory is taken whatever its run key is.
FoundJobAnyKey ==
    IF job # 0 THEN job
    ELSE IF NewestMine = {} THEN 0
    ELSE CHOOSE l \in NewestMine : TRUE

FoundJob ==
    IF job \in item.mine THEN job
    ELSE IF NewestMine = {} THEN 0
    ELSE CHOOSE l \in NewestMine : TRUE

\* Fault: a record is believed even when its process is dead.
JobStatusAsRecorded(l) == record[l]

\* finalize_dead_job: a record that still says running for a dead process.
JobStatus(l) ==
    IF record[l] # "running" \/ Alive(l) THEN record[l]
    ELSE IF stage[l] = "complete" THEN "finished" ELSE "failed"

GetPlatform == job' = IF FoundJob = 0 THEN job ELSE FoundJob
Finalized == [record EXCEPT ![FoundJob] = JobStatus(FoundJob)]
WorkerRunning == JobStatus(FoundJob) = "running"

\* _wait(key, process): the record it updates is the one now under the key.
WaiterReturns(l) ==
    /\ l \in waiter
    /\ proc[l] = "exited"
    /\ waiter' = waiter \ {l}
    /\ record' = IF job = 0 THEN record
                 ELSE [record EXCEPT ![job] = IF stage[l] = "complete" THEN "finished" ELSE "failed"]
    /\ UNCHANGED <<queueVars, job, workerVars, sessionVars, tasks, markers, tickVars, up, counters>>

\* The monitor dies; workers run in sessions of their own and survive it.
Crash ==
    /\ up
    /\ crashes < MaxCrashes
    /\ up' = FALSE
    /\ crashes' = crashes + 1
    /\ pc' = "idle"
    /\ draft' = FreshQuota
    /\ job' = 0
    /\ waiter' = {}
    /\ markers' = IF markers = "own" THEN "dead" ELSE markers
    /\ UNCHANGED <<queueVars, record, workerVars, sessionVars, tasks, launched, retries>>

\* _recover_running_jobs keeps the newest sidecar if its worker runs, then
\* reap_orphan_workers stops every other worker.
Recorded == {l \in Launches : record[l] # "none"}
Recovered == {l \in Recorded : /\ \A k \in Recorded : k <= l
                               /\ record[l] = "running"
                               /\ Alive(l)}
\* Fault: recovery adopts the newest worker but does not reap the others.
RestartSparesWorkers ==
    /\ ~up
    /\ up' = TRUE
    /\ job' = IF Recovered = {} THEN 0 ELSE CHOOSE l \in Recovered : TRUE
    /\ UNCHANGED <<queueVars, record, waiter, workerVars, sessionVars, tasks, markers, tickVars, counters>>

Restart ==
    /\ ~up
    /\ up' = TRUE
    /\ job' = IF Recovered = {} THEN 0 ELSE CHOOSE l \in Recovered : TRUE
    /\ proc' = [l \in AnyLaunch |-> IF Alive(l) /\ l \notin Recovered THEN "exited" ELSE proc[l]]
    /\ UNCHANGED <<queueVars, record, waiter, stage, sessionVars, tasks, markers, tickVars, counters>>

-----------------------------------------------------------------------------
(* Quota and failure helpers                                               *)

\* Fault: settle_quota forgets that a quota is settled once.
SettleAgain(q, success) == [q EXCEPT !.state = IF success THEN "settled" ELSE "refunded"]

Settle(q, success) ==
    IF q.state \in {"claimed", "pending"}
    THEN [q EXCEPT !.state = IF success THEN "settled" ELSE "refunded"]
    ELSE q

\* refund_quota settles locally, then cancels whatever task the record names;
\* the cancel may be refused or time out.
CancelTask(t) ==
    \/ t = 0 /\ UNCHANGED tasks
    \/ t # 0 /\ tasks' = [tasks EXCEPT ![t] = "cancelled"]
    \/ t # 0 /\ "cancelFails" \in Events /\ UNCHANGED tasks

\* Fault: the task of the monitor is replaced and its account goes on.
AbsorbSilently(q, t) == IF t = 0 THEN q ELSE [state |-> q.state, task |-> t]

\* _absorb_executor_quota: the task the executor selected wins.
Absorb(q, t) ==
    IF t = 0 THEN q
    ELSE [state |-> IF q.task \in {0, t} THEN q.state ELSE "superseded", task |-> t]

Bump(n) == IF n < AttemptsCap THEN n + 1 ELSE n

\* apply_failure
Failed(it, retryable) ==
    [it EXCEPT !.attempts = Bump(@),
               !.status = IF retryable /\ it.attempts + 1 < MaxAttempts THEN "pending" ELSE "failed",
               !.held = FALSE, !.slots = FALSE]

Held(it, s) == [it EXCEPT !.status = s, !.held = TRUE]

\* Faults: requeue_stalled keeps capacityHeld, keeps the task root of the
\* attempt it gives up, or does not count the retry.
RequeuedHeld(it) ==
    [it EXCEPT !.status = "pending", !.slots = FALSE, !.root = 0,
               !.file = 0, !.mine = {}, !.stalls = @ + 1]
RequeuedRooted(it) ==
    [it EXCEPT !.status = "pending", !.held = FALSE, !.slots = FALSE,
               !.file = 0, !.mine = {}, !.stalls = @ + 1]
RequeuedUncounted(it) ==
    [it EXCEPT !.status = "pending", !.held = FALSE, !.slots = FALSE, !.root = 0,
               !.file = 0, !.mine = {}]

\* requeue_stalled gives the item a new runKey.
Requeued(it) ==
    [it EXCEPT !.status = "pending", !.held = FALSE, !.slots = FALSE, !.root = 0,
               !.file = 0, !.mine = {}, !.stalls = @ + 1]

-----------------------------------------------------------------------------
(* QueueManager._sync_running_locked                                       *)

ResultFile == IF FoundJob = 0 THEN item.file ELSE FoundJob
Root == IF stage[ResultFile] \in RootedStages THEN ResultFile ELSE item.root
Tracked == [item EXCEPT !.root = Root]
Absorbed == Absorb(quota, chosen[Root])
Started == session[Root] \in StateFile
Submitted == Started \/ stage[ResultFile] \in SubmittedStages
Terminal == session[Root] \in SuccessSessions \cup {"failure"}
ReleasedByHand == item.manual /\ item.status = "skipped"

\* The stability window decides whether a terminal state is acted upon.
SyncTerminal ==
    /\ Terminal
    /\ record' = Finalized
    /\ UNCHANGED proc
    /\ \/ item' = Tracked /\ quota' = Absorbed /\ UNCHANGED markers
       \/ /\ session[Root] \in SuccessSessions
          /\ WorkerRunning
          /\ item' = Held(Tracked, "triggered")
          /\ quota' = Absorbed
          /\ UNCHANGED markers
       \/ /\ session[Root] \in SuccessSessions
          /\ ~WorkerRunning
          /\ item' = [Tracked EXCEPT !.status = "done", !.held = FALSE, !.slots = FALSE]
          /\ quota' = Settle(Absorbed, TRUE)
          /\ markers' = "none"
       \/ /\ session[Root] = "failure"
          /\ item' = Failed(Tracked, FALSE)
          /\ quota' = Settle(Absorbed, FALSE)
          /\ markers' = "none"

SyncReleased ==
    /\ ~Terminal
    /\ ReleasedByHand
    /\ record' = Finalized
    /\ item' = [Tracked EXCEPT !.held = FALSE]
    /\ quota' = Absorbed
    /\ UNCHANGED <<proc, markers>>

\* Fault: the reservations outlive the attempt.
RequeueKeepsMarkers ==
    /\ item' = Requeued(Tracked)
    /\ quota' = Settle(Absorbed, FALSE)
    /\ proc' = IF WorkerRunning THEN [proc EXCEPT ![FoundJob] = "exited"] ELSE proc
    /\ record' = IF FoundJob = 0 THEN record ELSE [record EXCEPT ![FoundJob] = "failed"]
    /\ UNCHANGED markers

\* Fault: the quota of the attempt given up is not refunded.
RequeueUnsettled ==
    /\ item' = Requeued(Tracked)
    /\ quota' = Absorbed
    /\ markers' = "none"
    /\ proc' = IF WorkerRunning THEN [proc EXCEPT ![FoundJob] = "exited"] ELSE proc
    /\ record' = IF FoundJob = 0 THEN record ELSE [record EXCEPT ![FoundJob] = "failed"]

\* Fault: the requeue opens a new account.
RequeueUnpaid ==
    /\ item' = Requeued(Tracked)
    /\ quota' = FreshQuota
    /\ markers' = "none"
    /\ proc' = IF WorkerRunning THEN [proc EXCEPT ![FoundJob] = "exited"] ELSE proc
    /\ record' = IF FoundJob = 0 THEN record ELSE [record EXCEPT ![FoundJob] = "failed"]

\* Refund locally, drop the markers, stop the worker if its record says it
\* runs, and put the item back in the queue under a new runKey.
Requeue ==
    /\ item' = Requeued(Tracked)
    /\ quota' = Settle(Absorbed, FALSE)
    /\ markers' = "none"
    /\ proc' = IF WorkerRunning THEN [proc EXCEPT ![FoundJob] = "exited"] ELSE proc
    /\ record' = IF FoundJob = 0 THEN record ELSE [record EXCEPT ![FoundJob] = "failed"]

\* Fault: the limit is never compared.
StallRetryAlways == Active

StallRetryLeft == Active /\ item.stalls < StalledLimit

\* Nothing written for stalledTaskRetrySeconds.  That is at least 60 seconds,
\* longer than a worker takes from its start to the end of its push.
Quiet == proc[FoundJob] \notin {"starting", "pushing"}

\* Fault: a quiet session is requeued even when it has written its state file.
SyncStalledRequeues ==
    /\ ~Terminal /\ ~ReleasedByHand
    /\ StallRetryLeft
    /\ Quiet
    /\ Requeue

SyncStalled ==
    /\ ~Terminal /\ ~ReleasedByHand
    /\ StallRetryLeft
    /\ Quiet
    /\ \/ /\ session[Root] = "working"
          /\ item' = Held(Tracked, "orphaned")
          /\ quota' = Absorbed
          /\ record' = Finalized
          /\ UNCHANGED <<proc, markers>>
       \/ session[Root] # "working" /\ Requeue

ExecutorGone ==
    /\ StallRetryLeft
    /\ item.held
    /\ ~Submitted
    /\ ~WorkerRunning

SyncExited ==
    /\ ~Terminal /\ ~ReleasedByHand
    /\ ExecutorGone
    /\ Requeue

\* Placeholder reservations go once the task's own containers are up.
Replaced(it) == IF Root \in racing THEN [it EXCEPT !.slots = FALSE] ELSE it
ReplaceMarkers == markers' = IF item.slots /\ Root \in racing THEN "none" ELSE markers

\* The worker runs, or it is gone and the item must say what is known.
SyncObserved ==
    /\ ~Terminal /\ ~ReleasedByHand /\ ~ExecutorGone
    /\ record' = Finalized
    /\ quota' = Absorbed
    /\ UNCHANGED proc
    /\ ReplaceMarkers
    /\ \/ /\ WorkerRunning
          /\ item' = IF Submitted THEN Held(Replaced(Tracked), "triggered")
                     ELSE [Replaced(Tracked) EXCEPT
                             !.status = IF @ \in {"pending", "launching"} THEN "running" ELSE @]
       \/ /\ ~WorkerRunning /\ item.status = "pending" /\ ~Submitted
          /\ item' = Replaced(Tracked)
       \/ /\ ~WorkerRunning /\ Submitted
          /\ item' = Held(Replaced(Tracked),
                          IF JobStatus(FoundJob) = "finished" THEN "triggered" ELSE "orphaned")
       \/ /\ ~WorkerRunning /\ item.status # "pending" /\ ~Submitted
          /\ item.status = "orphaned" \/ item.held
          /\ item' = Held(Replaced(Tracked), "orphaned")

\* What is left: an item that holds nothing and whose worker is gone.
SyncFailed ==
    /\ ~Terminal /\ ~ReleasedByHand /\ ~ExecutorGone
    /\ ~WorkerRunning /\ ~Submitted
    /\ item.status \notin {"pending", "orphaned"} /\ ~item.held
    /\ record' = Finalized
    /\ UNCHANGED proc
    /\ \/ /\ stage[ResultFile] = "waitTimeout"
          /\ item' = Held(Replaced(Tracked), "orphaned")
          /\ quota' = Settle(Absorbed, FALSE)
          /\ ReplaceMarkers
       \/ /\ stage[ResultFile] # "waitTimeout"
          /\ stage[ResultFile] \in FailedStages \/ FoundJob # 0 \/ Active
          /\ \E retryable \in {FALSE, stage[ResultFile] \notin NotRetryableStages} :
               item' = Failed(Tracked, retryable)
          /\ quota' = Settle(Absorbed, FALSE)
          /\ markers' = "none"
       \/ /\ stage[ResultFile] \notin FailedStages /\ FoundJob = 0 /\ ~Active
          /\ item' = Replaced(Tracked)
          /\ quota' = Absorbed
          /\ ReplaceMarkers

Sync ==
    /\ \/ ~InQueue /\ UNCHANGED <<queueVars, job, record, proc, markers>>
       \/ /\ InQueue
          /\ GetPlatform
          /\ SyncTerminal \/ SyncReleased \/ SyncStalled \/ SyncExited
             \/ SyncObserved \/ SyncFailed
    /\ UNCHANGED <<waiter, stage, sessionVars, tasks, up, counters>>

\* Every /api/queue read and every SnapshotHub build syncs.
SnapshotSync ==
    /\ QueueFree
    /\ Sync
    /\ UNCHANGED tickVars

-----------------------------------------------------------------------------
(* QueueManager.tick: reap, sync, gates, claim, save, launch, save         *)

\* The task directory reap_stale_platform_jobs looks at.
JobRoot == IF stage[job] \in RootedStages THEN job ELSE item.root

\* Workers that submitted nothing visible within startupTimeoutSeconds.
TickReap ==
    /\ QueueFree
    /\ pc' = "reaped"
    /\ \/ UNCHANGED <<record, proc>>
       \/ /\ record[job] = "running"
          /\ proc[job] \notin {"starting", "pushing"}
          /\ stage[job] # "running"
          /\ session[JobRoot] \notin StateFile \cup {"aborted"}
          /\ record' = [record EXCEPT ![job] = "failed"]
          /\ proc' = [proc EXCEPT ![job] = "exited"]
    /\ UNCHANGED <<queueVars, job, waiter, stage, sessionVars, tasks, markers, draft, up, counters>>

TickSync ==
    /\ pc = "reaped"
    /\ Sync
    /\ pc' = "synced"
    /\ UNCHANGED draft

\* Paused, startup grace, cooldown, capacity, containers, backoff: Admission
\* models the gates; here any of them may be closed.
TickEnds ==
    /\ pc = "synced"
    /\ pc' = "idle"
    /\ UNCHANGED <<queueVars, jobVars, workerVars, sessionVars, tasks, markers, draft, up, counters>>

\* The project of a waiting item is on the stop list.
TickSkips ==
    /\ "operator" \in Events
    /\ pc = "synced"
    /\ item.status = "pending"
    /\ pc' = "idle"
    /\ item' = [item EXCEPT !.status = "skipped"]
    /\ UNCHANGED <<quota, jobVars, workerVars, sessionVars, tasks, markers, draft, up, counters>>

\* claim_quota then reserve_batch.  The create call may fail, and its answer
\* may be lost after the task was created: both are booked locally.
TickClaim ==
    /\ pc = "synced"
    /\ item.status = "pending"
    /\ launched < MaxLaunches
    /\ pc' = "claimed"
    /\ markers' = "own"
    /\ \/ /\ quota.state # "pending"
          /\ draft' = quota
          /\ UNCHANGED tasks
       \/ /\ quota.state = "pending"
          /\ "createFails" \in Events
          /\ draft' = [quota EXCEPT !.state = "claimed"]
          /\ UNCHANGED tasks
       \/ /\ quota.state = "pending"
          /\ \E t \in Tasks :
               /\ tasks[t] = "unused"
               /\ tasks' = [tasks EXCEPT ![t] = "open"]
               /\ \/ draft' = [state |-> "claimed", task |-> t]
                  \/ "answerLost" \in Events /\ draft' = [quota EXCEPT !.state = "claimed"]
    /\ UNCHANGED <<queueVars, jobVars, workerVars, sessionVars, up, counters>>

TickSave ==
    /\ pc = "claimed"
    /\ pc' = "saved"
    /\ item' = [item EXCEPT !.status = "launching", !.held = TRUE, !.slots = TRUE]
    /\ quota' = draft
    /\ draft' = FreshQuota
    /\ UNCHANGED <<jobVars, workerVars, sessionVars, tasks, markers, up, counters>>

\* start_platform raised: always when the record in memory still says running.
TickStartFails ==
    /\ "startFails" \in Events \/ record[job] = "running"
    /\ pc = "saved"
    /\ pc' = "idle"
    /\ markers' = "none"
    /\ \/ /\ quota.state = "claimed"
          /\ quota' = Settle(quota, FALSE)
          /\ CancelTask(quota.task)
          /\ item' = [item EXCEPT !.status = "failed", !.held = FALSE, !.slots = FALSE]
       \/ /\ quota.state # "claimed"
          /\ item' = [item EXCEPT !.status = "pending", !.held = FALSE, !.slots = FALSE]
          /\ UNCHANGED <<quota, tasks>>
    /\ UNCHANGED <<jobVars, workerVars, sessionVars, draft, up, counters>>

\* Fault: start_platform does not look for a running record first.
TickSpawnAnyway ==
    /\ pc = "saved"
    /\ launched < MaxLaunches
    /\ pc' = "spawned"
    /\ launched' = launched + 1
    /\ proc' = [proc EXCEPT ![launched'] = "starting"]
    /\ UNCHANGED <<queueVars, jobVars, stage, sessionVars, tasks, markers, draft, up, retries, crashes>>

\* start_platform: Popen, then the job record, then back in the tick.
TickSpawn ==
    /\ pc = "saved"
    /\ launched < MaxLaunches
    /\ record[job] # "running"
    /\ pc' = "spawned"
    /\ launched' = launched + 1
    /\ proc' = [proc EXCEPT ![launched'] = "starting"]
    /\ UNCHANGED <<queueVars, jobVars, stage, sessionVars, tasks, markers, draft, up, retries, crashes>>

TickRecord ==
    /\ pc = "spawned"
    /\ pc' = "recorded"
    /\ job' = launched
    /\ record' = [record EXCEPT ![launched] = "running"]
    /\ waiter' = waiter \cup {launched}
    /\ item' = [item EXCEPT !.mine = @ \cup {launched}]
    /\ UNCHANGED <<quota, workerVars, sessionVars, tasks, markers, draft, up, counters>>

TickFinish ==
    /\ pc = "recorded"
    /\ pc' = "idle"
    /\ item' = [item EXCEPT !.status = "running", !.file = launched]
    /\ UNCHANGED <<quota, jobVars, workerVars, sessionVars, tasks, markers, draft, up, counters>>

Tick ==
    \/ TickReap \/ TickSync \/ TickEnds \/ TickSkips \/ TickClaim \/ TickSave
    \/ TickStartFails \/ TickSpawn \/ TickRecord \/ TickFinish

-----------------------------------------------------------------------------
(* ReconcileLoop.run_once, one check per step                              *)

SweepDeadMarkers ==
    /\ up
    /\ markers = "dead"
    /\ markers' = "none"
    /\ UNCHANGED <<queueVars, jobVars, workerVars, sessionVars, tasks, tickVars, up, counters>>

\* Markers of an item that holds no slot, and listed markers that are gone.
ReleaseInactiveReservations ==
    /\ QueueFree
    /\ \/ /\ markers # "none" /\ ~(InQueue /\ Holds)
          /\ markers' = "none"
       \/ /\ markers = "none" /\ InQueue /\ item.slots
          /\ UNCHANGED markers
    /\ item' = [item EXCEPT !.slots = FALSE]
    /\ UNCHANGED <<quota, jobVars, workerVars, sessionVars, tasks, tickVars, up, counters>>

\* A reservation older than containerReserveSeconds (at least 300 seconds).
ReleaseStaleReservations ==
    /\ "slowContainers" \in Events
    /\ QueueFree
    /\ item.slots
    /\ item.status \in {"launching", "running"}
    /\ markers = "own"
    /\ proc[job] \notin {"starting", "pushing"}
    /\ record' = IF job = 0 THEN record ELSE [record EXCEPT ![job] = "failed"]
    /\ proc' = IF record[job] = "running" THEN [proc EXCEPT ![job] = "exited"] ELSE proc
    /\ item' = [item EXCEPT !.status = "pending", !.held = FALSE, !.slots = FALSE]
    /\ quota' = Settle(quota, FALSE)
    /\ CancelTask(quota.task)
    /\ markers' = "none"
    /\ UNCHANGED <<job, waiter, stage, sessionVars, tickVars, up, counters>>

\* live_task_reason reads the result file the item names, not the job's.
LiveRoot == IF stage[item.file] \in RootedStages THEN item.file ELSE item.root
\* Fault: every item that ever had a task directory counts as live.
LiveTaskAlways == item.root # 0

LiveTaskReason ==
    \/ session[LiveRoot] = "working"
    \/ session[LiveRoot] \notin StateFile /\ stage[item.file] \in SubmittedStages \cup {"waitTimeout"}
    \/ LiveRoot \in racing
    \/ WorkerRunning

ReleaseStuckOrphans ==
    /\ QueueFree
    /\ item.status = "orphaned" /\ item.held /\ ~item.manual
    /\ proc[job] \notin {"starting", "pushing"}      \* orphanGraceSeconds >= 60
    /\ ~LiveTaskReason
    /\ GetPlatform
    /\ record' = Finalized
    /\ item' = [item EXCEPT !.status = "skipped", !.held = FALSE, !.slots = FALSE]
    /\ quota' = Settle(quota, FALSE)
    /\ CancelTask(quota.task)
    /\ markers' = "none"
    /\ UNCHANGED <<waiter, workerVars, sessionVars, tickVars, up, counters>>

\* Claimed for six hours.
ForceSettleStaleQuota ==
    /\ QueueFree
    /\ InQueue
    /\ quota.state = "claimed"
    /\ Quiet
    /\ quota' = Settle(quota, FALSE)
    /\ CancelTask(quota.task)
    /\ UNCHANGED <<item, jobVars, workerVars, sessionVars, markers, tickVars, up, counters>>

ResyncFromResult ==
    /\ QueueFree
    /\ item.status = "pending"
    /\ stage[item.file] \in SubmittedStages
    /\ item' = Held(item, "triggered")
    /\ UNCHANGED <<quota, jobVars, workerVars, sessionVars, tasks, markers, tickVars, up, counters>>

\* Containers of a finished task whose item is in a terminal status.
ReleaseTerminalContainers ==
    /\ QueueFree
    /\ item.status \in {"failed", "skipped"}
    /\ session[item.root] \in SuccessSessions
    /\ item.root \in racing
    /\ racing' = racing \ {item.root}
    /\ UNCHANGED <<queueVars, jobVars, workerVars, session, chosen, tasks, markers, tickVars, up, counters>>

Reconcile ==
    \/ SweepDeadMarkers \/ ReleaseInactiveReservations \/ ReleaseStaleReservations
    \/ ReleaseStuckOrphans \/ ForceSettleStaleQuota \/ ResyncFromResult
    \/ ReleaseTerminalContainers

-----------------------------------------------------------------------------
(* Operator and refill                                                     *)

Retry ==
    /\ QueueFree
    /\ InQueue /\ ~Active /\ ~item.held
    /\ retries < MaxRetries
    /\ retries' = retries + 1
    /\ item' = [item EXCEPT !.status = "pending", !.slots = FALSE, !.manual = FALSE, !.root = 0,
                            !.file = 0, !.mine = {}, !.attempts = 0, !.stalls = 0]
    /\ quota' = FreshQuota
    /\ UNCHANGED <<jobVars, workerVars, sessionVars, tasks, markers, tickVars, up, launched, crashes>>

Release ==
    /\ QueueFree
    /\ Holds
    /\ item.status \in {"orphaned", "failed", "skipped"}
    /\ ~LiveTaskReason
    /\ GetPlatform
    /\ record' = Finalized
    /\ item' = [item EXCEPT !.status = "skipped", !.held = FALSE, !.slots = FALSE, !.manual = TRUE]
    /\ markers' = "none"
    /\ UNCHANGED <<quota, waiter, workerVars, sessionVars, tasks, tickVars, up, counters>>

\* remove, or clear_finished for a terminal item.
Remove ==
    /\ QueueFree
    /\ InQueue /\ ~Active /\ ~item.held
    /\ item' = [item EXCEPT !.status = "removed"]
    /\ UNCHANGED <<quota, jobVars, workerVars, sessionVars, tasks, markers, tickVars, up, counters>>

\* fail_item: the refill found that a waiting project is no longer eligible.
FailPending ==
    /\ QueueFree
    /\ item.status = "pending"
    /\ item' = [item EXCEPT !.status = "failed"]
    /\ UNCHANGED <<quota, jobVars, workerVars, sessionVars, tasks, markers, tickVars, up, counters>>

Operator == Retry \/ ("operator" \in Events /\ (Release \/ Remove \/ FailPending))

Next ==
    \/ \E l \in Launches : Worker(l) \/ WorkerDies(l) \/ Session(l) \/ WaiterReturns(l)
    \/ Crash \/ Restart
    \/ SnapshotSync \/ Tick \/ Reconcile \/ Operator

Spec == Init /\ [][Next]_vars

-----------------------------------------------------------------------------
(* Safety                                                                  *)

\* A queue item holds a desktop slot exactly while its status is an active
\* one: no handler of tick, sync, reconcile or the operator leaves a finished
\* item with capacityHeld, or a launching, running, triggered or orphaned item
\* without it, crashes between any two of their steps included.
HeldIffActive == item.held <=> Active

\* Whenever the queue lock is free, the marker files of this monitor process
\* belong to an item that holds its slot: every path that gives the slot up
\* (done, failed, requeued, skipped) releases the reservations as well.
MarkersHaveHolder == QueueFree /\ markers = "own" => Holds

\* The platform task whose quota was settled as spent is never cancelled
\* afterwards by a refund: not by reconcile, a failed start or a release.
SettledStaysPaid == quota.state = "settled" /\ quota.task # 0 => tasks[quota.task] # "cancelled"

\* With the lock free, a live worker whose record says running is the one the
\* JobManager has in memory, so the capacity check and the terminate commands
\* see it; recovery after a crash adopts it or stops it.
RunningRecordIsOwned ==
    QueueFree => \A l \in Launches : Alive(l) /\ record[l] = "running" => job = l

\* No worker runs on unseen: with the lock free, each live one is the one the
\* JobManager has in memory, or a thread waits for its end. Recovery stops the
\* others (reap_orphans), those that were spawned but never recorded too.
WorkersAreWatched ==
    QueueFree => \A l \in Launches : Alive(l) => job = l \/ l \in waiter

\* An item is done because of one of its own attempts: the task root it shows
\* is one launched under its present runKey, not a root left by an attempt that
\* a requeue or a retry has given up.
DoneIsOwn == item.status = "done" => item.root \in item.mine

\* Every launch after the first is paid for by a stall retry or by a counted
\* failure, so the two limits bound the launches of an item.
LaunchBudget == launched <= 1 + item.stalls + item.attempts

\* Platform tasks the monitor has created, and those that some record names: the
\* quota, the tick that is about to save it, the directory of a session.
Created == {t \in Tasks : tasks[t] # "unused" /\ \A l \in Launches : chosen[l] # t}
Named == {quota.task, draft.task} \cup {chosen[l] : l \in Launches}

\* An item is paid for once: however often it fails, stalls or is launched again,
\* and whatever answers are lost, the monitor creates one platform task for it.
\* A retry by hand allows one more, and so does a crash.
TasksPaid == Cardinality(Created) <= 1 + retries + crashes

\* No step forgets a platform task that is still open, so that it can be spent or
\* cancelled: not a requeue, a failure, a failed start or a refund that was
\* refused. The exceptions are named: a crash before the quota is saved, a retry
\* by hand, and an executor that has chosen a task of its own.
Forgotten(t) == tasks[t] = "open" /\ t \in Named /\ t \notin Named'
TasksKept ==
    [][\A t \in Tasks : Forgotten(t) =>
         (Crash /\ pc = "claimed") \/ Retry \/ quota'.state = "superseded"]_vars

\* A sync never gives up the slot of an item whose own session shows a state
\* file that is still going, whatever became of its worker, unless the
\* operator has released it.
SyncHoldsTracked ==
    [][session[Root] = "working" /\ ~ReleasedByHand /\ InQueue /\ Sync => item'.held]_vars

\* Why HeldIffActive, MarkersHaveHolder and RunningRecordIsOwned hold: what
\* every step of the handlers preserves, with the lock held or free and with
\* the monitor up or down.
Runs(l) == Alive(l) /\ record[l] = "running"

\* Only the tick that claimed the item makes it launching, and only a monitor
\* that runs owns reservations, for an item it is claiming or that is active.
ClaimInv ==
    /\ pc # "idle" => up
    /\ pc = "claimed" => item.status = "pending"
    /\ pc \in {"saved", "spawned", "recorded"} => item.status = "launching"
    /\ markers = "own" => up /\ (pc = "claimed" \/ Active)

\* Only launches have records, in launch order; the record in memory is one of
\* the present runKey as soon as that has any, and then none is newer.
RecordInv ==
    /\ record[0] = "none"
    /\ job # 0 => record[job] # "none"
    /\ \A l \in Recorded : l <= launched
    /\ pc = "spawned" => record[launched] = "none"
    /\ item.mine \subseteq Recorded
    /\ item.mine # {} => /\ job = 0 \/ job \in item.mine
                         /\ \A l \in Recorded : \E m \in item.mine : l <= m

\* A live worker whose record runs is the one in memory; none is when a new one
\* is being started, and none is of an item that waits for its launch.
OwnerInv ==
    /\ up => \A l \in Launches : Runs(l) => job = l
    /\ pc = "spawned" => \A l \in Launches : ~Runs(l)
    /\ item.status = "pending" \/ pc = "saved" => \A l \in item.mine : ~Runs(l)

SlotInv == HeldIffActive /\ ClaimInv /\ RecordInv /\ OwnerInv

\* Why WorkersAreWatched holds: only a worker that was adopted at a restart has
\* no thread, and while it lives nothing but it writes its record.
WatchInv ==
    /\ ~up => waiter = {}
    /\ up => \A l \in Launches :
           Alive(l) => job = l \/ l \in waiter \/ (pc = "spawned" /\ l = launched)
    /\ up /\ job # 0 /\ Alive(job) /\ job \notin waiter => waiter = {} /\ record[job] = "running"

\* Why LaunchBudget holds: an item that waits, or is being launched, has its
\* next launch paid for already.
BudgetInv ==
    launched + (IF item.status = "pending" \/ pc \in {"claimed", "saved"} THEN 1 ELSE 0)
        <= 1 + item.stalls + item.attempts

\* Why TasksKept and TasksPaid hold: an account that is still to be paid is of an
\* item without an attempt of its own, only the tick that holds the lock knows
\* more than the queue, and what is named has been created.
AccountInv ==
    /\ pc \in {"saved", "spawned", "recorded"} => quota.state # "pending"
    /\ quota.state = "pending" => quota.task = 0 /\ item.mine = {}
    /\ pc # "claimed" => draft = FreshQuota
    /\ pc = "claimed" => quota.task \in {0, draft.task}
    /\ \A t \in Named : t # 0 => tasks[t] # "unused"
CreatedInv ==
    Cardinality(Created) + (IF quota.state = "pending" /\ pc # "claimed" THEN 1 ELSE 0)
        <= 1 + retries + crashes

(* Statements of the repository's comments and README that the code breaks *)

\* scheduler.py:2252-2258: requeueing never starts a second attempt while the
\* first session is still in flight.
OneSession ==
    \A k, l \in Launches : {session[k], session[l]} \subseteq {"opened", "working"} => k = l

\* README.md:96: a refund gives the platform task back by cancelling it.
RefundIsCancelled ==
    QueueFree /\ quota.state = "refunded" /\ quota.task # 0 => tasks[quota.task] = "cancelled"

-----------------------------------------------------------------------------
(* The contract of an item                                                 *)

Place ==
    IF ~InQueue THEN "over"
    ELSE IF item.held THEN "in"
    ELSE IF item.status = "pending" THEN "waits"
    ELSE "out"

AtWork == {l \in Launches : Runs(l)}

Item == INSTANCE ItemContract WITH
    place <- Place, released <- item.manual, account <- quota.state, begun <- Recorded, work <- AtWork

\* Each step of each handler is one the contract of an item allows: a launch
\* begins in the slot with no other at work, an attempt given up keeps no claim,
\* only success settles, only a retry opens a new account, what is over stays so.
KeepsContract == Item!Spec

-----------------------------------------------------------------------------
(* The item as Refill sees it                                              *)

\* The tick launches in one step there: what it has begun with the lock held
\* is seen when it ends, or when the monitor dies.
Launching == pc \in {"saved", "spawned", "recorded"}
QueueStatus ==
    IF Launching THEN "pending"
    ELSE IF item.status \in {"launching", "running", "triggered"} THEN "active"
    ELSE IF item.status = "removed" THEN "gone"
    ELSE item.status
Attempted ==
    \/ QueueStatus \in {"active", "orphaned"}
    \/ item.mine \ (IF pc = "recorded" THEN {launched} ELSE {}) # {}

Queue == INSTANCE Refill WITH
    Projects <- {0}, Threads <- {}, MaxItems <- 1, Target <- 1, Batch <- 1,
    OfferedFirst <- {}, DisabledFirst <- {}, MaxDisturbances <- 0, Events <- {"orphans", "revives"},
    items <- [i \in 1 .. 1 |-> [code |-> 0, status |-> QueueStatus, begun |-> Attempted]],
    offered <- {}, disabled <- {}, offBlocked <- {}, addBlocked <- {}, overtaken <- {}, outdated <- {},
    refill <- 0, request <- 0, doubted <- {}, disturbances <- 0

\* Whatever tick, sync, reconcile, operator and crashes make of an item, Refill
\* has a step for it: its few changes of status are all there are, and an item
\* that has no attempt of its own is not taken for one that runs or has ended.
RefillAllows == [][UNCHANGED <<QueueStatus, Attempted>> \/ Queue!Changes(1)]_vars

-----------------------------------------------------------------------------
(* Liveness                                                                *)

\* The tick, sync and reconcile threads run for ever, each exception is caught
\* and the loop goes on.  The stability window closes after finitely many reads
\* of a state that no longer changes, and a stuck orphan is seen by one of the
\* periodic passes even if a sync in between changes its status.
StableSync == SnapshotSync /\ (Terminal /\ ~WorkerRunning => ~item'.held)
MonitorFairness ==
    /\ WF_vars(pc # "idle" /\ Tick)
    /\ WF_vars(Restart)
    /\ SF_vars(StableSync)
    /\ SF_vars(ReleaseStuckOrphans)
    /\ \A l \in Launches : WF_vars(Worker(l)) /\ WF_vars(WaiterReturns(l))

\* The desktop session answers in the end.
SessionFairness ==
    \A l \in Launches : WF_vars(SessionOpens(l) \/ SessionWrites(l) \/ SessionEnds(l))
MonitorSpec == Spec /\ MonitorFairness
FairSpec == MonitorSpec /\ SessionFairness

\* A slot taken is given back, through every crash, failed start, death of a
\* worker, requeue and retry of the item.
SlotReturns == item.held ~> ~item.held

\* The success of the session the item follows is recorded in the end, whatever
\* its worker, the monitor and the syncs in between have made of the status.
CompletionIsSeen ==
    \A l \in Launches :
        item.root = l /\ session[l] = "complete" ~> item.status = "done" \/ item.root # l

\* README.md:117: an orphaned item that still holds its slot is released by
\* the grace period when its session never writes anything; no stall retry is
\* left that could requeue it instead.
StuckOrphan ==
    item.status = "orphaned" /\ item.stalls = StalledLimit /\ session[item.root] = "opened"
OrphanReleased == StuckOrphan ~> ~StuckOrphan
=============================================================================
