------------------------------- MODULE Resume -------------------------------
(***************************************************************************)
(* The runners of local tasks: the automatic resume that restarts a side   *)
(* that failed or went silent, the operator who does so by hand, the job   *)
(* records of both, and the restart of the monitor.                        *)
(*                                                                         *)
(* A runner is a process of its own and outlives the monitor.  What is     *)
(* known of it in the task's folder is the pid and the status it wrote     *)
(* there itself.  A start is two steps, the process and then its record:   *)
(* the lock of the JobManager is held in between, a crash is not kept out. *)
(*                                                                         *)
(* Time is not counted.  Each start of the automatic resume cools down and *)
(* leaves the window of the relaunch limit, both in the order of the       *)
(* starts.  Cooldown and window are settings of their own, either may be   *)
(* the longer.  A side that runs in its folder and has no process counts   *)
(* as silent at once; starts of other programs are left out.               *)
(***************************************************************************)
EXTENDS Naturals, Sequences, FiniteSets

CONSTANTS
    NSides,         \* sides, in the order of the snapshot; all enabled
    Limit,          \* maxRelaunchesPerSide
    MaxJobs,        \* maxConcurrentJobs
    MaxStarts,      \* bound: starts of runners
    MaxWorkers,     \* bound: queue workers running beside
    MaxMishaps      \* bound: restarts, failing starts

ASSUME ResumeAssumption ==
    /\ NSides \in Nat \ {0} /\ Limit \in Nat \ {0} /\ MaxJobs \in Nat \ {0}
    /\ MaxStarts \in Nat /\ MaxWorkers \in Nat /\ MaxMishaps \in Nat

Sides == 1 .. NSides
Pids == 1 .. MaxStarts
NoPid == 0

VARIABLES
    runners,    \* processes of each side
    folder,     \* state.json of each side: its status and run pid
    jobs,       \* job records in memory, and whether a thread waits for the end
    files,      \* job records on disk
    launch,     \* the start the JobManager's lock is held for
    pass,       \* the automatic resume: its place and the sides left to look at
    history,    \* starts of the automatic resume, in memory; the last is lastRunAt
    saved,      \* the same on disk
    workers,    \* queue workers that run; they count as jobs
    cooled,     \* starts whose cooldown is over
    expired,    \* starts that have left the window
    starts, mishaps,
    relaunched, \* history: starts of the automatic resume that there really were
    unrecorded, \* history: sides with a runner the monitor died on before its record
    unsaved,    \* history: a pass has ended without saving, by an exception
    cutShort    \* history: the monitor died with counts not yet saved

counters == <<starts, mishaps>>
traces == <<relaunched, unrecorded, unsaved, cutShort>>
time == <<cooled, expired>>
vars == <<runners, folder, jobs, files, launch, pass, history, saved, workers, time, counters, traces>>

Records == [status : {"none", "running", "ended"}, pid : Pids \cup {NoPid}, auto : BOOLEAN]
NoRecord == [status |-> "none", pid |-> NoPid, auto |-> FALSE]
NoLaunch == [side |-> 0, pid |-> NoPid, auto |-> FALSE]
IdlePass == [at |-> "idle", left |-> {}]

TypeOK ==
    /\ runners \in [Sides -> SUBSET Pids]
    /\ folder \in [Sides -> [status : {"idle", "running", "failed", "done"}, pid : Pids \cup {NoPid}]]
    /\ jobs \in [Sides -> [job : Records, waited : BOOLEAN]]
    /\ files \in [Sides -> Records]
    /\ launch \in [side : Sides \cup {0}, pid : Pids \cup {NoPid}, auto : BOOLEAN]
    /\ pass \in [at : {"idle", "reads", "walks", "starts", "saves"}, left : SUBSET Sides]
    /\ launch.auto <=> pass.at = "starts"
    /\ launch = NoLaunch \/ (launch.side \in Sides /\ launch.pid \in Pids)
    /\ history \in [Sides -> SUBSET Pids] /\ saved \in [Sides -> SUBSET Pids]
    /\ workers \in 0 .. MaxWorkers
    /\ cooled \subseteq Pids /\ expired \subseteq Pids
    /\ starts \in 0 .. MaxStarts /\ mishaps \in 0 .. MaxMishaps
    /\ relaunched \in [Sides -> SUBSET Pids]
    /\ unrecorded \subseteq Sides /\ unsaved \in BOOLEAN /\ cutShort \in BOOLEAN

Init ==
    /\ runners = [s \in Sides |-> {}]
    /\ folder \in [Sides -> [status : {"idle", "failed"}, pid : {NoPid}]]
    /\ jobs = [s \in Sides |-> [job |-> NoRecord, waited |-> FALSE]]
    /\ files = [s \in Sides |-> NoRecord]
    /\ launch = NoLaunch
    /\ pass = IdlePass
    /\ history = [s \in Sides |-> {}] /\ saved = [s \in Sides |-> {}]
    /\ workers = 0
    /\ cooled = {} /\ expired = {}
    /\ starts = 0 /\ mishaps = 0
    /\ relaunched = [s \in Sides |-> {}]
    /\ unrecorded = {} /\ unsaved = FALSE /\ cutShort = FALSE

-----------------------------------------------------------------------------
(* Runners                                                                 *)

\* runner_live: the process the folder names is alive.
Active(s) == folder[s].pid \in runners[s]

\* A runner writes its pid and that it runs.
RunnerReports(s, p) ==
    /\ p \in runners[s]
    /\ folder[s].pid # p
    /\ folder' = [folder EXCEPT ![s] = [status |-> "running", pid |-> p]]
    /\ UNCHANGED <<runners, jobs, files, launch, pass, history, saved, workers, time, counters, traces>>

\* A runner ends, having written how, or dies and writes nothing.
RunnerEnds(s, p, how) ==
    /\ p \in runners[s]
    /\ how # "dies" => folder[s].pid = p
    /\ runners' = [runners EXCEPT ![s] = @ \ {p}]
    /\ folder' = IF how = "dies" THEN folder ELSE [folder EXCEPT ![s].status = how]
    /\ UNCHANGED <<jobs, files, launch, pass, history, saved, workers, time, counters, traces>>

-----------------------------------------------------------------------------
(* The JobManager                                                          *)

Running == {s \in Sides : jobs[s].job.status = "running"}
Free == launch = NoLaunch

\* Fault: start does not look at the job there is.
LaunchesUnchecked(s, auto) ==
    /\ Free
    /\ starts < MaxStarts
    /\ starts' = starts + 1
    /\ runners' = [runners EXCEPT ![s] = @ \cup {starts + 1}]
    /\ launch' = [side |-> s, pid |-> starts + 1, auto |-> auto]

\* start, up to Popen.
Launches(s, auto) ==
    /\ Free
    /\ s \notin Running
    /\ starts < MaxStarts
    /\ starts' = starts + 1
    /\ runners' = [runners EXCEPT ![s] = @ \cup {starts + 1}]
    /\ launch' = [side |-> s, pid |-> starts + 1, auto |-> auto]

Recorded == [status |-> "running", pid |-> launch.pid, auto |-> launch.auto]

\* Fault: the lock is not given back.
RecordsJobLocked ==
    /\ jobs' = [jobs EXCEPT ![launch.side] = [job |-> Recorded, waited |-> TRUE]]
    /\ files' = [files EXCEPT ![launch.side] = Recorded]
    /\ launch' = launch

\* start, from the record on: in memory, on disk, and a thread that waits.
RecordsJob ==
    /\ jobs' = [jobs EXCEPT ![launch.side] = [job |-> Recorded, waited |-> TRUE]]
    /\ files' = [files EXCEPT ![launch.side] = Recorded]
    /\ launch' = NoLaunch

\* _wait: the process has ended, the record of the side is finished.
WaiterRecords(s) ==
    /\ Free
    /\ jobs[s].waited
    /\ jobs[s].job.pid \notin runners[s]
    /\ jobs' = [jobs EXCEPT ![s] = [job |-> [@.job EXCEPT !.status = "ended"], waited |-> FALSE]]
    /\ files' = [files EXCEPT ![s] = jobs'[s].job]
    /\ UNCHANGED <<runners, folder, launch, pass, history, saved, workers, time, counters, traces>>

\* start_action, resume of a side that is not active, or rerun of any.
OperatorStarts(s, mode) ==
    /\ mode = "resume" => ~Active(s)
    /\ Launches(s, FALSE)
    /\ UNCHANGED <<folder, jobs, files, pass, history, saved, workers, time, mishaps, traces>>

OperatorStarted ==
    /\ ~Free /\ ~launch.auto
    /\ RecordsJob
    /\ UNCHANGED <<runners, folder, pass, history, saved, workers, time, counters, traces>>

WorkersChange ==
    /\ \/ workers < MaxWorkers /\ workers' = workers + 1
       \/ workers > 0 /\ workers' = workers - 1
    /\ UNCHANGED <<runners, folder, jobs, files, launch, pass, history, saved, time, counters, traces>>

-----------------------------------------------------------------------------
(* The automatic resume                                                    *)

Crowded == Cardinality(Running) + workers >= MaxJobs

PassBegins ==
    /\ pass.at = "idle"
    /\ Free
    /\ ~Crowded
    /\ pass' = [IdlePass EXCEPT !.at = "reads"]
    /\ UNCHANGED <<runners, folder, jobs, files, launch, history, saved, workers, time, counters, traces>>

\* What the snapshot says of a side: failed, or running without a process.
NeedsResume(s) ==
    /\ folder[s].status \in {"failed", "running"}
    /\ ~Active(s)

PassReads ==
    /\ pass.at = "reads"
    /\ pass' = [at |-> "walks", left |-> {s \in Sides : NeedsResume(s)}]
    /\ UNCHANGED <<runners, folder, jobs, files, launch, history, saved, workers, time, counters, traces>>

\* Fault: starts that have left the window count for ever.
QuotaOkForever(s) ==
    /\ history[s] \subseteq cooled
    /\ Cardinality(history[s]) < Limit

\* Fault: the cooldown is not looked at.
QuotaOkUncooled(s) == Cardinality(history[s] \ expired) < Limit

\* _auto_quota_ok: the last start has cooled down and few are in the window.
QuotaOk(s) ==
    /\ history[s] \subseteq cooled
    /\ Cardinality(history[s] \ expired) < Limit

\* The pass walks through the sides in the order of the snapshot.
AtSide(s) == pass.at = "walks" /\ s \in pass.left /\ \A t \in pass.left : s <= t

\* A side whose job runs, or whose quota is used up, is passed over.
PassSkips(s) ==
    /\ AtSide(s) /\ Free
    /\ s \in Running \/ ~QuotaOk(s)
    /\ pass' = [pass EXCEPT !.left = @ \ {s}]
    /\ UNCHANGED <<runners, folder, jobs, files, launch, history, saved, workers, time, counters, traces>>

PassStarts(s) ==
    /\ AtSide(s)
    /\ QuotaOk(s)
    /\ Launches(s, TRUE)
    /\ pass' = [at |-> "starts", left |-> pass.left \ {s}]
    /\ relaunched' = [relaunched EXCEPT ![s] = @ \cup {starts + 1}]
    /\ UNCHANGED <<folder, jobs, files, history, saved, workers, time, mishaps, unrecorded, unsaved, cutShort>>

Counted == [history EXCEPT ![launch.side] = @ \cup {launch.pid}]

\* Fault: the pass goes on to the next side, however many run.
AfterStartUncrowded == IF pass.left = {} THEN "saves" ELSE "walks"

AfterStart == IF Cardinality(Running \cup {launch.side}) + workers >= MaxJobs THEN "saves" ELSE "walks"

PassStarted ==
    /\ ~Free /\ launch.auto
    /\ RecordsJob
    /\ history' = Counted
    /\ pass' = [pass EXCEPT !.at = AfterStart]
    /\ UNCHANGED <<runners, folder, saved, workers, time, counters, traces>>

\* Popen fails with something other than a MonitorError: the pass is over and
\* saves nothing.
PassBreaksOff(s) ==
    /\ AtSide(s) /\ Free
    /\ s \notin Running /\ QuotaOk(s)
    /\ mishaps < MaxMishaps
    /\ mishaps' = mishaps + 1
    /\ pass' = IdlePass
    /\ unsaved' = TRUE
    /\ UNCHANGED <<runners, folder, jobs, files, launch, history, saved, workers, time, starts,
                   relaunched, unrecorded, cutShort>>

\* Fault: only the sides looked at since are written.
SavedPartly == [s \in Sides |-> IF s \in pass.left THEN history[s] ELSE saved[s]]

Saved == history

PassSaves ==
    /\ pass.at = "saves" \/ (pass.at = "walks" /\ pass.left = {})
    /\ saved' = Saved
    /\ pass' = IdlePass
    /\ unsaved' = FALSE
    /\ UNCHANGED <<runners, folder, jobs, files, launch, history, workers, time, counters,
                   relaunched, unrecorded, cutShort>>

-----------------------------------------------------------------------------
(* Time and restarts                                                       *)

Relaunches == UNION {relaunched[s] : s \in Sides}

CoolsDown(p) ==
    /\ p \in Relaunches \ cooled
    /\ \A q \in Relaunches \ cooled : p <= q
    /\ cooled' = cooled \cup {p}
    /\ UNCHANGED <<runners, folder, jobs, files, launch, pass, history, saved, workers, expired, counters, traces>>

LeavesWindow(p) ==
    /\ p \in Relaunches \ expired
    /\ \A q \in Relaunches \ expired : p <= q
    /\ expired' = expired \cup {p}
    /\ UNCHANGED <<runners, folder, jobs, files, launch, pass, history, saved, workers, cooled, counters, traces>>

\* _recover_running_jobs: a record that runs, with a process that is alive.
Recovered ==
    [s \in Sides |-> IF files[s].status = "running" /\ files[s].pid \in runners[s] THEN files[s] ELSE NoRecord]

MonitorRestarts ==
    /\ mishaps < MaxMishaps
    /\ mishaps' = mishaps + 1
    /\ jobs' = [s \in Sides |-> [job |-> Recovered[s], waited |-> FALSE]]
    /\ launch' = NoLaunch
    /\ pass' = IdlePass
    /\ history' = saved
    /\ workers' = 0
    /\ unrecorded' = unrecorded \cup ({launch.side} \ {0})
    /\ cutShort' = (cutShort \/ unsaved \/ pass.at \in {"walks", "starts", "saves"})
    /\ unsaved' = FALSE
    /\ UNCHANGED <<runners, folder, files, saved, time, starts, relaunched>>

PassSteps ==
    \/ PassBegins \/ PassReads
    \/ \E s \in Sides : PassSkips(s) \/ PassStarts(s) \/ PassBreaksOff(s)
    \/ PassStarted \/ PassSaves

Next ==
    \/ \E s \in Sides, p \in Pids : RunnerReports(s, p)
    \/ \E s \in Sides, p \in Pids, how \in {"failed", "done", "dies"} : RunnerEnds(s, p, how)
    \/ \E s \in Sides : WaiterRecords(s)
    \/ \E s \in Sides, mode \in {"resume", "rerun"} : OperatorStarts(s, mode)
    \/ OperatorStarted \/ WorkersChange
    \/ PassSteps
    \/ \E p \in Pids : CoolsDown(p) \/ LeavesWindow(p)
    \/ MonitorRestarts

Spec == Init /\ [][Next]_vars

-----------------------------------------------------------------------------
(* Safety                                                                  *)

\* A side never has two runners of the monitor, over operators, passes that
\* started from an old snapshot and restarts, unless the monitor died between
\* the process and its record.
OneRunner == \A s \in Sides \ unrecorded : \A p, q \in runners[s] : p = q

\* Within one window a side is relaunched at most as often as the limit says,
\* over restarts too, unless one fell into a pass that had not saved its counts.
RelaunchesBounded == ~cutShort => \A s \in Sides : Cardinality(relaunched[s] \ expired) <= Limit

\* A side is never relaunched while its last relaunch cools down, by whichever
\* pass and whichever run of the monitor, unless a crash fell into a pass that had
\* not saved its counts.
CooldownKept ==
    [][\A s \in Sides : relaunched'[s] # relaunched[s] => cutShort \/ relaunched[s] \subseteq cooled]_vars

\* The automatic resume never has more runners of its own on record than it
\* may have jobs, whatever operators start while a pass is under way.
OwnJobs == {s \in Running : jobs[s].job.auto} \cup (IF launch.auto THEN {launch.side} ELSE {})
OwnWithinMax == Cardinality(OwnJobs) <= MaxJobs

-----------------------------------------------------------------------------
(* Why they hold                                                           *)

\* The one runner of a side is the one on record or the one being started.
RunnerInv ==
    /\ \A s \in Sides \ unrecorded : \A p \in runners[s] :
         (s \in Running /\ p = jobs[s].job.pid) \/ (launch.side = s /\ p = launch.pid)
    /\ launch.side \notin Running
    /\ \A s \in Sides : s \in Running => files[s] = jobs[s].job
    /\ \A s \in Sides : files[s].status = "running" /\ s \notin Running => files[s].pid \notin runners[s]
    /\ \A s \in Sides : files[s].pid <= starts /\ (jobs[s].waited => s \in Running)
    /\ launch.pid <= starts

\* The starts counted are those there were, and what is counted is on disk when
\* no pass is under way.
CountInv ==
    ~cutShort =>
    /\ \A s \in Sides : relaunched[s] = history[s] \cup (IF launch.auto /\ launch.side = s THEN {launch.pid} ELSE {})
    /\ \A s \in Sides : Cardinality(history[s] \ expired) <= Limit
    /\ launch.auto => Cardinality(history[launch.side] \ expired) < Limit
    /\ pass.at \in {"idle", "reads"} /\ ~unsaved => saved = history

\* While a pass may still start a runner there is room for one.
RoomInv == OwnWithinMax /\ (pass.at \in {"reads", "walks"} => Cardinality(OwnJobs) < MaxJobs)

-----------------------------------------------------------------------------
(* Liveness                                                                *)

\* A record that runs, was taken back at a restart and whose process has ended
\* since: nothing ends it.
Ghost(s) == s \in Running /\ ~jobs[s].waited /\ jobs[s].job.pid \notin runners[s]

\* The loop calls the automatic resume again and again, runners end, queue
\* workers leave room again and again, time passes.
Fairness ==
    /\ \A s \in Sides, p \in Pids :
         WF_vars(RunnerReports(s, p)) /\ WF_vars(\E how \in {"failed", "done", "dies"} : RunnerEnds(s, p, how))
    /\ \A s \in Sides : SF_vars(WaiterRecords(s))
    /\ WF_vars(OperatorStarted)
    /\ SF_vars(PassBegins)
    /\ WF_vars(PassReads) /\ WF_vars(\E s \in Sides : PassSkips(s) \/ PassStarts(s))
    /\ WF_vars(PassStarted) /\ WF_vars(PassSaves)
    /\ WF_vars(WorkersChange /\ workers' < workers)
    /\ \A p \in Pids : WF_vars(CoolsDown(p)) /\ WF_vars(LeavesWindow(p))
FairSpec == Spec /\ Fairness

\* A side that failed or went silent is taken up again, by the automatic resume
\* if by nobody else, unless a ghost stands in the way.
NeedIsServed ==
    \A s \in Sides : NeedsResume(s) ~> (~NeedsResume(s) \/ starts = MaxStarts \/ \E t \in Sides : Ghost(t))

=============================================================================
