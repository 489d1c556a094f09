---------------------------- MODULE ResumeProofs ----------------------------
(***************************************************************************)
(* The runners of local tasks: type correctness, that a side has one       *)
(* runner, that the relaunch limit holds over restarts, and that the       *)
(* automatic resume keeps within its number of jobs.                       *)
(***************************************************************************)
EXTENDS Resume, FiniteSetTheorems, TLAPS

Folders == [status : {"idle", "running", "failed", "done"}, pid : Pids \cup {NoPid}]
JobTypes == [job : Records, waited : BOOLEAN]
LaunchTypes == [side : Sides \cup {0}, pid : Pids \cup {NoPid}, auto : BOOLEAN]
PassTypes == [at : {"idle", "reads", "walks", "starts", "saves"}, left : SUBSET Sides]

\* Zero is no side, and first values are of their types.
LEMMA Basics ==
    /\ 0 \notin Sides /\ NoPid \notin Pids
    /\ NoRecord \in Records /\ [job |-> NoRecord, waited |-> FALSE] \in JobTypes
    /\ NoLaunch \in LaunchTypes /\ IdlePass \in PassTypes
    /\ \A s \in Sides : s # 0
BY ResumeAssumption DEF Sides, Pids, NoPid, NoRecord, Records, JobTypes, NoLaunch, LaunchTypes, IdlePass, PassTypes

\* The types of the parts of records.
LEMMA FieldTypes ==
    ASSUME TypeOK
    PROVE  /\ \A s \in Sides : /\ runners[s] \subseteq Pids /\ folder[s] \in Folders
                               /\ jobs[s] \in JobTypes /\ jobs[s].job \in Records /\ files[s] \in Records
                               /\ jobs[s].job.pid \in Nat /\ files[s].pid \in Nat
                               /\ history[s] \subseteq Pids /\ relaunched[s] \subseteq Pids
           /\ launch \in LaunchTypes /\ launch.pid \in Nat /\ launch.side \in Sides \cup {0}
           /\ pass \in PassTypes /\ starts \in Nat
BY DEF TypeOK, Folders, JobTypes, LaunchTypes, PassTypes, Records, Pids, NoPid

\* The step of start up to the process, and what it leaves of the types.
LEMMA LaunchTypesKept ==
    ASSUME TypeOK, NEW s \in Sides, NEW auto \in BOOLEAN, Launches(s, auto)
    PROVE  /\ runners' \in [Sides -> SUBSET Pids] /\ launch' \in LaunchTypes /\ starts' \in 0 .. MaxStarts
           /\ launch'.side = s /\ launch'.pid = starts + 1 /\ launch'.auto = auto
           /\ starts + 1 \in Pids /\ ~launch.auto /\ launch.side = 0
<1>1. starts + 1 \in Pids /\ starts + 1 \in 0 .. MaxStarts
  BY ResumeAssumption DEF Launches, TypeOK, Pids
<1>2. runners' = [runners EXCEPT ![s] = @ \cup {starts + 1}] /\ runners \in [Sides -> SUBSET Pids]
  BY DEF Launches, TypeOK
<1>3. runners' \in [Sides -> SUBSET Pids]
  BY <1>1, <1>2
<1>. QED BY <1>1, <1>3 DEF Launches, LaunchTypes, Free, NoLaunch

\* The record of a start.
LEMMA RecordTypesKept ==
    ASSUME TypeOK, RecordsJob, launch # NoLaunch
    PROVE  /\ launch.side \in Sides
           /\ jobs' \in [Sides -> JobTypes] /\ files' \in [Sides -> Records] /\ launch' = NoLaunch
           /\ \A s \in Sides : s # launch.side => jobs'[s] = jobs[s] /\ files'[s] = files[s]
           /\ jobs'[launch.side] = [job |-> Recorded, waited |-> TRUE] /\ files'[launch.side] = Recorded
           /\ Recorded \in Records
<1>1. launch.side \in Sides /\ Recorded \in Records
  BY FieldTypes DEF TypeOK, LaunchTypes, Recorded, Records
<1>2. [job |-> Recorded, waited |-> TRUE] \in JobTypes
  BY <1>1 DEF JobTypes
<1>3. jobs \in [Sides -> JobTypes] /\ files \in [Sides -> Records]
  BY DEF TypeOK, JobTypes
<1>. QED BY <1>1, <1>2, <1>3 DEF RecordsJob

THEOREM TypeCorrect == Spec => []TypeOK
<1>1. Init => TypeOK
  <2>. SUFFICES ASSUME Init PROVE TypeOK
    OBVIOUS
  <2>1. launch \in LaunchTypes /\ pass \in PassTypes /\ jobs \in [Sides -> JobTypes] /\ files \in [Sides -> Records]
    BY Basics DEF Init
  <2>2. folder \in [Sides -> Folders]
    BY DEF Init, Folders
  <2>3. /\ runners \in [Sides -> SUBSET Pids] /\ history \in [Sides -> SUBSET Pids]
        /\ saved \in [Sides -> SUBSET Pids] /\ relaunched \in [Sides -> SUBSET Pids]
    BY DEF Init
  <2>4. workers \in 0 .. MaxWorkers /\ starts \in 0 .. MaxStarts /\ mishaps \in 0 .. MaxMishaps
    BY ResumeAssumption DEF Init
  <2>5. (launch.auto <=> pass.at = "starts") /\ (launch = NoLaunch \/ (launch.side \in Sides /\ launch.pid \in Pids))
    BY DEF Init, NoLaunch, IdlePass
  <2>. QED BY <2>1, <2>2, <2>3, <2>4, <2>5 DEF Init, TypeOK, LaunchTypes, PassTypes, JobTypes, Folders
<1>2. TypeOK /\ [Next]_vars => TypeOK'
  <2>. SUFFICES ASSUME TypeOK, [Next]_vars PROVE TypeOK'
    OBVIOUS
  <2>. USE DEF counters, traces, time
  <2>1. ASSUME NEW s \in Sides, NEW p \in Pids, RunnerReports(s, p) PROVE TypeOK'
    <3>1. folder' \in [Sides -> Folders]
      BY <2>1 DEF RunnerReports, TypeOK, Folders
    <3>. QED BY <2>1, <3>1 DEF RunnerReports, TypeOK, Folders
  <2>2. ASSUME NEW s \in Sides, NEW p \in Pids, NEW how \in {"failed", "done", "dies"}, RunnerEnds(s, p, how)
        PROVE  TypeOK'
    <3>1. folder' \in [Sides -> Folders]
      BY <2>2 DEF RunnerEnds, TypeOK, Folders
    <3>2. runners' \in [Sides -> SUBSET Pids]
      BY <2>2 DEF RunnerEnds, TypeOK
    <3>. QED BY <2>2, <3>1, <3>2 DEF RunnerEnds, TypeOK, Folders
  <2>3. ASSUME NEW s \in Sides, WaiterRecords(s) PROVE TypeOK'
    <3>1. [jobs[s].job EXCEPT !.status = "ended"] \in Records
      BY FieldTypes DEF Records
    <3>2. jobs' \in [Sides -> JobTypes] /\ jobs'[s].job \in Records
      BY <2>3, <3>1 DEF WaiterRecords, TypeOK, JobTypes
    <3>3. files' \in [Sides -> Records]
      BY <2>3, <3>2 DEF WaiterRecords, TypeOK
    <3>. QED BY <2>3, <3>2, <3>3 DEF WaiterRecords, TypeOK, JobTypes
  <2>4. ASSUME NEW s \in Sides, NEW mode \in {"resume", "rerun"}, OperatorStarts(s, mode) PROVE TypeOK'
    <3>1. Launches(s, FALSE)
      BY <2>4 DEF OperatorStarts
    <3>2. (launch'.auto <=> pass'.at = "starts") /\ launch'.side \in Sides /\ launch'.pid \in Pids
      BY <2>4, <3>1, LaunchTypesKept, Basics DEF OperatorStarts, TypeOK
    <3>. QED BY <2>4, <3>1, <3>2, LaunchTypesKept DEF OperatorStarts, TypeOK, LaunchTypes
  <2>5. CASE OperatorStarted
    <3>1. ~NoLaunch.auto /\ launch' = NoLaunch /\ ~launch.auto
      BY <2>5, RecordTypesKept DEF OperatorStarted, Free, NoLaunch
    <3>. QED BY <2>5, <3>1, Basics, RecordTypesKept DEF OperatorStarted, Free, TypeOK, JobTypes, LaunchTypes
  <2>6. CASE WorkersChange
    <3>1. workers' \in 0 .. MaxWorkers
      BY <2>6, ResumeAssumption DEF WorkersChange, TypeOK
    <3>. QED BY <2>6, <3>1 DEF WorkersChange, TypeOK
  <2>7. CASE PassBegins \/ PassReads
    <3>1. pass' \in PassTypes /\ pass.at \in {"idle", "reads"} /\ pass'.at \in {"reads", "walks"}
      BY <2>7 DEF PassBegins, PassReads, PassTypes, IdlePass
    <3>. QED BY <2>7, <3>1 DEF PassBegins, PassReads, TypeOK, PassTypes
  <2>8. ASSUME NEW s \in Sides, PassSkips(s) PROVE TypeOK'
    <3>1. pass' \in PassTypes /\ pass'.at = pass.at
      BY <2>8 DEF PassSkips, TypeOK, PassTypes
    <3>. QED BY <2>8, <3>1 DEF PassSkips, TypeOK, PassTypes
  <2>9. ASSUME NEW s \in Sides, PassStarts(s) PROVE TypeOK'
    <3>1. Launches(s, TRUE)
      BY <2>9 DEF PassStarts
    <3>2. pass' \in PassTypes /\ pass'.at = "starts"
      BY <2>9 DEF PassStarts, TypeOK, PassTypes
    <3>3. relaunched' \in [Sides -> SUBSET Pids]
      BY <2>9, <3>1, LaunchTypesKept DEF PassStarts, TypeOK
    <3>4. launch'.auto /\ launch'.side \in Sides /\ launch'.pid \in Pids
      BY <3>1, LaunchTypesKept, Basics
    <3>. QED BY <2>9, <3>1, <3>2, <3>3, <3>4, LaunchTypesKept DEF PassStarts, TypeOK, LaunchTypes, PassTypes
  <2>10. ASSUME NEW s \in Sides, PassBreaksOff(s) PROVE TypeOK'
    <3>1. mishaps' \in 0 .. MaxMishaps /\ pass' = IdlePass
      BY <2>10, ResumeAssumption DEF PassBreaksOff, TypeOK
    <3>2. pass'.at # "starts" /\ pass.at # "starts"
      BY <2>10, <3>1 DEF PassBreaksOff, AtSide, IdlePass
    <3>. QED BY <2>10, <3>1, <3>2, Basics DEF PassBreaksOff, TypeOK, PassTypes
  <2>11. CASE PassStarted
    <3>1. launch' = NoLaunch /\ ~NoLaunch.auto /\ launch.side \in Sides
      BY <2>11, RecordTypesKept DEF PassStarted, Free, NoLaunch
    <3>2. history' \in [Sides -> SUBSET Pids]
      <4>1. launch.pid \in Pids
        BY <2>11 DEF PassStarted, Free, TypeOK
      <4>. QED BY <2>11, <4>1 DEF PassStarted, TypeOK, Counted
    <3>3. pass' \in PassTypes /\ pass'.at # "starts"
      BY <2>11 DEF PassStarted, AfterStart, TypeOK, PassTypes
    <3>. QED BY <2>11, <3>1, <3>2, <3>3, Basics, RecordTypesKept
         DEF PassStarted, Free, TypeOK, JobTypes, LaunchTypes, PassTypes
  <2>12. CASE PassSaves
    <3>1. pass' = IdlePass /\ pass'.at # "starts" /\ pass.at # "starts"
      BY <2>12 DEF PassSaves, IdlePass
    <3>. QED BY <2>12, <3>1, Basics DEF PassSaves, Saved, TypeOK, PassTypes
  <2>13. ASSUME NEW p \in Pids, CoolsDown(p) \/ LeavesWindow(p) PROVE TypeOK'
    BY <2>13 DEF CoolsDown, LeavesWindow, TypeOK
  <2>14. CASE MonitorRestarts
    <3>1. Recovered \in [Sides -> Records]
      BY FieldTypes, Basics DEF Recovered
    <3>2. jobs' \in [Sides -> JobTypes]
      BY <2>14, <3>1 DEF MonitorRestarts, JobTypes
    <3>3. mishaps' \in 0 .. MaxMishaps /\ workers' \in 0 .. MaxWorkers
      BY <2>14, ResumeAssumption DEF MonitorRestarts, TypeOK
    <3>4. unrecorded' \subseteq Sides /\ unsaved' \in BOOLEAN /\ cutShort' \in BOOLEAN
      BY <2>14, FieldTypes DEF MonitorRestarts, TypeOK
    <3>5. launch' = NoLaunch /\ pass' = IdlePass /\ ~NoLaunch.auto /\ IdlePass.at # "starts"
      BY <2>14 DEF MonitorRestarts, NoLaunch, IdlePass
    <3>. QED BY <2>14, <3>2, <3>3, <3>4, <3>5, Basics DEF MonitorRestarts, TypeOK, JobTypes, LaunchTypes, PassTypes
  <2>15. CASE UNCHANGED vars
    BY <2>15 DEF vars, TypeOK
  <2>. QED
    BY <2>1, <2>2, <2>3, <2>4, <2>5, <2>6, <2>7, <2>8, <2>9, <2>10, <2>11, <2>12, <2>13, <2>14, <2>15
       DEF Next, PassSteps
<1>. QED BY <1>1, <1>2, PTL DEF Spec

-----------------------------------------------------------------------------
(* One runner                                                              *)

\* What RunnerInv and RoomInv say of the records depends on these alone.
records == <<runners, jobs, files, launch, starts, unrecorded>>

\* A step up to the process leaves the one runner of the side to the launch.
LEMMA LaunchKeepsRunner ==
    ASSUME TypeOK, RunnerInv, NEW s \in Sides, NEW auto \in BOOLEAN, Launches(s, auto),
           UNCHANGED <<jobs, files, unrecorded>>
    PROVE  RunnerInv'
<1>1. /\ launch'.side = s /\ launch'.pid = starts + 1 /\ starts' = starts + 1 /\ starts + 1 \in Pids
      /\ launch.side = 0 /\ Running' = Running /\ s \notin Running
  BY LaunchTypesKept DEF Launches, Running
<1>2. \A t \in Sides : runners'[t] = IF t = s THEN runners[s] \cup {starts + 1} ELSE runners[t]
  BY DEF Launches, TypeOK
<1>3. \A t \in Sides : files[t].pid \in Nat /\ starts \in Nat /\ t # 0
  BY FieldTypes, Basics
<1>4. \A t \in Sides \ unrecorded' : \A p \in runners'[t] :
        (t \in Running' /\ p = jobs'[t].job.pid) \/ (launch'.side = t /\ p = launch'.pid)
  BY <1>1, <1>2, <1>3 DEF RunnerInv
<1>5. \A t \in Sides : files'[t].status = "running" /\ t \notin Running' => files'[t].pid \notin runners'[t]
  <2>1. files[s].pid # starts + 1
    BY <1>3 DEF RunnerInv
  <2>. QED BY <1>1, <1>2, <2>1 DEF RunnerInv
<1>6. launch'.pid <= starts' /\ \A t \in Sides : files'[t].pid <= starts'
  BY <1>1, <1>3 DEF RunnerInv
<1>. QED BY <1>1, <1>4, <1>5, <1>6 DEF RunnerInv

\* The record takes the runner over from the launch.
LEMMA RecordKeepsRunner ==
    ASSUME TypeOK, RunnerInv, RecordsJob, ~Free, UNCHANGED <<runners, starts, unrecorded>>
    PROVE  RunnerInv'
<1>1. /\ launch.side \in Sides /\ launch' = NoLaunch
      /\ \A t \in Sides : t # launch.side => jobs'[t] = jobs[t] /\ files'[t] = files[t]
      /\ jobs'[launch.side] = [job |-> Recorded, waited |-> TRUE] /\ files'[launch.side] = Recorded
  BY RecordTypesKept DEF Free
<1>2. Running' = Running \cup {launch.side}
  BY <1>1 DEF Running, Recorded
<1>3. launch'.side \notin Running' /\ launch'.pid <= starts'
  BY <1>1, FieldTypes, Basics DEF NoLaunch, NoPid, Running
<1>4. \A t \in Sides \ unrecorded' : \A p \in runners'[t] :
        (t \in Running' /\ p = jobs'[t].job.pid) \/ (launch'.side = t /\ p = launch'.pid)
  BY <1>1, <1>2 DEF RunnerInv, Recorded
<1>5. \A t \in Sides : files'[t].pid <= starts' /\ (jobs'[t].waited => t \in Running')
  BY <1>1, <1>2 DEF RunnerInv, Recorded
<1>. QED BY <1>1, <1>2, <1>3, <1>4, <1>5 DEF RunnerInv, Recorded

\* The records, the processes and the start under way agree.
LEMMA RunnersOnRecord == Spec => []RunnerInv
<1>1. Init => RunnerInv
  BY Basics, ResumeAssumption DEF Init, RunnerInv, Running, NoLaunch, NoRecord, NoPid
<1>2. TypeOK /\ RunnerInv /\ [Next]_vars => RunnerInv'
  <2>. SUFFICES ASSUME TypeOK, RunnerInv, [Next]_vars PROVE RunnerInv'
    OBVIOUS
  <2>. USE DEF counters, traces, time
  <2>1. CASE UNCHANGED records
    BY <2>1 DEF records, RunnerInv, Running
  <2>2. ASSUME NEW s \in Sides, NEW p \in Pids, NEW how \in {"failed", "done", "dies"}, RunnerEnds(s, p, how)
        PROVE  RunnerInv'
    <3>1. \A t \in Sides : runners'[t] \subseteq runners[t]
      BY <2>2 DEF RunnerEnds, TypeOK
    <3>2. UNCHANGED <<jobs, files, launch, starts, unrecorded>> /\ Running' = Running
      BY <2>2 DEF RunnerEnds, Running
    <3>. QED BY <3>1, <3>2 DEF RunnerInv
  <2>3. ASSUME NEW s \in Sides, WaiterRecords(s) PROVE RunnerInv'
    <3>1. /\ jobs'[s].job = [jobs[s].job EXCEPT !.status = "ended"] /\ ~jobs'[s].waited
          /\ files'[s] = [jobs[s].job EXCEPT !.status = "ended"]
          /\ \A t \in Sides : t # s => jobs'[t] = jobs[t] /\ files'[t] = files[t]
      BY <2>3 DEF WaiterRecords, TypeOK
    <3>2. UNCHANGED <<runners, launch, starts, unrecorded>> /\ launch.side = 0
      BY <2>3 DEF WaiterRecords, Free, NoLaunch
    <3>3. s \in Running /\ files[s] = jobs[s].job /\ jobs[s].job \in Records
      BY <2>3, FieldTypes DEF WaiterRecords, RunnerInv
    <3>4. jobs'[s].job.status = "ended" /\ files'[s].status = "ended" /\ files'[s].pid = files[s].pid
      BY <3>1, <3>3 DEF Records
    <3>5. Running' = Running \ {s}
      BY <3>1, <3>4 DEF Running
    <3>6. s \notin unrecorded => runners[s] = {}
      BY <2>3, <3>2, <3>3, Basics DEF WaiterRecords, RunnerInv
    <3>. QED BY <3>1, <3>2, <3>4, <3>5, <3>6 DEF RunnerInv
  <2>4. ASSUME NEW s \in Sides, NEW mode \in {"resume", "rerun"}, OperatorStarts(s, mode) PROVE RunnerInv'
    BY <2>4, LaunchKeepsRunner DEF OperatorStarts
  <2>5. CASE OperatorStarted
    BY <2>5, RecordKeepsRunner DEF OperatorStarted
  <2>6. ASSUME NEW s \in Sides, PassStarts(s) PROVE RunnerInv'
    BY <2>6, LaunchKeepsRunner DEF PassStarts
  <2>7. CASE PassStarted
    BY <2>7, RecordKeepsRunner DEF PassStarted
  <2>8. CASE MonitorRestarts
    <3>1. /\ \A s \in Sides : jobs'[s].job = Recovered[s] /\ ~jobs'[s].waited
          /\ launch' = NoLaunch /\ unrecorded' = unrecorded \cup ({launch.side} \ {0})
          /\ UNCHANGED <<runners, files, starts>>
      BY <2>8 DEF MonitorRestarts
    <3>2. \A s \in Sides : s \in Running' <=> files[s].status = "running" /\ files[s].pid \in runners[s]
      BY <3>1 DEF Running, Recovered, NoRecord
    <3>3. \A s \in Running' : jobs'[s].job = files[s]
      BY <3>1, <3>2 DEF Recovered, Running
    <3>4. launch'.side \notin Running' /\ launch'.pid <= starts'
      BY <3>1, FieldTypes, Basics DEF NoLaunch, NoPid, Running
    <3>5. \A s \in Sides \ unrecorded' : \A p \in runners'[s] : s \in Running' /\ p = jobs'[s].job.pid
      <4>. TAKE s \in Sides \ unrecorded'
      <4>. TAKE p \in runners'[s]
      <4>1. s \in Running /\ p = jobs[s].job.pid
        BY <3>1, Basics DEF RunnerInv
      <4>2. files[s].status = "running" /\ p = files[s].pid
        BY <4>1 DEF RunnerInv, Running
      <4>. QED BY <3>1, <3>2, <3>3, <4>2
    <3>. QED BY <3>1, <3>2, <3>3, <3>4, <3>5 DEF RunnerInv
  <2>. QED
    <3>1. ASSUME NEW s \in Sides, NEW p \in Pids, RunnerReports(s, p) PROVE UNCHANGED records
      BY <3>1 DEF RunnerReports, records
    <3>2. ASSUME WorkersChange \/ PassBegins \/ PassReads \/ PassSaves PROVE UNCHANGED records
      BY <3>2 DEF WorkersChange, PassBegins, PassReads, PassSaves, records
    <3>3. ASSUME NEW s \in Sides, PassSkips(s) \/ PassBreaksOff(s) PROVE UNCHANGED records
      BY <3>3 DEF PassSkips, PassBreaksOff, records
    <3>4. ASSUME NEW p \in Pids, CoolsDown(p) \/ LeavesWindow(p) PROVE UNCHANGED records
      BY <3>4 DEF CoolsDown, LeavesWindow, records
    <3>5. UNCHANGED vars => UNCHANGED records
      BY DEF vars, records
    <3>. QED
      BY <2>1, <2>2, <2>3, <2>4, <2>5, <2>6, <2>7, <2>8, <3>1, <3>2, <3>3, <3>4, <3>5 DEF Next, PassSteps
<1>. QED BY <1>1, <1>2, TypeCorrect, PTL DEF Spec

\* A side never has two runners unless the monitor died between a process and
\* its record: JobManager.start looks at the job under its lock.
THEOREM OneRunnerPerSide == Spec => []OneRunner
<1>1. RunnerInv => OneRunner
  BY DEF RunnerInv, OneRunner
<1>. QED BY <1>1, RunnersOnRecord, PTL

-----------------------------------------------------------------------------
(* The relaunch limit                                                      *)

\* Sets of starts are finite.
LEMMA StartsFinite ==
    ASSUME NEW P \in SUBSET Pids
    PROVE  IsFiniteSet(P) /\ Cardinality(P) \in Nat
<1>1. IsFiniteSet(Pids)
  BY ResumeAssumption, FS_Interval DEF Pids
<1>. QED BY <1>1, FS_Subset, FS_CardinalityType

\* One start more counts for one.
LEMMA OneStartMore ==
    ASSUME NEW P \in SUBSET Pids, NEW p, NEW E
    PROVE  Cardinality((P \cup {p}) \ E) <= Cardinality(P \ E) + 1
<1>1. IsFiniteSet(P \ E) /\ Cardinality(P \ E) \in Nat
  <2>. P \ E \in SUBSET Pids
    OBVIOUS
  <2>. QED BY StartsFinite
<1>2. (P \cup {p}) \ E = P \ E \/ (P \cup {p}) \ E = (P \ E) \cup {p}
  <2>1. CASE p \in E
    BY <2>1
  <2>2. CASE p \notin E
    BY <2>2
  <2>. QED BY <2>1, <2>2
<1>3. Cardinality((P \ E) \cup {p}) <= Cardinality(P \ E) + 1
  <2>1. Cardinality((P \ E) \cup {p}) = IF p \in P \ E THEN Cardinality(P \ E) ELSE Cardinality(P \ E) + 1
    BY <1>1, FS_AddElement
  <2>. QED BY <1>1, <2>1
<1>4. Cardinality(P \ E) <= Cardinality(P \ E) + 1
  BY <1>1
<1>5. CASE (P \cup {p}) \ E = P \ E
  BY <1>4, <1>5
<1>6. CASE (P \cup {p}) \ E = (P \ E) \cup {p}
  BY <1>3, <1>6
<1>. QED BY <1>2, <1>5, <1>6

\* What CountInv depends on.
counts == <<relaunched, history, saved, launch, expired, pass, unsaved, cutShort>>

\* The starts that count are those there were, over restarts.
LEMMA StartsCounted == Spec => []CountInv
<1>1. Init => CountInv
  <2>. SUFFICES ASSUME Init PROVE CountInv
    OBVIOUS
  <2>1. \A s \in Sides : history[s] \ expired = {}
    BY DEF Init
  <2>. QED BY <2>1, FS_EmptySet, ResumeAssumption DEF Init, CountInv, NoLaunch
<1>2. TypeOK /\ CountInv /\ [Next]_vars => CountInv'
  <2>. SUFFICES ASSUME TypeOK, CountInv, [Next]_vars, ~cutShort' PROVE CountInv'
    BY DEF CountInv
  <2>. USE DEF counters, traces, time
  <2>1. CASE UNCHANGED counts
    BY <2>1 DEF counts, CountInv
  <2>2. ASSUME NEW s \in Sides, NEW mode \in {"resume", "rerun"}, OperatorStarts(s, mode) PROVE CountInv'
    <3>1. ~launch.auto /\ ~launch'.auto /\ UNCHANGED <<relaunched, history, saved, expired, pass, unsaved, cutShort>>
      BY <2>2 DEF OperatorStarts, Launches, Free, NoLaunch
    <3>. QED BY <3>1 DEF CountInv
  <2>3. CASE OperatorStarted
    <3>1. ~launch.auto /\ ~launch'.auto /\ UNCHANGED <<relaunched, history, saved, expired, pass, unsaved, cutShort>>
      BY <2>3 DEF OperatorStarted, RecordsJob, NoLaunch
    <3>. QED BY <3>1 DEF CountInv
  <2>4. ASSUME PassBegins \/ PassReads \/ PassSaves \/ \E s \in Sides : PassSkips(s) PROVE CountInv'
    <3>1. UNCHANGED <<relaunched, history, launch, expired, cutShort>>
      BY <2>4 DEF PassBegins, PassReads, PassSaves, PassSkips
    <3>2. pass'.at \in {"idle", "reads"} /\ ~unsaved' => saved' = history'
      <4>1. CASE PassBegins
        BY <4>1 DEF PassBegins, CountInv, IdlePass
      <4>2. CASE PassReads
        BY <4>2 DEF PassReads
      <4>3. CASE PassSaves
        BY <4>3 DEF PassSaves, Saved
      <4>4. CASE \E s \in Sides : PassSkips(s)
        BY <4>4 DEF PassSkips, AtSide, TypeOK
      <4>. QED BY <2>4, <4>1, <4>2, <4>3, <4>4
    <3>. QED BY <3>1, <3>2 DEF CountInv
  <2>5. ASSUME NEW s \in Sides, PassStarts(s) PROVE CountInv'
    <3>1. /\ launch'.side = s /\ launch'.pid = starts + 1 /\ launch'.auto /\ ~launch.auto
          /\ UNCHANGED <<history, expired, cutShort>> /\ pass'.at = "starts"
      BY <2>5, LaunchTypesKept DEF PassStarts
    <3>2. relaunched' = [relaunched EXCEPT ![s] = @ \cup {starts + 1}]
      BY <2>5 DEF PassStarts
    <3>3. \A t \in Sides : relaunched'[t] = history[t] \cup (IF t = s THEN {starts + 1} ELSE {})
      BY <3>1, <3>2 DEF CountInv, TypeOK
    <3>4. Cardinality(history[s] \ expired) < Limit
      BY <2>5 DEF PassStarts, QuotaOk
    <3>. QED BY <3>1, <3>3, <3>4 DEF CountInv
  <2>6. CASE PassStarted
    <3>1. /\ launch.auto /\ launch.side \in Sides /\ ~launch'.auto
          /\ UNCHANGED <<relaunched, expired, cutShort>> /\ pass'.at \in {"walks", "saves"}
      BY <2>6, RecordTypesKept DEF PassStarted, Free, NoLaunch, AfterStart, TypeOK
    <3>2. \A t \in Sides : history'[t] = IF t = launch.side THEN history[t] \cup {launch.pid} ELSE history[t]
      BY <2>6 DEF PassStarted, Counted, TypeOK
    <3>3. \A t \in Sides : relaunched'[t] = history'[t]
      <4>. TAKE t \in Sides
      <4>1. CASE t = launch.side
        BY <3>1, <3>2, <4>1 DEF CountInv
      <4>2. CASE t # launch.side
        <5>1. relaunched[t] = history[t] \cup {}
          BY <3>1, <4>2 DEF CountInv
        <5>. QED BY <3>1, <3>2, <4>2, <5>1
      <4>. QED BY <4>1, <4>2
    <3>4. Cardinality(history'[launch.side] \ expired) <= Limit
      <4>1. history[launch.side] \in SUBSET Pids /\ launch.pid \in Pids
        BY <3>1 DEF TypeOK, NoLaunch
      <4>2. history[launch.side] \ expired \in SUBSET Pids /\ history'[launch.side] \ expired \in SUBSET Pids
        BY <3>1, <3>2, <4>1
      <4>3. Cardinality(history'[launch.side] \ expired) <= Cardinality(history[launch.side] \ expired) + 1
        BY <3>1, <3>2, <4>1, OneStartMore
      <4>4. Cardinality(history[launch.side] \ expired) < Limit
        BY <3>1 DEF CountInv
      <4>. QED BY <4>2, <4>3, <4>4, StartsFinite, ResumeAssumption
    <3>5. \A t \in Sides : Cardinality(history'[t] \ expired') <= Limit
      BY <3>1, <3>2, <3>4 DEF CountInv
    <3>. QED BY <3>1, <3>3, <3>5 DEF CountInv
  <2>7. ASSUME NEW s \in Sides, PassBreaksOff(s) PROVE CountInv'
    BY <2>7 DEF PassBreaksOff, CountInv
  <2>8. ASSUME NEW p \in Pids, LeavesWindow(p) PROVE CountInv'
    <3>1. UNCHANGED <<relaunched, history, saved, launch, pass, unsaved, cutShort>> /\ expired \subseteq expired'
      BY <2>8 DEF LeavesWindow
    <3>2. \A s \in Sides : Cardinality(history[s] \ expired') <= Cardinality(history[s] \ expired)
      <4>. TAKE s \in Sides
      <4>1. history[s] \ expired \in SUBSET Pids /\ history[s] \ expired' \subseteq history[s] \ expired
        BY <3>1 DEF TypeOK
      <4>. QED BY <4>1, StartsFinite, FS_Subset
    <3>3. \A s \in Sides : /\ Cardinality(history[s] \ expired) \in Nat
                           /\ Cardinality(history[s] \ expired') \in Nat
      <4>. TAKE s \in Sides
      <4>1. history[s] \ expired \in SUBSET Pids /\ history[s] \ expired' \in SUBSET Pids
        BY DEF TypeOK
      <4>. QED BY <4>1, StartsFinite
    <3>4. launch.auto => launch.side \in Sides
      BY DEF TypeOK, NoLaunch
    <3>5. /\ \A s \in Sides : Cardinality(history[s] \ expired') <= Limit
          /\ launch.auto => Cardinality(history[launch.side] \ expired') < Limit
      <4>1. /\ \A s \in Sides : Cardinality(history[s] \ expired) <= Limit
            /\ launch.auto => Cardinality(history[launch.side] \ expired) < Limit
        BY <3>1 DEF CountInv
      <4>2. ASSUME NEW a \in Nat, NEW b \in Nat, a <= b
            PROVE  (b <= Limit => a <= Limit) /\ (b < Limit => a < Limit)
        BY <4>2, ResumeAssumption
      <4>. QED BY <3>2, <3>3, <3>4, <4>1, <4>2
    <3>. QED BY <3>1, <3>5 DEF CountInv
  <2>9. CASE MonitorRestarts
    <3>1. ~cutShort /\ ~unsaved /\ pass.at \in {"idle", "reads"}
      BY <2>9 DEF MonitorRestarts, TypeOK
    <3>2. saved = history /\ ~launch.auto
      BY <3>1 DEF CountInv, TypeOK
    <3>3. /\ history' = history /\ saved' = saved /\ ~launch'.auto
          /\ UNCHANGED <<relaunched, expired>>
      BY <2>9, <3>2 DEF MonitorRestarts, NoLaunch
    <3>. QED BY <3>1, <3>2, <3>3 DEF CountInv
  <2>. QED
    <3>1. ASSUME NEW s \in Sides, NEW p \in Pids, RunnerReports(s, p) PROVE UNCHANGED counts
      BY <3>1 DEF RunnerReports, counts
    <3>2. ASSUME NEW s \in Sides, NEW p \in Pids, NEW how \in {"failed", "done", "dies"}, RunnerEnds(s, p, how)
          PROVE  UNCHANGED counts
      BY <3>2 DEF RunnerEnds, counts
    <3>3. ASSUME NEW s \in Sides, WaiterRecords(s) PROVE UNCHANGED counts
      BY <3>3 DEF WaiterRecords, counts
    <3>4. WorkersChange => UNCHANGED counts
      BY DEF WorkersChange, counts
    <3>5. ASSUME NEW p \in Pids, CoolsDown(p) PROVE UNCHANGED counts
      BY <3>5 DEF CoolsDown, counts
    <3>6. UNCHANGED vars => UNCHANGED counts
      BY DEF vars, counts
    <3>. QED
      BY <2>1, <2>2, <2>3, <2>4, <2>5, <2>6, <2>7, <2>8, <2>9, <3>1, <3>2, <3>3, <3>4, <3>5, <3>6 DEF Next, PassSteps
<1>. QED BY <1>1, <1>2, TypeCorrect, PTL DEF Spec

\* Within one window a side is relaunched at most maxRelaunchesPerSide times,
\* over restarts, unless one fell into a pass that had not saved its counts.
THEOREM RelaunchesWithinLimit == Spec => []RelaunchesBounded
<1>1. TypeOK /\ CountInv => RelaunchesBounded
  <2>. SUFFICES ASSUME TypeOK, CountInv, ~cutShort, NEW s \in Sides
                PROVE  Cardinality(relaunched[s] \ expired) <= Limit
    BY DEF RelaunchesBounded
  <2>1. CASE launch.auto /\ launch.side = s
    <3>1. relaunched[s] = history[s] \cup {launch.pid} /\ Cardinality(history[s] \ expired) < Limit
      BY <2>1 DEF CountInv
    <3>2. history[s] \in SUBSET Pids
      BY DEF TypeOK
    <3>3. history[s] \ expired \in SUBSET Pids /\ relaunched[s] \ expired \in SUBSET Pids
      BY <3>2 DEF TypeOK
    <3>4. Cardinality(relaunched[s] \ expired) <= Cardinality(history[s] \ expired) + 1
      BY <3>1, <3>2, OneStartMore
    <3>. QED BY <3>1, <3>3, <3>4, StartsFinite, ResumeAssumption
  <2>2. CASE ~(launch.auto /\ launch.side = s)
    BY <2>2 DEF CountInv
  <2>. QED BY <2>1, <2>2
<1>. QED BY <1>1, TypeCorrect, StartsCounted, PTL

\* No pass relaunches a side whose last relaunch has not cooled down.
THEOREM RelaunchesCoolDown == Spec => CooldownKept
<1>1. ASSUME TypeOK, CountInv, [Next]_vars, NEW s \in Sides, relaunched'[s] # relaunched[s], ~cutShort
      PROVE  relaunched[s] \subseteq cooled
  <2>. USE DEF counters, traces, time
  <2>1. CASE \E t \in Sides : PassStarts(t)
    <3>1. PICK t \in Sides : PassStarts(t)
      BY <2>1
    <3>2. relaunched' = [relaunched EXCEPT ![t] = @ \cup {starts + 1}]
      BY <3>1 DEF PassStarts
    <3>3. t = s
      BY <1>1, <3>2 DEF TypeOK
    <3>4. history[s] \subseteq cooled /\ ~launch.auto
      BY <3>1, <3>3 DEF PassStarts, QuotaOk, Launches, Free, NoLaunch
    <3>5. relaunched[s] = history[s]
      BY <1>1, <3>4 DEF CountInv
    <3>. QED BY <3>4, <3>5
  <2>2. CASE ~ \E t \in Sides : PassStarts(t)
    <3>1. relaunched' = relaunched
      BY <1>1, <2>2 DEF Next, PassSteps, RunnerReports, RunnerEnds, WaiterRecords, OperatorStarts, OperatorStarted,
          WorkersChange, PassBegins, PassReads, PassSkips, PassBreaksOff, PassStarted, PassSaves,
          CoolsDown, LeavesWindow, MonitorRestarts, vars
    <3>. QED BY <1>1, <3>1
  <2>. QED BY <2>1, <2>2
<1>2. TypeOK /\ CountInv /\ [Next]_vars
        => [\A s \in Sides : relaunched'[s] # relaunched[s] => cutShort \/ relaunched[s] \subseteq cooled]_vars
  BY <1>1
<1>. QED BY <1>2, TypeCorrect, StartsCounted, PTL DEF Spec, CooldownKept

-----------------------------------------------------------------------------
(* The number of jobs                                                      *)

\* Sets of sides are finite, and smaller ones have fewer.
LEMMA SidesFinite ==
    ASSUME NEW S \in SUBSET Sides, NEW T \in SUBSET S
    PROVE  /\ IsFiniteSet(S) /\ Cardinality(S) \in Nat /\ Cardinality(T) \in Nat
           /\ Cardinality(T) <= Cardinality(S)
<1>1. IsFiniteSet(Sides)
  BY ResumeAssumption, FS_Interval DEF Sides
<1>2. IsFiniteSet(S)
  BY <1>1, FS_Subset
<1>. QED BY <1>2, FS_Subset, FS_CardinalityType

\* A job of the automatic resume is on record or being started.
LEMMA OwnMember ==
    ASSUME TypeOK
    PROVE  /\ OwnJobs \in SUBSET Sides
           /\ \A s \in Sides : s \in OwnJobs <=>
                (s \in Running /\ jobs[s].job.auto) \/ (launch.auto /\ launch.side = s)
BY DEF OwnJobs, Running, TypeOK, NoLaunch

\* The same of the next state.
LEMMA OwnMemberNext ==
    ASSUME TypeOK'
    PROVE  /\ OwnJobs' \in SUBSET Sides
           /\ \A s \in Sides : s \in OwnJobs' <=>
                (s \in Running' /\ jobs'[s].job.auto) \/ (launch'.auto /\ launch'.side = s)
BY DEF OwnJobs, Running, TypeOK, NoLaunch

\* No step adds to the jobs of the automatic resume but the start of a pass.
LEMMA RoomKept ==
    ASSUME TypeOK, TypeOK', RoomInv, OwnJobs' \subseteq OwnJobs,
           pass'.at \in {"reads", "walks"} => pass.at \in {"reads", "walks"}
    PROVE  RoomInv'
<1>1. /\ Cardinality(OwnJobs') \in Nat /\ Cardinality(OwnJobs) \in Nat
      /\ Cardinality(OwnJobs') <= Cardinality(OwnJobs)
  BY OwnMember, SidesFinite
<1>2. ASSUME NEW a \in Nat, NEW b \in Nat, a <= b
      PROVE  (b <= MaxJobs => a <= MaxJobs) /\ (b < MaxJobs => a < MaxJobs)
  BY <1>2, ResumeAssumption
<1>. QED BY <1>1, <1>2 DEF RoomInv, OwnWithinMax

\* The jobs of the automatic resume stay within maxConcurrentJobs, and while a
\* pass may start one there is room for it.
LEMMA RoomForStart == Spec => []RoomInv
<1>1. Init => RoomInv
  <2>. SUFFICES ASSUME Init PROVE RoomInv
    OBVIOUS
  <2>1. OwnJobs = {}
    BY DEF Init, OwnJobs, Running, NoRecord, NoLaunch
  <2>. QED BY <2>1, FS_EmptySet, ResumeAssumption DEF RoomInv, OwnWithinMax
<1>2. TypeOK /\ TypeOK' /\ RunnerInv /\ RoomInv /\ [Next]_vars => RoomInv'
  <2>. SUFFICES ASSUME TypeOK, TypeOK', RunnerInv, RoomInv, [Next]_vars PROVE RoomInv'
    OBVIOUS
  <2>. USE DEF counters, traces, time
  <2>1. ASSUME UNCHANGED <<jobs, launch>>, pass'.at \in {"reads", "walks"} => pass.at \in {"reads", "walks"}
        PROVE  RoomInv'
    <3>1. OwnJobs' \subseteq OwnJobs
      BY <2>1 DEF OwnJobs, Running
    <3>. QED BY <2>1, <3>1, RoomKept
  <2>2. ASSUME NEW s \in Sides, WaiterRecords(s) PROVE RoomInv'
    <3>1. /\ jobs'[s].job = [jobs[s].job EXCEPT !.status = "ended"] /\ UNCHANGED <<launch, pass>>
          /\ \A t \in Sides : t # s => jobs'[t] = jobs[t]
      BY <2>2 DEF WaiterRecords, TypeOK
    <3>2. jobs'[s].job.status = "ended"
      BY <3>1, FieldTypes DEF Records
    <3>3. OwnJobs' \subseteq OwnJobs
      <4>1. ASSUME NEW t \in Sides, t \in OwnJobs' PROVE t \in OwnJobs
        <5>1. CASE t = s
          BY <2>2, <3>1, <3>2, <4>1, <5>1, OwnMember, OwnMemberNext DEF WaiterRecords, Free, NoLaunch, Running
        <5>2. CASE t # s
          BY <3>1, <4>1, <5>2, OwnMember, OwnMemberNext DEF Running
        <5>. QED BY <5>1, <5>2
      <4>. QED BY <4>1, OwnMemberNext
    <3>. QED BY <3>1, <3>3, RoomKept
  <2>3. ASSUME NEW s \in Sides, NEW mode \in {"resume", "rerun"}, OperatorStarts(s, mode) PROVE RoomInv'
    <3>1. ~launch'.auto /\ UNCHANGED <<jobs, pass>>
      BY <2>3 DEF OperatorStarts, Launches
    <3>2. OwnJobs' \subseteq OwnJobs
      BY <3>1 DEF OwnJobs, Running
    <3>. QED BY <3>1, <3>2, RoomKept
  <2>4. CASE OperatorStarted
    <3>1. ~launch.auto /\ ~launch'.auto /\ pass' = pass /\ launch.side \in Sides
      BY <2>4, RecordTypesKept DEF OperatorStarted, Free, NoLaunch
    <3>2. /\ \A t \in Sides : t # launch.side => jobs'[t] = jobs[t]
          /\ ~jobs'[launch.side].job.auto
      BY <2>4, <3>1, RecordTypesKept DEF OperatorStarted, Free, Recorded
    <3>3. OwnJobs' \subseteq OwnJobs
      <4>1. ASSUME NEW t \in Sides, t \in OwnJobs' PROVE t \in OwnJobs
        <5>1. t \in Running' /\ jobs'[t].job.auto
          BY <3>1, <4>1, OwnMemberNext
        <5>2. t \in Running /\ jobs[t].job.auto
          BY <3>2, <5>1 DEF Running
        <5>. QED BY <5>2, OwnMember
      <4>. QED BY <4>1, OwnMemberNext
    <3>. QED BY <3>1, <3>3, RoomKept
  <2>5. CASE PassBegins
    <3>1. UNCHANGED <<jobs, launch>> /\ ~launch.auto /\ ~Crowded
      BY <2>5 DEF PassBegins, Free, NoLaunch
    <3>2. OwnJobs' \in SUBSET Running /\ Running \in SUBSET Sides
      BY <3>1 DEF OwnJobs, Running
    <3>3. /\ Cardinality(OwnJobs') \in Nat /\ Cardinality(Running) \in Nat
          /\ Cardinality(OwnJobs') <= Cardinality(Running)
      BY <3>2, SidesFinite
    <3>4. Cardinality(Running) + workers < MaxJobs /\ workers \in Nat
      BY <3>1, <3>3, ResumeAssumption DEF Crowded, TypeOK
    <3>5. Cardinality(OwnJobs') < MaxJobs /\ Cardinality(OwnJobs') <= MaxJobs
      BY <3>3, <3>4, ResumeAssumption
    <3>. QED BY <3>5 DEF RoomInv, OwnWithinMax
  <2>6. ASSUME NEW s \in Sides, PassStarts(s) PROVE RoomInv'
    <3>1. launch'.side = s /\ ~launch.auto /\ jobs' = jobs /\ pass'.at = "starts" /\ pass.at = "walks"
      BY <2>6, LaunchTypesKept DEF PassStarts, AtSide
    <3>2. OwnJobs' \subseteq OwnJobs \cup {s}
      BY <3>1, OwnMember, OwnMemberNext DEF Running
    <3>3. IsFiniteSet(OwnJobs) /\ Cardinality(OwnJobs) \in Nat /\ Cardinality(OwnJobs) < MaxJobs
      BY <3>1, OwnMember, SidesFinite DEF RoomInv
    <3>4. OwnJobs \cup {s} \in SUBSET Sides
      BY OwnMember
    <3>5. Cardinality(OwnJobs \cup {s}) <= Cardinality(OwnJobs) + 1
      <4>1. Cardinality(OwnJobs \cup {s}) = IF s \in OwnJobs THEN Cardinality(OwnJobs) ELSE Cardinality(OwnJobs) + 1
        BY <3>3, FS_AddElement
      <4>. QED BY <3>3, <4>1
    <3>6. /\ Cardinality(OwnJobs') <= Cardinality(OwnJobs \cup {s})
          /\ Cardinality(OwnJobs') \in Nat /\ Cardinality(OwnJobs \cup {s}) \in Nat
      BY <3>2, <3>4, SidesFinite
    <3>7. Cardinality(OwnJobs') <= MaxJobs
      BY <3>3, <3>5, <3>6, ResumeAssumption
    <3>. QED BY <3>1, <3>7 DEF RoomInv, OwnWithinMax
  <2>7. CASE PassStarted
    <3>1. launch.auto /\ ~launch'.auto /\ launch.side \in Sides /\ pass'.at = AfterStart
      BY <2>7, RecordTypesKept DEF PassStarted, Free, NoLaunch, TypeOK
    <3>2. \A t \in Sides : t # launch.side => jobs'[t] = jobs[t]
      BY <2>7, RecordTypesKept DEF PassStarted, Free
    <3>3. OwnJobs' \subseteq OwnJobs
      <4>1. launch.side \in OwnJobs
        BY <3>1, OwnMember
      <4>2. ASSUME NEW t \in Sides, t # launch.side, t \in OwnJobs' PROVE t \in OwnJobs
        <5>1. t \in Running' /\ jobs'[t].job.auto
          BY <3>1, <4>2, OwnMemberNext
        <5>2. t \in Running /\ jobs[t].job.auto
          BY <3>2, <4>2, <5>1 DEF Running
        <5>. QED BY <5>2, OwnMember
      <4>. QED BY <4>1, <4>2, OwnMemberNext
    <3>4. CASE AfterStart = "saves"
      BY <3>1, <3>3, <3>4, RoomKept
    <3>5. CASE AfterStart # "saves"
      <4>1. ~(Cardinality(Running \cup {launch.side}) + workers >= MaxJobs)
        BY <3>5 DEF AfterStart
      <4>2. Running \cup {launch.side} \in SUBSET Sides /\ OwnJobs \in SUBSET (Running \cup {launch.side})
        BY <3>1 DEF OwnJobs, Running
      <4>3. OwnJobs' \in SUBSET (Running \cup {launch.side})
        BY <3>3, <4>2
      <4>4. /\ Cardinality(OwnJobs') <= Cardinality(Running \cup {launch.side})
            /\ Cardinality(OwnJobs') \in Nat /\ Cardinality(Running \cup {launch.side}) \in Nat
        BY <4>2, <4>3, SidesFinite
      <4>5. workers \in Nat
        BY DEF TypeOK
      <4>6. Cardinality(OwnJobs') < MaxJobs /\ Cardinality(OwnJobs') <= MaxJobs
        BY <4>1, <4>4, <4>5, ResumeAssumption
      <4>. QED BY <4>6 DEF RoomInv, OwnWithinMax
    <3>. QED BY <3>4, <3>5
  <2>8. CASE MonitorRestarts
    <3>1. /\ \A s \in Sides : jobs'[s].job = Recovered[s]
          /\ ~launch'.auto /\ pass'.at = "idle"
      BY <2>8 DEF MonitorRestarts, NoLaunch, IdlePass
    <3>2. OwnJobs' \subseteq OwnJobs
      <4>. SUFFICES ASSUME NEW s \in Sides, s \in OwnJobs' PROVE s \in OwnJobs
        BY OwnMemberNext
      <4>1. Recovered[s].status = "running" /\ Recovered[s].auto
        BY <3>1, OwnMemberNext DEF Running
      <4>2. files[s].status = "running" /\ files[s].pid \in runners[s] /\ Recovered[s] = files[s]
        BY <4>1 DEF Recovered, NoRecord
      <4>3. s \in Running /\ jobs[s].job = files[s]
        BY <4>2 DEF RunnerInv
      <4>. QED BY <4>1, <4>2, <4>3, OwnMember
    <3>. QED BY <3>1, <3>2, RoomKept
  <2>. QED
    <3>. DEFINE Aside == UNCHANGED <<jobs, launch>> /\ (pass'.at \in {"reads", "walks"} => pass.at \in {"reads", "walks"})
    <3>1. ASSUME NEW s \in Sides, NEW p \in Pids, RunnerReports(s, p) PROVE Aside
      BY <3>1 DEF RunnerReports
    <3>2. ASSUME NEW s \in Sides, NEW p \in Pids, NEW how \in {"failed", "done", "dies"}, RunnerEnds(s, p, how)
          PROVE  Aside
      BY <3>2 DEF RunnerEnds
    <3>3. WorkersChange => Aside
      BY DEF WorkersChange
    <3>4. PassReads \/ PassSaves => Aside
      BY DEF PassReads, PassSaves, IdlePass
    <3>5. ASSUME NEW s \in Sides, PassSkips(s) \/ PassBreaksOff(s) PROVE Aside
      BY <3>5 DEF PassSkips, PassBreaksOff, AtSide, IdlePass
    <3>6. ASSUME NEW p \in Pids, CoolsDown(p) \/ LeavesWindow(p) PROVE Aside
      BY <3>6 DEF CoolsDown, LeavesWindow
    <3>7. UNCHANGED vars => Aside
      BY DEF vars
    <3>8. Aside => RoomInv'
      BY <2>1
    <3>. HIDE DEF Aside
    <3>. QED
      BY <2>2, <2>3, <2>4, <2>5, <2>6, <2>7, <2>8, <3>1, <3>2, <3>3, <3>4, <3>5, <3>6, <3>7, <3>8 DEF Next, PassSteps
<1>. QED BY <1>1, <1>2, TypeCorrect, RunnersOnRecord, PTL DEF Spec

\* The automatic resume never has more runners of its own on record than
\* maxConcurrentJobs, whoever else starts some while a pass is under way.
THEOREM ResumeWithinMax == Spec => []OwnWithinMax
<1>1. RoomInv => OwnWithinMax
  BY DEF RoomInv
<1>. QED BY <1>1, RoomForStart, PTL
=============================================================================
