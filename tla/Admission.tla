----------------------------- MODULE Admission -----------------------------
(***************************************************************************)
(* Which waiting platform items a scheduler tick may launch: the gates of  *)
(* QueueManager.tick (start interval, docker, capacity, hard limit, refill *)
(* threshold), the loop behind them that launches one item after another,  *)
(* and the count both read, which is put together from the containers of a *)
(* cached docker ps and from the items that hold a slot without containers.*)
(*                                                                         *)
(* Items are their positions in the queue.  What happens to an item once   *)
(* it is launched is TaskLifecycle's subject: here it is only how far its  *)
(* candidate race is and which containers it has.                          *)
(***************************************************************************)
EXTENDS Naturals, FiniteSets

CONSTANTS
    NItems,            \* queue items
    SameProject,       \* the items among them that are of one and the same project
    Mode,              \* automation.scheduleMode
    Capacity,          \* automation.capacity
    HardLimit,         \* _max_containers_limit
    RefillBelow,       \* automation.containerRefillBelow
    Batch,             \* automation.candidatesPerTask
    MinInterval,       \* whether automation.cooldownSeconds is set
    MaxMishaps,        \* bound: mishaps of all items together
    Events             \* optional mishaps in this instance

\* "stalls": an item is requeued while its session may still come up; "drops": a
\* stuck orphan is released, and may be tracked again or come back; "retries":
\* the operator retries an ended item; "startFails": start_platform raises;
\* "stops": the stop list names a waiting project; "dockerFails": docker ps fails.
AllEvents == {"stalls", "drops", "retries", "startFails", "stops", "dockerFails"}

ASSUME AdmissionAssumption ==
    /\ NItems \in Nat \ {0}
    /\ SameProject \subseteq 1 .. NItems
    /\ Mode \in {"tasks", "containers"}
    /\ Capacity \in Nat \ {0}
    /\ HardLimit \in Nat \ {0}
    /\ RefillBelow \in Nat \ {0}
    /\ Batch \in Nat \ {0}
    /\ MinInterval \in BOOLEAN
    /\ MaxMishaps \in Nat
    /\ Events \subseteq AllEvents

Items == 1 .. NItems

VARIABLES
    status,     \* status of each item, "absent" before it is added
    delayed,    \* waiting items whose nextAttemptAt lies in the future
    race,       \* how far the candidate race of the item's attempt is
    running,    \* running containers of that attempt
    ghosts,     \* items with a given up session that may still start containers
    strays,     \* items with running containers of a given up session
    docker,     \* the cached docker ps
    cooling,    \* less than cooldownSeconds since the last start
    pc,         \* "idle", or "open" inside the tick's launch loop
    cursor,     \* next item the loop looks at
    inUse,      \* capacity_in_use
    estimated,  \* estimated_current
    mishaps

worldVars == <<race, running, ghosts, strays>>
loopVars == <<pc, cursor, inUse, estimated>>
vars == <<status, delayed, worldVars, docker, cooling, loopVars, mishaps>>

\* "running" stands for launching, running and triggered; "ended" for done,
\* failed and skipped.
Statuses == {"absent", "pending", "running", "orphaned", "ended"}

\* "raced": candidateRaceFinishedAt or a status past the race; "over": terminal.
Races == {"none", "starting", "racing", "raced", "over"}

Snapshots == [ready : BOOLEAN, own : [Items -> 0 .. Batch], stray : SUBSET Items]

TypeOK ==
    /\ status \in [Items -> Statuses]
    /\ delayed \in SUBSET Items
    /\ race \in [Items -> Races]
    /\ running \in [Items -> 0 .. Batch]
    /\ ghosts \in SUBSET Items
    /\ strays \in SUBSET Items
    /\ docker \in Snapshots
    /\ cooling \in BOOLEAN
    /\ pc \in {"idle", "open"}
    /\ cursor \in 1 .. NItems + 1
    /\ inUse \in 0 .. Capacity
    /\ estimated \in Nat
    /\ mishaps \in 0 .. MaxMishaps

NoContainers == [i \in Items |-> 0]

Init ==
    /\ status = [i \in Items |-> "absent"]
    /\ delayed = {}
    /\ race = [i \in Items |-> "none"]
    /\ running = NoContainers
    /\ ghosts = {}
    /\ strays = {}
    /\ docker = [ready |-> TRUE, own |-> NoContainers, stray |-> {}]
    /\ cooling = FALSE
    /\ pc = "idle"
    /\ cursor = 1
    /\ inUse = 0
    /\ estimated = 0
    /\ mishaps = 0

Holds(i) == status[i] \in {"running", "orphaned"}
InRace(i) == race[i] \in {"starting", "racing"}
Project(i) == IF i \in SameProject THEN 0 ELSE i
Alike(i, j) == Project(i) = Project(j)

Mishap(event) == event \in Events /\ mishaps < MaxMishaps /\ mishaps' = mishaps + 1

-----------------------------------------------------------------------------
(* Sessions, containers and the docker ps cache                            *)

WorldStep == UNCHANGED <<status, delayed, docker, cooling, loopVars, mishaps>>

ContainerUp(i) ==
    /\ InRace(i)
    /\ running[i] < Batch
    /\ running' = [running EXCEPT ![i] = @ + 1]
    /\ race' = [race EXCEPT ![i] = "racing"]
    /\ UNCHANGED <<ghosts, strays>>
    /\ WorldStep

ContainersDown(i) ==
    /\ \/ /\ running[i] > 0 /\ race[i] \in {"raced", "over"}
          /\ running' = [running EXCEPT ![i] = 0]
          /\ UNCHANGED strays
       \/ /\ i \in strays
          /\ strays' = strays \ {i}
          /\ UNCHANGED running
    /\ UNCHANGED <<race, ghosts>>
    /\ WorldStep

\* A race may end without containers; a task may end at once.
RaceAdvances(i) ==
    /\ \/ InRace(i) /\ race' = [race EXCEPT ![i] = "raced"]
       \/ race[i] = "raced" /\ race' = [race EXCEPT ![i] = "over"]
    /\ UNCHANGED <<running, ghosts, strays>>
    /\ WorldStep

\* The session of an attempt that was given up starts its containers after all.
GhostWakes(i) ==
    /\ i \in ghosts
    /\ ghosts' = ghosts \ {i}
    /\ strays' = strays \cup {i}
    /\ UNCHANGED <<race, running>>
    /\ WorldStep

\* The snapshot lives for two seconds, so that it may be older than the world;
\* the answer of a failing call keeps the containers of the last good one.
DockerStep == UNCHANGED <<status, delayed, worldVars, cooling, loopVars>>

DockerRead ==
    /\ docker' = [ready |-> TRUE, own |-> running, stray |-> strays]
    /\ UNCHANGED mishaps
    /\ DockerStep

DockerFails ==
    /\ Mishap("dockerFails")
    /\ docker' = [docker EXCEPT !.ready = FALSE]
    /\ DockerStep

-----------------------------------------------------------------------------
(* The count: _capacity_usage_locked                                       *)

Groups == {i \in Items : docker.own[i] > 0}
StrayGroups == docker.stray

\* A group is taken for an item's own when it is named after its task root or,
\* failing that, after its project.
Matched(i) == \E j \in Groups \cup StrayGroups : Alike(i, j)

\* Fault: an orphan keeps its slot and is not counted.
ReservedRunning == {i \in Items : status[i] = "running" /\ InRace(i) /\ ~Matched(i)}

\* Held, before the end of its race, and no containers seen.
Reserved == {i \in Items : Holds(i) /\ InRace(i) /\ ~Matched(i)}

CapacityInUse == Cardinality(Groups) + Cardinality(StrayGroups) + Cardinality(Reserved)

\* The containers of the items' own groups, by their numbers; a stray group and
\* a reservation are good for a whole batch.
SeenContainers == {c \in Items \X (1 .. Batch) : c[2] <= docker.own[c[1]]}
EstimatedContainers ==
    Cardinality(SeenContainers) + Batch * (Cardinality(StrayGroups) + Cardinality(Reserved))

\* effective_refill_below clamps the threshold to the hard limit.
EffectiveRefill == IF RefillBelow < HardLimit THEN RefillBelow ELSE HardLimit

-----------------------------------------------------------------------------
(* QueueManager.tick                                                       *)

\* Fault: off by one in the check inside the loop.
RoomAtCapacity == /\ inUse <= Capacity
                  /\ Mode = "containers" => estimated + 1 <= HardLimit

Room == /\ inUse < Capacity
        /\ Mode = "containers" => estimated + 1 <= HardLimit

\* Fault: the container gate asks for room for a whole batch, as it once did.
GatesForBatch ==
    /\ ~(MinInterval /\ cooling)
    /\ docker.ready
    /\ CapacityInUse < Capacity
    /\ Mode = "containers" => /\ EstimatedContainers + Batch <= HardLimit
                              /\ EstimatedContainers < EffectiveRefill

Gates ==
    /\ ~(MinInterval /\ cooling)
    /\ docker.ready
    /\ CapacityInUse < Capacity
    /\ Mode = "containers" => /\ EstimatedContainers + 1 <= HardLimit
                              /\ EstimatedContainers < EffectiveRefill

\* A tick whose gates are closed changes nothing that is modelled here.
TickOpens ==
    /\ pc = "idle"
    /\ Gates
    /\ pc' = "open"
    /\ cursor' = 1
    /\ inUse' = CapacityInUse
    /\ estimated' = EstimatedContainers
    /\ UNCHANGED <<status, delayed, worldVars, docker, cooling, mishaps>>

Launchable(i) == i >= cursor /\ status[i] = "pending" /\ i \notin delayed
NextUp(i) == Launchable(i) /\ \A j \in Items : Launchable(j) => i <= j

\* An attempt that is given up leaves its session behind, and what containers
\* that has.
LeaveAttempt(i, next) ==
    /\ race' = [race EXCEPT ![i] = next]
    /\ running' = [running EXCEPT ![i] = 0]
    /\ ghosts' = IF InRace(i) THEN ghosts \cup {i} ELSE ghosts
    /\ strays' = IF running[i] > 0 THEN strays \cup {i} ELSE strays

\* Claim, reservation, start: the item holds its slot and the loop goes on.
Admitted(i, used) ==
    /\ pc = "open"
    /\ Room
    /\ NextUp(i)
    /\ status' = [status EXCEPT ![i] = "running"]
    /\ LeaveAttempt(i, "starting")
    /\ cooling' = MinInterval
    /\ cursor' = i + 1
    /\ inUse' = used
    /\ estimated' = estimated + Batch
    /\ UNCHANGED <<delayed, docker, pc, mishaps>>

\* Fault: the loop does not count what it launches.
AdmitUncounted(i) == Admitted(i, inUse)
Admit(i) == Admitted(i, inUse + 1)

\* start_platform raised: failed when a quota was claimed, else waiting as before.
StartFails(i) ==
    /\ Mishap("startFails")
    /\ pc = "open"
    /\ Room
    /\ NextUp(i)
    /\ \E s \in {"ended", "pending"} : status' = [status EXCEPT ![i] = s]
    /\ cursor' = i + 1
    /\ UNCHANGED <<delayed, worldVars, docker, cooling, pc, inUse, estimated>>

TickCloses ==
    /\ pc = "open"
    /\ ~Room \/ ~\E i \in Items : Launchable(i)
    /\ pc' = "idle"
    /\ cursor' = 1
    /\ inUse' = 0
    /\ estimated' = 0
    /\ UNCHANGED <<status, delayed, worldVars, docker, cooling, mishaps>>

-----------------------------------------------------------------------------
(* The queue around the tick                                               *)

QueueStep(i, s) ==
    /\ pc = "idle"
    /\ status' = [status EXCEPT ![i] = s]
    /\ UNCHANGED <<docker, cooling, loopVars>>

\* add_platform refuses a project that waits or runs.
AddPlatform(i) ==
    /\ status[i] = "absent"
    /\ \A j \in Items : Alike(i, j) => status[j] \notin {"pending", "running"}
    /\ QueueStep(i, "pending")
    /\ UNCHANGED <<delayed, worldVars, mishaps>>

\* The tick finds the project of a waiting item on the stop list.
StopListed(i) ==
    /\ Mishap("stops")
    /\ status[i] = "pending"
    /\ QueueStep(i, "ended")
    /\ UNCHANGED <<delayed, worldVars>>

\* sync: the task ended, also that of an item that waits for another attempt.
Finish(i) ==
    /\ Holds(i) \/ status[i] = "pending"
    /\ race[i] = "over"
    /\ QueueStep(i, "ended")
    /\ UNCHANGED <<delayed, worldVars, mishaps>>

\* sync: the worker is gone, its session may not be.
Orphan(i) ==
    /\ status[i] = "running"
    /\ QueueStep(i, "orphaned")
    /\ UNCHANGED <<delayed, worldVars, mishaps>>

\* requeue_stalled, which forgets an attempt that shows nothing, or a reservation
\* that timed out: it leaves the item its files, and containers that came up
\* since the last sync are not looked for.
Requeue(i) ==
    /\ Mishap("stalls")
    /\ \/ Holds(i) /\ race[i] = "starting" /\ LeaveAttempt(i, "none")
       \/ status[i] = "running" /\ UNCHANGED worldVars
    /\ QueueStep(i, "pending")
    /\ UNCHANGED delayed

\* _release_stuck_orphans: the task is not known to live.
Drop(i) ==
    /\ Mishap("drops")
    /\ status[i] = "orphaned"
    /\ race[i] = "starting"
    /\ QueueStep(i, "ended")
    /\ UNCHANGED <<delayed, worldVars>>

\* sync finds the submitted task of an item that was released, or that waits
\* for another attempt: it takes its slot back without the tick's gates.
TrackAgain(i) ==
    /\ status[i] \in {"pending", "orphaned"} \/ ("drops" \in Events /\ status[i] = "ended")
    /\ race[i] \in {"starting", "racing", "raced"}
    /\ QueueStep(i, "running") \/ QueueStep(i, "orphaned")
    /\ UNCHANGED <<delayed, worldVars, mishaps>>

\* apply_failure, at a sync after the release: the item waits for its backoff,
\* with the files of the attempt.
BackOff(i) ==
    /\ "drops" \in Events
    /\ status[i] = "ended"
    /\ race[i] = "starting"
    /\ QueueStep(i, "pending")
    /\ delayed' = delayed \cup {i}
    /\ UNCHANGED <<worldVars, mishaps>>

\* retry refuses only an item that holds a slot.
Retry(i) ==
    /\ Mishap("retries")
    /\ status[i] \in {"pending", "ended"}
    /\ QueueStep(i, "pending")
    /\ delayed' = delayed \ {i}
    /\ LeaveAttempt(i, "none")

-----------------------------------------------------------------------------
(* Time                                                                    *)

CooldownEnds ==
    /\ cooling
    /\ cooling' = FALSE
    /\ UNCHANGED <<status, delayed, worldVars, docker, loopVars, mishaps>>

BackoffEnds(i) ==
    /\ i \in delayed
    /\ delayed' = delayed \ {i}
    /\ UNCHANGED <<status, worldVars, docker, cooling, loopVars, mishaps>>

Next ==
    \/ \E i \in Items :
         \/ ContainerUp(i) \/ ContainersDown(i) \/ RaceAdvances(i) \/ GhostWakes(i)
         \/ Admit(i) \/ StartFails(i)
         \/ AddPlatform(i) \/ StopListed(i) \/ Finish(i) \/ Orphan(i)
         \/ Requeue(i) \/ Drop(i) \/ TrackAgain(i) \/ BackOff(i) \/ Retry(i)
         \/ BackoffEnds(i)
    \/ DockerRead \/ DockerFails \/ TickOpens \/ TickCloses \/ CooldownEnds

Spec == Init /\ [][Next]_vars

-----------------------------------------------------------------------------
(* Properties                                                              *)

Racing == {i \in Items : Holds(i) /\ InRace(i)}
RacingProjects == {Project(i) : i \in Racing}

\* A launch never makes more than the capacity's projects have held tasks before
\* the end of their candidate race, however old the docker snapshot is, whatever
\* the loop has launched before it, whatever came back from being given up and
\* however many items are of one project (_capacity_usage_locked).
ProjectsWithinCapacity ==
    [][\A i \in Items : Admit(i) => Cardinality(RacingProjects') <= Capacity]_vars

\* A launch never brings the held tasks before the end of their candidate race
\* above the capacity, however old the docker snapshot is, whatever the loop has
\* launched before it and whatever came back from being given up
\* (scheduler.py:4-6: capacity tasks in flight).
LaunchWithinCapacity ==
    [][\A i \in Items : Admit(i) => Cardinality(Racing') <= Capacity]_vars

\* The tick runs for ever; sessions end, containers stop and the timers run out.
Fairness ==
    /\ WF_vars(TickOpens) /\ WF_vars(TickCloses) /\ WF_vars(DockerRead) /\ WF_vars(CooldownEnds)
    /\ \A i \in Items : /\ WF_vars(Admit(i)) /\ WF_vars(Finish(i)) /\ WF_vars(BackoffEnds(i))
                        /\ WF_vars(ContainersDown(i)) /\ WF_vars(RaceAdvances(i))
FairSpec == Spec /\ Fairness

\* An item that waits is launched or ended in the end: neither the gates, nor
\* its backoff, nor the items before it keep it waiting for ever.
WaitingEnds == \A i \in Items : status[i] = "pending" ~> status[i] # "pending"
=============================================================================
