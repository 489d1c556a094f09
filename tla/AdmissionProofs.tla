-------------------------- MODULE AdmissionProofs --------------------------
(***************************************************************************)
(* Why a launch never exceeds the capacity: the count the tick starts from *)
(* misses no project with a held task before the end of its race, however  *)
(* old the docker snapshot is, and the loop adds one to it for every       *)
(* launch.  No two items of one project, and it misses no such task.       *)
(***************************************************************************)
EXTENDS Admission, FiniteSetTheorems, TLAPS

\* What the loop variable inUse stands for.
LoopCounts == pc = "open" => Cardinality(RacingProjects) <= inUse

LoopInv == TypeOK /\ LoopCounts

\* Every part of the queue, every set of projects and of containers is finite.
LEMMA SubsetFinite ==
    ASSUME NEW S, S \subseteq Items
    PROVE  IsFiniteSet(S) /\ Cardinality(S) \in Nat
<1>1. IsFiniteSet(Items)
  BY FS_Interval, AdmissionAssumption DEF Items
<1>. QED BY <1>1, FS_Subset, FS_CardinalityType

\* A set of items is of no more projects than it has members.
LEMMA ProjectsBound ==
    ASSUME NEW S, S \subseteq Items
    PROVE  /\ IsFiniteSet({Project(i) : i \in S})
           /\ Cardinality({Project(i) : i \in S}) \in Nat
           /\ Cardinality({Project(i) : i \in S}) <= Cardinality(S)
<1>. DEFINE T == {Project(i) : i \in S}
<1>. DEFINE f == [i \in S |-> Project(i)]
<1>1. IsFiniteSet(S)
  BY SubsetFinite
<1>2. f \in Surjection(S, T)
  BY DEF Surjection
<1>3. IsFiniteSet(T) /\ Cardinality(T) <= Cardinality(S)
  BY <1>1, <1>2, FS_Surjection
<1>. QED BY <1>3, FS_CardinalityType

\* A union has at most as many members as its two parts together.
LEMMA UnionBound ==
    ASSUME NEW S, NEW T, IsFiniteSet(S), IsFiniteSet(T)
    PROVE  /\ IsFiniteSet(S \cup T)
           /\ Cardinality(S \cup T) \in Nat
           /\ Cardinality(S \cup T) <= Cardinality(S) + Cardinality(T)
<1>1. /\ Cardinality(S) \in Nat /\ Cardinality(T) \in Nat /\ Cardinality(S \cap T) \in Nat
      /\ IsFiniteSet(S \cup T)
  BY FS_CardinalityType, FS_Intersection, FS_Union
<1>2. Cardinality(S \cup T) = Cardinality(S) + Cardinality(T) - Cardinality(S \cap T)
  BY FS_Union
<1>3. Cardinality(S \cup T) \in Nat
  BY <1>1, FS_CardinalityType
<1>. QED BY <1>1, <1>2, <1>3

\* No project with a held task before the end of its race is missed by the count:
\* it has a group of its own items, a stray group, or a reservation.
LEMMA CountMissesNone ==
    ASSUME TypeOK
    PROVE  /\ CapacityInUse \in Nat
           /\ Cardinality(RacingProjects) \in Nat
           /\ Cardinality(RacingProjects) <= CapacityInUse
<1>. DEFINE G == {Project(i) : i \in Groups}
            D == {Project(i) : i \in StrayGroups}
            R == {Project(i) : i \in Reserved}
<1>1. /\ Groups \subseteq Items /\ StrayGroups \subseteq Items
      /\ Reserved \subseteq Items /\ Racing \subseteq Items
  BY DEF TypeOK, Snapshots, Groups, StrayGroups, Reserved, Racing
<1>2. RacingProjects \subseteq (G \cup D) \cup R
  <2>. SUFFICES ASSUME NEW i \in Racing, i \notin Reserved
                PROVE  Project(i) \in G \cup D
    BY DEF RacingProjects
  <2>1. PICK j \in Groups \cup StrayGroups : Alike(i, j)
    BY DEF Racing, Reserved, Matched
  <2>. QED BY <2>1 DEF Alike
<1>3. /\ Cardinality(Groups) \in Nat /\ Cardinality(StrayGroups) \in Nat
      /\ Cardinality(Reserved) \in Nat
  BY <1>1, SubsetFinite
<1>4. /\ IsFiniteSet(G) /\ Cardinality(G) \in Nat /\ Cardinality(G) <= Cardinality(Groups)
      /\ IsFiniteSet(D) /\ Cardinality(D) \in Nat /\ Cardinality(D) <= Cardinality(StrayGroups)
      /\ IsFiniteSet(R) /\ Cardinality(R) \in Nat /\ Cardinality(R) <= Cardinality(Reserved)
  BY <1>1, ProjectsBound
<1>5. /\ IsFiniteSet(G \cup D) /\ Cardinality(G \cup D) \in Nat
      /\ Cardinality(G \cup D) <= Cardinality(G) + Cardinality(D)
  BY <1>4, UnionBound
<1>6. /\ IsFiniteSet((G \cup D) \cup R) /\ Cardinality((G \cup D) \cup R) \in Nat
      /\ Cardinality((G \cup D) \cup R) <= Cardinality(G \cup D) + Cardinality(R)
  BY <1>4, <1>5, UnionBound
<1>7. Cardinality(RacingProjects) \in Nat /\ Cardinality(RacingProjects) <= Cardinality((G \cup D) \cup R)
  BY <1>2, <1>6, FS_Subset, FS_CardinalityType
<1>8. CapacityInUse = Cardinality(Groups) + Cardinality(StrayGroups) + Cardinality(Reserved)
  BY DEF CapacityInUse
<1>. HIDE DEF G, D, R
<1>. QED BY <1>3, <1>4, <1>5, <1>6, <1>7, <1>8

\* The estimate is a number of containers.
LEMMA EstimateType ==
    ASSUME TypeOK
    PROVE  EstimatedContainers \in Nat
<1>1. /\ Cardinality(StrayGroups) \in Nat /\ Cardinality(Reserved) \in Nat
  <2>1. StrayGroups \subseteq Items /\ Reserved \subseteq Items
    BY DEF TypeOK, Snapshots, StrayGroups, Reserved
  <2>. QED BY <2>1, SubsetFinite
<1>2. Cardinality(SeenContainers) \in Nat
  <2>1. IsFiniteSet(Items) /\ IsFiniteSet(1 .. Batch)
    BY FS_Interval, AdmissionAssumption DEF Items
  <2>2. IsFiniteSet(Items \X (1 .. Batch))
    BY <2>1, FS_Product
  <2>3. SeenContainers \in SUBSET (Items \X (1 .. Batch))
    BY DEF SeenContainers
  <2>. QED BY <2>2, <2>3, FS_Subset, FS_CardinalityType
<1>3. \A a, b \in Nat : a * b \in Nat
  OBVIOUS
<1>. QED BY <1>1, <1>2, <1>3, AdmissionAssumption DEF EstimatedContainers

\* A step that lets no further item into the race leaves the loop's count good.
LEMMA NoNewRacer ==
    ASSUME LoopInv, TypeOK', Racing' \subseteq Racing, pc' = pc, inUse' = inUse
    PROVE  LoopInv'
<1>1. IsFiniteSet(RacingProjects) /\ Cardinality(RacingProjects) \in Nat
  BY ProjectsBound DEF Racing, RacingProjects
<1>2. RacingProjects' \subseteq RacingProjects
  BY DEF RacingProjects, Project
<1>3. Cardinality(RacingProjects') \in Nat /\ Cardinality(RacingProjects') <= Cardinality(RacingProjects)
  BY <1>1, <1>2, FS_Subset, FS_CardinalityType
<1>. QED BY <1>1, <1>3 DEF LoopInv, LoopCounts, TypeOK

\* A step outside the loop needs to keep nothing but the types.
LEMMA LoopClosed ==
    ASSUME TypeOK', pc' = "idle"
    PROVE  LoopInv'
BY DEF LoopInv, LoopCounts

\* A launch adds one project to the race and one to the count.
LEMMA AdmitCounts ==
    ASSUME LoopInv, TypeOK', NEW i \in Items, Admit(i)
    PROVE  /\ LoopInv'
           /\ Cardinality(RacingProjects') <= Capacity
<1>. USE DEF Admit, Admitted, LeaveAttempt
<1>1. Racing' \subseteq Racing \cup {i}
  BY DEF LoopInv, TypeOK, Racing, Holds, InRace, Statuses, Races
<1>2. RacingProjects' \subseteq RacingProjects \cup {Project(i)}
  BY <1>1 DEF RacingProjects, Project
<1>3. IsFiniteSet(RacingProjects) /\ Cardinality(RacingProjects) \in Nat
  BY ProjectsBound DEF Racing, RacingProjects
<1>4. /\ IsFiniteSet(RacingProjects \cup {Project(i)})
      /\ Cardinality(RacingProjects \cup {Project(i)}) \in Nat
      /\ Cardinality(RacingProjects \cup {Project(i)}) <= Cardinality(RacingProjects) + 1
  <2>1. /\ IsFiniteSet(RacingProjects \cup {Project(i)})
        /\ Cardinality(RacingProjects \cup {Project(i)})
             = IF Project(i) \in RacingProjects THEN Cardinality(RacingProjects)
               ELSE Cardinality(RacingProjects) + 1
    BY <1>3, FS_AddElement
  <2>. QED BY <1>3, <2>1
<1>5. Cardinality(RacingProjects') \in Nat /\ Cardinality(RacingProjects') <= Cardinality(RacingProjects) + 1
  <2>1. /\ IsFiniteSet(RacingProjects')
        /\ Cardinality(RacingProjects') <= Cardinality(RacingProjects \cup {Project(i)})
    BY <1>2, <1>4, FS_Subset
  <2>2. Cardinality(RacingProjects') \in Nat
    BY <2>1, FS_CardinalityType
  <2>. QED BY <1>3, <1>4, <2>1, <2>2
<1>6. Cardinality(RacingProjects) <= inUse /\ inUse < Capacity /\ inUse \in Nat
  BY AdmissionAssumption DEF LoopInv, LoopCounts, TypeOK, Room
<1>7. Capacity \in Nat
  BY AdmissionAssumption
<1>8. Cardinality(RacingProjects') <= inUse + 1
  BY <1>3, <1>5, <1>6
<1>9. Cardinality(RacingProjects') <= Capacity
  BY <1>5, <1>6, <1>7, <1>8
<1>10. LoopCounts'
  BY <1>8 DEF LoopCounts
<1>. QED BY <1>9, <1>10 DEF LoopInv

\* Every step keeps the types: the loop variables stay within the capacity.
LEMMA TypeKept ==
    ASSUME TypeOK, [Next]_vars
    PROVE  TypeOK'
<1>. USE AdmissionAssumption DEF TypeOK, Statuses, Races, QueueStep, LeaveAttempt, Mishap
<1>1. ASSUME NEW i \in Items, ContainerUp(i) PROVE TypeOK'
  <2>1. running[i] + 1 \in 0 .. Batch
    BY <1>1 DEF ContainerUp
  <2>. QED BY <1>1, <2>1 DEF ContainerUp, WorldStep, loopVars
<1>2. ASSUME NEW i \in Items, ContainersDown(i) \/ RaceAdvances(i) \/ GhostWakes(i)
      PROVE  TypeOK'
  <2>1. 0 \in 0 .. Batch
    OBVIOUS
  <2>. QED BY <1>2, <2>1 DEF ContainersDown, RaceAdvances, GhostWakes, WorldStep, loopVars
<1>3. ASSUME DockerRead \/ DockerFails PROVE TypeOK'
  <2>1. docker' \in Snapshots
    <3>1. CASE DockerRead
      BY <3>1 DEF DockerRead, Snapshots
    <3>2. CASE DockerFails
      BY <3>2 DEF DockerFails, Snapshots
    <3>. QED BY <1>3, <3>1, <3>2
  <2>. QED BY <1>3, <2>1 DEF DockerRead, DockerFails, DockerStep, worldVars, loopVars
<1>4. CASE TickOpens
  <2>1. CapacityInUse \in 0 .. Capacity /\ EstimatedContainers \in Nat
    BY <1>4, CountMissesNone, EstimateType DEF TickOpens, Gates
  <2>2. 1 \in 1 .. NItems + 1
    OBVIOUS
  <2>. QED BY <1>4, <2>1, <2>2 DEF TickOpens, worldVars
<1>5. ASSUME NEW i \in Items, Admit(i) PROVE TypeOK'
  <2>1. /\ i + 1 \in 1 .. NItems + 1 /\ inUse + 1 \in 0 .. Capacity
        /\ estimated + Batch \in Nat /\ 0 \in 0 .. Batch
    BY <1>5 DEF Admit, Admitted, Room, Items
  <2>. QED BY <1>5, <2>1 DEF Admit, Admitted
<1>6. ASSUME NEW i \in Items, StartFails(i) PROVE TypeOK'
  <2>1. i + 1 \in 1 .. NItems + 1
    BY DEF Items
  <2>. QED BY <1>6, <2>1 DEF StartFails, worldVars
<1>7. CASE TickCloses
  <2>1. 1 \in 1 .. NItems + 1 /\ 0 \in 0 .. Capacity
    OBVIOUS
  <2>. QED BY <1>7, <2>1 DEF TickCloses, worldVars
<1>8. ASSUME NEW i \in Items,
             \/ AddPlatform(i) \/ StopListed(i) \/ Finish(i) \/ Orphan(i)
             \/ Drop(i) \/ TrackAgain(i) \/ BackOff(i)
      PROVE  TypeOK'
  BY <1>8 DEF AddPlatform, StopListed, Finish, Orphan, Drop, TrackAgain, BackOff, worldVars, loopVars
<1>9. ASSUME NEW i \in Items, Requeue(i) \/ Retry(i) PROVE TypeOK'
  <2>1. 0 \in 0 .. Batch
    OBVIOUS
  <2>. QED BY <1>9, <2>1 DEF Requeue, Retry, worldVars, loopVars
<1>10. ASSUME CooldownEnds \/ (\E i \in Items : BackoffEnds(i)) \/ UNCHANGED vars
       PROVE  TypeOK'
  BY <1>10 DEF CooldownEnds, BackoffEnds, vars, worldVars, loopVars
<1>. QED BY <1>1, <1>2, <1>3, <1>4, <1>5, <1>6, <1>7, <1>8, <1>9, <1>10 DEF Next

\* Every step keeps the loop's count above the number of projects in the race.
LEMMA LoopKept ==
    ASSUME LoopInv, [Next]_vars
    PROVE  LoopInv'
<1>. TypeOK'
  BY TypeKept DEF LoopInv
<1>1. ASSUME NEW i \in Items,
             \/ ContainerUp(i) \/ ContainersDown(i) \/ RaceAdvances(i) \/ GhostWakes(i)
      PROVE  LoopInv'
  <2>1. Racing' \subseteq Racing /\ pc' = pc /\ inUse' = inUse
    BY <1>1 DEF LoopInv, TypeOK, Races, ContainerUp, ContainersDown, RaceAdvances, GhostWakes,
                WorldStep, Racing, Holds, InRace, loopVars
  <2>. QED BY <2>1, NoNewRacer
<1>2. ASSUME \/ DockerRead \/ DockerFails \/ CooldownEnds
             \/ (\E i \in Items : BackoffEnds(i)) \/ UNCHANGED vars
      PROVE  LoopInv'
  <2>1. Racing' \subseteq Racing /\ pc' = pc /\ inUse' = inUse
    BY <1>2 DEF DockerRead, DockerFails, DockerStep, CooldownEnds, BackoffEnds, vars, worldVars,
                loopVars, Racing, Holds, InRace
  <2>. QED BY <2>1, NoNewRacer
<1>3. CASE TickOpens
  <2>1. RacingProjects' = RacingProjects
    BY <1>3 DEF TickOpens, worldVars, RacingProjects, Racing, Holds, InRace, Project
  <2>2. Cardinality(RacingProjects) <= CapacityInUse
    BY CountMissesNone DEF LoopInv
  <2>. QED BY <1>3, <2>1, <2>2 DEF TickOpens, LoopInv, LoopCounts
<1>4. ASSUME NEW i \in Items, Admit(i) PROVE LoopInv'
  BY <1>4, AdmitCounts
<1>5. ASSUME NEW i \in Items, StartFails(i) PROVE LoopInv'
  <2>1. Racing' \subseteq Racing /\ pc' = pc /\ inUse' = inUse
    BY <1>5 DEF StartFails, LoopInv, TypeOK, worldVars, Racing, Holds, InRace
  <2>. QED BY <2>1, NoNewRacer
<1>6. ASSUME \/ TickCloses
             \/ \E i \in Items : \/ AddPlatform(i) \/ StopListed(i) \/ Finish(i) \/ Orphan(i)
                                 \/ Requeue(i) \/ Drop(i) \/ TrackAgain(i) \/ BackOff(i)
                                 \/ Retry(i)
      PROVE  LoopInv'
  <2>1. pc' = "idle"
    BY <1>6 DEF TickCloses, AddPlatform, StopListed, Finish, Orphan, Requeue, Drop, TrackAgain,
                BackOff, Retry, QueueStep, loopVars
  <2>. QED BY <2>1, LoopClosed
<1>. QED BY <1>1, <1>2, <1>3, <1>4, <1>5, <1>6 DEF Next

\* The queue starts empty, with an idle tick.
LEMMA InitTyped == Init => LoopInv
<1>. SUFFICES ASSUME Init PROVE LoopInv
  OBVIOUS
<1>. USE AdmissionAssumption DEF Init
<1>1. /\ NoContainers \in [Items -> 0 .. Batch]
      /\ 1 \in 1 .. NItems + 1 /\ 0 \in 0 .. Capacity /\ 0 \in 0 .. MaxMishaps /\ 0 \in Nat
  BY DEF NoContainers
<1>2. docker \in Snapshots
  BY <1>1 DEF Snapshots
<1>3. TypeOK
  BY <1>1, <1>2 DEF TypeOK, Statuses, Races
<1>. QED BY <1>3 DEF LoopInv, LoopCounts

\* Admission.TypeOK, for any number of items, any limits, batch and mode: the
\* loop never counts past the capacity (QueueManager.tick).
THEOREM TypeCorrect == Spec => []TypeOK
<1>1. Init => TypeOK
  BY InitTyped DEF LoopInv
<1>2. TypeOK /\ [Next]_vars => TypeOK'
  BY TypeKept
<1>. QED BY <1>1, <1>2, PTL DEF Spec

\* The loop's count is good in every state.
LEMMA LoopInvariant == Spec => []LoopInv
<1>1. LoopInv /\ [Next]_vars => LoopInv'
  BY LoopKept
<1>. QED BY <1>1, InitTyped, PTL DEF Spec

\* ProjectsWithinCapacity, for any number of items of any projects, any limits
\* and any age of the docker snapshot (QueueManager.tick, _capacity_usage_locked).
THEOREM ProjectsFit == Spec => ProjectsWithinCapacity
<1>1. LoopInv /\ [Next]_vars
        => [\A i \in Items : Admit(i) => Cardinality(RacingProjects') <= Capacity]_vars
  BY AdmitCounts, TypeKept DEF LoopInv
<1>. QED BY <1>1, LoopInvariant, PTL DEF Spec, ProjectsWithinCapacity

\* LaunchWithinCapacity, as long as no two items are of one project: then every
\* held task counts by itself.
THEOREM LaunchesFit ==
    ASSUME SameProject = {}
    PROVE  Spec => LaunchWithinCapacity
<1>1. RacingProjects = Racing
  BY DEF RacingProjects, Project
<1>2. RacingProjects' = Racing'
  BY DEF RacingProjects, Project
<1>3. LoopInv /\ [Next]_vars
        => [\A i \in Items : Admit(i) => Cardinality(Racing') <= Capacity]_vars
  BY <1>2, AdmitCounts, TypeKept DEF LoopInv
<1>. QED BY <1>3, LoopInvariant, PTL DEF Spec, LaunchWithinCapacity
=============================================================================
