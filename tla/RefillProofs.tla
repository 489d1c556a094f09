---------------------------- MODULE RefillProofs ----------------------------
(***************************************************************************)
(* The refill and the blocklists: type correctness, agreement of the       *)
(* blocklists with the settings and what a request may change of these,    *)
(* why a refill discards no work, and why additions never double a project.*)
(***************************************************************************)
EXTENDS Refill, FiniteSetTheorems, TLAPS

LEMMA NoProjectType == NoProject \in Projects
BY BoundsAssumption DEF NoProject

\* Locals and requests that are reset have the right types.
LEMMA IdleTypes ==
    /\ IdleRefill \in Locals /\ IdleRefill.at = "idle"
    /\ IdleRequest \in Requests
BY NoProjectType, BoundsAssumption DEF Locals, Requests, IdleRefill, IdleRequest, RefillPlaces, RequestPlaces

LEMMA CountType ==
    ASSUME NEW S, S \subseteq Items
    PROVE  Cardinality(S) \in Nat
<1>1. IsFiniteSet(Items)
  BY FS_Interval, BoundsAssumption DEF Items
<1>. QED BY <1>1, FS_Subset, FS_CardinalityType

\* The three ways an item changes keep the type of the queue.
ItemsType == [Items -> [code : Projects, status : Statuses, begun : BOOLEAN]]

LEMMA BecameType ==
    ASSUME items \in ItemsType, NEW i \in Items, NEW s \in Statuses, NEW begun \in BOOLEAN, Became(i, s, begun)
    PROVE  items' \in ItemsType
BY DEF Became, ItemsType

LEMMA SetStatusType ==
    ASSUME items \in ItemsType, NEW i \in Items, NEW s \in Statuses, SetStatus(i, s)
    PROVE  items' \in ItemsType
BY DEF SetStatus, ItemsType

LEMMA AppendedType ==
    ASSUME items \in ItemsType, NEW i \in Items, NEW c \in Projects, Appended(c, i)
    PROVE  items' \in ItemsType
<1>1. Added(c, "pending") \in [code : Projects, status : Statuses, begun : BOOLEAN]
  BY DEF Added, Statuses
<1>. QED BY <1>1 DEF Appended, ItemsType

\* What the tick, the sync and the operator's calls do to an item: it stays in
\* use, and keeps its project.
ItemStep(i) ==
    \E s \in Statuses \ {"unused"}, begun \in BOOLEAN :
       /\ items[i].status # "unused"
       /\ Became(i, s, begun)

LEMMA ChangesStep ==
    ASSUME items \in ItemsType, NEW i \in Items, Changes(i)
    PROVE  ItemStep(i)
<1>1. ASSUME NEW from, "unused" \notin from, NEW to \in SUBSET (Statuses \ {"unused"}),
             NEW begun \in BOOLEAN, Turns(i, from, to, begun)
      PROVE  ItemStep(i)
  BY <1>1 DEF Turns, ItemStep
<1>2. items[i].begun \in BOOLEAN
  BY DEF ItemsType
<1>. USE <1>1, <1>2
<1>3. CASE Launches(i) \/ Skips(i) \/ Fails(i)
  BY <1>3 DEF Launches, Skips, Fails, Statuses
<1>4. CASE SyncEnds(i) \/ Requeue(i) \/ Orphans(i)
  BY <1>4 DEF SyncEnds, Requeue, Orphans, Statuses
<1>5. CASE Follows(i) \/ Revives(i)
  BY <1>5 DEF Follows, Revives, Statuses
<1>6. CASE Retries(i) \/ Removes(i)
  BY <1>6 DEF Retries, Removes, Statuses
<1>. QED BY <1>3, <1>4, <1>5, <1>6 DEF Changes

\* They change one item and at most one counter.
Frame == UNCHANGED <<offered, blocklists, refill, request, doubted>>

LEMMA ItemStepsFrame ==
    ASSUME TypeOK, NEW i \in Items, Tick(i) \/ Sync(i) \/ Retry(i) \/ Remove(i)
    PROVE  Frame /\ ItemStep(i) /\ TypeOK'
<1>1. items \in ItemsType
  BY DEF TypeOK, ItemsType
<1>2. Frame /\ Changes(i)
  BY DEF Tick, Sync, Retry, Remove, Frame, Changes
<1>3. ItemStep(i)
  BY <1>1, <1>2, ChangesStep
<1>4. items' \in ItemsType
  BY <1>1, <1>3, BecameType DEF ItemStep
<1>5. disturbances' \in 0 .. MaxDisturbances
  BY BoundsAssumption DEF Tick, Sync, Retry, Remove, Disturbs, TypeOK
<1>. QED BY <1>2, <1>3, <1>4, <1>5 DEF Frame, TypeOK, ItemsType, blocklists

THEOREM TypeCorrect == Spec => []TypeOK
<1>1. Init => TypeOK
  BY IdleTypes, NoProjectType, BoundsAssumption DEF Init, TypeOK, Statuses, Added
<1>2. TypeOK /\ [Next]_vars => TypeOK'
  <2>. SUFFICES ASSUME TypeOK, [Next]_vars PROVE TypeOK'
    OBVIOUS
  <2>. USE IdleTypes, NoProjectType, BoundsAssumption DEF TypeOK, Locals, Requests, Disturbs, blocklists
  <2>1. CASE RefillStarts
    BY <2>1 DEF RefillStarts, RefillPlaces
  <2>2. ASSUME NEW listed \in SUBSET Projects, RefillReads(listed) PROVE TypeOK'
    BY <2>2 DEF RefillReads, RefillPlaces
  <2>3. CASE RefillLooks
    <3>1. Cardinality(Occupying) \in Nat
      BY CountType DEF Occupying
    <3>2. Unfit \subseteq Items
      BY DEF Unfit, Waiting
    <3>. DEFINE room == IF Cardinality(Occupying) < Target THEN Target - Cardinality(Occupying) ELSE 0
    <3>3. room \in 0 .. Target
      BY <3>1
    <3>4. refill' = [refill EXCEPT !.at = "failing", !.excluded = {}, !.unfit = Unfit, !.room = room]
      BY <2>3 DEF RefillLooks
    <3>. HIDE DEF room
    <3>5. refill' \in Locals
      BY <3>2, <3>3, <3>4 DEF RefillPlaces
    <3>. QED BY <2>3, <3>5 DEF RefillLooks
  <2>4. ASSUME NEW i \in Items, RefillFails(i) PROVE TypeOK'
    BY <2>4 DEF RefillFails, Statuses
  <2>5. CASE RefillCounts
    <3>1. Cardinality(Waiting) \in Nat
      BY CountType DEF Waiting
    <3>. QED BY <2>5, <3>1 DEF RefillCounts, RefillPlaces
  <2>6. CASE RefillTracks
    BY <2>6 DEF RefillTracks, RefillPlaces, Tracked
  <2>7. ASSUME NEW c \in Projects, RefillChooses(c) PROVE TypeOK'
    BY <2>7 DEF RefillChooses, RefillPlaces, Choices
  <2>8. CASE RefillAdds
    <3>2. items' \in ItemsType
      BY <2>8, AppendedType DEF RefillAdds, ItemsType
    <3>3. refill' \in Locals
      <4>1. CASE refill' = [refill EXCEPT !.at = "filling", !.choice = NoProject,
                                          !.added = @ + 1, !.pending = @ + 1]
        <5>1. refill.added < Batch /\ refill.added \in 0 .. Batch /\ refill.pending \in Nat
          BY <2>8 DEF RefillAdds
        <5>2. refill.added + 1 \in 0 .. Batch /\ refill.pending + 1 \in Nat
          BY <5>1
        <5>. QED BY <4>1, <5>2 DEF RefillPlaces
      <4>2. CASE refill' = [refill EXCEPT !.at = "filling", !.choice = NoProject]
        BY <4>2 DEF RefillPlaces
      <4>. QED BY <2>8, <4>1, <4>2 DEF RefillAdds
    <3>4. refill'.at = "filling"
      BY <2>8 DEF RefillAdds
    <3>. QED BY <2>8, <3>2, <3>3, <3>4 DEF RefillAdds, ItemsType
  <2>9. CASE RefillEnds
    BY <2>9 DEF RefillEnds
  <2>10. CASE Restart
    BY <2>10 DEF Restart
  <2>11. ASSUME NEW i \in Items, Tick(i) \/ Sync(i) \/ Retry(i) \/ Remove(i) PROVE TypeOK'
    BY <2>11, ItemStepsFrame
  <2>14. ASSUME NEW c \in Projects, OfferChanges(c) PROVE TypeOK'
    BY <2>14 DEF OfferChanges
  <2>15. ASSUME NEW t \in Threads, Continues(t) PROVE TypeOK'
    <3>1. CASE DisableReads(t)
      <4>1. request[t] \in Requests
        BY <2>15
      <4>2. disabled \cup {request[t].code} \in SUBSET Projects
        BY <4>1
      <4>3. request' \in [Threads -> Requests]
        BY <2>15, <3>1, <4>1, <4>2 DEF DisableReads, RequestPlaces
      <4>. QED BY <3>1, <4>3 DEF DisableReads
    <3>2. CASE SettingsWritten(t)
      <4>1. request[t] \in Requests
        BY <2>15
      <4>2. request' \in [Threads -> Requests]
        BY <2>15, <3>2, <4>1 DEF SettingsWritten, RequestPlaces
      <4>3. disabled' \subseteq Projects
        BY <3>2, <4>1 DEF SettingsWritten
      <4>4. overtaken' \subseteq Threads
        BY <3>2 DEF SettingsWritten, Overtakes
      <4>. QED BY <3>2, <4>2, <4>3, <4>4 DEF SettingsWritten
    <3>3. CASE SyncReads(t)
      BY <2>15, <3>3 DEF SyncReads, RequestPlaces
    <3>4. CASE SyncOffer(t)
      BY <2>15, <3>4 DEF SyncOffer, RequestPlaces
    <3>5. CASE SyncQueue(t)
      BY <2>15, <3>5 DEF SyncQueue
    <3>6. CASE AddAppends(t)
      <4>1. items' \in ItemsType
        BY <2>15, <3>6, AppendedType DEF AddAppends, ItemsType
      <4>. QED BY <2>15, <3>6, <4>1 DEF AddAppends, ItemsType
    <3>. QED BY <2>15, <3>1, <3>2, <3>3, <3>4, <3>5, <3>6 DEF Continues
  <2>16. ASSUME NEW t \in Threads, NEW c \in Projects, Disable(t, c) \/ Enable(t, c) \/ Add(t, c)
         PROVE TypeOK'
    BY <2>16 DEF Disable, Enable, Add, Begin, IdleRequest, SetStatus, Statuses, RequestPlaces
  <2>17. CASE UNCHANGED vars
    BY <2>17 DEF vars
  <2>. QED
    BY <2>1, <2>2, <2>3, <2>4, <2>5, <2>6, <2>7, <2>8, <2>9, <2>10, <2>11, <2>14,
       <2>15, <2>16, <2>17 DEF Next, RefillSteps
<1>. QED BY <1>1, <1>2, PTL DEF Spec

-----------------------------------------------------------------------------
\* While nobody works on the settings the lists in SyncInv stay as they are.
LEMMA SyncInvFrame ==
    ASSUME SyncInv, UNCHANGED <<blocklists, request>>
    PROVE  SyncInv'
BY DEF SyncInv, BlocklistAgrees, Copies, blocklists

\* A list in a request's hands is the settings' unless somebody wrote since, and
\* the blocklists are current once the last such list has been copied: for any
\* number of requests beside each other.
LEMMA SyncKept == TypeOK /\ SyncInv /\ [Next]_vars => SyncInv'
<1>. SUFFICES ASSUME TypeOK, SyncInv, [Next]_vars PROVE SyncInv'
  OBVIOUS
<1>. USE DEF TypeOK, Requests, SyncInv, BlocklistAgrees, Copies
<1>1. CASE RefillStarts \/ RefillSteps
  BY <1>1, SyncInvFrame
  DEF RefillStarts, RefillSteps, RefillReads, RefillLooks, RefillFails, RefillCounts,
      RefillTracks, RefillChooses, RefillAdds, RefillEnds
<1>2. CASE Restart
  BY <1>2 DEF Restart, IdleRequest
<1>3. ASSUME NEW i \in Items, Tick(i) \/ Sync(i) \/ Retry(i) \/ Remove(i) PROVE SyncInv'
  BY <1>3, ItemStepsFrame, SyncInvFrame DEF Frame
<1>4. ASSUME NEW c \in Projects, OfferChanges(c) PROVE SyncInv'
  BY <1>4, SyncInvFrame DEF OfferChanges
<1>5. ASSUME NEW t \in Threads, Continues(t) PROVE SyncInv'
  <2>1. CASE DisableReads(t)
    BY <2>1 DEF DisableReads, blocklists
  <2>2. CASE SettingsWritten(t)
    <3>1. request'[t].at = "written" /\ UNCHANGED <<offBlocked, addBlocked, outdated>>
      BY <2>2 DEF SettingsWritten, IdleRequest
    <3>2. \A s \in Threads \ {t} : request'[s] = request[s] /\ (Holds(s) => s \in overtaken')
      BY <2>2 DEF SettingsWritten, Overtakes
    <3>. QED BY <3>1, <3>2 DEF Holds
  <2>3. CASE SyncReads(t)
    <3>1. request'[t].at = "syncing" /\ request'[t].codes = disabled
      BY <2>3 DEF SyncReads
    <3>2. \A s \in Threads \ {t} : request'[s] = request[s]
      BY <2>3 DEF SyncReads
    <3>. QED BY <2>3, <3>1, <3>2 DEF SyncReads, blocklists
  <2>4. CASE SyncOffer(t)
    BY <2>4 DEF SyncOffer
  <2>5. CASE SyncQueue(t)
    BY <2>5 DEF SyncQueue, IdleRequest
  <2>6. CASE AddAppends(t)
    BY <2>6 DEF AddAppends, IdleRequest, blocklists
  <2>. QED BY <1>5, <2>1, <2>2, <2>3, <2>4, <2>5, <2>6 DEF Continues
<1>6. ASSUME NEW t \in Threads, NEW c \in Projects, Disable(t, c) \/ Enable(t, c) \/ Add(t, c)
      PROVE  SyncInv'
  BY <1>6 DEF Disable, Enable, Add, Begin, IdleRequest, blocklists
<1>7. CASE UNCHANGED vars
  BY <1>7, SyncInvFrame DEF vars
<1>. QED BY <1>1, <1>2, <1>3, <1>4, <1>5, <1>6, <1>7 DEF Next

LEMMA SyncAlways == Spec => []SyncInv
<1>1. Init => SyncInv
  BY DEF Init, SyncInv, BlocklistAgrees, Copies, IdleRequest
<1>. QED BY <1>1, SyncKept, TypeCorrect, PTL DEF Spec

\* Whichever requests run beside each other, and through restarts at any step, the
\* blocklists in memory are those of the settings once no request has a list to
\* copy, unless a request was overtaken between its last read and its copies.
THEOREM BlocklistsFollow == Spec => []BlocklistAgrees
<1>1. SyncInv => BlocklistAgrees
  BY DEF SyncInv
<1>. QED BY <1>1, SyncAlways, PTL

\* A write of the settings changes nothing but the request's own project, unless
\* another request has written since it read the list.
THEOREM WritesOwnProject == Spec => OnlyOwnProject
<1>1. SyncInv /\ [Next]_vars =>
        [\A t \in Threads : SettingsWritten(t) /\ t \notin overtaken =>
            \A c \in Projects \ {request[t].code} : c \in disabled' <=> c \in disabled]_vars
  BY DEF SyncInv, SettingsWritten
<1>. QED BY <1>1, SyncAlways, PTL DEF Spec, OnlyOwnProject

-----------------------------------------------------------------------------
\* A step that changes items only by SetStatus, or not at all, or appends one,
\* keeps the project of every item in use.
LEMMA CodesKept ==
    ASSUME TypeOK, [Next]_vars, NEW i \in Items, items[i].status # "unused"
    PROVE  items'[i].status # "unused" /\ items'[i].code = items[i].code
<1>. USE DEF TypeOK, Statuses
<1>1. CASE UNCHANGED items
  BY <1>1
<1>2. ASSUME NEW k \in Items, NEW s \in Statuses \ {"unused"}, SetStatus(k, s)
      PROVE items'[i].status # "unused" /\ items'[i].code = items[i].code
  BY <1>2 DEF SetStatus
<1>3. ASSUME NEW k \in Items, NEW c \in Projects, Appended(c, k)
      PROVE items'[i].status # "unused" /\ items'[i].code = items[i].code
  BY <1>3 DEF Appended, Added, Fresh
<1>4. CASE RefillStarts \/ RefillSteps
  <2>1. ASSUME NEW k \in Items, RefillFails(k)
        PROVE items'[i].status # "unused" /\ items'[i].code = items[i].code
    BY <2>1, <1>1, <1>2 DEF RefillFails, SetStatus
  <2>2. CASE RefillAdds
    <3>1. refill.choice \in Projects
      BY DEF Locals
    <3>. QED BY <2>2, <3>1, <1>1, <1>3 DEF RefillAdds
  <2>. QED
    BY <2>1, <2>2, <1>1, <1>4
    DEF RefillStarts, RefillSteps, RefillReads, RefillLooks, RefillCounts,
        RefillTracks, RefillChooses, RefillEnds
<1>5. CASE Restart
  BY <1>1, <1>5 DEF Restart
<1>6. ASSUME NEW k \in Items, Tick(k) \/ Sync(k) \/ Retry(k) \/ Remove(k)
      PROVE items'[i].status # "unused" /\ items'[i].code = items[i].code
  <2>1. ItemStep(k)
    BY <1>6, ItemStepsFrame
  <2>. QED BY <2>1 DEF ItemStep, Became
<1>7. ASSUME NEW c \in Projects, OfferChanges(c) PROVE UNCHANGED items
  BY <1>7 DEF OfferChanges
<1>8. ASSUME NEW t \in Threads, Continues(t)
      PROVE items'[i].status # "unused" /\ items'[i].code = items[i].code
  <2>1. request[t].code \in Projects
    BY DEF Requests
  <2>. QED BY <2>1, <1>1, <1>3, <1>8
           DEF Continues, DisableReads, SettingsWritten, SyncReads, SyncOffer, SyncQueue, AddAppends
<1>9. ASSUME NEW t \in Threads, NEW c \in Projects, Disable(t, c) \/ Enable(t, c) \/ Add(t, c)
      PROVE items'[i].status # "unused" /\ items'[i].code = items[i].code
  BY <1>1, <1>2, <1>9 DEF Disable, Enable, Add, Queued, ItemsOf
<1>10. CASE UNCHANGED vars
  BY <1>1, <1>10 DEF vars
<1>. QED BY <1>1, <1>4, <1>5, <1>6, <1>7, <1>8, <1>9, <1>10 DEF Next

\* A refill fails a waiting item only if its project was off the offer at some
\* time since the round began.
THEOREM WaitingWorkKept == Spec => NoWorkDiscarded
<1>1. Init => DoubtInv
  BY DEF Init, DoubtInv, Reviewing, IdleRefill
<1>2. TypeOK /\ DoubtInv /\ [Next]_vars => DoubtInv'
  <2>. SUFFICES ASSUME TypeOK, DoubtInv, [Next]_vars PROVE DoubtInv'
    OBVIOUS
  <2>. USE DEF DoubtInv, Reviewing
  <2>1. ASSUME UNCHANGED <<offered, refill, doubted>> PROVE DoubtInv'
    <3>1. \A i \in Items : items[i].status # "unused" =>
             items'[i].status # "unused" /\ items'[i].code = items[i].code
      BY CodesKept
    <3>2. refill.unfit \subseteq Items
      BY DEF TypeOK, Locals
    <3>. QED BY <2>1, <3>1, <3>2
  <2>2. CASE RefillStarts
    BY <2>2 DEF RefillStarts, IdleRefill
  <2>3. CASE RefillSteps
    <3>. USE DEF TypeOK, Locals
    <3>1. ASSUME NEW listed \in SUBSET Projects, RefillReads(listed) PROVE DoubtInv'
      BY <3>1 DEF RefillReads
    <3>2. CASE RefillLooks
      BY <3>2 DEF RefillLooks, Unfit, Waiting
    <3>3. ASSUME NEW i \in Items, RefillFails(i) PROVE DoubtInv'
      <4>1. \A k \in Items : items[k].status # "unused" =>
               items'[k].status # "unused" /\ items'[k].code = items[k].code
        BY CodesKept
      <4>. QED BY <3>3, <4>1 DEF RefillFails
    <3>4. CASE RefillCounts
      BY <3>4 DEF RefillCounts
    <3>5. CASE RefillTracks
      BY <3>5 DEF RefillTracks
    <3>6. ASSUME NEW c \in Projects, RefillChooses(c) PROVE DoubtInv'
      BY <3>6 DEF RefillChooses
    <3>7. CASE RefillAdds
      BY <3>7 DEF RefillAdds
    <3>8. CASE RefillEnds
      BY <3>8 DEF RefillEnds, IdleRefill
    <3>. QED BY <2>3, <3>1, <3>2, <3>3, <3>4, <3>5, <3>6, <3>7, <3>8 DEF RefillSteps
  <2>4. CASE Restart
    BY <2>4 DEF Restart, IdleRefill
  <2>5. ASSUME NEW c \in Projects, OfferChanges(c) PROVE DoubtInv'
    BY <2>5 DEF OfferChanges
  <2>6. ASSUME NEW i \in Items, Tick(i) \/ Sync(i) \/ Retry(i) \/ Remove(i)
        PROVE  DoubtInv'
    BY <2>1, <2>6, ItemStepsFrame DEF Frame
  <2>7. ASSUME NEW t \in Threads, Continues(t) PROVE DoubtInv'
    BY <2>1, <2>7
    DEF Continues, DisableReads, SettingsWritten, SyncReads, SyncOffer, SyncQueue, AddAppends
  <2>8. ASSUME NEW t \in Threads, NEW c \in Projects, Disable(t, c) \/ Enable(t, c) \/ Add(t, c)
        PROVE DoubtInv'
    BY <2>1, <2>8 DEF Disable, Enable, Add
  <2>9. CASE UNCHANGED vars
    BY <2>1, <2>9 DEF vars
  <2>. QED BY <2>2, <2>3, <2>4, <2>5, <2>6, <2>7, <2>8, <2>9 DEF Next
<1>3. DoubtInv /\ [Next]_vars =>
        [\A i \in Items : RefillFails(i) /\ items'[i] # items[i] => items[i].code \in doubted]_vars
  BY DEF RefillFails, DoubtInv
<1>. QED BY <1>1, <1>2, <1>3, TypeCorrect, PTL DEF Spec, NoWorkDiscarded

-----------------------------------------------------------------------------
\* Only a retry or an attempt that comes back makes a second item of a project live:
\* an addition looks for one under the lock under which it appends.
THEOREM AdditionsUnique == Spec => AddsNeverDouble
<1>1. ASSUME TypeOK, [Next]_vars, \A i \in Items : ~Retry(i) /\ ~Revives(i),
             NEW c \in Projects, Doubled(c)'
      PROVE  Doubled(c)
  <2>. USE <1>1 DEF TypeOK
  <2>1. ASSUME Live(c)' \subseteq Live(c) PROVE Doubled(c)
    BY <2>1 DEF Doubled
  <2>2. ASSUME UNCHANGED items PROVE Doubled(c)
    BY <2>1, <2>2 DEF Live, ItemsOf
  <2>3. ASSUME NEW k \in Items, NEW s, SetStatus(k, s),
               s \in {"pending", "active"} => items[k].status \in {"pending", "active"}
        PROVE  Doubled(c)
    BY <2>1, <2>3 DEF SetStatus, Live, ItemsOf
  <2>3a. ASSUME NEW k \in Items, NEW from, NEW to, NEW begun, Turns(k, from, to, begun),
                from \subseteq {"pending", "active"} \/ to \cap {"pending", "active"} = {}
         PROVE  Doubled(c)
    BY <2>1, <2>3a DEF Turns, Became, Live, ItemsOf
  <2>4. ASSUME NEW k \in Items, NEW d \in Projects, Appended(d, k) PROVE Doubled(c)
    <3>1. CASE d = c
      <4>1. Live(c) = {}
        BY <2>4, <3>1 DEF Appended, Refused, Live
      <4>2. Live(c)' \subseteq {k}
        BY <2>4, <4>1 DEF Appended, Added, Live, ItemsOf
      <4>. QED BY <4>2 DEF Doubled
    <3>2. CASE d # c
      BY <2>1, <2>4, <3>2 DEF Appended, Added, Live, ItemsOf
    <3>. QED BY <3>1, <3>2
  <2>5. ASSUME NEW k \in Items, RefillFails(k) PROVE Doubled(c)
    BY <2>2, <2>3, <2>5 DEF RefillFails, SetStatus
  <2>6. CASE RefillStarts \/ RefillSteps
    <3>1. refill.choice \in Projects
      BY DEF Locals
    <3>. QED
      BY <2>2, <2>4, <2>5, <2>6, <3>1 DEF RefillStarts, RefillSteps, RefillReads, RefillLooks,
         RefillCounts, RefillTracks, RefillChooses, RefillAdds, RefillEnds
  <2>7. CASE Restart
    BY <2>2, <2>7 DEF Restart
  <2>8. ASSUME NEW k \in Items, Tick(k) \/ Sync(k) \/ Remove(k) PROVE Doubled(c)
    <3>1. CASE Launches(k) \/ Skips(k) \/ Fails(k) \/ SyncEnds(k)
      BY <2>3a, <3>1 DEF Launches, Skips, Fails, SyncEnds
    <3>2. CASE Requeue(k) \/ Orphans(k) \/ Follows(k) \/ Removes(k)
      BY <2>3a, <3>2 DEF Requeue, Orphans, Follows, Removes
    <3>. QED BY <2>8, <3>1, <3>2 DEF Tick, Sync, Remove
  <2>9. ASSUME NEW d \in Projects, OfferChanges(d) PROVE Doubled(c)
    BY <2>2, <2>9 DEF OfferChanges
  <2>10. ASSUME NEW t \in Threads, Continues(t) PROVE Doubled(c)
    BY <2>2, <2>4, <2>10
    DEF Requests, Continues, DisableReads, SettingsWritten, SyncReads, SyncOffer, SyncQueue, AddAppends
  <2>11. ASSUME NEW t \in Threads, NEW d \in Projects, Disable(t, d) \/ Enable(t, d) \/ Add(t, d)
         PROVE Doubled(c)
    BY <2>2, <2>3, <2>11 DEF Disable, Enable, Add, Queued, ItemsOf
  <2>12. CASE UNCHANGED vars
    BY <2>2, <2>12 DEF vars
  <2>. QED BY <2>6, <2>7, <2>8, <2>9, <2>10, <2>11, <2>12 DEF Next
<1>2. TypeOK /\ [Next]_vars =>
        [(\E i \in Items : Retry(i) \/ Revives(i))
         \/ \A c \in Projects : Doubled(c)' => Doubled(c)]_vars
  BY <1>1
<1>. QED BY <1>2, TypeCorrect, PTL DEF Spec, AddsNeverDouble
=============================================================================
