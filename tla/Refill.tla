------------------------------- MODULE Refill -------------------------------
(***************************************************************************)
(* What is in the queue and what is disabled: the refill of the scheduler  *)
(* thread, the operator's requests to disable, enable, add and retry       *)
(* projects, and the tick, over the items of several projects.             *)
(*                                                                         *)
(* The refill and the tick are one thread, each HTTP request has its own.  *)
(* The queue lock is taken per call: a handler that makes several calls is *)
(* several steps here, and others run between them.                        *)
(*                                                                         *)
(* Task types only order the refill's choice, which is random: one offer   *)
(* stands for the offers of all types.                                     *)
(*                                                                         *)
(* No lock is held from the moment a request reads the disabled projects   *)
(* until it has written them and copied them to both blocklists: any       *)
(* number of requests may be at any step of this at a time.                *)
(***************************************************************************)
EXTENDS Naturals, FiniteSets

CONSTANTS
    Projects,
    Threads,         \* HTTP requests that may be under way at a time
    MaxItems,        \* bound: items ever added to the queue
    Target,          \* autoRefill.targetPending
    Batch,           \* autoRefill.batchSize
    OfferedFirst,    \* what the manager offers when the monitor starts
    DisabledFirst,   \* what an earlier run of the monitor left disabled
    MaxDisturbances, \* bound: requests by operators, restarts, changes of the
                     \* offer, requeues and orphans together
    Events           \* optional behaviours in this instance

\* "retries": an operator retries an ended item; "orphans": an item loses its
\* executor and keeps its slot; "revives": a late attempt of an item that
\* waits or has ended is found, or is given a retry; "partial": reads of the offer fail or are cut.
AllEvents == {"retries", "orphans", "revives", "partial"}

ASSUME BoundsAssumption ==
    /\ Projects # {}
    /\ MaxItems \in Nat
    /\ Target \in Nat \ {0}
    /\ Batch \in Nat \ {0}
    /\ OfferedFirst \subseteq Projects /\ DisabledFirst \subseteq Projects
    /\ MaxDisturbances \in Nat
    /\ Events \subseteq AllEvents

Items == 1 .. MaxItems

VARIABLES
    items,       \* the queue and its archive: project and status of each item,
                 \* and whether it names the files of an attempt
    offered,     \* projects the Solo manager offers with quota and source
    disabled,    \* disabledProjects in settings.json
    offBlocked,  \* the blocklist of the platform client
    addBlocked,  \* the blocklist of the queue
    refill,      \* the refill: its place and its locals
    request,     \* each HTTP request: its place and its locals
    doubted,     \* history: projects off the offer since the round began
    overtaken,   \* history: requests that hold a list older than the settings
    outdated,    \* history: blocklists whose last copy was of a list older than the settings
    disturbances

blocklists == <<disabled, offBlocked, addBlocked, overtaken, outdated>>
vars == <<items, offered, blocklists, refill, request, doubted, disturbances>>

Waiting == {i \in Items : items[i].status = "pending"}
Occupying == {i \in Items : items[i].status \in {"active", "orphaned"}}
ItemsOf(c) == {i \in Items : items[i].status # "unused" /\ items[i].code = c}
\* "done" items are archived and no longer in the queue, "gone" ones removed.
Queued(c) == {i \in ItemsOf(c) : items[i].status \notin {"done", "gone"}}
Reviewing == refill.at \in {"reading", "read", "failing"}
Tracked == {c \in Projects : \E i \in ItemsOf(c) : items[i].status # "gone"}

Statuses == {"unused", "pending", "active", "orphaned", "failed", "skipped", "done", "gone"}
RefillPlaces == {"idle", "reading", "read", "failing", "counted", "filling", "adding"}
RequestPlaces == {"idle", "adding", "removed", "writing", "written", "syncing", "syncedOffer"}

Locals == [at : RefillPlaces, offer : SUBSET Projects, excluded : SUBSET Projects,
           unfit : SUBSET Items, room : 0 .. Target, pending : Nat,
           tracked : SUBSET Projects, added : 0 .. Batch, choice : Projects]

Requests == [at : RequestPlaces, code : Projects, codes : SUBSET Projects]

TypeOK ==
    /\ items \in [Items -> [code : Projects, status : Statuses, begun : BOOLEAN]]
    /\ offered \subseteq Projects
    /\ disabled \subseteq Projects /\ offBlocked \subseteq Projects /\ addBlocked \subseteq Projects
    /\ refill \in Locals
    /\ refill.at = "adding" => refill.added < Batch /\ refill.pending < refill.room
    /\ request \in [Threads -> Requests]
    /\ doubted \subseteq Projects
    /\ overtaken \subseteq Threads
    /\ outdated \subseteq {"offer", "queue"}
    /\ disturbances \in 0 .. MaxDisturbances

\* Values of the locals that are not in use.
NoProject == CHOOSE c \in Projects : TRUE
IdleRefill == [at |-> "idle", offer |-> {}, excluded |-> {}, unfit |-> {}, room |-> 0,
               pending |-> 0, tracked |-> {}, added |-> 0, choice |-> NoProject]
IdleRequest == [at |-> "idle", code |-> NoProject, codes |-> {}]

Added(c, s) == [code |-> c, status |-> s, begun |-> FALSE]

Init ==
    /\ items = [i \in Items |-> Added(NoProject, "unused")]
    /\ offered = OfferedFirst
    /\ disabled = DisabledFirst
    /\ offBlocked = disabled /\ addBlocked = disabled
    /\ refill = IdleRefill
    /\ request = [t \in Threads |-> IdleRequest]
    /\ doubted = {} /\ overtaken = {} /\ outdated = {}
    /\ disturbances = 0

-----------------------------------------------------------------------------
(* The queue: add_platform, and what becomes of an item                    *)

\* The next item of the list; identifiers are never used twice.
Fresh(i) == items[i].status = "unused" /\ \A k \in Items : k < i => items[k].status # "unused"

HasFresh == \E i \in Items : Fresh(i)

\* add_platform refuses a project that waits or runs, under the queue lock.
Refused(c) == \E i \in ItemsOf(c) : items[i].status \in {"pending", "active"}

\* Fault: the duplicate check is made before the lock is taken.
AppendedUnchecked(c, i) ==
    /\ Fresh(i)
    /\ items' = [items EXCEPT ![i] = Added(c, "pending")]

\* The part of add_platform under the lock: an item more, or a MonitorError.
Appended(c, i) ==
    /\ ~Refused(c)
    /\ Fresh(i)
    /\ items' = [items EXCEPT ![i] = Added(c, "pending")]

SetStatus(i, s) == items' = [items EXCEPT ![i].status = s]
Became(i, s, begun) == items' = [items EXCEPT ![i].status = s, ![i].begun = begun]
Turns(i, from, to, begun) == items[i].status \in from /\ \E s \in to : Became(i, s, begun)

\* The tick launches a waiting item, skips it because it is on the stop list, or
\* fails it because start_platform raised; fail_item does as the last.
Launches(i) == Turns(i, {"pending"}, {"active"}, TRUE)
Skips(i) == Turns(i, {"pending"}, {"skipped"}, items[i].begun)
Fails(i) == Turns(i, {"pending"}, {"failed"}, items[i].begun)

\* The sync finds the attempt ended, whatever the item's status has become.
SyncEnds(i) ==
    /\ items[i].begun
    /\ Turns(i, {"pending", "active", "orphaned", "failed", "skipped"}, {"failed", "done"}, TRUE)

\* requeue_stalled forgets the attempt, apply_failure and a reservation that
\* timed out keep its files.
Requeue(i) == \E begun \in BOOLEAN : Turns(i, {"active"}, {"pending"}, begun)

\* Orphaned by a sync, released by the reconcile loop or the operator; an item
\* may be active without files, when the monitor stopped before it had any.
Orphans(i) ==
    /\ "orphans" \in Events
    /\ \/ Turns(i, {"active"}, {"orphaned"}, TRUE)
       \/ \E begun \in BOOLEAN : Turns(i, {"orphaned"}, {"skipped"}, begun)

\* A waiting item turns out to be under way, an ended one to hold a slot.
Follows(i) ==
    /\ "revives" \in Events /\ items[i].begun
    /\ \/ Turns(i, {"pending"}, {"active", "orphaned"}, TRUE)
       \/ Turns(i, {"failed", "skipped"}, {"orphaned"}, TRUE)

\* An orphan is found running or requeued; an ended item is found running, or
\* its failure is one that is tried again.
Revives(i) ==
    \/ Turns(i, {"orphaned"}, {"active"}, TRUE)
    \/ Turns(i, {"orphaned"}, {"pending"}, FALSE)
    \/ /\ "revives" \in Events /\ items[i].begun
       /\ Turns(i, {"failed", "skipped"}, {"pending", "active"}, TRUE)

\* retry and remove refuse an item that occupies a slot; clear_finished removes
\* ended items too.
Retries(i) == Turns(i, {"pending", "failed", "skipped"}, {"pending"}, FALSE)
Removes(i) == Turns(i, {"pending", "failed", "skipped"}, {"gone"}, items[i].begun)

\* All that becomes of an item once it is in the queue.
Changes(i) ==
    \/ Launches(i) \/ Skips(i) \/ Fails(i) \/ SyncEnds(i) \/ Requeue(i) \/ Orphans(i)
    \/ Follows(i) \/ Revives(i) \/ Retries(i) \/ Removes(i)

-----------------------------------------------------------------------------
(* The tick and the sync, and what the manager offers                      *)

Disturbs == disturbances < MaxDisturbances /\ disturbances' = disturbances + 1

\* The tick is in the thread of the refill.
Tick(i) ==
    /\ refill.at = "idle"
    /\ \/ (Launches(i) \/ Skips(i)) /\ UNCHANGED disturbances
       \/ Disturbs /\ Fails(i)
    /\ UNCHANGED <<offered, blocklists, refill, request, doubted>>

\* The sync is done by any thread that reads the queue. That an orphan is found
\* again is not counted as a mishap: that it was orphaned is.
Sync(i) ==
    /\ \/ SyncEnds(i) /\ UNCHANGED disturbances
       \/ Revives(i) /\ items[i].status = "orphaned" /\ UNCHANGED disturbances
       \/ Disturbs /\ (Requeue(i) \/ Orphans(i) \/ Follows(i) \/ Revives(i))
    /\ UNCHANGED <<offered, blocklists, refill, request, doubted>>

\* What the manager offers changes: quota used or given back, a claim, a
\* container.
OfferChanges(c) ==
    /\ Disturbs
    /\ offered' = IF c \in offered THEN offered \ {c} ELSE offered \cup {c}
    /\ doubted' = IF ~Reviewing THEN {} ELSE doubted \cup (Projects \ offered')
    /\ UNCHANGED <<items, blocklists, refill, request>>

-----------------------------------------------------------------------------
(* maybe_refill_queue                                                      *)

RefillStarts ==
    /\ refill.at = "idle"
    /\ refill' = [IdleRefill EXCEPT !.at = "reading"]
    /\ doubted' = Projects \ offered
    /\ UNCHANGED <<items, offered, blocklists, request, disturbances>>

\* candidates(force=True): what was listed, split into the offer and the
\* projects excluded for a reason that is final.  A stage that fails and the cut
\* after 200 exclusions leave projects out of both; blocked ones are taken out
\* of the offer at the end, and their reason is none that fails an item.
RefillReads(listed) ==
    /\ refill.at = "reading"
    /\ refill' = [refill EXCEPT !.at = "read",
                                !.offer = (listed \cap offered) \ offBlocked,
                                !.excluded = listed \ offered]
    /\ UNCHANGED <<items, offered, blocklists, request, doubted, disturbances>>

\* Fault: what is not in the offer counts as excluded.
UnfitUnlisted == {i \in Waiting : items[i].code \notin refill.offer}

\* Waiting items that the refill will fail.
Unfit == {i \in Waiting : items[i].code \in refill.excluded \ refill.offer}

\* queue.snapshot(): what waits and what occupies a slot.
RefillLooks ==
    /\ refill.at = "read"
    /\ LET busy == Cardinality(Occupying) IN
         refill' = [refill EXCEPT !.at = "failing",
                                  !.excluded = {},
                                  !.unfit = Unfit,
                                  !.room = IF busy < Target THEN Target - busy ELSE 0]
    /\ UNCHANGED <<items, offered, blocklists, request, doubted, disturbances>>

\* fail_item leaves an item alone that no longer waits.
RefillFails(i) ==
    /\ refill.at = "failing"
    /\ i \in refill.unfit
    /\ refill' = [refill EXCEPT !.unfit = @ \ {i}]
    /\ items' = IF items[i].status = "pending" THEN [items EXCEPT ![i].status = "failed"] ELSE items
    /\ UNCHANGED <<offered, blocklists, request, doubted, disturbances>>

RefillCounts ==
    /\ refill.at = "failing"
    /\ refill.unfit = {}
    /\ refill' = [refill EXCEPT !.at = "counted", !.pending = Cardinality(Waiting)]
    /\ doubted' = {}
    /\ UNCHANGED <<items, offered, blocklists, request, disturbances>>

RefillTracks ==
    /\ refill.at = "counted"
    /\ refill' = [refill EXCEPT !.at = "filling", !.tracked = Tracked]
    /\ UNCHANGED <<items, offered, blocklists, request, doubted, disturbances>>

\* Fault: the round goes on until the queue is full.
ChoicesUnbounded == {c \in refill.offer \ refill.tracked : refill.pending < refill.room}

Choices == {c \in refill.offer \ refill.tracked : refill.added < Batch /\ refill.pending < refill.room}

\* The part of add_platform before the lock: a blocked project is refused.
RefillChooses(c) ==
    /\ refill.at = "filling"
    /\ c \in Choices
    /\ refill' = IF c \in addBlocked
                 THEN [refill EXCEPT !.tracked = @ \cup {c}]
                 ELSE [refill EXCEPT !.tracked = @ \cup {c}, !.at = "adding", !.choice = c]
    /\ UNCHANGED <<items, offered, blocklists, request, doubted, disturbances>>

RefillAdds ==
    /\ refill.at = "adding"
    /\ \/ /\ \E i \in Items : Appended(refill.choice, i)
          /\ refill' = [refill EXCEPT !.at = "filling", !.choice = NoProject,
                                      !.added = @ + 1, !.pending = @ + 1]
       \/ /\ Refused(refill.choice) \/ ~HasFresh
          /\ refill' = [refill EXCEPT !.at = "filling", !.choice = NoProject]
          /\ UNCHANGED items
    /\ UNCHANGED <<offered, blocklists, request, doubted, disturbances>>

RefillEnds ==
    /\ refill.at = "filling"
    /\ Choices = {}
    /\ refill' = IdleRefill
    /\ UNCHANGED <<items, offered, blocklists, request, doubted, disturbances>>

RefillSteps ==
    \/ \E listed \in SUBSET Projects :
         /\ listed = Projects \/ "partial" \in Events
         /\ RefillReads(listed)
    \/ RefillLooks \/ RefillCounts \/ RefillTracks \/ RefillAdds \/ RefillEnds
    \/ \E i \in Items : RefillFails(i)
    \/ \E c \in Projects : RefillChooses(c)

-----------------------------------------------------------------------------
(* Requests of operators                                                   *)

\* Each request has a thread of its own; which of the free ones makes no difference.
Begin(t, at, c, codes) ==
    /\ request[t].at = "idle"
    /\ t = CHOOSE s \in Threads : request[s].at = "idle"
    /\ Disturbs
    /\ request' = [request EXCEPT ![t] = [at |-> at, code |-> c, codes |-> codes]]

\* A request copies its list to the blocklists; it holds a list to write or to
\* copy; it works on the settings.
Copies(t) == request[t].at \in {"syncing", "syncedOffer"}
Holds(t) == request[t].at = "writing" \/ Copies(t)
Settles(t) == request[t].at \notin {"idle", "adding"}

\* disable_project: first one item of the project is removed, the one that the
\* page names or the first in the list, whose order moves and shuffles change.
Disable(t, c) ==
    /\ Begin(t, "removed", c, {})
    /\ \/ Queued(c) = {} /\ UNCHANGED items
       \/ \E i \in Queued(c) \ Occupying : SetStatus(i, "gone")
    /\ UNCHANGED <<offered, blocklists, refill, doubted>>

\* Fault: the list is that of the queue, not that of the settings.
DisableReadsCopy(t) ==
    /\ request[t].at = "removed"
    /\ request' = [request EXCEPT ![t].at = "writing", ![t].codes = addBlocked \cup {request[t].code}]
    /\ UNCHANGED <<items, offered, blocklists, refill, doubted, disturbances>>

\* Then the list of disabled projects is read, to be written with this one.
DisableReads(t) ==
    /\ request[t].at = "removed"
    /\ request' = [request EXCEPT ![t].at = "writing", ![t].codes = disabled \cup {request[t].code}]
    /\ UNCHANGED <<items, offered, blocklists, refill, doubted, disturbances>>

Enable(t, c) ==
    /\ Begin(t, "writing", c, disabled \ {c})
    /\ UNCHANGED <<items, offered, blocklists, refill, doubted>>

\* The lists that other requests hold are older than the settings now.
Overtakes(t) == overtaken' = {s \in Threads \ {t} : Holds(s)}

\* Fault: the request returns without _sync_blocklist.
SettingsUnsynced(t) ==
    /\ request[t].at = "writing"
    /\ disabled' = request[t].codes
    /\ request' = [request EXCEPT ![t] = IdleRequest]
    /\ Overtakes(t)
    /\ UNCHANGED <<items, offered, offBlocked, addBlocked, outdated, refill, doubted, disturbances>>

SettingsWritten(t) ==
    /\ request[t].at = "writing"
    /\ disabled' = request[t].codes
    /\ request' = [request EXCEPT ![t].at = "written", ![t].code = NoProject, ![t].codes = {}]
    /\ Overtakes(t)
    /\ UNCHANGED <<items, offered, offBlocked, addBlocked, outdated, refill, doubted, disturbances>>

\* _sync_blocklist: the codes are read from the settings once, then given to
\* the platform client and to the queue.
SyncReads(t) ==
    /\ request[t].at = "written"
    /\ request' = [request EXCEPT ![t].at = "syncing", ![t].codes = disabled]
    /\ UNCHANGED <<items, offered, blocklists, refill, doubted, disturbances>>

SyncOffer(t) ==
    /\ request[t].at = "syncing"
    /\ offBlocked' = request[t].codes
    /\ outdated' = IF t \in overtaken THEN outdated \cup {"offer"} ELSE outdated \ {"offer"}
    /\ request' = [request EXCEPT ![t].at = "syncedOffer"]
    /\ UNCHANGED <<items, offered, disabled, addBlocked, overtaken, refill, doubted, disturbances>>

SyncQueue(t) ==
    /\ request[t].at = "syncedOffer"
    /\ addBlocked' = request[t].codes
    /\ outdated' = IF t \in overtaken THEN outdated \cup {"queue"} ELSE outdated \ {"queue"}
    /\ overtaken' = overtaken \ {t}
    /\ request' = [request EXCEPT ![t] = IdleRequest]
    /\ UNCHANGED <<items, offered, disabled, offBlocked, refill, doubted, disturbances>>

\* queue-add-platform, before and under the lock.
Add(t, c) ==
    /\ c \notin addBlocked
    /\ Begin(t, "adding", c, {})
    /\ UNCHANGED <<items, offered, blocklists, refill, doubted>>

AddAppends(t) ==
    /\ request[t].at = "adding"
    /\ \/ \E i \in Items : Appended(request[t].code, i)
       \/ (Refused(request[t].code) \/ ~HasFresh) /\ UNCHANGED items
    /\ request' = [request EXCEPT ![t] = IdleRequest]
    /\ UNCHANGED <<offered, blocklists, refill, doubted, disturbances>>

Continues(t) ==
    \/ DisableReads(t) \/ SettingsWritten(t) \/ SyncReads(t) \/ SyncOffer(t)
    \/ SyncQueue(t) \/ AddAppends(t)

\* retry and remove are one call each.
Retry(i) ==
    /\ "retries" \in Events
    /\ Disturbs /\ Retries(i)
    /\ UNCHANGED <<offered, blocklists, refill, request, doubted>>

Remove(i) ==
    /\ Disturbs /\ Removes(i)
    /\ UNCHANGED <<offered, blocklists, refill, request, doubted>>

\* Fault: start() does not read the blocklist from the settings.
RestartUnsynced ==
    /\ Disturbs
    /\ refill' = IdleRefill
    /\ request' = [t \in Threads |-> IdleRequest]
    /\ offBlocked' = {} /\ addBlocked' = {} /\ overtaken' = {} /\ outdated' = {}
    /\ doubted' = {}
    /\ UNCHANGED <<items, offered, disabled>>

\* The monitor stops at any point and starts again: the threads begin anew and
\* the blocklists are read from the settings before any of them does.
Restart ==
    /\ Disturbs
    /\ refill' = IdleRefill
    /\ request' = [t \in Threads |-> IdleRequest]
    /\ offBlocked' = disabled /\ addBlocked' = disabled /\ overtaken' = {} /\ outdated' = {}
    /\ doubted' = {}
    /\ UNCHANGED <<items, offered, disabled>>

Next ==
    \/ RefillStarts \/ RefillSteps \/ Restart
    \/ \E i \in Items : Tick(i) \/ Sync(i) \/ Retry(i) \/ Remove(i)
    \/ \E c \in Projects : OfferChanges(c)
    \/ \E t \in Threads : Continues(t) \/ \E c \in Projects : Disable(t, c) \/ Enable(t, c) \/ Add(t, c)

Spec == Init /\ [][Next]_vars

-----------------------------------------------------------------------------
(* Safety                                                                  *)

\* Once no request has a list to copy, both blocklists in memory are the disabled
\* projects of settings.json, whatever requests ran beside each other and through
\* restarts at any step.  The one exception is a request whose list another has
\* overtaken between _sync_blocklist's read and its copies (service.py:829-832):
\* it leaves the older list, until one that is not copies again or the monitor restarts.
BlocklistAgrees ==
    (\A t \in Threads : request[t].at # "written" /\ ~Copies(t)) =>
        /\ "offer" \notin outdated => offBlocked = disabled
        /\ "queue" \notin outdated => addBlocked = disabled

\* A request that disables or enables a project takes no other project off the
\* list of the settings and adds none, also beside other requests, unless one of
\* them has written since it read the list (service.py:849-858, 864-869).
OnlyOwnProject ==
    [][\A t \in Threads : SettingsWritten(t) /\ t \notin overtaken =>
          \A c \in Projects \ {request[t].code} : c \in disabled' <=> c \in disabled]_vars

\* A refill fails a waiting item only if its project was off the manager's
\* offer at some time in this round: a read that fails, stops early or leaves a
\* disabled project out never discards queued work.
NoWorkDiscarded ==
    [][\A i \in Items : RefillFails(i) /\ items'[i] # items[i] => items[i].code \in doubted]_vars

\* Only a retry by hand, or an orphan or ended item whose attempt comes back, gives
\* a project a second item that waits or runs; additions never do, whichever
\* threads add at once.
Live(c) == {i \in ItemsOf(c) : items[i].status \in {"pending", "active"}}
Doubled(c) == \E i, k \in Live(c) : i # k
AddsNeverDouble ==
    [][(\E i \in Items : Retry(i) \/ Revives(i)) \/ \A c \in Projects : Doubled(c)' => Doubled(c)]_vars

\* Why BlocklistAgrees and OnlyOwnProject hold: a list in a request's hands is that
\* of the settings, but for the request's own project, as long as nobody wrote;
\* and the blocklists are current once the last request with such a list has
\* copied it.
SyncInv ==
    /\ \A t \in Threads : Copies(t) /\ t \notin overtaken => request[t].codes = disabled
    /\ \A t \in Threads : request[t].at = "writing" /\ t \notin overtaken =>
          \A c \in Projects \ {request[t].code} : c \in request[t].codes <=> c \in disabled
    /\ (\A t \in Threads : request[t].at \notin {"written", "syncing"}) =>
          ("offer" \notin outdated => offBlocked = disabled)
    /\ BlocklistAgrees

\* Why NoWorkDiscarded holds: what is off the offer is doubted, so is what the
\* read found excluded, and so are the projects of the items to be failed.
DoubtInv ==
    /\ Reviewing => Projects \ offered \subseteq doubted
    /\ refill.at = "read" => refill.excluded \subseteq doubted
    /\ refill.at = "failing" =>
         \A i \in refill.unfit : items[i].status # "unused" /\ items[i].code \in doubted

\* service.py:835, tests/test_scheduler.py:862: a project that is disabled never
\* comes back; no request works on the settings at that time.
DisabledStaysOut ==
    [][\A i \in Items : items[i].status = "pending" /\ items'[i].status = "active"
                         => items[i].code \notin disabled \/ \E t \in Threads : Settles(t)]_vars

-----------------------------------------------------------------------------
(* Liveness                                                                *)

\* The scheduler thread catches every exception and goes on, a request thread
\* that has begun ends, and the manager answers in full again and again.
Fairness ==
    /\ WF_vars(RefillStarts)
    /\ WF_vars(RefillSteps)
    /\ SF_vars(RefillReads(Projects))
    /\ \A t \in Threads : WF_vars(Continues(t))
FairSpec == Spec /\ Fairness

\* A project on offer that is neither disabled nor known to the queue is added
\* as long as there is room: the queue does not run dry while there is work,
\* and a project that was disabled and enabled again does come back, unless a
\* request overtaken by another left it on a blocklist.
Wanted(c) ==
    /\ c \in offered \ disabled
    /\ outdated = {}
    /\ c \notin Tracked
    /\ Cardinality(Waiting \cup Occupying) < Target
    /\ HasFresh
WantedIsQueued == \A c \in Projects : Wanted(c) ~> ~Wanted(c)
=============================================================================
