---------------------------- MODULE EventStream ----------------------------
(***************************************************************************)
(* One page and the stream it lives on: the snapshot hub that pushes the   *)
(* cards that changed, the scheduler log with its numbered entries, the    *)
(* handler of /api/stream, and the page that applies what arrives.         *)
(*                                                                         *)
(* The hub thread, the handler thread, the threads that emit log entries   *)
(* and the page take steps of their own; locks are held within one step.   *)
(* A connection may break and the monitor may stop at any point.           *)
(*                                                                         *)
(* A card is its serialised text.  Messages that carry no card, and the    *)
(* summary in the others, are left out.                                    *)
(***************************************************************************)
EXTENDS Naturals, Sequences

CONSTANTS
    Cards,
    Texts,           \* what a card may read
    Absent,          \* a card that does not exist
    QueueRoom,       \* the hub's queue of a subscriber (200 in the code)
    LogRoom,         \* the log's queue of a subscriber (1000)
    RingRoom,        \* entries the log keeps in memory (2000)
    Backlog,         \* entries replayed when a stream opens (500)
    WireRoom,        \* bound: frames on their way before a write blocks
    MaxChanges,      \* bound: changes of cards
    MaxEntries,      \* bound: log entries
    MaxFetches,      \* bound: fetches of /api/snapshot beside the stream
    MaxMishaps       \* bound: broken connections, restarts, rotations

ASSUME RoomAssumption ==
    /\ Cards # {}
    /\ Absent \notin Texts
    /\ QueueRoom \in Nat \ {0} /\ LogRoom \in Nat \ {0} /\ RingRoom \in Nat \ {0}
    /\ Backlog \in Nat \ {0} /\ WireRoom \in Nat
    /\ MaxChanges \in Nat /\ MaxEntries \in Nat /\ MaxFetches \in Nat /\ MaxMishaps \in Nat

Boards == [Cards -> Texts \cup {Absent}]
Entries == 1 .. MaxEntries
EmptyBoard == [c \in Cards |-> Absent]
NoCards == [c \in {} |-> Absent]
NoBoard == NoCards         \* no snapshot has been built

\* The cards a delta or snapshot names, each with its text or Absent.
News == UNION {[S -> Texts \cup {Absent}] : S \in SUBSET Cards}

VARIABLES
    world,      \* the cards as a build would find them
    hub,        \* the hub thread: its place, the payload read, the delta to push
    full,       \* the last snapshot committed; its cards are _last_cards
    log,        \* last number, first number in memory, first number in the file
    stream,     \* the handler: its place, its locals and its two queues
    wire,       \* frames on the way to the page
    page,       \* the page: cards shown, last number, entries shown
    fetched,    \* the answer to a fetch that is on its way
    doubted,    \* history: cards a snapshot other than the stream's own set last
    lost,       \* history: cards whose last delta fell off the full queue
    cut,        \* history: log entries dropped by one of the log's bounds
    wrapped,    \* history: the log began to number from the start again
    changes, fetches, mishaps

counters == <<changes, fetches, mishaps>>
doubts == <<doubted, lost, cut, wrapped>>
vars == <<world, hub, full, log, stream, wire, page, fetched, doubts, counters>>

\* A frame carries cards, or the log entries from one number to another.
Frames == [news : News, sure : BOOLEAN, from : 1 .. MaxEntries + 1, to : 0 .. MaxEntries]
CardFrame(news, sure) == [news |-> news, sure |-> sure, from |-> 1, to |-> 0]
LogFrame(from, to) == [news |-> NoCards, sure |-> TRUE, from |-> from, to |-> to]
StreamPlaces == {"down", "hub", "log", "backlog", "open"}

TypeOK ==
    /\ world \in Boards
    /\ hub \in [at : {"idle", "built", "committed"}, payload : Boards, delta : News]
    /\ full \in Boards \cup {NoBoard}
    /\ log \in [seq : 0 .. MaxEntries, ring : 1 .. MaxEntries + 1, file : 1 .. MaxEntries + 1]
    /\ stream \in [at : StreamPlaces, after : 0 .. MaxEntries, from : 1 .. MaxEntries + 1, to : 0 .. MaxEntries,
                   deltas : Seq(News), entries : Seq(Entries)]
    /\ Len(stream.deltas) <= QueueRoom /\ Len(stream.entries) <= LogRoom
    /\ wire \in Seq(Frames)
    /\ page \in [view : Boards, lastSeq : 0 .. MaxEntries, seen : SUBSET Entries]
    /\ fetched \in Boards \cup {NoBoard}
    /\ doubted \subseteq Cards /\ lost \subseteq Cards
    /\ cut \subseteq Entries
    /\ wrapped \in BOOLEAN
    /\ changes \in 0 .. MaxChanges /\ fetches \in 0 .. MaxFetches /\ mishaps \in 0 .. MaxMishaps

NoStream == [at |-> "down", after |-> 0, from |-> 1, to |-> 0, deltas |-> <<>>, entries |-> <<>>]
IdleHub == [at |-> "idle", payload |-> EmptyBoard, delta |-> NoCards]

Init ==
    /\ world \in Boards
    /\ hub = IdleHub
    /\ full = NoBoard
    /\ log = [seq |-> 0, ring |-> 1, file |-> 1]
    /\ stream = NoStream
    /\ wire = <<>>
    /\ page = [view |-> EmptyBoard, lastSeq |-> 0, seen |-> {}]
    /\ fetched = NoBoard
    /\ doubted = {} /\ lost = {} /\ cut = {} /\ wrapped = FALSE
    /\ changes = 0 /\ fetches = 0 /\ mishaps = 0

-----------------------------------------------------------------------------
(* The snapshot hub                                                        *)

LastCards == IF full = NoBoard THEN EmptyBoard ELSE full

CardChanges(c, text) ==
    /\ changes < MaxChanges
    /\ text # world[c]
    /\ changes' = changes + 1
    /\ world' = [world EXCEPT ![c] = text]
    /\ UNCHANGED <<hub, full, log, stream, wire, page, fetched, doubts, fetches, mishaps>>

\* build_once, outside the lock: the payload is read.
HubBuilds ==
    /\ hub.at = "idle"
    /\ hub' = [hub EXCEPT !.at = "built", !.payload = world]
    /\ UNCHANGED <<world, full, log, stream, wire, page, fetched, doubts, counters>>

\* Fault: a card that is gone is not reported as removed.
DeltaUnremoved(old, new) == [c \in {d \in Cards : old[d] # new[d] /\ new[d] # Absent} |-> new[c]]

\* What changed and what was removed since the last commit.
Delta(old, new) == [c \in {d \in Cards : old[d] # new[d]} |-> new[c]]

HubCommits ==
    /\ hub.at = "built"
    /\ full' = hub.payload
    /\ hub' = IF LastCards = hub.payload THEN IdleHub
              ELSE [at |-> "committed", payload |-> EmptyBoard, delta |-> Delta(LastCards, hub.payload)]
    /\ UNCHANGED <<world, log, stream, wire, page, fetched, doubts, counters>>

\* Fault: nothing is dropped.
PushedUnbounded(queue, item, room) == Append(queue, item)

\* A deque with a maxlen: what is appended to a full one pushes the first out.
Pushed(queue, item, room) == Append(IF Len(queue) = room THEN Tail(queue) ELSE queue, item)

\* Cards that only the first message of a queue mentions.
OnlyFirst(queue) == {c \in DOMAIN Head(queue) : \A k \in 2 .. Len(queue) : c \notin DOMAIN queue[k]}

\* _push, after the lock was given back: to the subscribers of this moment.
HubPushes ==
    /\ hub.at = "committed"
    /\ hub' = IdleHub
    /\ IF stream.at = "down" THEN UNCHANGED <<stream, lost>>
       ELSE /\ stream' = [stream EXCEPT !.deltas = Pushed(@, hub.delta, QueueRoom)]
            /\ lost' = (IF Len(stream.deltas) = QueueRoom THEN lost \cup OnlyFirst(stream.deltas)
                        ELSE lost) \ DOMAIN hub.delta
    /\ UNCHANGED <<world, full, log, wire, page, fetched, doubted, cut, wrapped, counters>>

-----------------------------------------------------------------------------
(* The scheduler log                                                       *)

Higher(a, b) == IF a < b THEN b ELSE a

\* The ring of n entries that ends with number s, none of them before low.
RingStart(low, s) == Higher(low, IF s < RingRoom THEN 1 ELSE s - RingRoom + 1)

\* Fault: the handler subscribes when it begins to send.
SubscribedLate == stream.at = "open"

Subscribed == stream.at \in {"log", "backlog", "open"}

\* emit, under the log's lock: numbered, written, the file rotated when it is
\* full or old, kept in memory and given to the subscribers.
Emits(rotates) ==
    /\ log.seq < MaxEntries
    /\ rotates => mishaps < MaxMishaps
    /\ mishaps' = IF rotates THEN mishaps + 1 ELSE mishaps
    /\ LET n == log.seq + 1 IN
         /\ log' = [seq |-> n, ring |-> RingStart(log.ring, n),
                    file |-> IF rotates THEN n + 1 ELSE log.file]
         /\ IF ~Subscribed THEN UNCHANGED <<stream, cut>>
            ELSE /\ stream' = [stream EXCEPT !.entries = Pushed(@, n, LogRoom)]
                 /\ cut' = IF Len(stream.entries) = LogRoom THEN cut \cup {Head(stream.entries)} ELSE cut
    /\ UNCHANGED <<world, hub, full, wire, page, fetched, doubted, lost, wrapped, changes, fetches>>

\* after(seq, limit), the first number of what it returns: from memory; from the
\* file when memory begins too late; never more than the last ones.
After(seq) ==
    LET short == log.seq + 1 < Higher(seq + 1, log.ring) + Backlog
        low == IF short /\ log.ring <= log.seq /\ seq + 1 < log.ring THEN log.file ELSE log.ring
    IN Higher(Higher(seq + 1, low), IF log.seq < Backlog THEN 1 ELSE log.seq - Backlog + 1)

-----------------------------------------------------------------------------
(* The handler of /api/stream                                              *)

\* full(): the last snapshot, or one built for this stream when there is none.
FirstFrame == IF full = NoBoard THEN CardFrame(world, FALSE) ELSE CardFrame(full, TRUE)

\* Fault: the page gives up when the connection breaks.
StreamConnectsOnce ==
    /\ stream.at = "down"
    /\ mishaps = 0
    /\ stream' = [NoStream EXCEPT !.at = "hub", !.after = page.lastSeq]
    /\ lost' = {}
    /\ UNCHANGED <<world, hub, full, log, wire, page, fetched, doubted, cut, wrapped, counters>>

\* The page connects, with the last number it has seen.
StreamConnects ==
    /\ stream.at = "down"
    /\ stream' = [NoStream EXCEPT !.at = "hub", !.after = page.lastSeq]
    /\ lost' = {}
    /\ UNCHANGED <<world, hub, full, log, wire, page, fetched, doubted, cut, wrapped, counters>>

StreamSubscribes ==
    /\ stream.at = "hub"
    /\ stream' = [stream EXCEPT !.at = "log"]
    /\ UNCHANGED <<world, hub, full, log, wire, page, fetched, doubts, counters>>

StreamReadsBacklog ==
    /\ stream.at = "log"
    /\ stream' = [stream EXCEPT !.at = "backlog", !.from = After(stream.after), !.to = log.seq]
    /\ cut' = cut \cup (stream.after + 1 .. log.seq \ After(stream.after) .. log.seq)
    /\ UNCHANGED <<world, hub, full, log, wire, page, fetched, doubted, lost, wrapped, counters>>

\* The snapshot, then the backlog.
StreamOpens ==
    /\ stream.at = "backlog"
    /\ wire' = <<FirstFrame>> \o
               IF stream.from > stream.to THEN <<>> ELSE <<LogFrame(stream.from, stream.to)>>
    /\ stream' = [stream EXCEPT !.at = "open", !.from = 1, !.to = 0]
    /\ lost' = {}
    /\ UNCHANGED <<world, hub, full, log, page, fetched, doubted, cut, wrapped, counters>>

\* The loop empties one queue, then the other; here in any order.
StreamSendsDelta ==
    /\ stream.at = "open"
    /\ stream.deltas # <<>>
    /\ Len(wire) < WireRoom
    /\ wire' = Append(wire, CardFrame(Head(stream.deltas), TRUE))
    /\ stream' = [stream EXCEPT !.deltas = Tail(@)]
    /\ UNCHANGED <<world, hub, full, log, page, fetched, doubts, counters>>

StreamSendsEntry ==
    /\ stream.at = "open"
    /\ stream.entries # <<>>
    /\ Len(wire) < WireRoom
    /\ wire' = Append(wire, LogFrame(Head(stream.entries), Head(stream.entries)))
    /\ stream' = [stream EXCEPT !.entries = Tail(@)]
    /\ UNCHANGED <<world, hub, full, log, page, fetched, doubts, counters>>

-----------------------------------------------------------------------------
(* The page                                                                *)

Shown(view, news) == [c \in Cards |-> IF c \in DOMAIN news THEN news[c] ELSE view[c]]

PageReads ==
    /\ wire # <<>>
    /\ wire' = Tail(wire)
    /\ LET frame == Head(wire) IN
         /\ page' = [view |-> Shown(page.view, frame.news),
                     lastSeq |-> Higher(page.lastSeq, frame.to),
                     seen |-> page.seen \cup (frame.from .. frame.to)]
         /\ doubted' = IF frame.sure THEN doubted \ DOMAIN frame.news ELSE doubted \cup DOMAIN frame.news
    /\ UNCHANGED <<world, hub, full, log, stream, fetched, lost, cut, wrapped, counters>>

\* GET /api/snapshot beside the stream, at load, by the refresh button and after
\* an action; its answer may come back after later deltas.
FetchAnswered ==
    /\ fetched = NoBoard
    /\ fetches < MaxFetches
    /\ fetches' = fetches + 1
    /\ fetched' = IF full = NoBoard THEN world ELSE full
    /\ UNCHANGED <<world, hub, full, log, stream, wire, page, doubts, changes, mishaps>>

FetchApplied ==
    /\ fetched # NoBoard
    /\ fetched' = NoBoard
    /\ page' = [page EXCEPT !.view = fetched]
    /\ doubted' = Cards
    /\ UNCHANGED <<world, hub, full, log, stream, wire, lost, cut, wrapped, counters>>

-----------------------------------------------------------------------------
(* Failures                                                                *)

Broken ==
    /\ stream' = NoStream
    /\ wire' = <<>>
    /\ lost' = {}

ConnectionBreaks ==
    /\ mishaps < MaxMishaps
    /\ stream.at # "down"
    /\ mishaps' = mishaps + 1
    /\ Broken
    /\ UNCHANGED <<world, hub, full, log, page, fetched, doubted, cut, wrapped, changes, fetches>>

\* The numbers go on from the last entry of the present file, and a part of
\* the file, the end of it, is read back into memory.
LogRecovers ==
    IF log.seq < log.file THEN log' = [seq |-> 0, ring |-> 1, file |-> 1]
    ELSE \E low \in RingStart(log.file, log.seq) .. log.seq : log' = [log EXCEPT !.ring = low]

MonitorRestarts ==
    /\ mishaps < MaxMishaps
    /\ mishaps' = mishaps + 1
    /\ hub' = IdleHub
    /\ full' = NoBoard
    /\ LogRecovers
    /\ wrapped' = (wrapped \/ (log.seq # 0 /\ log.seq < log.file))
    /\ Broken
    /\ UNCHANGED <<world, page, fetched, doubted, cut, changes, fetches>>

HubSteps == HubBuilds \/ HubCommits \/ HubPushes
StreamSteps ==
    \/ StreamConnects \/ StreamSubscribes \/ StreamReadsBacklog
    \/ StreamOpens \/ StreamSendsDelta \/ StreamSendsEntry

Next ==
    \/ \E c \in Cards, text \in Texts \cup {Absent} : CardChanges(c, text)
    \/ \E rotates \in BOOLEAN : Emits(rotates)
    \/ HubSteps \/ StreamSteps
    \/ PageReads \/ FetchAnswered \/ FetchApplied
    \/ ConnectionBreaks \/ MonitorRestarts

Spec == Init /\ [][Next]_vars

-----------------------------------------------------------------------------
(* Safety                                                                  *)

Doubtful == doubted \cup lost
Quiet == stream.at = "open" /\ stream.deltas = <<>> /\ wire = <<>> /\ hub.at # "committed"

\* When nothing is on the way, every card on the page is the hub's last one,
\* although messages carry only what changed and no number of a message is ever
\* compared.  The exceptions are named: a card last set by a snapshot that came
\* beside the stream or before the first build, and a card whose last delta fell
\* off a full queue, until the card changes again.
CardsInStep == Quiet => \A c \in Cards \ Doubtful : page.view[c] = LastCards[c]

\* The page misses no log entry up to the last it has seen, over every break of
\* the connection and every restart, other than those a bound of the log has
\* dropped, until the log numbers from the start again.
LogComplete == ~wrapped => 1 .. page.lastSeq \subseteq page.seen \cup cut

-----------------------------------------------------------------------------
(* Why the two hold                                                        *)

\* Whether a sequence of messages mentions a card, and which does so last.
Mentions(s, c) == \E k \in DOMAIN s : c \in DOMAIN s[k]
Last(s, k, c) == c \in DOMAIN s[k] /\ \A j \in DOMAIN s : j > k => c \notin DOMAIN s[j]

Told == [k \in DOMAIN wire |-> wire[k].news]
Pushing(c) == hub.at = "committed" /\ c \in DOMAIN hub.delta

\* The last word on a card is right, wherever it is: in the delta to be pushed,
\* else in the queue, else on the wire, else on the page.
Committed == hub.at = "committed" => \A c \in DOMAIN hub.delta : hub.delta[c] = LastCards[c]
QueueInStep(c) ==
    stream.at # "down" => \A k \in DOMAIN stream.deltas :
        Last(stream.deltas, k, c) => stream.deltas[k][c] = LastCards[c]
WireInStep(c) ==
    stream.at = "open" /\ ~Mentions(stream.deltas, c) => \A k \in DOMAIN Told :
        Last(Told, k, c) => ~wire[k].sure \/ Told[k][c] = LastCards[c]
ViewInStep(c) ==
    stream.at = "open" /\ ~Mentions(stream.deltas, c) /\ ~Mentions(Told, c) =>
        c \in doubted \/ page.view[c] = LastCards[c]

CardInv ==
    /\ Committed
    /\ stream.at # "open" => wire = <<>>
    /\ stream.at = "down" => stream.deltas = <<>>
    /\ \A c \in lost : ~Mentions(stream.deltas, c)
    /\ \A c \in Cards : ~Pushing(c) => QueueInStep(c)
    /\ \A c \in Cards \ lost : ~Pushing(c) => WireInStep(c) /\ ViewInStep(c)

\* Every entry up to one that is under way is known to the page, dropped, or
\* before it on its way.
Known == page.seen \cup cut
WireCovers(k) == UNION {wire[j].from .. wire[j].to : j \in 1 .. k}
QueueCovers(k) == {stream.entries[j] : j \in 1 .. k}
Pending == stream.from .. stream.to
LogInv ==
    /\ stream.after <= page.lastSeq
    /\ stream.at # "open" => wire = <<>>
    /\ stream.at # "backlog" => stream.from > stream.to
    /\ stream.at \in {"down", "hub"} => stream.entries = <<>>
    /\ 1 .. page.lastSeq \subseteq Known
    /\ stream.at \in {"backlog", "open"} =>
         /\ 1 .. stream.to \subseteq Known \cup Pending
         /\ \A k \in DOMAIN wire : 1 .. wire[k].to \subseteq Known \cup WireCovers(k)
         /\ \A k \in DOMAIN stream.entries :
              1 .. stream.entries[k] \subseteq Known \cup Pending \cup WireCovers(Len(wire)) \cup QueueCovers(k)
         /\ 1 .. log.seq \subseteq
              Known \cup Pending \cup WireCovers(Len(wire)) \cup QueueCovers(Len(stream.entries))
    /\ \A k \in DOMAIN stream.entries : stream.entries[k] <= log.seq

-----------------------------------------------------------------------------
(* Liveness                                                                *)

\* The hub's loop goes on after every exception, the handler sends what is
\* queued, the page reads, and it connects again after every break.
Fairness ==
    /\ WF_vars(HubSteps)
    /\ WF_vars(StreamConnects) /\ WF_vars(StreamSubscribes) /\ WF_vars(StreamReadsBacklog)
    /\ WF_vars(StreamOpens) /\ SF_vars(StreamSendsDelta) /\ SF_vars(StreamSendsEntry)
    /\ WF_vars(PageReads) /\ WF_vars(FetchApplied)
FairSpec == Spec /\ Fairness

\* Once nothing changes any more, the page comes to show the cards as they are,
\* and every entry of the log, with the exceptions above.
PageConverges ==
    <>[](/\ \A c \in Cards \ Doubtful : page.view[c] = world[c]
         /\ wrapped \/ 1 .. log.seq \subseteq page.seen \cup cut)
=============================================================================
