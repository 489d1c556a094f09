------------------------- MODULE EventStreamProofs -------------------------
(***************************************************************************)
(* The event stream: type correctness, that the page is in step with the   *)
(* hub when nothing is on the way, and that it misses no log entry.        *)
(***************************************************************************)
EXTENDS EventStream, SequenceTheorems, TLAPS

CardTexts == Texts \cup {Absent}

\* What a delta is, for the provers.
LEMMA NewsDef ==
    /\ \A f \in News : DOMAIN f \subseteq Cards /\ \A c \in DOMAIN f : f[c] \in CardTexts
    /\ \A S \in SUBSET Cards : [S -> CardTexts] \subseteq News
    /\ NoCards \in News /\ DOMAIN NoCards = {}
    /\ Boards \subseteq News
<1>1. \A S \in SUBSET Cards : [S -> CardTexts] \subseteq News
  BY DEF News, CardTexts
<1>2. \A f \in News : \E S \in SUBSET Cards : f \in [S -> CardTexts]
  BY DEF News, CardTexts
<1>3. NoCards \in [{} -> CardTexts]
  BY DEF NoCards, CardTexts
<1>. QED BY <1>1, <1>2, <1>3 DEF Boards, CardTexts

LEMMA DeltaDef ==
    ASSUME NEW old \in Boards, NEW new \in Boards
    PROVE  /\ Delta(old, new) \in News
           /\ DOMAIN Delta(old, new) = {c \in Cards : old[c] # new[c]}
           /\ \A c \in DOMAIN Delta(old, new) : Delta(old, new)[c] = new[c]
<1>. DEFINE S == {c \in Cards : old[c] # new[c]}
<1>1. S \in SUBSET Cards /\ \A c \in S : new[c] \in CardTexts
  BY DEF Boards, CardTexts
<1>2. Delta(old, new) = [c \in S |-> new[c]]
  BY DEF Delta
<1>3. Delta(old, new) \in [S -> CardTexts]
  BY <1>1, <1>2
<1>. QED BY <1>1, <1>2, <1>3, NewsDef

\* A board is never the value that stands for none.
LEMMA BoardDef ==
    /\ NoBoard \notin Boards
    /\ EmptyBoard \in Boards
    /\ full \in Boards \cup {NoBoard} => LastCards \in Boards
<1>1. NoBoard \notin Boards
  BY RoomAssumption DEF NoBoard, NoCards, Boards
<1>2. EmptyBoard \in Boards
  BY DEF EmptyBoard, Boards
<1>. QED BY <1>1, <1>2 DEF LastCards

LEMMA TailDef ==
    ASSUME NEW S, NEW s \in Seq(S), s # <<>>
    PROVE  /\ Tail(s) \in Seq(S) /\ Len(Tail(s)) = Len(s) - 1
           /\ Head(s) \in S /\ Head(s) = s[1] /\ Len(s) \in Nat \ {0}
           /\ DOMAIN s = 1 .. Len(s) /\ DOMAIN Tail(s) = 1 .. Len(s) - 1
           /\ \A k \in 1 .. Len(s) - 1 : Tail(s)[k] = s[k + 1]
BY EmptySeq, HeadTailProperties, ElementOfSeq

LEMMA AppendDef ==
    ASSUME NEW S, NEW s \in Seq(S), NEW x \in S
    PROVE  /\ Append(s, x) \in Seq(S) /\ Len(Append(s, x)) = Len(s) + 1 /\ Len(s) \in Nat
           /\ DOMAIN s = 1 .. Len(s) /\ DOMAIN Append(s, x) = 1 .. Len(s) + 1
           /\ \A k \in 1 .. Len(s) : Append(s, x)[k] = s[k]
           /\ Append(s, x)[Len(s) + 1] = x
BY AppendProperties

\* A queue with room for some more, and a full one.
LEMMA PushedDef ==
    ASSUME NEW S, NEW s \in Seq(S), NEW x \in S, NEW room \in Nat \ {0}, Len(s) <= room
    PROVE  /\ Pushed(s, x, room) \in Seq(S) /\ Len(Pushed(s, x, room)) <= room
           /\ Len(s) # room => Pushed(s, x, room) = Append(s, x)
           /\ Len(s) = room => s # <<>> /\ Pushed(s, x, room) = Append(Tail(s), x)
<1>1. CASE Len(s) = room
  <2>1. s # <<>>
    BY <1>1
  <2>. QED BY <1>1, <2>1, TailDef, AppendProperties DEF Pushed
<1>2. CASE Len(s) # room
  BY <1>2, AppendProperties DEF Pushed
<1>. QED BY <1>1, <1>2

\* The types of the parts of records.
LEMMA FieldTypes ==
    ASSUME TypeOK
    PROVE  /\ log.seq \in 0 .. MaxEntries /\ log.ring \in 1 .. MaxEntries + 1 /\ log.file \in 1 .. MaxEntries + 1
           /\ stream.after \in 0 .. MaxEntries /\ stream.to \in 0 .. MaxEntries
           /\ stream.from \in 1 .. MaxEntries + 1 /\ stream.at \in StreamPlaces
           /\ stream.deltas \in Seq(News) /\ stream.entries \in Seq(Entries)
           /\ Len(stream.deltas) <= QueueRoom /\ Len(stream.entries) <= LogRoom
           /\ page.view \in Boards /\ page.lastSeq \in 0 .. MaxEntries /\ page.seen \subseteq Entries
           /\ hub.payload \in Boards /\ hub.delta \in News
           /\ cut \subseteq Entries /\ mishaps \in 0 .. MaxMishaps /\ MaxEntries \in Nat
BY RoomAssumption DEF TypeOK

LEMMA FrameTypes ==
    ASSUME NEW f \in Frames
    PROVE  /\ f.news \in News /\ f.sure \in BOOLEAN
           /\ f.from \in 1 .. MaxEntries + 1 /\ f.to \in 0 .. MaxEntries
           /\ f.from .. f.to \subseteq Entries
BY RoomAssumption DEF Frames, Entries

\* Numbers of entries stay in range.
LEMMA NumberTypes ==
    ASSUME TypeOK
    PROVE  /\ \A s \in Entries : RingStart(log.ring, s) \in 1 .. MaxEntries + 1
                                 /\ RingStart(log.file, s) \in 1 .. MaxEntries + 1
           /\ \A n \in 0 .. MaxEntries : After(n) \in 1 .. MaxEntries + 1 /\ n < After(n)
<1>1. \A a, b \in 1 .. MaxEntries + 1 : Higher(a, b) \in 1 .. MaxEntries + 1 /\ a <= Higher(a, b)
  BY DEF Higher
<1>2. log.ring \in 1 .. MaxEntries + 1 /\ log.file \in 1 .. MaxEntries + 1 /\ log.seq \in 0 .. MaxEntries
  BY DEF TypeOK
<1>3. ASSUME NEW s \in Entries
      PROVE  (IF s < RingRoom THEN 1 ELSE s - RingRoom + 1) \in 1 .. MaxEntries + 1
  BY RoomAssumption DEF Entries
<1>4. ASSUME NEW n \in 0 .. MaxEntries
      PROVE  After(n) \in 1 .. MaxEntries + 1 /\ n < After(n)
  <2>. DEFINE short == log.seq + 1 < Higher(n + 1, log.ring) + Backlog
              low == IF short /\ log.ring <= log.seq /\ n + 1 < log.ring THEN log.file ELSE log.ring
              last == IF log.seq < Backlog THEN 1 ELSE log.seq - Backlog + 1
  <2>1. low \in 1 .. MaxEntries + 1 /\ last \in 1 .. MaxEntries + 1 /\ n + 1 \in 1 .. MaxEntries + 1
    BY <1>2, RoomAssumption
  <2>2. After(n) = Higher(Higher(n + 1, low), last)
    BY DEF After
  <2>. HIDE DEF low, last
  <2>3. Higher(n + 1, low) \in 1 .. MaxEntries + 1 /\ n + 1 <= Higher(n + 1, low)
    BY <1>1, <2>1
  <2>4. Higher(Higher(n + 1, low), last) \in 1 .. MaxEntries + 1
        /\ Higher(n + 1, low) <= Higher(Higher(n + 1, low), last)
    BY <1>1, <2>1, <2>3
  <2>. QED BY <2>2, <2>3, <2>4, RoomAssumption
<1>. QED BY <1>1, <1>2, <1>3, <1>4 DEF RingStart

\* Frames, and the first values of records.
LEMMA RecordTypes ==
    /\ \A f \in News, b \in BOOLEAN : CardFrame(f, b) \in Frames
    /\ \A m \in 1 .. MaxEntries + 1, n \in 0 .. MaxEntries : LogFrame(m, n) \in Frames
    /\ IdleHub \in [at : {"idle", "built", "committed"}, payload : Boards, delta : News]
    /\ NoStream \in [at : StreamPlaces, after : 0 .. MaxEntries, from : 1 .. MaxEntries + 1,
                     to : 0 .. MaxEntries, deltas : Seq(News), entries : Seq(Entries)]
    /\ NoStream.deltas = <<>> /\ NoStream.entries = <<>> /\ Len(<<>>) = 0
BY NewsDef, BoardDef, EmptySeq, RoomAssumption
DEF CardFrame, LogFrame, Frames, IdleHub, NoStream, StreamPlaces

THEOREM TypeCorrect == Spec => []TypeOK
<1>1. Init => TypeOK
  <2>. SUFFICES ASSUME Init PROVE TypeOK
    OBVIOUS
  <2>1. /\ log \in [seq : 0 .. MaxEntries, ring : 1 .. MaxEntries + 1, file : 1 .. MaxEntries + 1]
        /\ page \in [view : Boards, lastSeq : 0 .. MaxEntries, seen : SUBSET Entries]
    BY BoardDef, RoomAssumption DEF Init
  <2>2. wire \in Seq(Frames)
    BY EmptySeq DEF Init
  <2>3. Len(stream.deltas) <= QueueRoom /\ Len(stream.entries) <= LogRoom
    BY RecordTypes, RoomAssumption DEF Init
  <2>4. stream \in [at : StreamPlaces, after : 0 .. MaxEntries, from : 1 .. MaxEntries + 1,
                    to : 0 .. MaxEntries, deltas : Seq(News), entries : Seq(Entries)]
        /\ hub \in [at : {"idle", "built", "committed"}, payload : Boards, delta : News]
    BY RecordTypes DEF Init
  <2>5. changes \in 0 .. MaxChanges /\ fetches \in 0 .. MaxFetches /\ mishaps \in 0 .. MaxMishaps
    BY RoomAssumption DEF Init
  <2>6. /\ world \in Boards /\ full \in Boards \cup {NoBoard} /\ fetched \in Boards \cup {NoBoard}
        /\ doubted \subseteq Cards /\ lost \subseteq Cards /\ cut \subseteq Entries /\ wrapped \in BOOLEAN
    BY DEF Init
  <2>. QED BY <2>1, <2>2, <2>3, <2>4, <2>5, <2>6 DEF TypeOK
<1>2. TypeOK /\ [Next]_vars => TypeOK'
  <2>. SUFFICES ASSUME TypeOK, [Next]_vars PROVE TypeOK'
    OBVIOUS
  <2>. USE DEF doubts, counters
  <2>. DEFINE StreamType == [at : StreamPlaces, after : 0 .. MaxEntries, from : 1 .. MaxEntries + 1,
                             to : 0 .. MaxEntries, deltas : Seq(News), entries : Seq(Entries)]
              Fits(s) == s \in StreamType /\ Len(s.deltas) <= QueueRoom /\ Len(s.entries) <= LogRoom
  <2>0. Fits(stream) /\ Fits(NoStream)
    BY RecordTypes, RoomAssumption DEF TypeOK
  <2>1. ASSUME NEW c \in Cards, NEW text \in Texts \cup {Absent}, CardChanges(c, text) PROVE TypeOK'
    <3>1. world' \in Boards /\ changes' \in 0 .. MaxChanges
      BY <2>1, RoomAssumption DEF CardChanges, TypeOK, Boards
    <3>. QED BY <2>1, <3>1 DEF CardChanges, TypeOK
  <2>2. CASE HubBuilds
    <3>1. hub' \in [at : {"idle", "built", "committed"}, payload : Boards, delta : News]
      BY <2>2 DEF HubBuilds, TypeOK
    <3>. QED BY <2>2, <3>1 DEF HubBuilds, TypeOK
  <2>3. CASE HubCommits
    <3>1. LastCards \in Boards /\ hub.payload \in Boards
      BY BoardDef DEF TypeOK
    <3>2. Delta(LastCards, hub.payload) \in News
      BY <3>1, DeltaDef
    <3>3. hub' \in [at : {"idle", "built", "committed"}, payload : Boards, delta : News]
      BY <2>3, <3>2, RecordTypes, BoardDef DEF HubCommits
    <3>. QED BY <2>3, <3>1, <3>3 DEF HubCommits, TypeOK
  <2>4. CASE HubPushes
    <3>. DEFINE queue == Pushed(stream.deltas, hub.delta, QueueRoom)
    <3>1. queue \in Seq(News) /\ Len(queue) <= QueueRoom
      BY PushedDef, RoomAssumption DEF TypeOK
    <3>. HIDE DEF queue
    <3>2. Fits([stream EXCEPT !.deltas = queue])
      BY <2>0, <3>1
    <3>3. Fits(stream')
      BY <2>0, <2>4, <3>2 DEF HubPushes, queue
    <3>4. lost' \subseteq Cards
      <4>1. CASE stream.deltas # <<>>
        <5>1. OnlyFirst(stream.deltas) \subseteq Cards
          BY <4>1, TailDef, NewsDef DEF OnlyFirst, TypeOK
        <5>. QED BY <5>1, <2>4 DEF HubPushes, TypeOK
      <4>2. CASE stream.deltas = <<>>
        BY <4>2, <2>4, EmptySeq, RoomAssumption DEF HubPushes, TypeOK
      <4>. QED BY <4>1, <4>2
    <3>. QED BY <2>4, <3>3, <3>4, RecordTypes DEF HubPushes, TypeOK
  <2>5. ASSUME NEW rotates \in BOOLEAN, Emits(rotates) PROVE TypeOK'
    <3>. DEFINE n == log.seq + 1
                queue == Pushed(stream.entries, n, LogRoom)
    <3>1. n \in Entries /\ n + 1 \in 1 .. MaxEntries + 1
      <4>1. log.seq < MaxEntries
        BY <2>5 DEF Emits
      <4>2. log.seq \in 0 .. MaxEntries /\ MaxEntries \in Nat
        BY FieldTypes
      <4>. QED BY <4>1, <4>2 DEF Entries
    <3>2. log' \in [seq : 0 .. MaxEntries, ring : 1 .. MaxEntries + 1, file : 1 .. MaxEntries + 1]
      <4>1. RingStart(log.ring, n) \in 1 .. MaxEntries + 1
        BY <3>1, NumberTypes
      <4>. HIDE DEF n
      <4>2. log' = [seq |-> n, ring |-> RingStart(log.ring, n), file |-> IF rotates THEN n + 1 ELSE log.file]
        BY <2>5 DEF Emits, n
      <4>. QED BY <3>1, <4>1, <4>2 DEF TypeOK, Entries
    <3>3. queue \in Seq(Entries) /\ Len(queue) <= LogRoom
      BY <3>1, PushedDef, RoomAssumption DEF TypeOK
    <3>. HIDE DEF queue
    <3>4. Fits([stream EXCEPT !.entries = queue])
      BY <2>0, <3>3
    <3>5. Fits(stream')
      BY <2>0, <2>5, <3>4 DEF Emits, queue
    <3>6. cut' \subseteq Entries
      <4>1. CASE stream.entries # <<>>
        <5>1. Head(stream.entries) \in Entries
          BY <4>1, TailDef, FieldTypes
        <5>. QED BY <5>1, <2>5, FieldTypes DEF Emits
      <4>2. CASE stream.entries = <<>>
        BY <4>2, <2>5, EmptySeq, RoomAssumption DEF Emits, TypeOK
      <4>. QED BY <4>1, <4>2
    <3>7. mishaps' \in 0 .. MaxMishaps
      <4>1. mishaps' = (IF rotates THEN mishaps + 1 ELSE mishaps) /\ (rotates => mishaps < MaxMishaps)
        BY <2>5 DEF Emits
      <4>. QED BY <4>1, FieldTypes, RoomAssumption
    <3>. QED BY <2>5, <3>2, <3>5, <3>6, <3>7 DEF Emits, TypeOK
  <2>6. CASE StreamConnects
    <3>1. Fits(stream')
      BY <2>0, <2>6 DEF StreamConnects, TypeOK, StreamPlaces
    <3>. QED BY <2>6, <3>1 DEF StreamConnects, TypeOK
  <2>7. CASE StreamSubscribes
    <3>1. Fits(stream')
      BY <2>0, <2>7 DEF StreamSubscribes, StreamPlaces
    <3>. QED BY <2>7, <3>1 DEF StreamSubscribes, TypeOK
  <2>8. CASE StreamReadsBacklog
    <3>1. After(stream.after) \in 1 .. MaxEntries + 1 /\ log.seq \in 0 .. MaxEntries
      BY NumberTypes DEF TypeOK
    <3>2. Fits(stream')
      BY <2>0, <2>8, <3>1 DEF StreamReadsBacklog, StreamPlaces
    <3>3. cut' \subseteq Entries
      <4>1. stream.after + 1 .. log.seq \subseteq Entries
        <5>1. log.seq \in 0 .. MaxEntries /\ stream.after \in 0 .. MaxEntries /\ MaxEntries \in Nat
          BY FieldTypes
        <5>. QED BY <5>1 DEF Entries
      <4>. QED BY <2>8, <4>1, FieldTypes DEF StreamReadsBacklog
    <3>. QED BY <2>8, <3>2, <3>3 DEF StreamReadsBacklog, TypeOK
  <2>9. CASE StreamOpens
    <3>1. FirstFrame \in Frames
      BY NewsDef, RecordTypes DEF FirstFrame, TypeOK
    <3>2. LogFrame(stream.from, stream.to) \in Frames
      BY RecordTypes DEF TypeOK
    <3>3. wire' \in Seq(Frames)
      BY <2>9, <3>1, <3>2 DEF StreamOpens
    <3>4. Fits(stream')
      <4>1. 1 \in 1 .. MaxEntries + 1 /\ 0 \in 0 .. MaxEntries
        BY RoomAssumption
      <4>2. stream' = [stream EXCEPT !.at = "open", !.from = 1, !.to = 0]
        BY <2>9 DEF StreamOpens
      <4>. QED BY <2>0, <4>1, <4>2 DEF StreamPlaces
    <3>. QED BY <2>9, <3>3, <3>4 DEF StreamOpens, TypeOK
  <2>10. CASE StreamSendsDelta
    <3>1. /\ Head(stream.deltas) \in News /\ Tail(stream.deltas) \in Seq(News)
          /\ Len(Tail(stream.deltas)) <= QueueRoom
      <4>1. stream.deltas # <<>>
        BY <2>10 DEF StreamSendsDelta
      <4>2. Len(Tail(stream.deltas)) = Len(stream.deltas) - 1 /\ Len(stream.deltas) \in Nat
        BY <4>1, TailDef, FieldTypes
      <4>. QED BY <4>1, <4>2, TailDef, FieldTypes, RoomAssumption
    <3>2. CardFrame(Head(stream.deltas), TRUE) \in Frames
      BY <3>1, RecordTypes
    <3>3. wire' \in Seq(Frames)
      BY <2>10, <3>2, AppendDef DEF StreamSendsDelta, TypeOK
    <3>4. Fits(stream')
      BY <2>0, <2>10, <3>1 DEF StreamSendsDelta
    <3>. QED BY <2>10, <3>3, <3>4 DEF StreamSendsDelta, TypeOK
  <2>11. CASE StreamSendsEntry
    <3>1. /\ Head(stream.entries) \in Entries /\ Tail(stream.entries) \in Seq(Entries)
          /\ Len(Tail(stream.entries)) <= LogRoom
      <4>1. stream.entries # <<>>
        BY <2>11 DEF StreamSendsEntry
      <4>2. Len(Tail(stream.entries)) = Len(stream.entries) - 1 /\ Len(stream.entries) \in Nat
        BY <4>1, TailDef, FieldTypes
      <4>. QED BY <4>1, <4>2, TailDef, FieldTypes, RoomAssumption
    <3>2. LogFrame(Head(stream.entries), Head(stream.entries)) \in Frames
      <4>1. Head(stream.entries) \in 1 .. MaxEntries + 1 /\ Head(stream.entries) \in 0 .. MaxEntries
        BY <3>1, RoomAssumption DEF Entries
      <4>. QED BY <4>1, RecordTypes
    <3>3. wire' \in Seq(Frames)
      BY <2>11, <3>2, AppendDef DEF StreamSendsEntry, TypeOK
    <3>4. Fits(stream')
      BY <2>0, <2>11, <3>1 DEF StreamSendsEntry
    <3>. QED BY <2>11, <3>3, <3>4 DEF StreamSendsEntry, TypeOK
  <2>12. CASE PageReads
    <3>. DEFINE frame == Head(wire)
    <3>1. frame \in Frames /\ wire' \in Seq(Frames)
      BY <2>12, TailDef DEF PageReads, TypeOK
    <3>2. Shown(page.view, frame.news) \in Boards
      BY <3>1, NewsDef DEF Shown, Boards, Frames, TypeOK, CardTexts
    <3>3. Higher(page.lastSeq, frame.to) \in 0 .. MaxEntries
      BY <3>1 DEF Frames, TypeOK, Higher
    <3>4. frame.from .. frame.to \subseteq Entries
      BY <3>1, FrameTypes
    <3>. HIDE DEF frame
    <3>5. page' = [view |-> Shown(page.view, frame.news), lastSeq |-> Higher(page.lastSeq, frame.to),
                   seen |-> page.seen \cup (frame.from .. frame.to)]
      BY <2>12 DEF PageReads, frame
    <3>6. page' \in [view : Boards, lastSeq : 0 .. MaxEntries, seen : SUBSET Entries]
      BY <3>2, <3>3, <3>4, <3>5 DEF TypeOK
    <3>7. DOMAIN frame.news \subseteq Cards
      BY <3>1, NewsDef DEF Frames
    <3>8. doubted' \subseteq Cards
      BY <2>12, <3>7 DEF PageReads, TypeOK, frame
    <3>. QED BY <2>12, <3>1, <3>6, <3>8 DEF PageReads, TypeOK
  <2>13. CASE FetchAnswered
    BY <2>13, RoomAssumption DEF FetchAnswered, TypeOK
  <2>14. CASE FetchApplied
    <3>1. page' \in [view : Boards, lastSeq : 0 .. MaxEntries, seen : SUBSET Entries]
      BY <2>14 DEF FetchApplied, TypeOK
    <3>. QED BY <2>14, <3>1 DEF FetchApplied, TypeOK
  <2>15. ASSUME Broken PROVE Fits(stream') /\ wire' \in Seq(Frames) /\ lost' \subseteq Cards
    BY <2>0, <2>15, EmptySeq DEF Broken
  <2>16. CASE ConnectionBreaks
    <3>1. mishaps' \in 0 .. MaxMishaps
      BY <2>16, RoomAssumption DEF ConnectionBreaks, TypeOK
    <3>. QED BY <2>16, <3>1, <2>15 DEF ConnectionBreaks, TypeOK
  <2>17. CASE MonitorRestarts
    <3>1. mishaps' \in 0 .. MaxMishaps
      BY <2>17, RoomAssumption DEF MonitorRestarts, TypeOK
    <3>2. log' \in [seq : 0 .. MaxEntries, ring : 1 .. MaxEntries + 1, file : 1 .. MaxEntries + 1]
      <4>1. CASE log.seq < log.file
        BY <4>1, <2>17, RoomAssumption DEF MonitorRestarts, LogRecovers
      <4>2. CASE ~(log.seq < log.file)
        <5>1. log.seq \in Entries
          BY <4>2 DEF TypeOK, Entries
        <5>2. PICK low \in RingStart(log.file, log.seq) .. log.seq : log' = [log EXCEPT !.ring = low]
          BY <4>2, <2>17 DEF MonitorRestarts, LogRecovers
        <5>3. low \in 1 .. MaxEntries + 1
          <6>1. RingStart(log.file, log.seq) \in 1 .. MaxEntries + 1
            BY <5>1, NumberTypes
          <6>. QED BY <6>1, FieldTypes
        <5>. QED BY <5>2, <5>3 DEF TypeOK
      <4>. QED BY <4>1, <4>2
    <3>3. wrapped' \in BOOLEAN
      BY <2>17 DEF MonitorRestarts
    <3>. QED BY <2>17, <3>1, <3>2, <3>3, <2>15, RecordTypes DEF MonitorRestarts, TypeOK
  <2>18. CASE UNCHANGED vars
    BY <2>18 DEF vars, TypeOK
  <2>. QED
    BY <2>1, <2>2, <2>3, <2>4, <2>5, <2>6, <2>7, <2>8, <2>9, <2>10, <2>11, <2>12, <2>13, <2>14,
       <2>16, <2>17, <2>18 DEF Next, HubSteps, StreamSteps
<1>. QED BY <1>1, <1>2, PTL DEF Spec

-----------------------------------------------------------------------------
\* A queue without its first message, and one with a message more.
LEMMA TailMentions ==
    ASSUME NEW s, NEW t, Len(s) \in Nat \ {0}, DOMAIN s = 1 .. Len(s), DOMAIN t = 1 .. Len(s) - 1,
           \A k \in 1 .. Len(s) - 1 : t[k] = s[k + 1], NEW c
    PROVE  /\ Mentions(s, c) <=> c \in DOMAIN s[1] \/ Mentions(t, c)
           /\ \A k \in DOMAIN t : Last(t, k, c) => k + 1 \in DOMAIN s /\ Last(s, k + 1, c)
           /\ c \in DOMAIN s[1] /\ ~Mentions(t, c) => Last(s, 1, c)
           /\ (\A k \in 2 .. Len(s) : c \notin DOMAIN s[k]) <=> ~Mentions(t, c)
<1>1. \A k \in 2 .. Len(s) : k - 1 \in DOMAIN t /\ t[k - 1] = s[k]
  OBVIOUS
<1>2. /\ 1 \in DOMAIN s
      /\ \A k \in DOMAIN s : k = 1 \/ k \in 2 .. Len(s)
      /\ \A k \in DOMAIN t : k + 1 \in DOMAIN s /\ k + 1 \in 2 .. Len(s) /\ t[k] = s[k + 1]
  OBVIOUS
<1>3. Mentions(s, c) <=> c \in DOMAIN s[1] \/ Mentions(t, c)
  <2>1. ASSUME NEW k \in DOMAIN s, c \in DOMAIN s[k], c \notin DOMAIN s[1] PROVE Mentions(t, c)
    <3>1. k - 1 \in DOMAIN t /\ t[k - 1] = s[k]
      BY <1>1, <1>2, <2>1
    <3>. QED BY <2>1, <3>1 DEF Mentions
  <2>2. ASSUME NEW k \in DOMAIN t, c \in DOMAIN t[k] PROVE Mentions(s, c)
    <3>1. k + 1 \in DOMAIN s /\ t[k] = s[k + 1]
      BY <1>2
    <3>. QED BY <2>2, <3>1 DEF Mentions
  <2>. QED BY <1>2, <2>1, <2>2 DEF Mentions
<1>4. ASSUME NEW k \in DOMAIN t, Last(t, k, c) PROVE k + 1 \in DOMAIN s /\ Last(s, k + 1, c)
  <2>1. k + 1 \in 1 .. Len(s) /\ c \in DOMAIN s[k + 1]
    BY <1>4 DEF Last
  <2>2. ASSUME NEW j \in DOMAIN s, j > k + 1 PROVE c \notin DOMAIN s[j]
    <3>1. j - 1 \in DOMAIN t /\ j - 1 > k /\ t[j - 1] = s[j]
      BY <2>2
    <3>. QED BY <3>1, <1>4 DEF Last
  <2>. QED BY <2>1, <2>2 DEF Last
<1>5. (\A k \in 2 .. Len(s) : c \notin DOMAIN s[k]) <=> ~Mentions(t, c)
  <2>1. ASSUME NEW k \in DOMAIN t, c \in DOMAIN t[k] PROVE k + 1 \in 2 .. Len(s) /\ c \in DOMAIN s[k + 1]
    BY <1>2, <2>1
  <2>2. ASSUME NEW k \in 2 .. Len(s), c \in DOMAIN s[k] PROVE k - 1 \in DOMAIN t /\ c \in DOMAIN t[k - 1]
    BY <1>1, <2>2
  <2>. QED BY <2>1, <2>2 DEF Mentions
<1>6. c \in DOMAIN s[1] /\ ~Mentions(t, c) => Last(s, 1, c)
  BY <1>5 DEF Last
<1>. QED BY <1>3, <1>4, <1>5, <1>6

LEMMA AppendMentions ==
    ASSUME NEW s, NEW t, Len(s) \in Nat, DOMAIN s = 1 .. Len(s), DOMAIN t = 1 .. Len(s) + 1,
           \A k \in 1 .. Len(s) : t[k] = s[k], NEW c
    PROVE  /\ Mentions(t, c) <=> c \in DOMAIN t[Len(s) + 1] \/ Mentions(s, c)
           /\ \A k \in DOMAIN t : Last(t, k, c) =>
                IF c \in DOMAIN t[Len(s) + 1] THEN k = Len(s) + 1 ELSE k \in DOMAIN s /\ Last(s, k, c)
<1>1. \A k \in 1 .. Len(s) + 1 : k \in 1 .. Len(s) \/ k = Len(s) + 1
  OBVIOUS
<1>2. Mentions(t, c) <=> c \in DOMAIN t[Len(s) + 1] \/ Mentions(s, c)
  BY <1>1 DEF Mentions
<1>3. ASSUME NEW k \in DOMAIN t, Last(t, k, c)
      PROVE  IF c \in DOMAIN t[Len(s) + 1] THEN k = Len(s) + 1 ELSE k \in DOMAIN s /\ Last(s, k, c)
  <2>1. CASE c \in DOMAIN t[Len(s) + 1]
    BY <1>1, <1>3, <2>1 DEF Last
  <2>2. CASE c \notin DOMAIN t[Len(s) + 1]
    <3>1. k \in 1 .. Len(s)
      BY <1>1, <1>3, <2>2 DEF Last
    <3>. QED BY <1>3, <2>2, <3>1 DEF Last
  <2>. QED BY <2>1, <2>2
<1>. QED BY <1>2, <1>3

\* What a full or not yet full queue mentions after a push.
LEMMA PushMentions ==
    ASSUME NEW q \in Seq(News), NEW d \in News, NEW room \in Nat \ {0}, Len(q) <= room, NEW c
    PROVE  LET r == Pushed(q, d, room) IN
           /\ c \in DOMAIN d =>
                Mentions(r, c) /\ \A k \in DOMAIN r : Last(r, k, c) => r[k] = d
           /\ c \notin DOMAIN d =>
                /\ \A k \in DOMAIN r : Last(r, k, c) => \E j \in DOMAIN q : Last(q, j, c) /\ q[j] = r[k]
                /\ Mentions(r, c) => Mentions(q, c)
                /\ Mentions(q, c) => Mentions(r, c) \/ (Len(q) = room /\ c \in OnlyFirst(q))
                /\ Len(q) = room /\ c \in OnlyFirst(q) => ~Mentions(r, c)
<1>. DEFINE r == Pushed(q, d, room)
<1>1. CASE Len(q) # room
  <2>1. r = Append(q, d)
    BY <1>1, PushedDef
  <2>2. /\ DOMAIN q = 1 .. Len(q) /\ DOMAIN r = 1 .. Len(q) + 1 /\ Len(q) \in Nat
        /\ \A k \in 1 .. Len(q) : r[k] = q[k]
        /\ r[Len(q) + 1] = d
    BY <2>1, AppendDef
  <2>. HIDE DEF r
  <2>3. /\ Mentions(r, c) <=> c \in DOMAIN d \/ Mentions(q, c)
        /\ \A k \in DOMAIN r : Last(r, k, c) =>
             IF c \in DOMAIN d THEN k = Len(q) + 1 ELSE k \in DOMAIN q /\ Last(q, k, c)
    BY <2>2, AppendMentions
  <2>. QED BY <1>1, <2>2, <2>3 DEF r
<1>2. CASE Len(q) = room
  <2>. DEFINE b == Tail(q)
  <2>1. q # <<>> /\ Pushed(q, d, room) = Append(Tail(q), d)
    BY <1>2, EmptySeq DEF Pushed
  <2>2. /\ b \in Seq(News) /\ Len(b) = Len(q) - 1 /\ Len(q) \in Nat \ {0} /\ Head(q) = q[1]
        /\ DOMAIN q = 1 .. Len(q) /\ DOMAIN b = 1 .. Len(q) - 1
        /\ \A k \in 1 .. Len(q) - 1 : b[k] = q[k + 1]
    BY <2>1, TailDef
  <2>3. /\ DOMAIN r = 1 .. Len(b) + 1 /\ Len(b) \in Nat /\ DOMAIN b = 1 .. Len(b)
        /\ \A k \in 1 .. Len(b) : r[k] = b[k]
        /\ r[Len(b) + 1] = d
    BY <2>1, <2>2, AppendDef
  <2>. HIDE DEF r, b
  <2>4. /\ Mentions(r, c) <=> c \in DOMAIN d \/ Mentions(b, c)
        /\ \A k \in DOMAIN r : Last(r, k, c) =>
             IF c \in DOMAIN d THEN k = Len(b) + 1 ELSE k \in DOMAIN b /\ Last(b, k, c)
    BY <2>3, AppendMentions
  <2>5. /\ Mentions(q, c) <=> c \in DOMAIN q[1] \/ Mentions(b, c)
        /\ \A k \in DOMAIN b : Last(b, k, c) => k + 1 \in DOMAIN q /\ Last(q, k + 1, c)
        /\ (\A k \in 2 .. Len(q) : c \notin DOMAIN q[k]) <=> ~Mentions(b, c)
    BY <2>2, TailMentions
  <2>6. c \in OnlyFirst(q) <=> c \in DOMAIN q[1] /\ ~Mentions(b, c)
    BY <2>2, <2>5 DEF OnlyFirst
  <2>7. ASSUME c \notin DOMAIN d, NEW k \in DOMAIN r, Last(r, k, c)
        PROVE  \E j \in DOMAIN q : Last(q, j, c) /\ q[j] = r[k]
    <3>1. k \in DOMAIN b /\ Last(b, k, c) /\ r[k] = b[k]
      BY <2>3, <2>4, <2>7
    <3>2. k + 1 \in DOMAIN q /\ Last(q, k + 1, c) /\ q[k + 1] = r[k]
      BY <2>2, <2>5, <3>1
    <3>. QED BY <3>2
  <2>. QED BY <1>2, <2>3, <2>4, <2>5, <2>6, <2>7 DEF r
<1>. QED BY <1>1, <1>2

\* The card messages of the frames on the way.
LEMMA ToldDef ==
    ASSUME NEW w \in Seq(Frames)
    PROVE  /\ [k \in DOMAIN w |-> w[k].news] \in Seq(News)
           /\ Len([k \in DOMAIN w |-> w[k].news]) = Len(w)
           /\ DOMAIN [k \in DOMAIN w |-> w[k].news] = 1 .. Len(w)
           /\ DOMAIN w = 1 .. Len(w) /\ Len(w) \in Nat
<1>. DEFINE told == [k \in DOMAIN w |-> w[k].news]
<1>1. DOMAIN w = 1 .. Len(w) /\ Len(w) \in Nat
  BY LenProperties
<1>2. \A k \in 1 .. Len(w) : w[k].news \in News
  BY ElementOfSeq, FrameTypes
<1>3. told \in [1 .. Len(w) -> News]
  BY <1>1, <1>2
<1>4. told \in Seq(News)
  BY <1>1, <1>3, SeqDef
<1>5. DOMAIN told = 1 .. Len(told) /\ Len(told) \in Nat
  BY <1>4, LenProperties
<1>6. Len(told) = Len(w)
  BY <1>1, <1>3, <1>5
<1>. QED BY <1>1, <1>4, <1>5, <1>6

-----------------------------------------------------------------------------
\* Steps that touch nothing of what CardInv is about.
LEMMA CardInvKept ==
    ASSUME CardInv, LastCards' = LastCards, wire' = wire, doubted' = doubted, lost' = lost,
           stream'.deltas = stream.deltas, page'.view = page.view,
           stream'.at = "open" <=> stream.at = "open",
           stream'.at = "down" => stream.at = "down", stream.at = "down" => stream.deltas = <<>>,
           \/ hub.at # "committed" /\ hub'.at # "committed"
           \/ hub' = hub
    PROVE  CardInv'
<1>1. Told' = Told
  BY DEF Told
<1>2. \A c \in Cards : Pushing(c)' <=> Pushing(c)
  BY DEF Pushing
<1>3. Committed'
  BY DEF CardInv, Committed
<1>4. ASSUME NEW c \in Cards, ~Pushing(c) PROVE QueueInStep(c)'
  BY <1>4 DEF CardInv, QueueInStep, Last, Mentions
<1>5. ASSUME NEW c \in Cards \ lost, ~Pushing(c) PROVE WireInStep(c)' /\ ViewInStep(c)'
  <2>1. WireInStep(c) /\ ViewInStep(c)
    BY <1>5 DEF CardInv
  <2>. QED BY <2>1, <1>1 DEF WireInStep, ViewInStep, Last, Mentions
<1>6. \A c \in lost : ~Mentions(stream'.deltas, c)
  BY DEF CardInv
<1>. QED BY <1>1, <1>2, <1>3, <1>4, <1>5, <1>6 DEF CardInv

\* What the stream opens with: the snapshot, then the backlog if there is any.
LEMMA OpeningDef ==
    ASSUME TypeOK, StreamOpens
    PROVE  /\ wire' \in Seq(Frames)
           /\ DOMAIN wire' = IF stream.from > stream.to THEN {1} ELSE {1, 2}
           /\ DOMAIN wire' = 1 .. Len(wire')
           /\ wire'[1] = FirstFrame
           /\ stream.from <= stream.to => wire'[2] = LogFrame(stream.from, stream.to)
           /\ 2 \in DOMAIN wire' => wire'[2].news = NoCards
<1>. DEFINE logged == LogFrame(stream.from, stream.to)
            rest == IF stream.from > stream.to THEN <<>> ELSE <<logged>>
<1>1. FirstFrame \in Frames /\ logged \in Frames
  BY NewsDef, RecordTypes DEF FirstFrame, TypeOK
<1>2. logged.news = NoCards
  BY DEF LogFrame
<1>3. stream.from \in Nat /\ stream.to \in Nat
  BY FieldTypes
<1>4. wire' = <<FirstFrame>> \o rest
  BY DEF StreamOpens
<1>. HIDE DEF logged
<1>5. CASE stream.from > stream.to
  <2>1. wire' = <<FirstFrame>> \o <<>>
    BY <1>4, <1>5
  <2>2. <<FirstFrame>> \in Seq(Frames) /\ <<>> \in Seq(Frames) /\ Len(<<FirstFrame>>) = 1
        /\ Len(<<>>) = 0 /\ <<FirstFrame>>[1] = FirstFrame
    BY <1>1
  <2>3. wire' \in Seq(Frames) /\ Len(wire') = 1 /\ wire'[1] = FirstFrame
    BY <2>1, <2>2, ConcatProperties
  <2>4. DOMAIN wire' = {1}
    BY <2>3, LenProperties
  <2>. QED BY <1>3, <1>5, <2>3, <2>4
<1>6. CASE stream.from <= stream.to
  <2>1. wire' = <<FirstFrame>> \o <<logged>>
    BY <1>3, <1>4, <1>6
  <2>2. <<FirstFrame>> \in Seq(Frames) /\ <<logged>> \in Seq(Frames) /\ Len(<<FirstFrame>>) = 1
        /\ Len(<<logged>>) = 1 /\ <<FirstFrame>>[1] = FirstFrame /\ <<logged>>[1] = logged
    BY <1>1
  <2>3. wire' \in Seq(Frames) /\ Len(wire') = 2 /\ wire'[1] = FirstFrame /\ wire'[2] = logged
    BY <2>1, <2>2, ConcatProperties
  <2>4. DOMAIN wire' = {1, 2}
    BY <2>3, LenProperties
  <2>. QED BY <1>2, <1>3, <1>6, <2>3, <2>4 DEF logged
<1>. QED BY <1>3, <1>5, <1>6

\* A frame more on the wire, and one less.
LEMMA ToldGrows ==
    ASSUME TypeOK, NEW f \in Frames, wire' = Append(wire, f), NEW c
    PROVE  /\ Mentions(Told', c) <=> c \in DOMAIN f.news \/ Mentions(Told, c)
           /\ \A k \in DOMAIN Told' : Last(Told', k, c) =>
                IF c \in DOMAIN f.news THEN wire'[k] = f /\ Told'[k] = f.news
                ELSE k \in DOMAIN Told /\ Last(Told, k, c) /\ wire'[k] = wire[k] /\ Told'[k] = Told[k]
<1>1. /\ wire \in Seq(Frames) /\ wire' \in Seq(Frames) /\ Len(wire') = Len(wire) + 1 /\ Len(wire) \in Nat
      /\ \A k \in 1 .. Len(wire) : wire'[k] = wire[k]
      /\ wire'[Len(wire) + 1] = f
  BY AppendDef DEF TypeOK
<1>2. /\ DOMAIN Told = 1 .. Len(wire) /\ DOMAIN wire = 1 .. Len(wire) /\ Len(Told) = Len(wire)
      /\ DOMAIN Told' = 1 .. Len(wire) + 1 /\ DOMAIN wire' = 1 .. Len(wire) + 1
  BY <1>1, ToldDef DEF Told
<1>3. /\ \A k \in 1 .. Len(wire) : Told[k] = wire[k].news
      /\ \A k \in 1 .. Len(wire) + 1 : Told'[k] = wire'[k].news
  BY <1>2 DEF Told
<1>4. (\A k \in 1 .. Len(wire) : Told'[k] = Told[k]) /\ Told'[Len(wire) + 1] = f.news
  BY <1>1, <1>3
<1>5. /\ Mentions(Told', c) <=> c \in DOMAIN Told'[Len(Told) + 1] \/ Mentions(Told, c)
      /\ \A k \in DOMAIN Told' : Last(Told', k, c) =>
           IF c \in DOMAIN Told'[Len(Told) + 1] THEN k = Len(Told) + 1 ELSE k \in DOMAIN Told /\ Last(Told, k, c)
  <2>1. Len(Told) \in Nat /\ DOMAIN Told = 1 .. Len(Told) /\ DOMAIN Told' = 1 .. Len(Told) + 1
        /\ \A k \in 1 .. Len(Told) : Told'[k] = Told[k]
    BY <1>1, <1>2, <1>4
  <2>. HIDE DEF Told
  <2>. QED BY <2>1, AppendMentions
<1>. QED BY <1>1, <1>2, <1>4, <1>5

LEMMA ToldShrinks ==
    ASSUME TypeOK, wire # <<>>, wire' = Tail(wire), NEW c
    PROVE  /\ Head(wire) \in Frames
           /\ Mentions(Told, c) <=> c \in DOMAIN Head(wire).news \/ Mentions(Told', c)
           /\ \A k \in DOMAIN Told' : Last(Told', k, c) =>
                k + 1 \in DOMAIN Told /\ Last(Told, k + 1, c)
                /\ wire'[k] = wire[k + 1] /\ Told'[k] = Told[k + 1]
           /\ c \in DOMAIN Head(wire).news /\ ~Mentions(Told', c) => Last(Told, 1, c)
           /\ 1 \in DOMAIN Told /\ Told[1] = Head(wire).news /\ wire[1] = Head(wire)
<1>1. /\ wire \in Seq(Frames) /\ wire' \in Seq(Frames) /\ Len(wire') = Len(wire) - 1
      /\ Len(wire) \in Nat \ {0} /\ Head(wire) = wire[1] /\ Head(wire) \in Frames
      /\ \A k \in 1 .. Len(wire) - 1 : wire'[k] = wire[k + 1]
  BY TailDef DEF TypeOK
<1>2. /\ DOMAIN Told = 1 .. Len(wire) /\ Len(Told) = Len(wire) /\ DOMAIN wire = 1 .. Len(wire)
      /\ DOMAIN Told' = 1 .. Len(wire) - 1 /\ DOMAIN wire' = 1 .. Len(wire) - 1
  BY <1>1, ToldDef DEF Told
<1>3. /\ \A k \in 1 .. Len(wire) : Told[k] = wire[k].news
      /\ \A k \in 1 .. Len(wire) - 1 : Told'[k] = wire'[k].news
  BY <1>2 DEF Told
<1>4. (\A k \in 1 .. Len(wire) - 1 : Told'[k] = Told[k + 1]) /\ Told[1] = Head(wire).news
  BY <1>1, <1>3
<1>5. /\ Mentions(Told, c) <=> c \in DOMAIN Told[1] \/ Mentions(Told', c)
      /\ \A k \in DOMAIN Told' : Last(Told', k, c) => k + 1 \in DOMAIN Told /\ Last(Told, k + 1, c)
      /\ c \in DOMAIN Told[1] /\ ~Mentions(Told', c) => Last(Told, 1, c)
  <2>1. Len(Told) \in Nat \ {0} /\ DOMAIN Told = 1 .. Len(Told) /\ DOMAIN Told' = 1 .. Len(Told) - 1
        /\ \A k \in 1 .. Len(Told) - 1 : Told'[k] = Told[k + 1]
    BY <1>1, <1>2, <1>4
  <2>. HIDE DEF Told
  <2>. QED BY <2>1, TailMentions
<1>. QED BY <1>1, <1>2, <1>4, <1>5

\* When nothing is on the way, the page shows the hub's last cards.
THEOREM PageInStep == Spec => []CardsInStep
<1>1. Init => CardInv
  <2>. SUFFICES ASSUME Init PROVE CardInv
    OBVIOUS
  <2>1. stream.deltas = <<>> /\ stream.at = "down" /\ wire = <<>> /\ hub.at = "idle" /\ lost = {}
    BY DEF Init, NoStream, IdleHub
  <2>. QED BY <2>1 DEF CardInv, Committed, QueueInStep, WireInStep, ViewInStep
<1>2. TypeOK /\ CardInv /\ [Next]_vars => CardInv'
  <2>. SUFFICES ASSUME TypeOK, CardInv, [Next]_vars PROVE CardInv'
    OBVIOUS
  <2>. USE DEF doubts, counters
  <2>0. stream.at = "down" => stream.deltas = <<>>
    BY DEF CardInv
  <2>1. ASSUME NEW c \in Cards, NEW text \in Texts \cup {Absent}, CardChanges(c, text) PROVE CardInv'
    BY <2>1, <2>0, CardInvKept DEF CardChanges, LastCards
  <2>2. CASE HubBuilds
    BY <2>2, <2>0, CardInvKept DEF HubBuilds, LastCards, TypeOK
  <2>3. CASE HubCommits
    <3>1. LastCards' = hub.payload /\ hub.payload \in Boards /\ LastCards \in Boards
      BY <2>3, BoardDef, FieldTypes DEF HubCommits, LastCards, TypeOK
    <3>2. CASE LastCards = hub.payload
      BY <2>3, <2>0, <3>1, <3>2, CardInvKept DEF HubCommits, IdleHub
    <3>3. CASE LastCards # hub.payload
      <4>. DEFINE delta == Delta(LastCards, hub.payload)
      <4>1. hub'.at = "committed" /\ hub'.delta = delta
        BY <2>3, <3>3 DEF HubCommits
      <4>2. /\ \A c \in DOMAIN delta : delta[c] = hub.payload[c]
            /\ \A c \in Cards : c \notin DOMAIN delta => LastCards[c] = hub.payload[c]
        BY <3>1, DeltaDef
      <4>. HIDE DEF delta
      <4>3. Committed'
        BY <3>1, <4>1, <4>2 DEF Committed
      <4>4. ASSUME NEW c \in Cards, ~Pushing(c)'
            PROVE  ~Pushing(c) /\ LastCards'[c] = LastCards[c]
        BY <2>3, <3>1, <4>1, <4>2, <4>4 DEF Pushing, HubCommits
      <4>5. UNCHANGED <<stream, wire, page, doubted, lost>> /\ Told' = Told
        BY <2>3 DEF HubCommits, Told
      <4>6. ASSUME NEW c \in Cards, ~Pushing(c)' PROVE QueueInStep(c)'
        <5>1. QueueInStep(c)
          BY <4>4, <4>6 DEF CardInv
        <5>. QED BY <4>4, <4>5, <4>6, <5>1 DEF QueueInStep
      <4>7. ASSUME NEW c \in Cards \ lost, ~Pushing(c)' PROVE WireInStep(c)' /\ ViewInStep(c)'
        <5>1. WireInStep(c) /\ ViewInStep(c)
          BY <4>4, <4>7 DEF CardInv
        <5>2. LastCards'[c] = LastCards[c]
          BY <4>4, <4>7
        <5>. QED BY <4>5, <5>1, <5>2 DEF WireInStep, ViewInStep, Last, Mentions
      <4>. QED BY <4>3, <4>5, <4>6, <4>7 DEF CardInv, Mentions
    <3>. QED BY <3>2, <3>3
  <2>4. CASE HubPushes
    <3>1. Committed' /\ \A c : ~Pushing(c)'
      BY <2>4 DEF HubPushes, IdleHub, Committed, Pushing
    <3>2. LastCards' = LastCards /\ UNCHANGED <<wire, page, doubted>> /\ Told' = Told /\ stream'.at = stream.at
      BY <2>4 DEF HubPushes, LastCards, Told, TypeOK
    <3>3. CASE stream.at = "down"
      BY <2>0, <2>4, <3>1, <3>2, <3>3 DEF HubPushes, CardInv, QueueInStep, WireInStep, ViewInStep
    <3>4. CASE stream.at # "down"
      <4>. DEFINE q == stream.deltas
                  r == Pushed(stream.deltas, hub.delta, QueueRoom)
      <4>1. /\ stream'.deltas = r
            /\ lost' = (IF Len(q) = QueueRoom THEN lost \cup OnlyFirst(q) ELSE lost) \ DOMAIN hub.delta
        BY <2>4, <3>4 DEF HubPushes, TypeOK
      <4>2. ASSUME NEW c
            PROVE  /\ c \in DOMAIN hub.delta =>
                        Mentions(r, c) /\ \A k \in DOMAIN r : Last(r, k, c) => r[k] = hub.delta
                   /\ c \notin DOMAIN hub.delta =>
                        /\ \A k \in DOMAIN r : Last(r, k, c) => \E j \in DOMAIN q : Last(q, j, c) /\ q[j] = r[k]
                        /\ Mentions(r, c) => Mentions(q, c)
                        /\ Mentions(q, c) => Mentions(r, c) \/ (Len(q) = QueueRoom /\ c \in OnlyFirst(q))
                        /\ Len(q) = QueueRoom /\ c \in OnlyFirst(q) => ~Mentions(r, c)
        BY PushMentions, FieldTypes, RoomAssumption
      <4>. HIDE DEF q, r
      <4>3. \A c \in lost' : ~Mentions(stream'.deltas, c)
        <5>1. \A c \in lost : ~Mentions(q, c)
          BY DEF CardInv, q
        <5>. QED BY <4>1, <4>2, <5>1
      <4>4. ASSUME NEW c \in Cards PROVE QueueInStep(c)'
        <5>1. CASE c \in DOMAIN hub.delta
          <6>1. hub.delta[c] = LastCards[c]
            BY <2>4, <5>1 DEF HubPushes, CardInv, Committed
          <6>. QED BY <3>2, <4>1, <4>2, <5>1, <6>1 DEF QueueInStep
        <5>2. CASE c \notin DOMAIN hub.delta
          <6>1. \A j \in DOMAIN q : Last(q, j, c) => q[j][c] = LastCards[c]
            BY <3>4, <5>2 DEF CardInv, Pushing, QueueInStep, q
          <6>. QED BY <3>2, <4>1, <4>2, <5>2, <6>1 DEF QueueInStep
        <5>. QED BY <5>1, <5>2
      <4>5. ASSUME NEW c \in Cards \ lost' PROVE WireInStep(c)' /\ ViewInStep(c)'
        <5>1. CASE c \in DOMAIN hub.delta
          BY <4>1, <4>2, <5>1 DEF WireInStep, ViewInStep
        <5>2. CASE c \notin DOMAIN hub.delta /\ ~Mentions(r, c)
          <6>1. c \notin lost /\ ~Mentions(q, c)
            BY <4>1, <4>2, <4>5, <5>2
          <6>2. WireInStep(c) /\ ViewInStep(c)
            BY <5>2, <6>1 DEF CardInv, Pushing
          <6>. QED BY <3>2, <4>1, <6>1, <6>2 DEF WireInStep, ViewInStep, Last, Mentions, q
        <5>3. CASE Mentions(r, c)
          BY <4>1, <5>3 DEF WireInStep, ViewInStep
        <5>. QED BY <5>1, <5>2, <5>3
      <4>. QED BY <3>1, <3>2, <3>4, <4>3, <4>4, <4>5 DEF CardInv
    <3>. QED BY <3>3, <3>4
  <2>5. ASSUME NEW rotates \in BOOLEAN, Emits(rotates) PROVE CardInv'
    <3>1. stream'.deltas = stream.deltas /\ stream'.at = stream.at
      BY <2>5 DEF Emits, TypeOK
    <3>. QED BY <2>5, <2>0, <3>1, CardInvKept DEF Emits, LastCards
  <2>6. CASE StreamConnects
    <3>1. /\ stream'.at = "hub" /\ stream'.deltas = <<>> /\ lost' = {} /\ wire' = <<>>
          /\ hub' = hub /\ LastCards' = LastCards
      BY <2>6 DEF StreamConnects, NoStream, CardInv, LastCards
    <3>. QED BY <3>1 DEF CardInv, Committed, QueueInStep, WireInStep, ViewInStep, Mentions
  <2>7. CASE StreamSubscribes
    <3>1. stream'.deltas = stream.deltas /\ stream'.at = "log" /\ stream.at = "hub"
      BY <2>7 DEF StreamSubscribes, TypeOK
    <3>. QED BY <2>7, <2>0, <3>1, CardInvKept DEF StreamSubscribes, LastCards
  <2>8. CASE StreamReadsBacklog
    <3>1. stream'.deltas = stream.deltas /\ stream'.at = "backlog" /\ stream.at = "log"
      BY <2>8 DEF StreamReadsBacklog, TypeOK
    <3>. QED BY <2>8, <2>0, <3>1, CardInvKept DEF StreamReadsBacklog, LastCards
  <2>9. CASE StreamOpens
    <3>1. stream'.deltas = stream.deltas /\ stream'.at = "open" /\ stream.at = "backlog"
      BY <2>9 DEF StreamOpens, TypeOK
    <3>2. UNCHANGED <<hub, page, doubted, full>> /\ lost' = {} /\ LastCards' = LastCards
      BY <2>9 DEF StreamOpens, LastCards
    <3>3. /\ DOMAIN FirstFrame.news = Cards
          /\ FirstFrame.sure => FirstFrame.news = LastCards
      BY DEF FirstFrame, CardFrame, LastCards, TypeOK, Boards
    <3>4. /\ DOMAIN wire' \in {{1}, {1, 2}} /\ wire'[1] = FirstFrame
          /\ 2 \in DOMAIN wire' => wire'[2].news = NoCards
      BY <2>9, OpeningDef
    <3>5. /\ DOMAIN Told' \in {{1}, {1, 2}} /\ Told'[1] = FirstFrame.news
          /\ 2 \in DOMAIN Told' => Told'[2] = NoCards
      BY <3>4 DEF Told
    <3>6. ASSUME NEW c \in Cards PROVE WireInStep(c)' /\ ViewInStep(c)'
      <4>1. Mentions(Told', c)
        BY <3>3, <3>5 DEF Mentions
      <4>2. \A k \in DOMAIN Told' : Last(Told', k, c) => k = 1
        BY <3>5, NewsDef DEF Last
      <4>. QED BY <3>2, <3>3, <3>4, <3>5, <4>1, <4>2 DEF WireInStep, ViewInStep
    <3>7. ASSUME NEW c \in Cards, ~Pushing(c) PROVE QueueInStep(c)'
      BY <3>1, <3>2, <3>7 DEF CardInv, QueueInStep
    <3>8. Committed' /\ \A c : Pushing(c)' <=> Pushing(c)
      BY <3>2 DEF CardInv, Committed, Pushing
    <3>. QED BY <3>1, <3>2, <3>6, <3>7, <3>8 DEF CardInv
  <2>10. ASSUME stream.at = "open", stream'.at = "open", UNCHANGED <<hub, page, doubted, full, lost>>,
                NEW f \in Frames, wire' = Append(wire, f),
                \A c : Mentions(stream'.deltas, c) => Mentions(stream.deltas, c),
                \A c \in Cards : QueueInStep(c) => QueueInStep(c)',
                \A c \in Cards : Mentions(stream.deltas, c) /\ ~Mentions(stream'.deltas, c) => c \in DOMAIN f.news,
                \A c \in Cards : ~Pushing(c) /\ ~Mentions(stream'.deltas, c) /\ c \in DOMAIN f.news =>
                  f.news[c] = LastCards[c]
         PROVE  CardInv'
    <3>1. LastCards' = LastCards /\ Committed' /\ \A c : Pushing(c)' <=> Pushing(c)
      BY <2>10 DEF CardInv, Committed, Pushing, LastCards
    <3>2. ASSUME NEW c \in Cards \ lost, ~Pushing(c), ~Mentions(stream'.deltas, c)
          PROVE  /\ \A k \in DOMAIN Told' : Last(Told', k, c) => ~wire'[k].sure \/ Told'[k][c] = LastCards[c]
                 /\ ~Mentions(Told', c) => c \in doubted \/ page.view[c] = LastCards[c]
      <4>1. CASE c \in DOMAIN f.news
        BY <2>10, <3>2, <4>1, ToldGrows
      <4>2. CASE c \notin DOMAIN f.news
        <5>1. ~Mentions(stream.deltas, c) /\ WireInStep(c) /\ ViewInStep(c)
          BY <2>10, <3>2, <4>2 DEF CardInv
        <5>2. (\A k \in DOMAIN Told : Last(Told, k, c) => ~wire[k].sure \/ Told[k][c] = LastCards[c])
              /\ (~Mentions(Told, c) => c \in doubted \/ page.view[c] = LastCards[c])
          BY <2>10, <5>1 DEF WireInStep, ViewInStep
        <5>3. /\ Mentions(Told', c) <=> Mentions(Told, c)
              /\ \A k \in DOMAIN Told' : Last(Told', k, c) =>
                   k \in DOMAIN Told /\ Last(Told, k, c) /\ wire'[k] = wire[k] /\ Told'[k] = Told[k]
          BY <2>10, <4>2, ToldGrows
        <5>. QED BY <5>2, <5>3
      <4>. QED BY <4>1, <4>2
    <3>3. ASSUME NEW c \in Cards \ lost, ~Pushing(c) PROVE WireInStep(c)' /\ ViewInStep(c)'
      BY <2>10, <3>1, <3>2, <3>3 DEF WireInStep, ViewInStep
    <3>. QED BY <2>10, <3>1, <3>3 DEF CardInv
  <2>11. CASE StreamSendsDelta
    <3>. DEFINE q == stream.deltas
                t == Tail(stream.deltas)
    <3>1. /\ Head(q) \in News /\ Head(q) = q[1] /\ Len(q) \in Nat \ {0} /\ DOMAIN q = 1 .. Len(q)
          /\ DOMAIN t = 1 .. Len(q) - 1 /\ \A k \in 1 .. Len(q) - 1 : t[k] = q[k + 1]
      BY <2>11, TailDef, FieldTypes DEF StreamSendsDelta
    <3>2. /\ stream'.deltas = t /\ stream'.at = "open" /\ stream.at = "open"
          /\ UNCHANGED <<hub, page, doubted, full, lost>>
          /\ wire' = Append(wire, CardFrame(Head(q), TRUE))
      BY <2>11 DEF StreamSendsDelta, TypeOK
    <3>. HIDE DEF q, t
    <3>3. CardFrame(Head(q), TRUE) \in Frames /\ CardFrame(Head(q), TRUE).news = Head(q)
      BY <3>1, RecordTypes DEF CardFrame
    <3>4. ASSUME NEW c
          PROVE  /\ Mentions(q, c) <=> c \in DOMAIN Head(q) \/ Mentions(t, c)
                 /\ \A k \in DOMAIN t : Last(t, k, c) => k + 1 \in DOMAIN q /\ Last(q, k + 1, c) /\ t[k] = q[k + 1]
                 /\ c \in DOMAIN Head(q) /\ ~Mentions(t, c) => Last(q, 1, c)
      <4>1. /\ Mentions(q, c) <=> c \in DOMAIN q[1] \/ Mentions(t, c)
            /\ \A k \in DOMAIN t : Last(t, k, c) => k + 1 \in DOMAIN q /\ Last(q, k + 1, c)
            /\ c \in DOMAIN q[1] /\ ~Mentions(t, c) => Last(q, 1, c)
        BY <3>1, TailMentions
      <4>. QED BY <3>1, <4>1
    <3>5. LastCards' = LastCards
      BY <3>2 DEF LastCards
    <3>6. ASSUME NEW c \in Cards, QueueInStep(c) PROVE QueueInStep(c)'
      <4>1. \A k \in DOMAIN q : Last(q, k, c) => q[k][c] = LastCards[c]
        BY <3>2, <3>6 DEF QueueInStep, q
      <4>. QED BY <3>2, <3>4, <3>5, <4>1 DEF QueueInStep
    <3>7. ASSUME NEW c \in Cards, ~Pushing(c), ~Mentions(t, c), c \in DOMAIN Head(q)
          PROVE  Head(q)[c] = LastCards[c]
      <4>1. QueueInStep(c) /\ stream.at # "down"
        BY <3>2, <3>7 DEF CardInv
      <4>2. Last(q, 1, c) /\ 1 \in DOMAIN q /\ q[1] = Head(q)
        BY <3>1, <3>4, <3>7
      <4>. QED BY <4>1, <4>2 DEF QueueInStep, q
    <3>8. \A c : Mentions(t, c) => Mentions(q, c)
      BY <3>4
    <3>9. \A c \in Cards : Mentions(q, c) /\ ~Mentions(t, c) => c \in DOMAIN Head(q)
      BY <3>4
    <3>. QED BY <2>10, <3>2, <3>3, <3>6, <3>7, <3>8, <3>9 DEF q
  <2>12. CASE StreamSendsEntry
    <3>. DEFINE f == LogFrame(Head(stream.entries), Head(stream.entries))
    <3>1. Head(stream.entries) \in Entries
      BY <2>12, TailDef, FieldTypes DEF StreamSendsEntry
    <3>2. f \in Frames /\ f.news = NoCards
      <4>1. Head(stream.entries) \in 1 .. MaxEntries + 1 /\ Head(stream.entries) \in 0 .. MaxEntries
        BY <3>1, RoomAssumption DEF Entries
      <4>. QED BY <4>1, RecordTypes DEF LogFrame
    <3>3. /\ stream'.deltas = stream.deltas /\ stream'.at = "open" /\ stream.at = "open"
          /\ UNCHANGED <<hub, page, doubted, full, lost>> /\ wire' = Append(wire, f) /\ LastCards' = LastCards
      BY <2>12 DEF StreamSendsEntry, TypeOK, LastCards
    <3>4. \A c \in Cards : QueueInStep(c) => QueueInStep(c)'
      BY <3>3 DEF QueueInStep
    <3>. HIDE DEF f
    <3>. QED BY <2>10, <3>2, <3>3, <3>4, NewsDef
  <2>13. CASE PageReads
    <3>. DEFINE f == Head(wire)
    <3>1. /\ wire # <<>> /\ wire' = Tail(wire) /\ stream.at = "open"
          /\ UNCHANGED <<hub, stream, full, lost>> /\ LastCards' = LastCards
      BY <2>13 DEF PageReads, CardInv, LastCards
    <3>2. /\ page'.view = Shown(page.view, f.news)
          /\ doubted' = IF f.sure THEN doubted \ DOMAIN f.news ELSE doubted \cup DOMAIN f.news
      BY <2>13 DEF PageReads
    <3>3. ASSUME NEW c
          PROVE  /\ Mentions(Told, c) <=> c \in DOMAIN f.news \/ Mentions(Told', c)
                 /\ \A k \in DOMAIN Told' : Last(Told', k, c) =>
                      k + 1 \in DOMAIN Told /\ Last(Told, k + 1, c)
                      /\ wire'[k] = wire[k + 1] /\ Told'[k] = Told[k + 1]
                 /\ c \in DOMAIN f.news /\ ~Mentions(Told', c) => Last(Told, 1, c)
                 /\ 1 \in DOMAIN Told /\ Told[1] = f.news /\ wire[1] = f
      BY <3>1, ToldShrinks
    <3>. HIDE DEF f
    <3>4. Committed' /\ \A c : Pushing(c)' <=> Pushing(c)
      BY <3>1 DEF CardInv, Committed, Pushing
    <3>5. ASSUME NEW c \in Cards \ lost, ~Pushing(c), ~Mentions(stream.deltas, c)
          PROVE  /\ \A k \in DOMAIN Told' : Last(Told', k, c) => ~wire'[k].sure \/ Told'[k][c] = LastCards[c]
                 /\ ~Mentions(Told', c) => c \in doubted' \/ page'.view[c] = LastCards[c]
      <4>1. /\ \A k \in DOMAIN Told : Last(Told, k, c) => ~wire[k].sure \/ Told[k][c] = LastCards[c]
            /\ ~Mentions(Told, c) => c \in doubted \/ page.view[c] = LastCards[c]
        BY <3>1, <3>5 DEF CardInv, WireInStep, ViewInStep
      <4>2. page'.view[c] = IF c \in DOMAIN f.news THEN f.news[c] ELSE page.view[c]
        BY <3>2 DEF Shown
      <4>. QED BY <3>2, <3>3, <4>1, <4>2
    <3>6. ASSUME NEW c \in Cards \ lost, ~Pushing(c) PROVE WireInStep(c)' /\ ViewInStep(c)'
      BY <3>1, <3>5, <3>6 DEF WireInStep, ViewInStep
    <3>7. ASSUME NEW c \in Cards, ~Pushing(c) PROVE QueueInStep(c)'
      BY <3>1, <3>7 DEF CardInv, QueueInStep
    <3>. QED BY <3>1, <3>4, <3>6, <3>7 DEF CardInv
  <2>14. CASE FetchAnswered
    BY <2>14, <2>0, CardInvKept DEF FetchAnswered, LastCards
  <2>15. CASE FetchApplied
    <3>1. /\ UNCHANGED <<hub, stream, full, lost, wire>> /\ LastCards' = LastCards /\ doubted' = Cards
          /\ Told' = Told /\ \A c : Pushing(c)' <=> Pushing(c)
      BY <2>15 DEF FetchApplied, LastCards, Told, Pushing
    <3>2. ASSUME NEW c \in Cards \ lost, ~Pushing(c) PROVE WireInStep(c)' /\ ViewInStep(c)'
      <4>1. WireInStep(c)
        BY <3>2 DEF CardInv
      <4>. QED BY <3>1, <4>1 DEF WireInStep, ViewInStep, Last, Mentions
    <3>3. ASSUME NEW c \in Cards, ~Pushing(c) PROVE QueueInStep(c)'
      BY <3>1, <3>3 DEF CardInv, QueueInStep
    <3>4. Committed'
      BY <3>1 DEF CardInv, Committed
    <3>. QED BY <3>1, <3>2, <3>3, <3>4 DEF CardInv
  <2>16. ASSUME Broken, Committed' PROVE CardInv'
    <3>1. stream'.at = "down" /\ stream'.deltas = <<>> /\ wire' = <<>> /\ lost' = {}
      BY <2>16, RecordTypes DEF Broken, NoStream
    <3>. QED BY <2>16, <3>1 DEF CardInv, QueueInStep, WireInStep, ViewInStep
  <2>17. CASE ConnectionBreaks
    <3>1. Committed'
      BY <2>17 DEF ConnectionBreaks, CardInv, Committed, LastCards
    <3>. QED BY <2>16, <2>17, <3>1 DEF ConnectionBreaks
  <2>18. CASE MonitorRestarts
    <3>1. Committed'
      BY <2>18 DEF MonitorRestarts, IdleHub, Committed
    <3>. QED BY <2>16, <2>18, <3>1 DEF MonitorRestarts
  <2>19. CASE UNCHANGED vars
    BY <2>19, <2>0, CardInvKept DEF vars, LastCards
  <2>. QED
    BY <2>1, <2>2, <2>3, <2>4, <2>5, <2>6, <2>7, <2>8, <2>9, <2>11, <2>12, <2>13, <2>14, <2>15,
       <2>17, <2>18, <2>19 DEF Next, HubSteps, StreamSteps
<1>3. TypeOK /\ CardInv => CardsInStep
  <2>. SUFFICES ASSUME CardInv, Quiet, NEW c \in Cards \ Doubtful PROVE page.view[c] = LastCards[c]
    BY DEF CardsInStep
  <2>1. c \in Cards \ lost /\ c \notin doubted /\ ~Pushing(c)
    BY DEF Doubtful, Quiet, Pushing
  <2>2. stream.at = "open" /\ ~Mentions(stream.deltas, c) /\ ~Mentions(Told, c)
    BY DEF Quiet, Mentions, Told
  <2>. QED BY <2>1, <2>2 DEF CardInv, ViewInStep
<1>. QED BY <1>1, <1>2, <1>3, TypeCorrect, PTL DEF Spec

-----------------------------------------------------------------------------
\* What the first k frames of w cover, and the first k entries of s.
Frm(w, k) == UNION {w[j].from .. w[j].to : j \in 1 .. k}
Ent(s, k) == {s[j] : j \in 1 .. k}

\* The part of LogInv about what is on its way, for any queue, wire and numbers.
Way(known, pend, to, w, s, seq) ==
    /\ 1 .. to \subseteq known \cup pend
    /\ \A k \in DOMAIN w : 1 .. w[k].to \subseteq known \cup Frm(w, k)
    /\ \A k \in DOMAIN s : 1 .. s[k] \subseteq known \cup pend \cup Frm(w, Len(w)) \cup Ent(s, k)
    /\ 1 .. seq \subseteq known \cup pend \cup Frm(w, Len(w)) \cup Ent(s, Len(s))

LEMMA EntDef ==
    ASSUME NEW S, NEW s \in Seq(S)
    PROVE  /\ s # <<>> => \A k \in 0 .. Len(s) - 1 : Ent(s, k + 1) = {Head(s)} \cup Ent(Tail(s), k)
           /\ \A x \in S : /\ Ent(Append(s, x), Len(s) + 1) = Ent(s, Len(s)) \cup {x}
                           /\ \A k \in 1 .. Len(s) : Ent(Append(s, x), k) = Ent(s, k)
<1>1. ASSUME s # <<>>, NEW k \in 0 .. Len(s) - 1
      PROVE  Ent(s, k + 1) = {Head(s)} \cup Ent(Tail(s), k)
  <2>1. Len(s) \in Nat \ {0} /\ Head(s) = s[1] /\ \A j \in 1 .. Len(s) - 1 : Tail(s)[j] = s[j + 1]
    BY <1>1, TailDef
  <2>2. ASSUME NEW j \in 1 .. k + 1, j # 1 PROVE j - 1 \in 1 .. k /\ Tail(s)[j - 1] = s[j]
    BY <1>1, <2>1, <2>2
  <2>3. ASSUME NEW j \in 1 .. k PROVE j + 1 \in 1 .. k + 1 /\ Tail(s)[j] = s[j + 1]
    BY <1>1, <2>1, <2>3
  <2>4. 1 \in 1 .. k + 1
    BY <1>1, <2>1
  <2>. QED BY <2>1, <2>2, <2>3, <2>4 DEF Ent
<1>2. ASSUME NEW x \in S
      PROVE  /\ Ent(Append(s, x), Len(s) + 1) = Ent(s, Len(s)) \cup {x}
             /\ \A k \in 1 .. Len(s) : Ent(Append(s, x), k) = Ent(s, k)
  <2>1. /\ Len(s) \in Nat /\ Append(s, x)[Len(s) + 1] = x
        /\ \A j \in 1 .. Len(s) : Append(s, x)[j] = s[j]
    BY AppendDef
  <2>2. 1 .. Len(s) + 1 = (1 .. Len(s)) \cup {Len(s) + 1}
    BY <2>1
  <2>3. \A k \in 1 .. Len(s) : \A j \in 1 .. k : j \in 1 .. Len(s)
    BY <2>1
  <2>. QED BY <2>1, <2>2, <2>3 DEF Ent
<1>. QED BY <1>1, <1>2

\* What a set of frames covers.
Cover(A) == UNION {f.from .. f.to : f \in A}

LEMMA CoverDef ==
    ASSUME NEW A, NEW f
    PROVE  /\ Cover(A \cup {f}) = Cover(A) \cup (f.from .. f.to)
           /\ Cover({f} \cup A) = (f.from .. f.to) \cup Cover(A)
<1>1. \A B : \A x : x \in Cover(B) <=> \E e \in B : x \in e.from .. e.to
  BY DEF Cover
<1>. QED BY <1>1

LEMMA FrmDef ==
    ASSUME NEW w \in Seq(Frames)
    PROVE  /\ w # <<>> =>
                \A k \in 0 .. Len(w) - 1 : Frm(w, k + 1) = (Head(w).from .. Head(w).to) \cup Frm(Tail(w), k)
           /\ \A f \in Frames : /\ Frm(Append(w, f), Len(w) + 1) = Frm(w, Len(w)) \cup (f.from .. f.to)
                                /\ \A k \in 1 .. Len(w) : Frm(Append(w, f), k) = Frm(w, k)
<1>. DEFINE Cov(f) == f.from .. f.to
<1>1. \A u, k : Frm(u, k) = Cover(Ent(u, k))
  BY DEF Frm, Ent, Cover
<1>2. \A A, f : Cover(A \cup {f}) = Cover(A) \cup Cov(f) /\ Cover({f} \cup A) = Cov(f) \cup Cover(A)
  BY CoverDef
<1>. HIDE DEF Cov
<1>3. ASSUME w # <<>>, NEW k \in 0 .. Len(w) - 1
      PROVE  Frm(w, k + 1) = Cov(Head(w)) \cup Frm(Tail(w), k)
  <2>1. Ent(w, k + 1) = {Head(w)} \cup Ent(Tail(w), k)
    BY <1>3, EntDef
  <2>. QED BY <2>1, <1>1, <1>2
<1>4. ASSUME NEW f \in Frames
      PROVE  /\ Frm(Append(w, f), Len(w) + 1) = Frm(w, Len(w)) \cup Cov(f)
             /\ \A k \in 1 .. Len(w) : Frm(Append(w, f), k) = Frm(w, k)
  <2>1. /\ Ent(Append(w, f), Len(w) + 1) = Ent(w, Len(w)) \cup {f}
        /\ \A k \in 1 .. Len(w) : Ent(Append(w, f), k) = Ent(w, k)
    BY EntDef
  <2>2. Frm(Append(w, f), Len(w) + 1) = Frm(w, Len(w)) \cup Cov(f)
    BY <2>1, <1>1, <1>2
  <2>3. ASSUME NEW k \in 1 .. Len(w) PROVE Frm(Append(w, f), k) = Frm(w, k)
    BY <2>1, <1>1
  <2>. QED BY <2>2, <2>3
<1>. QED BY <1>3, <1>4 DEF Cov

\* An entry is emitted: it joins the queue, and what falls off is known as cut.
LEMMA WayEmits ==
    ASSUME NEW s \in Seq(Entries), NEW seq \in Nat, seq + 1 \in Entries, NEW room \in Nat \ {0},
           Len(s) <= room, NEW known, NEW pend, NEW to, NEW w, Way(known, pend, to, w, s, seq)
    PROVE  Way(IF Len(s) = room THEN known \cup {Head(s)} ELSE known, pend, to, w, Pushed(s, seq + 1, room), seq + 1)
<1>. DEFINE n == seq + 1
            r == Pushed(s, n, room)
            more == IF Len(s) = room THEN known \cup {Head(s)} ELSE known
            b == IF Len(s) = room THEN Tail(s) ELSE s
            rest == pend \cup Frm(w, Len(w))
<1>1. 1 .. n = 1 .. seq \cup {n}
  OBVIOUS
<1>2. /\ b \in Seq(Entries) /\ Len(b) \in Nat /\ DOMAIN b = 1 .. Len(b)
      /\ \A k \in DOMAIN b : 1 .. b[k] \subseteq more \cup rest \cup Ent(b, k)
      /\ 1 .. seq \subseteq more \cup rest \cup Ent(b, Len(b))
  <2>1. CASE Len(s) # room
    BY <2>1, LenProperties DEF Way
  <2>2. CASE Len(s) = room
    <3>1. s # <<>>
      BY <2>2, EmptySeq
    <3>0. b = Tail(s) /\ more = known \cup {Head(s)}
      BY <2>2
    <3>. HIDE DEF b, more, rest
    <3>2. /\ b \in Seq(Entries) /\ Len(b) = Len(s) - 1 /\ Len(s) \in Nat \ {0} /\ DOMAIN s = 1 .. Len(s)
          /\ DOMAIN b = 1 .. Len(s) - 1 /\ \A k \in 1 .. Len(s) - 1 : b[k] = s[k + 1]
      BY <3>0, <3>1, TailDef
    <3>3. \A k \in 0 .. Len(s) - 1 : Ent(s, k + 1) = {Head(s)} \cup Ent(b, k)
      BY <3>0, <3>1, EntDef
    <3>4. ASSUME NEW k \in DOMAIN b PROVE 1 .. b[k] \subseteq more \cup rest \cup Ent(b, k)
      <4>1. k + 1 \in DOMAIN s /\ b[k] = s[k + 1] /\ Ent(s, k + 1) = {Head(s)} \cup Ent(b, k)
        BY <3>2, <3>3
      <4>2. 1 .. s[k + 1] \subseteq known \cup rest \cup Ent(s, k + 1)
        BY <4>1 DEF Way, rest
      <4>. QED BY <3>0, <4>1, <4>2
    <3>5. 1 .. seq \subseteq more \cup rest \cup Ent(b, Len(b))
      <4>1. Len(b) \in 0 .. Len(s) - 1 /\ Len(b) + 1 = Len(s)
        BY <3>2
      <4>2. Ent(s, Len(s)) = {Head(s)} \cup Ent(b, Len(b))
        BY <3>3, <4>1
      <4>3. 1 .. seq \subseteq known \cup rest \cup Ent(s, Len(s))
        BY DEF Way, rest
      <4>. QED BY <3>0, <4>2, <4>3
    <3>6. Len(b) \in Nat /\ DOMAIN b = 1 .. Len(b)
      BY <3>2
    <3>. QED BY <3>2, <3>4, <3>5, <3>6
  <2>. QED BY <2>1, <2>2
<1>3. r = Append(b, n)
  BY DEF Pushed
<1>4. known \subseteq more
  OBVIOUS
<1>. HIDE DEF more, b, n
<1>5. /\ DOMAIN r = 1 .. Len(b) + 1 /\ Len(r) = Len(b) + 1
      /\ \A k \in 1 .. Len(b) : r[k] = b[k] /\ Ent(r, k) = Ent(b, k)
      /\ r[Len(b) + 1] = n
      /\ Ent(r, Len(b) + 1) = Ent(b, Len(b)) \cup {n}
  <2>1. n \in Entries
    BY DEF n
  <2>2. /\ Ent(Append(b, n), Len(b) + 1) = Ent(b, Len(b)) \cup {n}
        /\ \A k \in 1 .. Len(b) : Ent(Append(b, n), k) = Ent(b, k)
    BY <1>2, <2>1, EntDef
  <2>. QED BY <1>2, <1>3, <2>1, <2>2, AppendDef
<1>. HIDE DEF r
<1>6. 1 .. n \subseteq more \cup rest \cup Ent(r, Len(r))
  BY <1>1, <1>2, <1>5
<1>7. ASSUME NEW k \in DOMAIN r PROVE 1 .. r[k] \subseteq more \cup rest \cup Ent(r, k)
  <2>1. k \in 1 .. Len(b) \/ k = Len(b) + 1
    BY <1>2, <1>5
  <2>. QED BY <1>2, <1>5, <1>6, <2>1
<1>8. /\ 1 .. to \subseteq more \cup pend
      /\ \A k \in DOMAIN w : 1 .. w[k].to \subseteq more \cup Frm(w, k)
  BY <1>4 DEF Way
<1>9. Way(more, pend, to, w, r, n)
  BY <1>6, <1>7, <1>8 DEF Way
<1>. QED BY <1>9 DEF more, r, n

\* A frame is put on the wire: of cards, or the first entry of the queue.
LEMMA WaySends ==
    ASSUME NEW w \in Seq(Frames), NEW f \in Frames, NEW s, NEW t, NEW known, NEW to, NEW seq,
           Way(known, {}, to, w, s, seq),
           1 .. f.to \subseteq known \cup Frm(w, Len(w)) \cup (f.from .. f.to),
           \A k \in DOMAIN t : \E j \in DOMAIN s : t[k] = s[j] /\ Ent(s, j) \subseteq (f.from .. f.to) \cup Ent(t, k),
           Ent(s, Len(s)) \subseteq (f.from .. f.to) \cup Ent(t, Len(t))
    PROVE  Way(known, {}, to, Append(w, f), t, seq)
<1>. DEFINE v == Append(w, f)
<1>1. /\ DOMAIN v = 1 .. Len(w) + 1 /\ Len(v) = Len(w) + 1 /\ Len(w) \in Nat /\ DOMAIN w = 1 .. Len(w)
      /\ \A k \in 1 .. Len(w) : v[k] = w[k] /\ Frm(v, k) = Frm(w, k)
      /\ v[Len(w) + 1] = f /\ Frm(v, Len(v)) = Frm(w, Len(w)) \cup (f.from .. f.to)
  BY AppendDef, FrmDef
<1>. HIDE DEF v
<1>2. ASSUME NEW k \in DOMAIN v PROVE 1 .. v[k].to \subseteq known \cup Frm(v, k)
  <2>1. k \in 1 .. Len(w) \/ k = Len(w) + 1
    BY <1>1
  <2>. QED BY <1>1, <2>1 DEF Way
<1>3. ASSUME NEW k \in DOMAIN t PROVE 1 .. t[k] \subseteq known \cup {} \cup Frm(v, Len(v)) \cup Ent(t, k)
  BY <1>1 DEF Way
<1>4. Way(known, {}, to, v, t, seq)
  BY <1>1, <1>2, <1>3 DEF Way
<1>. QED BY <1>4 DEF v

\* The page reads the first frame, and what the frame covers is known.
LEMMA WayReads ==
    ASSUME NEW w \in Seq(Frames), w # <<>>, NEW s, NEW known, NEW pend, NEW to, NEW seq,
           Way(known, pend, to, w, s, seq)
    PROVE  /\ Way(known \cup (Head(w).from .. Head(w).to), pend, to, Tail(w), s, seq)
           /\ 1 .. Head(w).to \subseteq known \cup (Head(w).from .. Head(w).to)
<1>. DEFINE t == Tail(w)
            cov == Head(w).from .. Head(w).to
            more == known \cup cov
<1>1. /\ Len(w) \in Nat \ {0} /\ DOMAIN w = 1 .. Len(w) /\ Len(t) = Len(w) - 1 /\ w[1] = Head(w)
      /\ DOMAIN t = 1 .. Len(w) - 1 /\ \A k \in 1 .. Len(w) - 1 : t[k] = w[k + 1]
  BY TailDef
<1>2. \A k \in 0 .. Len(w) - 1 : Frm(w, k + 1) = cov \cup Frm(t, k)
  BY FrmDef
<1>. HIDE DEF cov, t
<1>3. Len(t) \in 0 .. Len(w) - 1 /\ Len(t) + 1 = Len(w)
  BY <1>1
<1>4. Frm(w, Len(w)) = cov \cup Frm(t, Len(t))
  BY <1>2, <1>3
<1>5. ASSUME NEW k \in DOMAIN t PROVE 1 .. t[k].to \subseteq more \cup Frm(t, k)
  <2>1. k + 1 \in DOMAIN w /\ t[k] = w[k + 1] /\ Frm(w, k + 1) = cov \cup Frm(t, k)
    BY <1>1, <1>2
  <2>2. 1 .. w[k + 1].to \subseteq known \cup Frm(w, k + 1)
    BY <2>1 DEF Way
  <2>. QED BY <2>1, <2>2
<1>6. 1 .. Head(w).to \subseteq more
  <2>1. Frm(w, 1) = cov
    <3>1. 0 \in 0 .. Len(w) - 1 /\ 0 + 1 = 1
      BY <1>1
    <3>2. Frm(t, 0) = {}
      BY DEF Frm
    <3>. QED BY <1>2, <3>1, <3>2
  <2>. QED BY <1>1, <2>1 DEF Way
<1>7. Way(more, pend, to, t, s, seq)
  BY <1>4, <1>5 DEF Way
<1>. QED BY <1>6, <1>7 DEF cov, t

-----------------------------------------------------------------------------
\* LogInv, its part about what is on the way put in terms of Way.
LEMMA LogInvDef ==
    ASSUME TypeOK
    PROVE  LogInv <=>
             /\ stream.after <= page.lastSeq
             /\ stream.at # "open" => wire = <<>>
             /\ stream.at # "backlog" => stream.from > stream.to
             /\ stream.at \in {"down", "hub"} => stream.entries = <<>>
             /\ 1 .. page.lastSeq \subseteq Known
             /\ stream.at \in {"backlog", "open"} =>
                  Way(Known, Pending, stream.to, wire, stream.entries, log.seq)
             /\ \A k \in DOMAIN stream.entries : stream.entries[k] <= log.seq
BY DEF LogInv, Way, Frm, Ent, WireCovers, QueueCovers

\* No log entry up to the last one seen is missed.
THEOREM LogMissesNothing == Spec => []LogComplete
<1>1. Init => LogInv
  <2>. SUFFICES ASSUME Init PROVE LogInv
    OBVIOUS
  <2>1. /\ stream.at = "down" /\ stream.after = 0 /\ stream.from = 1 /\ stream.to = 0
        /\ stream.entries = <<>> /\ wire = <<>> /\ page.lastSeq = 0
    BY DEF Init, NoStream
  <2>. QED BY <2>1 DEF LogInv
<1>2. TypeOK /\ TypeOK' /\ LogInv /\ [Next]_vars => LogInv'
  <2>. SUFFICES ASSUME TypeOK, TypeOK', LogInv, [Next]_vars PROVE LogInv'
    OBVIOUS
  <2>. USE DEF doubts, counters
  <2>0. /\ stream.after <= page.lastSeq
        /\ stream.at # "open" => wire = <<>>
        /\ stream.at # "backlog" => stream.from > stream.to
        /\ stream.at \in {"down", "hub"} => stream.entries = <<>>
        /\ 1 .. page.lastSeq \subseteq Known
        /\ stream.at \in {"backlog", "open"} =>
             Way(Known, Pending, stream.to, wire, stream.entries, log.seq)
        /\ \A k \in DOMAIN stream.entries : stream.entries[k] <= log.seq
    BY LogInvDef
  <2>. DEFINE Kept == /\ stream'.after <= page'.lastSeq
                      /\ stream'.at # "open" => wire' = <<>>
                      /\ stream'.at # "backlog" => stream'.from > stream'.to
                      /\ stream'.at \in {"down", "hub"} => stream'.entries = <<>>
                      /\ 1 .. page'.lastSeq \subseteq Known'
                      /\ stream'.at \in {"backlog", "open"} =>
                           Way(Known', Pending', stream'.to, wire', stream'.entries, log'.seq)
                      /\ \A k \in DOMAIN stream'.entries : stream'.entries[k] <= log'.seq
  <2>K. Kept => LogInv'
    BY DEF LogInv, Way, Frm, Ent, WireCovers, QueueCovers
  <2>. SUFFICES Kept
    BY <2>K
  <2>. HIDE DEF Kept
  <2>1. ASSUME UNCHANGED <<log, wire, cut>>, page'.seen = page.seen, page'.lastSeq = page.lastSeq,
               stream'.at = stream.at, stream'.after = stream.after, stream'.from = stream.from,
               stream'.to = stream.to, stream'.entries = stream.entries
        PROVE  Kept
    <3>1. Known' = Known /\ Pending' = Pending
      BY <2>1 DEF Known, Pending
    <3>. QED BY <2>0, <2>1, <3>1 DEF Kept
  <2>2. ASSUME NEW c \in Cards, NEW text \in Texts \cup {Absent}, CardChanges(c, text) PROVE Kept
    BY <2>1, <2>2 DEF CardChanges
  <2>3. CASE HubBuilds \/ HubCommits \/ FetchAnswered \/ UNCHANGED vars
    <3>1. UNCHANGED <<log, wire, cut, page, stream>>
      BY <2>3 DEF HubBuilds, HubCommits, FetchAnswered, vars
    <3>. QED BY <2>1, <3>1
  <2>4. CASE HubPushes
    <3>1. UNCHANGED <<log, wire, cut, page>>
      BY <2>4 DEF HubPushes
    <3>2. /\ stream'.at = stream.at /\ stream'.after = stream.after /\ stream'.from = stream.from
          /\ stream'.to = stream.to /\ stream'.entries = stream.entries
      BY <2>4 DEF HubPushes, TypeOK
    <3>. QED BY <2>1, <3>1, <3>2
  <2>5. CASE FetchApplied
    <3>1. UNCHANGED <<log, wire, cut, stream>> /\ page'.seen = page.seen /\ page'.lastSeq = page.lastSeq
      BY <2>5 DEF FetchApplied, TypeOK
    <3>. QED BY <2>1, <3>1
  <2>6. ASSUME NEW rotates \in BOOLEAN, Emits(rotates) PROVE Kept
    <3>1. /\ log'.seq = log.seq + 1 /\ UNCHANGED <<page, wire>> /\ log.seq \in Nat /\ log.seq + 1 \in Entries
          /\ stream'.at = stream.at /\ stream'.after = stream.after /\ stream'.from = stream.from
          /\ stream'.to = stream.to
          /\ stream'.entries = IF Subscribed THEN Pushed(stream.entries, log.seq + 1, LogRoom) ELSE stream.entries
          /\ cut' = IF Subscribed /\ Len(stream.entries) = LogRoom THEN cut \cup {Head(stream.entries)} ELSE cut
      <4>1. log.seq < MaxEntries /\ log.seq \in 0 .. MaxEntries /\ MaxEntries \in Nat
        BY <2>6, FieldTypes DEF Emits
      <4>2. log.seq \in Nat /\ log.seq + 1 \in Entries
        BY <4>1 DEF Entries
      <4>. QED BY <2>6, <4>2 DEF Emits, TypeOK
    <3>2. CASE ~Subscribed
      <4>1. stream.at \in {"down", "hub"} /\ stream'.entries = <<>> /\ Known' = Known
        BY <2>0, <3>1, <3>2, FieldTypes DEF Subscribed, StreamPlaces, Known
      <4>. QED BY <2>0, <3>1, <4>1 DEF Kept
    <3>3. CASE Subscribed
      <4>. DEFINE r == Pushed(stream.entries, log.seq + 1, LogRoom)
                  more == IF Len(stream.entries) = LogRoom THEN Known \cup {Head(stream.entries)} ELSE Known
      <4>1. Known' = more /\ Pending' = Pending
        BY <3>1, <3>3 DEF Known, Pending
      <4>2. stream.at \in {"backlog", "open"} => Way(more, Pending, stream.to, wire, r, log.seq + 1)
        BY <2>0, <3>1, WayEmits, FieldTypes, RoomAssumption
      <4>3. \A k \in DOMAIN r : r[k] <= log.seq + 1
        <5>1. ASSUME NEW s \in Seq(Entries), \A k \in DOMAIN s : s[k] <= log.seq,
                     NEW k \in DOMAIN Append(s, log.seq + 1)
              PROVE  Append(s, log.seq + 1)[k] <= log.seq + 1
          <6>1. /\ DOMAIN s = 1 .. Len(s) /\ Len(s) \in Nat
                /\ DOMAIN Append(s, log.seq + 1) = 1 .. Len(s) + 1
                /\ \A j \in 1 .. Len(s) : Append(s, log.seq + 1)[j] = s[j]
                /\ Append(s, log.seq + 1)[Len(s) + 1] = log.seq + 1
            BY <3>1, <5>1, AppendDef
          <6>2. k \in 1 .. Len(s) \/ k = Len(s) + 1
            BY <5>1, <6>1
          <6>3. \A j \in 1 .. Len(s) : s[j] \in Nat
            <7>1. \A j \in 1 .. Len(s) : s[j] \in Entries
              BY <5>1, ElementOfSeq
            <7>. QED BY <7>1 DEF Entries
          <6>. QED BY <3>1, <5>1, <6>1, <6>2, <6>3
        <5>2. CASE Len(stream.entries) # LogRoom
          BY <2>0, <5>1, <5>2, FieldTypes DEF Pushed
        <5>3. CASE Len(stream.entries) = LogRoom
          <6>1. stream.entries # <<>> /\ r = Append(Tail(stream.entries), log.seq + 1)
            <7>1. LogRoom \in Nat \ {0} /\ stream.entries \in Seq(Entries)
              BY FieldTypes, RoomAssumption
            <7>. QED BY <5>3, <7>1, EmptySeq DEF Pushed
          <6>2. Tail(stream.entries) \in Seq(Entries)
            BY <6>1, TailDef, FieldTypes
          <6>3. \A k \in DOMAIN Tail(stream.entries) : Tail(stream.entries)[k] <= log.seq
            <7>1. /\ Len(stream.entries) \in Nat /\ DOMAIN stream.entries = 1 .. Len(stream.entries)
                  /\ DOMAIN Tail(stream.entries) = 1 .. Len(stream.entries) - 1
                  /\ \A k \in 1 .. Len(stream.entries) - 1 : Tail(stream.entries)[k] = stream.entries[k + 1]
              BY <6>1, TailDef, FieldTypes
            <7>2. \A k \in 1 .. Len(stream.entries) - 1 : k + 1 \in 1 .. Len(stream.entries)
              BY <7>1
            <7>. QED BY <2>0, <7>1, <7>2
          <6>. QED BY <5>1, <6>1, <6>2, <6>3
        <5>. QED BY <5>2, <5>3
      <4>4. stream.at \notin {"down", "hub"}
        BY <3>3 DEF Subscribed
      <4>5. 1 .. page.lastSeq \subseteq more
        BY <2>0
      <4>. HIDE DEF more, r
      <4>6. stream'.entries = r
        BY <3>1, <3>3 DEF r
      <4>. QED BY <2>0, <3>1, <4>1, <4>2, <4>3, <4>4, <4>5, <4>6 DEF Kept
    <3>. QED BY <3>2, <3>3
  <2>7. CASE StreamConnects
    <3>1. /\ stream'.at = "hub" /\ stream'.after = page.lastSeq /\ stream'.from = 1 /\ stream'.to = 0
          /\ stream'.entries = <<>> /\ UNCHANGED <<log, wire, cut, page>> /\ wire = <<>> /\ Known' = Known
      BY <2>7, <2>0 DEF StreamConnects, NoStream, Known
    <3>2. page.lastSeq \in Nat
      BY FieldTypes
    <3>. QED BY <2>0, <3>1, <3>2 DEF Kept
  <2>8. CASE StreamSubscribes
    <3>1. /\ stream.at = "hub" /\ stream'.at = "log" /\ stream'.after = stream.after /\ stream'.from = stream.from
          /\ stream'.to = stream.to /\ stream'.entries = stream.entries /\ UNCHANGED <<log, wire, cut, page>>
          /\ Known' = Known
      BY <2>8 DEF StreamSubscribes, TypeOK, Known
    <3>. QED BY <2>0, <3>1 DEF Kept
  <2>9. CASE StreamReadsBacklog
    <3>. DEFINE first == After(stream.after)
    <3>1. /\ stream.at = "log" /\ stream'.at = "backlog" /\ stream'.after = stream.after
          /\ stream'.from = first /\ stream'.to = log.seq /\ stream'.entries = stream.entries
          /\ UNCHANGED <<log, wire, page>> /\ wire = <<>>
          /\ cut' = cut \cup (stream.after + 1 .. log.seq \ first .. log.seq)
      BY <2>9, <2>0 DEF StreamReadsBacklog, TypeOK
    <3>2. Known' = Known \cup (stream.after + 1 .. log.seq \ first .. log.seq) /\ Pending' = first .. log.seq
      BY <3>1 DEF Known, Pending
    <3>. HIDE DEF first
    <3>3. 1 .. log.seq \subseteq Known' \cup Pending'
      <4>1. stream.after \in Nat /\ page.lastSeq \in Nat /\ log.seq \in Nat
        BY FieldTypes
      <4>2. ASSUME NEW n \in 1 .. log.seq PROVE n \in 1 .. page.lastSeq \/ n \in stream.after + 1 .. log.seq
        BY <2>0, <4>1
      <4>. QED BY <2>0, <3>2, <4>2
    <3>4. \A k \in DOMAIN stream.entries : 1 .. stream.entries[k] \subseteq 1 .. log.seq
      <4>1. \A k \in DOMAIN stream.entries : stream.entries[k] \in Nat
        <5>1. /\ DOMAIN stream.entries = 1 .. Len(stream.entries)
              /\ \A k \in 1 .. Len(stream.entries) : stream.entries[k] \in Entries
          BY ElementOfSeq, LenProperties, FieldTypes
        <5>. QED BY <5>1 DEF Entries
      <4>. QED BY <2>0, <4>1, FieldTypes
    <3>5. Way(Known', Pending', log.seq, wire, stream.entries, log.seq)
      BY <3>1, <3>3, <3>4 DEF Way
    <3>. QED BY <2>0, <3>1, <3>2, <3>5 DEF Kept
  <2>10. CASE StreamOpens
    <3>1. /\ stream.at = "backlog" /\ stream'.at = "open" /\ stream'.after = stream.after
          /\ stream'.from = 1 /\ stream'.to = 0 /\ stream'.entries = stream.entries
          /\ UNCHANGED <<log, cut, page>> /\ Known' = Known /\ Pending' = 1 .. 0
      BY <2>10 DEF StreamOpens, TypeOK, Known, Pending
    <3>2. Way(Known, Pending, stream.to, wire, stream.entries, log.seq)
      BY <2>0, <3>1
    <3>3. /\ DOMAIN wire' = (IF stream.from > stream.to THEN {1} ELSE {1, 2}) /\ DOMAIN wire' = 1 .. Len(wire')
          /\ Len(wire') \in Nat /\ wire'[1] = FirstFrame
          /\ stream.from <= stream.to => wire'[2] = LogFrame(stream.from, stream.to)
          /\ stream.from \in Nat /\ stream.to \in Nat
      BY <2>10, OpeningDef, LenProperties, FieldTypes
    <3>4. FirstFrame.from = 1 /\ FirstFrame.to = 0
      BY DEF FirstFrame, CardFrame
    <3>5. Pending \subseteq Frm(wire', Len(wire'))
      <4>1. CASE stream.from <= stream.to
        <5>1. 2 \in 1 .. Len(wire') /\ wire'[2].from .. wire'[2].to = Pending
          BY <3>3, <4>1 DEF LogFrame, Pending
        <5>. QED BY <5>1 DEF Frm
      <4>2. CASE stream.from > stream.to
        BY <3>3, <4>2 DEF Pending
      <4>. QED BY <3>3, <4>1, <4>2
    <3>6. ASSUME NEW k \in DOMAIN wire' PROVE 1 .. wire'[k].to \subseteq Known \cup Frm(wire', k)
      <4>1. CASE k = 1
        BY <3>3, <3>4, <4>1
      <4>2. CASE k # 1
        <5>1. k = 2 /\ stream.from <= stream.to /\ Len(wire') = 2
          BY <3>3, <3>6, <4>2
        <5>2. wire'[2].to = stream.to
          BY <3>3, <5>1 DEF LogFrame
        <5>. QED BY <3>2, <3>5, <5>1, <5>2 DEF Way
      <4>. QED BY <4>1, <4>2
    <3>7. wire = <<>> /\ Frm(wire, Len(wire)) = {}
      <4>1. wire = <<>>
        BY <2>0, <3>1
      <4>2. Frm(<<>>, 0) = {} /\ Len(<<>>) = 0
        BY EmptySeq DEF Frm
      <4>. QED BY <4>1, <4>2
    <3>8. Way(Known, 1 .. 0, 0, wire', stream.entries, log.seq)
      BY <3>2, <3>5, <3>6, <3>7 DEF Way
    <3>. QED BY <2>0, <3>1, <3>8 DEF Kept
  <2>11. ASSUME stream.at = "open", stream'.at = "open", UNCHANGED <<log, cut, page>>,
                stream'.after = stream.after, stream'.from = stream.from, stream'.to = stream.to,
                NEW f \in Frames, wire' = Append(wire, f),
                Way(Known, {}, stream.to, wire', stream'.entries, log.seq),
                \A k \in DOMAIN stream'.entries : stream'.entries[k] <= log.seq
         PROVE  Kept
    <3>1. Known' = Known /\ Pending' = {} /\ stream.from > stream.to
      <4>1. stream.from > stream.to /\ stream.from \in Nat /\ stream.to \in Nat
        BY <2>0, <2>11, FieldTypes
      <4>. QED BY <2>11, <4>1 DEF Known, Pending
    <3>. QED BY <2>0, <2>11, <3>1 DEF Kept
  <2>12. ASSUME stream.at = "open" PROVE Way(Known, {}, stream.to, wire, stream.entries, log.seq)
    <3>1. Pending = {}
      <4>1. stream.from > stream.to /\ stream.from \in Nat /\ stream.to \in Nat
        BY <2>0, <2>12, FieldTypes
      <4>. QED BY <4>1 DEF Pending
    <3>. QED BY <2>0, <2>12, <3>1
  <2>13. CASE StreamSendsDelta
    <3>. DEFINE f == CardFrame(Head(stream.deltas), TRUE)
    <3>1. f \in Frames /\ f.from = 1 /\ f.to = 0
      <4>1. Head(stream.deltas) \in News
        BY <2>13, TailDef, FieldTypes DEF StreamSendsDelta
      <4>. QED BY <4>1, RecordTypes DEF CardFrame
    <3>2. /\ stream.at = "open" /\ stream'.at = "open" /\ UNCHANGED <<log, cut, page>>
          /\ stream'.after = stream.after /\ stream'.from = stream.from /\ stream'.to = stream.to
          /\ stream'.entries = stream.entries /\ wire' = Append(wire, f) /\ wire \in Seq(Frames)
      BY <2>13 DEF StreamSendsDelta, TypeOK
    <3>. HIDE DEF f
    <3>3. Way(Known, {}, stream.to, Append(wire, f), stream.entries, log.seq)
      BY <2>12, <3>1, <3>2, WaySends
    <3>. QED BY <2>0, <2>11, <3>1, <3>2, <3>3
  <2>14. CASE StreamSendsEntry
    <3>. DEFINE s == stream.entries
                t == Tail(stream.entries)
                e == Head(stream.entries)
                f == LogFrame(e, e)
    <3>1. /\ s # <<>> /\ e \in Entries /\ e = s[1] /\ Len(s) \in Nat \ {0} /\ DOMAIN s = 1 .. Len(s)
          /\ Len(t) = Len(s) - 1 /\ DOMAIN t = 1 .. Len(s) - 1 /\ \A k \in 1 .. Len(s) - 1 : t[k] = s[k + 1]
          /\ \A k \in 0 .. Len(s) - 1 : Ent(s, k + 1) = {e} \cup Ent(t, k)
      BY <2>14, TailDef, EntDef, FieldTypes DEF StreamSendsEntry
    <3>. HIDE DEF e, s, t
    <3>2. f \in Frames /\ f.from = e /\ f.to = e /\ f.from .. f.to = {e}
      <4>1. e \in 1 .. MaxEntries + 1 /\ e \in 0 .. MaxEntries /\ e \in Nat
        BY <3>1, RoomAssumption DEF Entries
      <4>. QED BY <4>1, RecordTypes DEF LogFrame
    <3>3. /\ stream.at = "open" /\ stream'.at = "open" /\ UNCHANGED <<log, cut, page>>
          /\ stream'.after = stream.after /\ stream'.from = stream.from /\ stream'.to = stream.to
          /\ stream'.entries = t /\ wire' = Append(wire, f) /\ wire \in Seq(Frames)
      BY <2>14 DEF StreamSendsEntry, TypeOK, t, e
    <3>. HIDE DEF f
    <3>4. ASSUME NEW k \in DOMAIN t
          PROVE  k + 1 \in DOMAIN s /\ t[k] = s[k + 1] /\ Ent(s, k + 1) \subseteq (f.from .. f.to) \cup Ent(t, k)
      BY <3>1, <3>2
    <3>5. Ent(s, Len(s)) \subseteq (f.from .. f.to) \cup Ent(t, Len(t))
      <4>1. Len(t) \in 0 .. Len(s) - 1 /\ Len(t) + 1 = Len(s)
        BY <3>1
      <4>. QED BY <3>1, <3>2, <4>1
    <3>6. Way(Known, {}, stream.to, wire, s, log.seq)
      BY <2>12, <3>3 DEF s
    <3>7. 1 .. f.to \subseteq Known \cup Frm(wire, Len(wire)) \cup (f.from .. f.to)
      <4>1. 1 \in DOMAIN s /\ Ent(s, 1) = {e}
        <5>1. 0 \in 0 .. Len(s) - 1 /\ 0 + 1 = 1 /\ 1 \in DOMAIN s
          BY <3>1
        <5>2. Ent(t, 0) = {}
          BY DEF Ent
        <5>. QED BY <3>1, <5>1, <5>2
      <4>. QED BY <3>1, <3>2, <3>6, <4>1 DEF Way
    <3>8. Way(Known, {}, stream.to, Append(wire, f), t, log.seq)
      BY <3>2, <3>3, <3>4, <3>5, <3>6, <3>7, WaySends
    <3>9. \A k \in DOMAIN t : t[k] <= log.seq
      BY <2>0, <3>4 DEF s
    <3>. QED BY <2>11, <3>2, <3>3, <3>8, <3>9
  <2>15. CASE PageReads
    <3>. DEFINE f == Head(wire)
                more == Known \cup (f.from .. f.to)
    <3>1. /\ wire # <<>> /\ wire' = Tail(wire) /\ UNCHANGED <<log, cut, stream>> /\ wire \in Seq(Frames)
          /\ page'.lastSeq = Higher(page.lastSeq, f.to) /\ page'.seen = page.seen \cup (f.from .. f.to)
      BY <2>15 DEF PageReads, TypeOK
    <3>2. Known' = more /\ Pending' = Pending /\ stream.at = "open"
      BY <2>0, <3>1 DEF Known, Pending
    <3>3. /\ Way(more, Pending, stream.to, Tail(wire), stream.entries, log.seq)
          /\ 1 .. f.to \subseteq more
      BY <2>0, <3>1, <3>2, WayReads
    <3>4. f.to \in Nat /\ page.lastSeq \in Nat /\ stream.after \in Nat
      BY <3>1, TailDef, FrameTypes, FieldTypes
    <3>. HIDE DEF f
    <3>5. stream.after <= page'.lastSeq /\ 1 .. page'.lastSeq \subseteq more
      BY <2>0, <3>1, <3>3, <3>4 DEF Higher
    <3>. HIDE DEF more
    <3>. QED BY <2>0, <3>1, <3>2, <3>3, <3>5 DEF Kept
  <2>16. CASE ConnectionBreaks \/ MonitorRestarts
    <3>1. /\ stream' = NoStream /\ wire' = <<>> /\ UNCHANGED <<page, cut>>
      BY <2>16 DEF ConnectionBreaks, MonitorRestarts, Broken
    <3>2. /\ stream'.at = "down" /\ stream'.after = 0 /\ stream'.from = 1 /\ stream'.to = 0
          /\ stream'.entries = <<>> /\ Known' = Known /\ page.lastSeq \in Nat
      BY <3>1, FieldTypes DEF NoStream, Known
    <3>. QED BY <2>0, <3>1, <3>2 DEF Kept
  <2>. QED
    BY <2>2, <2>3, <2>4, <2>5, <2>6, <2>7, <2>8, <2>9, <2>10, <2>13, <2>14, <2>15, <2>16
       DEF Next, HubSteps, StreamSteps
<1>3. LogInv => LogComplete
  BY DEF LogInv, LogComplete, Known
<1>. QED BY <1>1, <1>2, <1>3, TypeCorrect, PTL DEF Spec
=============================================================================
