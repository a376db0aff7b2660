----------------------------- MODULE Timeline -----------------------------
(***************************************************************************)
(* What the dashboard makes of the events of a session: the breadcrumb     *)
(* timeline and the console counts (lib/timeline.ts), the seek offsets and *)
(* relative times of the player page, and the incident report "Copy for    *)
(* AI" puts on the clipboard (lib/incident.ts).                            *)
(*                                                                         *)
(* The state is the list of events the server returns, which grows while   *)
(* the session is recorded; everything else is a function of it.           *)
(***************************************************************************)
EXTENDS Integers, Sequences, SequencesExt, FiniteSets

CONSTANTS
  EventData,   \* what an event may be: its type and the fields its type has
  Times,       \* timestamps, in milliseconds
  MaxLabel,    \* length of raw text beyond which collectText stops
  MaxText,     \* length at which describeNode cuts what it made of it
  MaxEvents    \* bound on the length of a session

VARIABLE events

\* rrweb event types
FULL_SNAPSHOT == 2
INCREMENTAL == 3
META == 4
PLUGIN == 6

---------------------------------------------------------------------------
(* Naming what was clicked.  A serialized node has a mirror id, its own    *)
(* textContent (a text node) or a tag and attributes (an element), and     *)
(* children.  The root of a snapshot is the document, which is not         *)
(* indexed.  A text is a sequence of characters, of which only blanks      *)
(* matter.                                                                 *)

Document == "#document"

Blank == " "

\* replace(/\s+/g, ' ').trim(): of blanks between words the first is kept.
Collapsed(text) ==
  LET Kept(i) == \/ text[i] # Blank
                 \/ /\ i > 1 /\ text[i - 1] # Blank
                    /\ \E j \in i .. Len(text) : text[j] # Blank
  IN  FoldLeftDomain(LAMBDA out, i : IF Kept(i) THEN Append(out, text[i]) ELSE out, <<>>, text)

\* A depth-first walk that stops collecting once enough text was found, blanks
\* included: they are collapsed afterwards.
RECURSIVE walk(_, _)
walk(out, n) ==
  IF Len(out) > MaxLabel THEN out
  ELSE FoldLeft(walk, IF n.tag = "" THEN out \o n.textContent ELSE out, n.childNodes)

collectText(n) == Collapsed(walk(<<>>, n))

NodeInfo(n) == [tag |-> n.tag, text |-> collectText(n), label |-> n.label]

\* Later serializations of an id replace earlier ones.
RECURSIVE visit(_, _)
visit(map, n) ==
  LET own == IF n.tag = Document THEN {} ELSE {n.id}
  IN  FoldLeft(visit, [i \in DOMAIN map \cup own |-> IF i \in own THEN NodeInfo(n) ELSE map[i]],
               n.childNodes)

SerializedIn(e) ==
  IF e.type = FULL_SNAPSHOT \/ (e.type = INCREMENTAL /\ e.source = "mutation")
  THEN e.nodes ELSE <<>>

indexNodesSnapshots(es) ==
  FoldLeft(LAMBDA map, e : FoldLeft(visit, map, IF e.type = FULL_SNAPSHOT THEN e.nodes ELSE <<>>),
           << >>, es)


indexNodes(es) ==
  FoldLeft(LAMBDA map, e : FoldLeft(visit, map, SerializedIn(e)), << >>, es)

\* The start of the node's text, or the first attribute that names it, or just its
\* tag.
describeNode(map, id) ==
  IF id \notin DOMAIN map THEN <<>>
  ELSE <<IF map[id].tag = "" THEN "element" ELSE map[id].tag>>
       \o (IF map[id].text = <<>> THEN map[id].label
           ELSE SubSeq(map[id].text, 1, Min({MaxText, Len(map[id].text)})))

---------------------------------------------------------------------------
(* The timeline.                                                           *)

consoleLevelToKind(level) ==
  IF level \in {"error", "assert"} THEN "error"
  ELSE IF level \in {"warn", "info"} THEN level ELSE "log"

TimelineItem(es, i, kind, message) ==
  <<[eventIndex |-> i, kind |-> kind, message |-> message, timestamp |-> es[i].timestamp]>>

\* The item event i becomes, if any; console output without text, other
\* plugins, mutations, scrolling and mouse moves are dropped.
Breadcrumb(es, nodes, i) ==
  LET e == es[i]
  IN  CASE e.type = PLUGIN /\ e.plugin = "console" /\ e.message # <<>> ->
             TimelineItem(es, i, consoleLevelToKind(e.level), e.message)
        [] e.type = META -> TimelineItem(es, i, "navigate", <<e.href>>)
        [] e.type = INCREMENTAL /\ e.source = "mouse" /\ e.mouse \in {"Click", "Double click"} ->
             TimelineItem(es, i, "click", <<e.mouse>> \o describeNode(nodes, e.id))
        [] e.type = INCREMENTAL /\ e.source = "input" ->
             TimelineItem(es, i, "input", <<"Typed in">> \o describeNode(nodes, e.id))
        [] OTHER -> <<>>

buildTimeline(es) ==
  LET nodes == indexNodes(es)
  IN  FoldLeftDomain(LAMBDA items, i : items \o Breadcrumb(es, nodes, i), <<>>, es)

countConsole(items) ==
  [errors   |-> Len(SelectSeq(items, LAMBDA t : t.kind = "error")),
   warnings |-> Len(SelectSeq(items, LAMBDA t : t.kind = "warn"))]

ConsoleItems(items) == SelectSeq(items, LAMBDA t : t.kind \in {"error", "warn", "log", "info"})

---------------------------------------------------------------------------
(* The player page.                                                        *)

firstTs == IF events = <<>> THEN 0 ELSE events[1].timestamp

\* The offset given to the player's goto.
seekTo(ts) == IF ts > firstTs THEN ts - firstTs ELSE 0

formatDurationNoCarry(ms) ==
  IF ms < 1000 THEN ms
  ELSE IF ms < 60000 THEN (((ms + 50) \div 100) * 100) % 60000
  ELSE (ms \div 60000) * 60000 + ((ms % 60000) \div 1000) * 1000

\* The time a formatted duration reads as, in milliseconds: a dash for nothing,
\* then milliseconds, tenths of seconds (rounded), and minutes and whole seconds.
formatDuration(ms) ==
  IF ms < 1000 THEN ms
  ELSE IF ms < 60000 THEN ((ms + 50) \div 100) * 100
  ELSE (ms \div 60000) * 60000 + ((ms % 60000) \div 1000) * 1000

---------------------------------------------------------------------------
(* The incident report.                                                    *)

NoUrl == <<>>

NavigationsFirst(items) ==
  LET navs == SelectSeq(items, LAMBDA t : t.kind = "navigate")
  IN  IF navs = <<>> THEN navs ELSE <<Head(navs)>>

Navigations(items) == SelectSeq(items, LAMBDA t : t.kind = "navigate")

\* session.start_url is empty: the SDK does not send one.
buildIncidentReport(es) ==
  LET timeline == buildTimeline(es)
      navs == Navigations(timeline)
      lastNav == IF navs = <<>> THEN NoUrl ELSE Last(navs).message
      startUrl == IF navs = <<>> THEN NoUrl ELSE Head(navs).message
      start == IF es = <<>> THEN 0 ELSE es[1].timestamp
      Line(t) == [kind |-> t.kind, at |-> t.timestamp - start, message |-> t.message]
  IN  [counts |-> countConsole(timeline),
       startUrl |-> startUrl,
       lastUrl |-> IF lastNav # startUrl THEN lastNav ELSE NoUrl,
       timeline |-> [k \in DOMAIN timeline |-> Line(timeline[k])],
       console |-> LET items == ConsoleItems(timeline)
                   IN  [k \in DOMAIN items |-> Line(items[k])]]

---------------------------------------------------------------------------
(* The server's answer: GetEvents sorts by timestamp and leaves the order  *)
(* of equal timestamps to the database.                                    *)

GetEvents(es) == \A i \in 1 .. (Len(es) - 1) : es[i].timestamp <= es[i + 1].timestamp

\* An event recorded now or uploaded late finds its place by its timestamp.
Recorded(d, t) ==
  /\ Len(events) < MaxEvents
  /\ \E i \in 1 .. (Len(events) + 1) :
       /\ events' = InsertAt(events, i, d @@ [timestamp |-> t])
       /\ GetEvents(events')

Init == events = <<>>

Next == \E d \in EventData, t \in Times : Recorded(d, t)

Spec == Init /\ [][Next]_events

---------------------------------------------------------------------------
(* Properties.                                                             *)

\* The times of the items are those of the recording, whatever events came late:
\* clicking an item moves the player to the moment of its event and never past
\* the end (seekTo, firstTs), and the times shown beside the items never run
\* backwards, across the changes of unit of formatDuration.
ItemTimesAgree ==
  LET items == buildTimeline(events)
      Offset(k) == seekTo(items[k].timestamp)
      Shown(k) == formatDuration(items[k].timestamp - firstTs)
  IN  /\ \A k \in DOMAIN items :
           /\ events[1].timestamp + Offset(k) = events[items[k].eventIndex].timestamp
           /\ Offset(k) <= Last(events).timestamp - events[1].timestamp
      /\ \A k \in 1 .. (Len(items) - 1) : Shown(k) <= Shown(k + 1)

RECURSIVE Nodes(_)
Nodes(n) == {n} \cup UNION {Nodes(c) : c \in ToSet(n.childNodes)}

\* The nodes event i serializes.
SerializedAt(i) == UNION {Nodes(n) : n \in ToSet(SerializedIn(events[i]))}

Serialized == UNION {SerializedAt(i) : i \in DOMAIN events}

\* No mirror id names two different nodes, as is the case within one page load as
\* long as no node changes.
OnePageLoad == Cardinality({n.id : n \in Serialized}) = Cardinality(Serialized)


\* The characters under a node, in document order.
RECURSIVE AllText(_)
AllText(n) ==
  (IF n.tag = "" THEN n.textContent ELSE <<>>)
    \o FlattenSeq([c \in DOMAIN n.childNodes |-> AllText(n.childNodes[c])])

Target(e) == e.type = INCREMENTAL /\ e.source \in {"mouse", "input"}

\* A click or an input is named after a node that has its id, be it from a snapshot
\* or added later: by its tag and the beginning of the text under it as a reader sees
\* it, whatever the node is made of; or by a label, only if the text it starts
\* with, as much of it as collectText is sure to look at, is blank.  It is left
\* unnamed only if no node with the id was serialized, or it is the document
\* (indexNodes, describeNode).
ClickNamesTarget ==
  \A item \in ToSet(buildTimeline(events)) :
    LET e == events[item.eventIndex]
        words == SubSeq(item.message, 3, Len(item.message))
        hit == {n \in Serialized : n.id = e.id /\ n.tag # Document}
    IN  Target(e) =>
          IF hit = {} THEN Len(item.message) = 1
          ELSE \E n \in hit :
                 /\ Len(item.message) > 1
                 /\ n.tag # "" => item.message[2] = n.tag
                 /\ \/ words # <<>> /\ IsPrefix(words, Collapsed(AllText(n)))
                    \/ /\ words = n.label
                       /\ \A j \in 1 .. (MaxLabel + 1) :
                            j <= Len(AllText(n)) => AllText(n)[j] = Blank

\* The report says where the session ended and how it broke: the last URL it names
\* is that of the last navigation, its counts are those of its console section,
\* and no line is dated before the start (buildIncidentReport).
ReportAgrees ==
  LET r == buildIncidentReport(events)
      metas == SelectSeq(events, LAMBDA e : e.type = META)
      Lines(kind) == Cardinality({k \in DOMAIN r.console : r.console[k].kind = kind})
  IN  /\ metas # <<>> =>
           (IF r.lastUrl # NoUrl THEN r.lastUrl ELSE r.startUrl) = <<Last(metas).href>>
      /\ r.counts = [errors |-> Lines("error"), warnings |-> Lines("warn")]
      /\ \A k \in DOMAIN r.timeline : r.timeline[k].at >= 0
=============================================================================
