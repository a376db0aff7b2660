----------------------------- MODULE Recorder -----------------------------
(***************************************************************************)
(* The browser SDK (packages/browser): what init, report, identify, stop   *)
(* and the event listeners do with the events rrweb emits, and the session *)
(* that survives a page load in sessionStorage.  The module variables of   *)
(* index.ts live as long as a page; storage lives as long as the tab.      *)
(*                                                                         *)
(* Every handler runs to completion before the next one, so each is one    *)
(* action.  sendBatch is fire-and-forget: nothing in the SDK depends on    *)
(* the answer, so an upload ends in `sent` and its fate is left open.      *)
(***************************************************************************)
EXTENDS Integers, Sequences, SequencesExt

CONSTANTS
  Configs,          \* the configurations the host page may pass to init
  BufferMs,         \* [buffered] length of the rewind window
  CheckoutEveryNms, \* [buffered] age of a snapshot that makes rrweb take another
  FlushMaxBytes,    \* [always] size at which the buffer is flushed
  SnapshotBytes,    \* size of a FullSnapshot; any other event has size 1
  SessionTTL,       \* lifetime of the stored session
  StorageModes,     \* "ok", or "failing" when sessionStorage is blocked or full
  Identifiers,      \* who the host page may say is using it
  MaxTime, MaxIds, MaxEvents, MaxReports   \* bounds, see the README

BatRewindConfig ==
  [mode : {"buffered", "always"}, identifier : Identifiers, captureConsole : BOOLEAN,
   captureOnError : BOOLEAN, captureClientMetadata : BOOLEAN, showWidget : BOOLEAN]

ASSUME RecorderAssumption ==
  /\ BufferMs \in Nat /\ CheckoutEveryNms \in Nat /\ SessionTTL \in Nat
  /\ FlushMaxBytes \in Nat /\ SnapshotBytes \in Nat \ {0}
  /\ MaxTime \in Nat /\ MaxIds \in Nat /\ MaxEvents \in Nat /\ MaxReports \in Nat
  /\ StorageModes \subseteq {"ok", "failing"}
  /\ Configs \subseteq BatRewindConfig

VARIABLES
  now,         \* Date.now()
  config,      \* _config, or NoConfig when the SDK is not initialised
  session,     \* _sessionId and _shareToken, or NoSession
  segments,    \* _segments
  out,         \* _buffer, firstSnapshot, _clientMetaSent, and the batches sent
  listeners,   \* registered window/document listeners and the flush interval
  rrweb,       \* the recorder: "off", "loading" (no snapshot yet) or "on"
  lastSnapshot,\* when rrweb took its last FullSnapshot
  emitted,     \* history: the events emitted since init
  count,       \* number of events emitted in this tab; their ids
  storage,     \* the stored session, or Nothing
  storageMode, \* whether sessionStorage works on this page
  fresh,       \* the ids generated so far
  links        \* history: the id and token of every batch sent from this tab

vars == <<now, config, session, segments, out, listeners, rrweb,
          lastSnapshot, emitted, count, storage, storageMode, fresh, links>>

NoConfig == [mode |-> "none"]
NoSession == [id |-> 0, shareToken |-> 0]
Nothing == [id |-> 0, shareToken |-> 0, expiresAt |-> -1]

\* rrweb event types
FullSnapshot == 2
Incremental == 3
Meta == 4
Plugin == 6

RawEventLate(i, type) == [id |-> i, type |-> type, timestamp |-> now + 1]

RawEvent(i, type) == [id |-> i, type |-> type, timestamp |-> now]

isBuffered == config.mode # "always"

bufferSize(events) ==
  Len(events)
    + (SnapshotBytes - 1) * Cardinality({i \in DOMAIN events : events[i].type = FullSnapshot})

---------------------------------------------------------------------------
(* Sessions (session.ts).                                                  *)

\* What getOrCreateSession returns, stores and generates.  A failing write in
\* the first branch is caught by the same handler as a failing read: the
\* stored session is given up and a new one is generated.
Resumes == /\ storageMode = "ok"
           /\ now < storage.expiresAt
           /\ storage.id # 0

getOrCreateSession ==
  IF Resumes
  THEN LET token == IF storage.shareToken # 0 THEN storage.shareToken ELSE fresh + 1
       IN  [handle |-> [id |-> storage.id, shareToken |-> token],
            fresh |-> IF storage.shareToken # 0 THEN fresh ELSE fresh + 1]
  ELSE [handle |-> [id |-> fresh + 1, shareToken |-> fresh + 2], fresh |-> fresh + 2]

StoreSessionAsIs(handle) ==
  storage' = IF storageMode = "ok"
             THEN [id |-> handle.id, expiresAt |-> now + SessionTTL,
                   shareToken |-> IF Resumes THEN storage.shareToken ELSE handle.shareToken]
             ELSE storage

StoreSession(handle) ==
  storage' = IF storageMode = "ok"
             THEN [id |-> handle.id, shareToken |-> handle.shareToken,
                   expiresAt |-> now + SessionTTL]
             ELSE storage

---------------------------------------------------------------------------
(* Uploads.  These operators take and return `out`.                        *)

FreshOut == [buffer |-> <<>>, firstSnapshot |-> TRUE, clientMetaSent |-> FALSE,
             sent |-> <<>>]

BatchPayload(o, events, trigger, keepalive) ==
  [session |-> session, identifier |-> config.identifier, trigger |-> trigger,
   client |-> config.captureClientMetadata /\ ~o.clientMetaSent,
   events |-> events, keepalive |-> keepalive]

uploadEachWithClient(o, events, trigger, keepalive) ==
  [o EXCEPT !.sent = Append(@, BatchPayload(o, events, trigger, keepalive))]

upload(o, events, trigger, keepalive) ==
  LET batch == BatchPayload(o, events, trigger, keepalive)
  IN  [o EXCEPT !.sent = Append(@, batch),
                !.clientMetaSent = @ \/ batch.client]

flushKept(o, keepalive) ==
  IF o.buffer = <<>> THEN o ELSE upload(o, o.buffer, "stream", keepalive)

flush(o, keepalive) ==
  IF o.buffer = <<>> THEN o
  ELSE [upload(o, o.buffer, "stream", keepalive) EXCEPT !.buffer = <<>>]

uploadBuffer(o, trigger, keepalive) ==
  LET events == FlattenSeq(segments)
  IN  IF events = <<>> THEN o ELSE upload(o, events, trigger, keepalive)

\* out becomes o; the batches sent are remembered beyond the page.
Emits(o) ==
  /\ out' = o
  /\ links' = IF o.sent = out.sent THEN links ELSE links \cup {session}

---------------------------------------------------------------------------
(* The emit callbacks of init.                                             *)

\* Where the loop of pruneSegments stops: before the first segment whose
\* successor starts inside the window.
FirstKeptInside(segs) ==
  CHOOSE i \in DOMAIN segs :
    /\ i = Len(segs) \/ segs[i][1].timestamp > now - BufferMs
    /\ \A j \in 1 .. (i - 1) : segs[j][1].timestamp <= now - BufferMs

FirstKept(segs) ==
  CHOOSE i \in DOMAIN segs :
    /\ i = Len(segs) \/ segs[i + 1][1].timestamp > now - BufferMs
    /\ \A j \in 1 .. (i - 1) : segs[j + 1][1].timestamp <= now - BufferMs

pruneSegmentsOnce(segs) ==
  IF Len(segs) > 1 /\ segs[2][1].timestamp <= now - BufferMs THEN Tail(segs) ELSE segs

pruneSegmentsByEvent(segs) ==
  LET recent == [k \in DOMAIN segs |->
                   SelectSeq(segs[k], LAMBDA e : e.timestamp > now - BufferMs)]
  IN  SelectSeq(recent, LAMBDA seg : seg # <<>>)

pruneSegments(segs) == SubSeq(segs, FirstKept(segs), Len(segs))

\* buffered mode: a checkout (or the very first event) opens a new segment.
EmitBufferedInFirst(segs, e, isCheckout) ==
  IF isCheckout \/ segs = <<>>
  THEN pruneSegments(Append(segs, <<e>>))
  ELSE [segs EXCEPT ![1] = Append(@, e)]

EmitBuffered(segs, e, isCheckout) ==
  IF isCheckout \/ segs = <<>>
  THEN pruneSegments(Append(segs, <<e>>))
  ELSE [segs EXCEPT ![Len(segs)] = Append(@, e)]

\* always mode: the first FullSnapshot is sent at once, the rest is buffered.
EmitAlways(o, e) ==
  IF e.type = FullSnapshot /\ o.firstSnapshot
  THEN upload([o EXCEPT !.firstSnapshot = FALSE], <<e>>, "stream", FALSE)
  ELSE LET o2 == [o EXCEPT !.buffer = Append(@, e)]
       IN  IF bufferSize(o2.buffer) >= FlushMaxBytes THEN flush(o2, FALSE) ELSE o2

---------------------------------------------------------------------------
(* rrweb (external): record() calls emit(event, isCheckout).  It starts    *)
(* with a Meta event and a FullSnapshot, which are no checkout.  Once a    *)
(* snapshot is older than checkoutEveryNms, the next incremental event is  *)
(* followed by a checkout: a Meta event flagged isCheckout and a           *)
(* FullSnapshot, flagged or not (releases of rrweb differ).                *)

Snapshot(flag) ==
  LET n == count
      meta == RawEvent(n + 1, Meta)
      full == RawEvent(n + 2, FullSnapshot)
  IN  /\ n + 2 <= MaxEvents
      /\ emitted' = emitted \o <<meta, full>>
      /\ count' = n + 2
      /\ IF isBuffered
         THEN /\ segments' = EmitBuffered(EmitBuffered(segments, meta, FALSE), full, flag)
              /\ UNCHANGED <<out, links>>
         ELSE /\ Emits(EmitAlways(EmitAlways(out, meta), full))
              /\ UNCHANGED segments

\* The page is loaded: the recorder takes its first snapshot.
PageReady ==
  /\ rrweb = "loading"
  /\ rrweb' = "on"
  /\ lastSnapshot' = now
  /\ Snapshot(FALSE)
  /\ UNCHANGED <<now, config, session, listeners, storage, storageMode, fresh>>

\* What is recorded besides the page itself.
buildPlugins(c) == IF c.captureConsole THEN {Plugin} ELSE {}

CheckoutDue == isBuffered /\ now - lastSnapshot > CheckoutEveryNms

\* Something happens on the page (Incremental) or on its console (Plugin).
Activity(type) ==
  LET n == count
      e == RawEvent(n + 1, type)
  IN  /\ rrweb = "on"
      /\ n + 1 <= MaxEvents
      /\ type \in {Incremental} \cup buildPlugins(config)
      /\ ~(type = Incremental /\ CheckoutDue)
      /\ emitted' = Append(emitted, e)
      /\ count' = n + 1
      /\ IF isBuffered
         THEN segments' = EmitBuffered(segments, e, FALSE) /\ UNCHANGED <<out, links>>
         ELSE Emits(EmitAlways(out, e)) /\ UNCHANGED segments
      /\ UNCHANGED <<now, config, session, listeners, rrweb, lastSnapshot,
                     storage, storageMode, fresh>>

\* An incremental event that makes rrweb take a checkout.
ActivityWithCheckout(flag) ==
  LET n == count
      e == RawEvent(n + 1, Incremental)
      meta == RawEvent(n + 2, Meta)
      full == RawEvent(n + 3, FullSnapshot)
  IN  /\ rrweb = "on"
      /\ CheckoutDue
      /\ n + 3 <= MaxEvents
      /\ emitted' = emitted \o <<e, meta, full>>
      /\ count' = n + 3
      /\ segments' = EmitBuffered(
                       EmitBuffered(EmitBuffered(segments, e, FALSE), meta, TRUE),
                       full, flag)
      /\ lastSnapshot' = now
      /\ UNCHANGED <<now, config, session, out, listeners, rrweb, storage,
                     storageMode, fresh, links>>

---------------------------------------------------------------------------
(* The SDK's interface and its listeners.                                  *)

ListenersOf(c) ==
  IF c.mode = "always" THEN {"interval", "visibilitychange", "beforeunload"}
  ELSE IF c.captureOnError THEN {"error", "unhandledrejection"} ELSE {}

init(c) ==
  LET got == getOrCreateSession
  IN  /\ config = NoConfig
      /\ got.fresh <= MaxIds
      /\ config' = c
      /\ session' = got.handle
      /\ fresh' = got.fresh
      /\ StoreSession(got.handle)
      /\ listeners' = listeners \cup ListenersOf(c)
      /\ out' = [out EXCEPT !.firstSnapshot = TRUE, !.clientMetaSent = FALSE, !.sent = <<>>]
      /\ rrweb' = "loading"
      /\ emitted' = <<>>
      /\ UNCHANGED <<now, segments, lastSnapshot, count, storageMode, links>>

identify(identifier) ==
  /\ config # NoConfig
  /\ config' = [config EXCEPT !.identifier = identifier]
  /\ UNCHANGED <<now, session, segments, out, listeners, rrweb, lastSnapshot,
                 emitted, count, storage, storageMode, fresh, links>>

\* What the upload paths share: only out and links change.
Uploads(o) ==
  /\ Emits(o)
  /\ UNCHANGED <<now, config, session, segments, listeners, rrweb, lastSnapshot,
                 emitted, count, storage, storageMode, fresh>>

report ==
  /\ config # NoConfig
  /\ isBuffered => Len(out.sent) < MaxReports
  /\ Uploads(IF isBuffered THEN uploadBuffer(out, "manual", FALSE) ELSE flush(out, FALSE))

onError ==
  /\ {"error", "unhandledrejection"} \cap listeners # {}
  /\ Len(out.sent) < MaxReports
  /\ Uploads(IF config.captureOnError THEN uploadBuffer(out, "error", TRUE) ELSE out)

FlushTimer ==
  /\ "interval" \in listeners
  /\ Uploads(flush(out, FALSE))

\* visibilitychange to hidden, or beforeunload of a page that may yet stay
onVisibilityChange ==
  /\ {"visibilitychange", "beforeunload"} \cap listeners # {}
  /\ Uploads(IF isBuffered THEN out ELSE flush(out, TRUE))

stopKeepsTimer ==
  /\ config # NoConfig
  /\ Emits([(IF isBuffered THEN out ELSE flush(out, FALSE))
              EXCEPT !.buffer = <<>>, !.clientMetaSent = FALSE])
  /\ listeners' = listeners \cap {"interval"}
  /\ rrweb' = "off"
  /\ config' = NoConfig
  /\ session' = NoSession
  /\ segments' = <<>>
  /\ UNCHANGED <<now, lastSnapshot, emitted, count, storage, storageMode, fresh>>

stop ==
  /\ config # NoConfig
  /\ Emits([(IF isBuffered THEN out ELSE flush(out, FALSE))
              EXCEPT !.buffer = <<>>, !.clientMetaSent = FALSE])
  /\ listeners' = {}
  /\ rrweb' = "off"
  /\ config' = NoConfig
  /\ session' = NoSession
  /\ segments' = <<>>
  /\ UNCHANGED <<now, lastSnapshot, emitted, count, storage, storageMode, fresh>>

\* The page goes away, with or without its unload events, and another is
\* loaded in the same tab: the module starts from its initial values.
NextPage(mode) ==
  /\ config' = NoConfig
  /\ session' = NoSession
  /\ segments' = <<>>
  /\ out' = FreshOut
  /\ listeners' = {}
  /\ rrweb' = "off"
  /\ lastSnapshot' = now
  /\ emitted' = <<>>
  /\ storageMode' = mode
  /\ UNCHANGED <<now, count, storage, fresh, links>>

Tick ==
  /\ now < MaxTime
  /\ now' = now + 1
  /\ UNCHANGED <<config, session, segments, out, listeners, rrweb, lastSnapshot,
                 emitted, count, storage, storageMode, fresh, links>>

\* A tab starts with no stored session, or with one stored by a release of the
\* SDK that had no share tokens.
Init ==
  /\ now = 0
  /\ config = NoConfig
  /\ session = NoSession
  /\ segments = <<>>
  /\ out = FreshOut
  /\ listeners = {}
  /\ rrweb = "off"
  /\ lastSnapshot = 0
  /\ emitted = <<>>
  /\ count = 0
  /\ storage \in {Nothing, [id |-> 1, shareToken |-> 0, expiresAt |-> SessionTTL]}
  /\ storageMode \in StorageModes
  /\ fresh = 1
  /\ links = {}

Next ==
  \/ \E c \in Configs : init(c)
  \/ PageReady
  \/ \E type \in {Incremental, Plugin} : Activity(type)
  \/ \E flag \in BOOLEAN : ActivityWithCheckout(flag)
  \/ \E i \in Identifiers : identify(i)
  \/ report
  \/ onError
  \/ FlushTimer
  \/ onVisibilityChange
  \/ stop
  \/ \E mode \in StorageModes : NextPage(mode)
  \/ Tick

Spec == Init /\ [][Next]_vars
---------------------------------------------------------------------------
(* Properties.                                                             *)

Events == [id : 1 .. MaxEvents, type : {FullSnapshot, Incremental, Meta, Plugin},
           timestamp : 0 .. MaxTime]

Handles == [id : 0 .. MaxIds, shareToken : 0 .. MaxIds]

\* The type invariant.
TypeOK ==
  /\ now \in 0 .. MaxTime
  /\ config \in BatRewindConfig \cup {NoConfig}
  /\ session \in Handles
  /\ \A k \in DOMAIN segments : segments[k] \in Seq(Events) \ {<<>>}
  /\ out.buffer \in Seq(Events)
  /\ out.firstSnapshot \in BOOLEAN /\ out.clientMetaSent \in BOOLEAN
  /\ \A k \in DOMAIN out.sent : out.sent[k].session \in Handles
  /\ listeners \subseteq {"interval", "visibilitychange", "beforeunload", "error",
                          "unhandledrejection"}
  /\ rrweb \in {"off", "loading", "on"}
  /\ lastSnapshot \in 0 .. now
  /\ emitted \in Seq(Events)
  /\ count \in 0 .. MaxEvents
  /\ storage.id \in 0 .. MaxIds /\ storage.shareToken \in 0 .. MaxIds
  /\ storageMode \in StorageModes
  /\ fresh \in 1 .. MaxIds
  /\ links \subseteq Handles

\* The rewind reaches back far enough: in buffered mode every event of the last
\* BufferMs is still in the rolling segments, whatever pruneSegments dropped.
RewindCovers ==
  config # NoConfig /\ isBuffered =>
    \A i \in DOMAIN emitted :
      emitted[i].timestamp > now - BufferMs =>
        \E k \in DOMAIN segments : \E j \in DOMAIN segments[k] : segments[k][j] = emitted[i]

\* The rewind is one unbroken stretch: the segments, one after the other, are the
\* last events emitted, none missing, doubled or out of order (emit, pruneSegments).
RewindUnbroken ==
  config # NoConfig /\ isBuffered => IsSuffix(FlattenSeq(segments), emitted)

\* The rewind does not grow with the session: of what is older than the window
\* when a segment opens, pruneSegments keeps one segment, the one the window
\* starts in.
RewindBounded ==
  Len(segments) >= 3 =>
    segments[2][1].timestamp > Last(segments)[1].timestamp - BufferMs

\* Every uploaded rewind can be played from its start: each incremental event of
\* a manual or error batch comes after a FullSnapshot of the same batch
\* (pruneSegments drops whole segments, uploadBuffer sends all that is left).
RewindReplayable ==
  \A b \in DOMAIN out.sent : out.sent[b].trigger # "stream" =>
    LET es == out.sent[b].events
    IN  \A i \in DOMAIN es : es[i].type = Incremental =>
          \E j \in 1 .. (i - 1) : es[j].type = FullSnapshot

\* The events of always mode, as the server will see them.
Streamed == FlattenSeq([b \in DOMAIN out.sent |-> out.sent[b].events]) \o out.buffer

SnapshotFirst(es) ==
  LET i == SelectInSeq(es, LAMBDA e : e.type = FullSnapshot)
  IN  IF i = 0 THEN es ELSE <<es[i]>> \o RemoveAt(es, i)

\* always mode loses and doubles nothing on its way through the buffer: what was
\* sent and what is buffered are the emitted events, in order but for the first
\* FullSnapshot, which goes ahead; when stop() returns, all of it was sent.
StreamConserves ==
  [][config.mode = "always" => Streamed' = SnapshotFirst(emitted)']_vars

\* A session's device metadata reach the server with its first batch, if they are
\* captured, and after that the recording that init started sends them no more:
\* whatever report, error, interval, stop and page load the batches come from
\* (upload's _clientMetaSent).  A session resumed by a later init sends them again.
ClientOnFirstBatch ==
  [][\A k \in Len(out.sent) + 1 .. Len(out'.sent) :
       /\ k > 1 => ~out'.sent[k].client
       /\ (k = Len(out.sent) + 1 /\ \A h \in links : h.id # session.id)
            => out'.sent[k].client = config.captureClientMetadata]_vars

\* A session keeps its share token: over page loads, a storage that fails on some
\* of them, and sessions stored without a token, no two batches of one session
\* carry different tokens (getOrCreateSession).
TokenPerSession == \A a, b \in links : a.id = b.id => a.shareToken = b.shareToken

\* Nothing of one recording outlives it: the listeners and the interval are those
\* of the current configuration, and without one there is no recorder, no session
\* and nothing buffered (stop, then init in either mode).
StopCleansUp ==
  /\ listeners = IF config = NoConfig THEN {} ELSE ListenersOf(config)
  /\ config = NoConfig => /\ rrweb = "off" /\ session = NoSession
                          /\ segments = <<>> /\ out.buffer = <<>>
  /\ config # NoConfig => IF isBuffered THEN out.buffer = <<>> ELSE segments = <<>>
=============================================================================
