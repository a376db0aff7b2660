--------------------------- MODULE IngestPipeline ---------------------------
(***************************************************************************)
(* The life of an upload in BatRewind: the Writer appends it to a Redis    *)
(* stream, a worker goroutine reads it through the consumer group, ingests *)
(* it statement by statement into the database, and acknowledges it.       *)
(*                                                                         *)
(*   internal/session/writer_handler.go  Ingest                            *)
(*   internal/queue/queue.go             Enqueue, Read, ReclaimPending, Ack *)
(*   internal/worker/service.go          Start, runWorker, process, ...    *)
(*   internal/session/service.go         Ingest, RetryFailed, Delete, ...  *)
(*   internal/session/repository.go      the SQL statements                *)
(*                                                                         *)
(* Every SQL statement and every Redis command is one step, so goroutines, *)
(* dashboard retries, deletions and crashes interleave between them.       *)
(***************************************************************************)
EXTENDS Naturals, Sequences, FiniteSets
LOCAL INSTANCE Functions

CONSTANTS
  Batches,        \* upload requests the SDK makes, one per POST /v1/record
  Malformed,      \* stream entries that do not decode to an IngestRequest
  Sessions,
  SessionOf,      \* [Batches -> Sessions]      req.SessionID
  Size,           \* [Batches -> Nat \ {0}]     len(req.Events), binding min=1
  WithToken,      \* batches whose req.ShareToken is not empty
  WithClient,     \* batches whose req.Client is not nil (first batch)
  Workers,        \* goroutines running runWorker
  Main,           \* the goroutine running Start, which reclaims
  Retriers,       \* Reader requests that retry failed_ingest rows
  MaxAttempts,    \* len(delays) in process: 4 in the code
  ReclaimCount,   \* Count of the reclaiming XREADGROUP: 100 in the code
  ForeignKeys,    \* does the database enforce replay_events.session_id?
  FaultKinds,     \* the external calls that may fail
  MaxFaults,      \* bound on failing external calls
  MaxCrashes,     \* bound on crashes of the worker and reader processes
  MaxShutdowns,   \* bound on graceful stops of the worker process
  MaxRetries,     \* bound on retry requests from the dashboard
  MaxDeletes      \* bound on session deletions

(***************************************************************************)
(* "enqueue" XADD, "read" XREADGROUP >, "reclaim" XREADGROUP 0, "ack" XACK,*)
(* "db" a statement of Ingest or RetryFailed, "park" SaveFailed's INSERT.  *)
(***************************************************************************)
AllFaults == {"enqueue", "read", "reclaim", "ack", "db", "park"}

Consumers == Workers \cup {Main}
Actors == Consumers \cup Retriers

ASSUME ConstantsAssumption ==
  /\ Batches \cap Malformed = {}
  /\ SessionOf \in [Batches -> Sessions]
  /\ Size \in [Batches -> Nat \ {0}]
  /\ WithToken \subseteq Batches
  /\ WithClient \subseteq Batches
  /\ Main \notin Workers
  /\ Consumers \cap Retriers = {}
  /\ MaxAttempts \in Nat \ {0}
  /\ ReclaimCount \in Nat \ {0}
  /\ ForeignKeys \in BOOLEAN
  /\ FaultKinds \subseteq AllFaults
  /\ {MaxFaults, MaxCrashes, MaxShutdowns, MaxRetries, MaxDeletes} \subseteq Nat

VARIABLES
  log,        \* the Redis stream: every entry ever added, in id order
  cursor,     \* last-delivered id of the consumer group "workers"
  pel,        \* ids delivered to consumer "worker" and not acknowledged
  sessions,   \* replay_sessions
  events,     \* replay_events: how many copies of each batch's events
  failed,     \* failed_ingest, in insertion order
  phase,      \* of the worker process: "down", "starting" or "running"
  stopping,   \* the worker process has received SIGINT or SIGTERM
  job,        \* what each goroutine or retry request is doing
  todo,       \* the entries (Main) or rows (Retriers) still to go through
  sent,       \* batches uploaded so far
  accepted,   \* batches answered 204
  persisted,  \* batches whose events have at some time been inserted
  erased,     \* batches uploaded before their session was deleted
  faults, crashes, shutdowns, retries, deletes    \* how much of each bound is used

redis   == <<log, cursor, pel>>
tables  == <<sessions, events, failed>>
process == <<phase, stopping>>
history == <<sent, accepted, persisted, erased>>
bounds  == <<faults, crashes, shutdowns, retries, deletes>>
vars == <<redis, tables, process, job, todo, history, bounds>>

NoRow == [exists |-> FALSE, event_count |-> 0,
          share_token |-> FALSE, client |-> FALSE]
Off  == [pc |-> "off",  ref |-> 0, attempt |-> 0]
Idle == [pc |-> "idle", ref |-> 0, attempt |-> 0]

Init ==
  /\ log = <<>> /\ cursor = 0 /\ pel = {}
  /\ sessions = [s \in Sessions |-> NoRow]
  /\ events = [b \in Batches |-> 0]
  /\ failed = <<>>
  /\ phase = "down" /\ stopping = FALSE
  /\ job = [a \in Actors |-> IF a \in Retriers THEN Idle ELSE Off]
  /\ todo = [a \in Retriers \cup {Main} |-> {}]
  /\ sent = {} /\ accepted = {} /\ persisted = {} /\ erased = {}
  /\ faults = 0 /\ crashes = 0 /\ shutdowns = 0 /\ retries = 0 /\ deletes = 0

-----------------------------------------------------------------------------
(* Helpers of the steps                                                    *)

BatchOf(a) == IF a \in Retriers THEN failed[job[a].ref].batch
                                ELSE log[job[a].ref]

Goto(a, pc) == job' = [job EXCEPT ![a].pc = pc]

\* An external call returns an error: it uses up one of MaxFaults.
Fault(kind) ==
  /\ kind \in FaultKinds
  /\ faults < MaxFaults
  /\ faults' = faults + 1

\* What an actor does once an entry or a row is dealt with: a worker returns to
\* its select, and leaves the loop if the context has been cancelled meanwhile.
Rest(a) == IF a \in Workers /\ stopping THEN Off ELSE Idle

\* A delivered entry: an undecodable one goes straight to its Ack.
Begin(i) == [pc |-> IF log[i] \in Malformed THEN "ack" ELSE "upsert",
             ref |-> i, attempt |-> 1]

-----------------------------------------------------------------------------
(* Writer: POST /v1/record                                                 *)

\* The request is appended and answered 204.  A failing XADD is answered 500,
\* whether or not Redis applied it; the client library resends a command whose
\* reply it lost, which appends the payload twice.
WriterIngest(b) ==
  /\ b \in Batches \ sent
  /\ sent' = sent \cup {b}
  /\ \/ /\ log' = Append(log, b)
        /\ accepted' = accepted \cup {b}
        /\ UNCHANGED faults
     \/ /\ Fault("enqueue")
        /\ \/ log' \in {log, Append(log, b)} /\ UNCHANGED accepted
           \/ log' = log \o <<b, b>> /\ accepted' = accepted \cup {b}
  /\ UNCHANGED <<cursor, pel, tables, process, job, todo, persisted, erased,
                 crashes, shutdowns, retries, deletes>>

\* Another client of the same Redis adds an entry the worker cannot decode.
ForeignAdd(m) ==
  /\ \A i \in DOMAIN log : log[i] # m
  /\ log' = Append(log, m)
  /\ UNCHANGED <<cursor, pel, tables, process, job, todo, history, bounds>>

-----------------------------------------------------------------------------
(* Worker goroutines: runWorker                                            *)

\* Mutation: the entry is delivered without entering the pending list.
ReadUnacknowledged(w) ==
  /\ job[w] = Idle
  /\ cursor < Len(log)
  /\ cursor' = cursor + 1
  /\ job' = [job EXCEPT ![w] = Begin(cursor + 1)]
  /\ UNCHANGED <<log, pel, tables, process, todo, history, bounds>>

\* queue.Read delivers the next entry.  When the reply is lost the entry is
\* already in the group's pending list and the goroutine knows nothing of it.
Read(w) ==
  /\ job[w] = Idle
  /\ cursor < Len(log)
  /\ cursor' = cursor + 1
  /\ pel' = pel \cup {cursor + 1}
  /\ \/ job' = [job EXCEPT ![w] = Begin(cursor + 1)] /\ UNCHANGED faults
     \/ Fault("read") /\ job' = [job EXCEPT ![w] = Rest(w)]
  /\ UNCHANGED <<log, tables, process, todo, history,
                 crashes, shutdowns, retries, deletes>>

\* The select finds the context cancelled.
WorkerExit(w) ==
  /\ job[w] = Idle
  /\ stopping
  /\ job' = [job EXCEPT ![w] = Off]
  /\ UNCHANGED <<redis, tables, process, todo, history, bounds>>

-----------------------------------------------------------------------------
(* session.Service.Ingest, one step per statement; run by process and by   *)
(* RetryFailed                                                             *)

\* Mutation: one attempt more than there are delays.
IngestErrorOneMore(a) ==
  job' = [job EXCEPT ![a] =
            IF a \in Retriers THEN Idle
            ELSE IF job[a].attempt <= MaxAttempts
                 THEN [pc |-> "upsert", ref |-> job[a].ref,
                       attempt |-> job[a].attempt + 1]
                 ELSE [job[a] EXCEPT !.pc = "park"]]

\* Mutation: the last failing attempt is acknowledged without saveFailed.
IngestErrorUnsaved(a) ==
  job' = [job EXCEPT ![a] =
            IF a \in Retriers THEN Idle
            ELSE IF job[a].attempt < MaxAttempts
                 THEN [pc |-> "upsert", ref |-> job[a].ref,
                       attempt |-> job[a].attempt + 1]
                 ELSE [job[a] EXCEPT !.pc = "ack"]]

\* Mutation: RetryFailed marks the row whatever Ingest returned.
IngestErrorMarks(a) ==
  job' = [job EXCEPT ![a] =
            IF a \in Retriers THEN [job[a] EXCEPT !.pc = "mark"]
            ELSE IF job[a].attempt < MaxAttempts
                 THEN [pc |-> "upsert", ref |-> job[a].ref,
                       attempt |-> job[a].attempt + 1]
                 ELSE [job[a] EXCEPT !.pc = "park"]]

\* Ingest returned an error: process sleeps and tries again, or gives up after
\* the last delay; RetryFailed returns the error.
IngestError(a) ==
  job' = [job EXCEPT ![a] =
            IF a \in Retriers THEN Idle
            ELSE IF job[a].attempt < MaxAttempts
                 THEN [pc |-> "upsert", ref |-> job[a].ref,
                       attempt |-> job[a].attempt + 1]
                 ELSE [job[a] EXCEPT !.pc = "park"]]

\* A statement succeeds and Ingest goes on to pc, or it fails and Ingest
\* returns.  A failing statement may still have been committed.
Statement(a, rows, copies, pc) ==
  /\ \/ sessions' = rows /\ events' = copies /\ Goto(a, pc) /\ UNCHANGED faults
     \/ /\ Fault("db")
        /\ \/ sessions' = rows /\ events' = copies
           \/ UNCHANGED <<sessions, events>>
        /\ IngestError(a)
  /\ persisted' = persisted \cup {b \in Batches : events'[b] > events[b]}
  /\ UNCHANGED <<redis, failed, process, todo, sent, accepted, erased,
                 crashes, shutdowns, retries, deletes>>

\* An UPDATE ... WHERE id = s that matches no row changes nothing and succeeds.
Updated(s, row) == IF sessions[s].exists THEN [sessions EXCEPT ![s] = row]
                                         ELSE sessions

AfterToken(b) == IF b \in WithClient THEN "client" ELSE "insert"
AfterUpsert(b) == IF b \in WithToken THEN "token" ELSE AfterToken(b)

\* Mutation: Save without Omit.
UpsertEveryColumn(a) ==
  LET b == BatchOf(a)  s == SessionOf[b] IN
  /\ job[a].pc = "upsert"
  /\ Statement(a, [sessions EXCEPT ![s] = [NoRow EXCEPT !.exists = TRUE]],
               events, AfterUpsert(b))

\* Mutation: the upserted struct carries EventCount: len(req.Events).
UpsertCounted(a) ==
  LET b == BatchOf(a)  s == SessionOf[b] IN
  /\ job[a].pc = "upsert"
  /\ Statement(a, [sessions EXCEPT ![s].exists = TRUE, ![s].event_count = Size[b]],
               events, AfterUpsert(b))

\* Save writes every column except omitOnUpsert's: event_count becomes 0.
UpsertSession(a) ==
  LET b == BatchOf(a)  s == SessionOf[b] IN
  /\ job[a].pc = "upsert"
  /\ Statement(a, [sessions EXCEPT ![s].exists = TRUE, ![s].event_count = 0],
               events, AfterUpsert(b))

SetShareToken(a) ==
  LET b == BatchOf(a)  s == SessionOf[b] IN
  /\ job[a].pc = "token"
  /\ Statement(a, Updated(s, [sessions[s] EXCEPT !.share_token = TRUE]),
               events, AfterToken(b))

SetClientMetadata(a) ==
  LET s == SessionOf[BatchOf(a)] IN
  /\ job[a].pc = "client"
  /\ Statement(a, Updated(s, [sessions[s] EXCEPT !.client = TRUE]),
               events, "insert")

\* All the events of the batch, with fresh ids, or none.  The foreign key
\* rejects them when the session has been deleted since the upsert.
InsertEvents(a) ==
  LET b == BatchOf(a) IN
  /\ job[a].pc = "insert"
  /\ \/ /\ ForeignKeys => sessions[SessionOf[b]].exists
        /\ Statement(a, sessions, [events EXCEPT ![b] = @ + 1], "count")
     \/ /\ ForeignKeys /\ ~sessions[SessionOf[b]].exists
        /\ IngestError(a)
        /\ UNCHANGED <<redis, tables, process, todo, history, bounds>>

IncrementEventCount(a) ==
  LET b == BatchOf(a)  s == SessionOf[b] IN
  /\ job[a].pc = "count"
  /\ Statement(a, Updated(s, [sessions[s] EXCEPT !.event_count = @ + Size[b]]),
               events, IF a \in Retriers THEN "mark" ELSE "ack")

-----------------------------------------------------------------------------
(* The end of process                                                      *)

\* saveFailed: an error of SaveFailed is logged and nothing else.
SaveFailed(a) ==
  LET row == [batch |-> BatchOf(a), resolved |-> FALSE] IN
  /\ job[a].pc = "park"
  /\ \/ failed' = Append(failed, row) /\ UNCHANGED faults
     \/ Fault("park") /\ failed' \in {failed, Append(failed, row)}
  /\ Goto(a, "ack")
  /\ UNCHANGED <<redis, sessions, events, process, todo, history,
                 crashes, shutdowns, retries, deletes>>

\* Mutation: the XACK is forgotten.
AckForgotten(a) ==
  /\ job[a].pc = "ack"
  /\ job' = [job EXCEPT ![a] = Rest(a)]
  /\ UNCHANGED <<redis, tables, process, todo, history, bounds>>

\* Ack's error is ignored.  reclaimPending discards an undecodable entry with
\* the signal context, so once that is cancelled the XACK is not sent.
Ack(a) ==
  LET i == job[a].ref
      cancelled == a = Main /\ stopping /\ log[i] \in Malformed IN
  /\ job[a].pc = "ack"
  /\ \/ pel' = (IF cancelled THEN pel ELSE pel \ {i}) /\ UNCHANGED faults
     \/ Fault("ack") /\ pel' \in {pel, pel \ {i}}
  /\ job' = [job EXCEPT ![a] = Rest(a)]
  /\ UNCHANGED <<log, cursor, tables, process, todo, history,
                 crashes, shutdowns, retries, deletes>>

-----------------------------------------------------------------------------
(* The worker process: Start, signals, crashes                             *)

\* Mutation: reclaimPending is called again while the workers run.
StartAgain ==
  /\ phase \in {"down", "running"} /\ job[Main] = Off
  /\ phase' = IF phase = "down" THEN "starting" ELSE phase
  /\ job' = [job EXCEPT ![Main] = Idle]
  /\ todo' = [todo EXCEPT ![Main] = pel]
  /\ UNCHANGED <<redis, tables, stopping, history, bounds>>

\* Mutation: one pending entry fewer than there are goroutines is reclaimed.
StartReclaimsFewer ==
  LET oldest == {i \in pel : Cardinality({j \in pel : j <= i}) < ReclaimCount} IN
  /\ phase = "down"
  /\ phase' = "starting"
  /\ job' = [job EXCEPT ![Main] = Idle]
  /\ todo' = [todo EXCEPT ![Main] = oldest]
  /\ UNCHANGED <<redis, tables, stopping, history, bounds>>

\* Mutation: reclaimPending is not called.
StartNoReclaim ==
  /\ phase = "down"
  /\ phase' = "starting"
  /\ job' = [job EXCEPT ![Main] = Idle]
  /\ UNCHANGED <<redis, tables, stopping, todo, history, bounds>>

\* The process comes up and lists the pending entries of its consumer name,
\* the oldest ReclaimCount of them; on an error it goes on without.
Start ==
  LET oldest == {i \in pel : Cardinality({j \in pel : j <= i}) <= ReclaimCount} IN
  /\ phase = "down"
  /\ phase' = "starting"
  /\ job' = [job EXCEPT ![Main] = Idle]
  /\ \/ todo' = [todo EXCEPT ![Main] = oldest] /\ UNCHANGED faults
     \/ Fault("reclaim") /\ UNCHANGED todo
  /\ UNCHANGED <<redis, tables, stopping, history,
                 crashes, shutdowns, retries, deletes>>

\* The loop of reclaimPending, in id order.
ReclaimNext ==
  /\ job[Main] = Idle
  /\ \E i \in todo[Main] :
       /\ \A j \in todo[Main] : i <= j
       /\ job' = [job EXCEPT ![Main] = Begin(i)]
       /\ todo' = [todo EXCEPT ![Main] = @ \ {i}]
  /\ UNCHANGED <<redis, tables, process, history, bounds>>

\* scaleWorkers(InitialWorkerCount), once everything reclaimed is processed.
StartWorkers ==
  /\ job[Main] = Idle
  /\ todo[Main] = {}
  /\ phase' = "running"
  /\ job' = [a \in Actors |-> IF a = Main THEN Off
                              ELSE IF a \in Workers THEN Rest(a) ELSE job[a]]
  /\ UNCHANGED <<redis, tables, stopping, todo, history, bounds>>

\* SIGINT or SIGTERM cancels the context.
Shutdown ==
  /\ phase # "down" /\ ~stopping
  /\ shutdowns < MaxShutdowns
  /\ shutdowns' = shutdowns + 1
  /\ stopping' = TRUE
  /\ UNCHANGED <<redis, tables, phase, job, todo, history,
                 faults, crashes, retries, deletes>>

\* Mutation: main ends without waiting for the goroutines.
ExitAtOnce ==
  /\ phase = "running" /\ stopping
  /\ phase' = "down" /\ stopping' = FALSE
  /\ job' = [a \in Actors |-> IF a \in Workers THEN Off ELSE job[a]]
  /\ UNCHANGED <<redis, tables, todo, history, bounds>>

\* wg.Wait returns and main ends.
Exit ==
  /\ phase = "running" /\ stopping
  /\ \A w \in Workers : job[w] = Off
  /\ phase' = "down" /\ stopping' = FALSE
  /\ UNCHANGED <<redis, tables, job, todo, history, bounds>>

WorkerCrash ==
  /\ phase # "down"
  /\ crashes < MaxCrashes
  /\ crashes' = crashes + 1
  /\ phase' = "down" /\ stopping' = FALSE
  /\ job' = [a \in Actors |-> IF a \in Consumers THEN Off ELSE job[a]]
  /\ todo' = [todo EXCEPT ![Main] = {}]
  /\ UNCHANGED <<redis, tables, history, faults, shutdowns, retries, deletes>>

-----------------------------------------------------------------------------
(* Reader: retries from the dashboard, deletion of a session               *)

\* POST /v1/failed-ingest/:id/retry names one row, resolved or not;
\* .../retry-all takes the unresolved rows, newest first.
RetryRequest(r) ==
  /\ job[r] = Idle /\ todo[r] = {}
  /\ retries < MaxRetries
  /\ retries' = retries + 1
  /\ LET unresolved == {f \in DOMAIN failed : ~failed[f].resolved} IN
     \/ \E f \in DOMAIN failed : todo' = [todo EXCEPT ![r] = {f}]
     \/ unresolved # {} /\ todo' = [todo EXCEPT ![r] = unresolved]
  /\ UNCHANGED <<redis, tables, process, job, history,
                 faults, crashes, shutdowns, deletes>>

\* RetryFailed reads the row; on an error RetryAllFailed goes on to the next.
RetryNext(r) ==
  /\ job[r] = Idle
  /\ \E f \in todo[r] :
       /\ \A g \in todo[r] : g <= f
       /\ todo' = [todo EXCEPT ![r] = @ \ {f}]
       /\ \/ /\ job' = [job EXCEPT ![r] = [pc |-> "upsert", ref |-> f, attempt |-> 1]]
             /\ UNCHANGED faults
          \/ Fault("db") /\ UNCHANGED job
  /\ UNCHANGED <<redis, tables, process, history,
                 crashes, shutdowns, retries, deletes>>

MarkFailedResolved(r) ==
  LET marked == [failed EXCEPT ![job[r].ref].resolved = TRUE] IN
  /\ job[r].pc = "mark"
  /\ \/ failed' = marked /\ UNCHANGED faults
     \/ Fault("db") /\ failed' \in {failed, marked}
  /\ job' = [job EXCEPT ![r] = Idle]
  /\ UNCHANGED <<redis, sessions, events, process, todo, history,
                 crashes, shutdowns, retries, deletes>>

ReaderCrash ==
  /\ \E r \in Retriers : job[r] # Idle \/ todo[r] # {}
  /\ crashes < MaxCrashes
  /\ crashes' = crashes + 1
  /\ job' = [a \in Actors |-> IF a \in Retriers THEN Idle ELSE job[a]]
  /\ todo' = [a \in DOMAIN todo |-> IF a \in Retriers THEN {} ELSE todo[a]]
  /\ UNCHANGED <<redis, tables, process, history,
                 faults, shutdowns, retries, deletes>>

\* DELETE /v1/sessions/:id: events and row go in one transaction.
DeleteSession(s) ==
  /\ deletes < MaxDeletes
  /\ deletes' = deletes + 1
  /\ sessions' = [sessions EXCEPT ![s] = NoRow]
  /\ events' = [b \in Batches |-> IF SessionOf[b] = s THEN 0 ELSE events[b]]
  /\ erased' = erased \cup {b \in sent : SessionOf[b] = s /\ sessions[s].exists}
  /\ UNCHANGED <<redis, failed, process, job, todo, sent, accepted, persisted,
                 faults, crashes, shutdowns, retries>>

-----------------------------------------------------------------------------
Ingest(a) ==
  \/ UpsertSession(a) \/ SetShareToken(a) \/ SetClientMetadata(a)
  \/ InsertEvents(a) \/ IncrementEventCount(a)

Process(a) == Ingest(a) \/ SaveFailed(a) \/ Ack(a)

Next ==
  \/ \E b \in Batches : WriterIngest(b)
  \/ \E m \in Malformed : ForeignAdd(m)
  \/ \E w \in Workers : Read(w) \/ WorkerExit(w)
  \/ \E a \in Consumers : Process(a)
  \/ Start \/ ReclaimNext \/ StartWorkers \/ Shutdown \/ Exit \/ WorkerCrash
  \/ \E r \in Retriers :
       RetryRequest(r) \/ RetryNext(r) \/ Ingest(r) \/ MarkFailedResolved(r)
  \/ ReaderCrash
  \/ \E s \in Sessions : DeleteSession(s)

Spec == Init /\ [][Next]_vars

\* Goroutines of a live process are scheduled and their calls return; nothing
\* makes anyone upload, retry or delete, or restarts a process that is down.
Fairness ==
  /\ \A w \in Workers : WF_vars(Read(w) \/ WorkerExit(w))
  /\ \A a \in Consumers : WF_vars(Process(a))
  /\ WF_vars(ReclaimNext) /\ WF_vars(StartWorkers)

FairSpec == Spec /\ Fairness

-----------------------------------------------------------------------------
(* Properties                                                              *)

Steps == {"upsert", "token", "client", "insert", "count"}
Row == [exists : BOOLEAN, event_count : Nat,
        share_token : BOOLEAN, client : BOOLEAN]
FailedRow == [batch : Batches, resolved : BOOLEAN]
Job == [pc : Steps \cup {"off", "idle", "park", "ack", "mark"},
        ref : Nat, attempt : 0..MaxAttempts]

\* Type correctness: the group's cursor stays within the stream and only
\* delivered entries are pending.
TypeOK ==
  /\ log \in Seq(Batches \cup Malformed)
  /\ cursor \in 0..Len(log)
  /\ pel \subseteq 1..cursor
  /\ sessions \in [Sessions -> Row]
  /\ events \in [Batches -> Nat]
  /\ failed \in Seq(FailedRow)
  /\ phase \in {"down", "starting", "running"}
  /\ stopping \in BOOLEAN
  /\ job \in [Actors -> Job]
  /\ todo \in [Retriers \cup {Main} -> SUBSET Nat]
  /\ accepted \subseteq sent /\ sent \subseteq Batches
  /\ persisted \subseteq Batches /\ erased \subseteq Batches
  /\ faults \in Nat /\ crashes \in Nat /\ shutdowns \in Nat
  /\ retries \in Nat /\ deletes \in Nat

\* Entry i is still owed to the database: undelivered, or pending.
Owed(i) == i > cursor \/ i \in pel

\* Batch b has a row in failed_ingest.
Parked(b) == \E f \in DOMAIN failed : failed[f].batch = b

\* "No batch is silently dropped": a batch the Writer answered 204 is in the
\* stream or pending, or its events have been inserted, or it is in
\* failed_ingest.  At stake: process acknowledges after its last attempt
\* whatever saveFailed returned, crashes fall between any two steps, and the
\* ingest statements are not one transaction.
NoSilentDrop ==
  \A b \in accepted :
    \/ \E i \in DOMAIN log : log[i] = b /\ Owed(i)
    \/ b \in persisted
    \/ Parked(b)

\* A failed_ingest row that the dashboard shows as resolved stands for a batch
\* whose events did reach the database, however retries of the same row,
\* failing statements and reader crashes interleave.
ResolvedIsPersisted ==
  \A f \in DOMAIN failed : failed[f].resolved => failed[f].batch \in persisted

\* No two goroutines of the worker process work on the same stream entry: the
\* reclaimed entries are finished before the workers start, and the group
\* hands out every other entry once.
SingleHolder ==
  \A a, c \in Consumers :
    (a # c /\ job[a].ref # 0) => job[a].ref # job[c].ref

\* Nothing is stranded: in a running worker whose Redis calls do not fail,
\* every pending entry is in the hands of a goroutine, whatever crashes came
\* before.  It rests on reclaimPending running before the workers, and on its
\* count being no smaller than the number of goroutines.
PendingIsInFlight ==
  (/\ phase = "running" /\ ~stopping
   /\ FaultKinds \cap {"read", "reclaim", "ack"} = {}
   /\ Cardinality(Workers) <= ReclaimCount)
  => \A i \in pel : \E w \in Workers : job[w].ref = i

\* A graceful stop leaves nothing pending: process is not interrupted by the
\* cancelled context, and an entry delivered to a goroutine that was blocked
\* in Read at the signal is still processed.
CleanShutdown ==
  (/\ phase = "down" /\ crashes = 0
   /\ FaultKinds \cap {"read", "ack"} = {})
  => pel = {}

\* Without a failing call or a crash no batch is stored twice, graceful
\* restarts and deletions of sessions in mid-ingest included.
ExactlyOnceWithoutFaults ==
  faults = 0 /\ crashes = 0 /\ retries = 0 => \A b \in Batches : events[b] <= 1

\* How many event rows a session has.
StoredEvents(s) ==
  FoldFunctionOnSet(+, 0, [b \in Batches |-> Size[b] * events[b]],
                    {b \in Batches : SessionOf[b] = s})

\* event_count never runs ahead of the stored events while nothing is deleted,
\* though increments of concurrent batches interleave with upserts that reset
\* the column and with retries of half-finished attempts.
CountWithinEvents ==
  deletes = 0 => \A s \in Sessions : sessions[s].event_count <= StoredEvents(s)

\* A settled upload is never stored again: once every entry of a batch has been
\* acknowledged and it has no row in failed_ingest, no goroutine, reclaim or retry
\* inserts its events, so deleting a session whose uploads have settled is final.
\* (A deletion in mid-ingest is not: see ErasedStaysErased.)
SettledIsFinal ==
  [][\A b \in Batches :
       (~Parked(b) /\ \A i \in DOMAIN log : log[i] = b => ~Owed(i))
         => events'[b] <= events[b]]_vars

\* A later batch (which omits them) does not wipe the share token and the
\* device metadata an earlier batch stored; only deleting the session does.
SetOnceColumnsStick ==
  [][\A s \in Sessions : (sessions[s].exists /\ sessions'[s].exists) =>
       /\ sessions[s].share_token => sessions'[s].share_token
       /\ sessions[s].client => sessions'[s].client]_vars

\* If Redis calls do not fail and from some time on the worker process stays up,
\* every entry of the stream is eventually acknowledged: attempts are bounded, so
\* a database that keeps failing delays an entry and does not block it, and
\* entries in flight at a crash are reclaimed.  (An entry whose read or
\* acknowledgement failed stays pending until the next start, and so do pending
\* entries beyond the count of reclaimPending.)
EventuallySettled ==
  (/\ FaultKinds \cap {"read", "reclaim", "ack"} = {}
   /\ Cardinality(Workers) <= ReclaimCount
   /\ <>[](phase # "down" /\ ~stopping))
  => \A i \in 1..(2 * Cardinality(Batches) + Cardinality(Malformed)) :
       (i \in DOMAIN log) ~> (i \in DOMAIN log /\ ~Owed(i))

\* The pipeline implements at-least-once delivery with a parking lot, as
\* module Delivery states it: an entry leaves the stream only after its batch
\* was stored or parked, and a parked batch is resolved only after it was
\* stored.
D == INSTANCE Delivery WITH
       owed <- {b \in Batches : \E i \in DOMAIN log : log[i] = b /\ Owed(i)},
       parked <- {b \in Batches : \E f \in DOMAIN failed :
                                    failed[f].batch = b /\ ~failed[f].resolved}

ImplementsDelivery == D!Spec

\* Deleting a session is final for what had been uploaded by then.
ErasedStaysErased == \A b \in erased : events[b] = 0

\* When nothing is in progress, a session's event_count is the number of its
\* stored events.
EventCountIsExact ==
  (/\ \A a \in Actors : job[a].pc \in {"idle", "off"}
   /\ faults = 0 /\ crashes = 0 /\ deletes = 0)
  => \A s \in Sessions : sessions[s].event_count = StoredEvents(s)
=============================================================================
