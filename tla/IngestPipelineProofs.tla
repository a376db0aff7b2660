------------------------ MODULE IngestPipelineProofs ------------------------
(***************************************************************************)
(* Safety of IngestPipeline, for every number of batches, sessions,        *)
(* goroutines, retry requests, faults, crashes and deletions: the second   *)
(* and third layer of the inductive invariant, on top of the types.        *)
(***************************************************************************)
EXTENDS IngestPipelineTypes

-----------------------------------------------------------------------------
(* What a step may do to the facts the safety invariants are about         *)

\* Entries of the stream, rows of failed_ingest and the record of what was
\* stored stay.
Kept ==
  /\ Len(log) <= Len(log') /\ \A i \in 1..Len(log) : log'[i] = log[i]
  /\ Len(failed) <= Len(failed')
  /\ \A f \in 1..Len(failed) : failed'[f].batch = failed[f].batch
  /\ persisted \subseteq persisted'

\* How an actor comes to have stored its batch, or to acknowledge its entry.
Moves(a) ==
  \/ job'[a] = job[a]
  \/ job'[a].pc \notin {"count", "mark", "ack"}
  \/ /\ job[a].pc = "insert" /\ job'[a].pc = "count" /\ job'[a].ref = job[a].ref
     /\ BatchOf(a) \in persisted'
  \/ /\ job[a].pc = "count" /\ job'[a].ref = job[a].ref
     /\ job'[a].pc = IF a \in Retriers THEN "mark" ELSE "ack"
  \/ /\ job[a].pc = "park" /\ job'[a].pc = "ack" /\ job'[a].ref = job[a].ref
     /\ a \in Consumers /\ SaveFailed(a)
  \/ /\ job'[a].pc = "ack" /\ job'[a].ref \in 1..Len(log)
     /\ a \in Consumers /\ log[job'[a].ref] \in Malformed

\* How a row comes to be resolved, and an entry to leave the pending list.
Resolves ==
  \A f \in 1..Len(failed') : failed'[f].resolved =>
    \/ f \in 1..Len(failed) /\ failed[f].resolved
    \/ \E r \in Retriers : job[r].pc = "mark" /\ job[r].ref = f

Delivers ==
  \A i \in 1..cursor' : i \in pel' \/ (/\ i \in 1..cursor
                                       /\ \/ i \notin pel
                                          \/ \E a \in Consumers :
                                               job[a].pc = "ack" /\ job[a].ref = i)

Shape == Kept /\ Resolves /\ Delivers /\ \A a \in Actors : Moves(a)

LEMMA FrameShape ==
  ASSUME TypeInv, UNCHANGED <<log, cursor, pel, failed>>, persisted \subseteq persisted'
  PROVE  Kept /\ Resolves /\ Delivers
<1>1. Len(log) <= Len(log) /\ Len(failed) <= Len(failed)
  BY TypeFacts
<1>2. Kept
  BY <1>1 DEF Kept
<1>3. Resolves
  BY DEF Resolves
<1>4. Delivers
  BY DEF Delivers
<1> QED BY <1>2, <1>3, <1>4

\* An actor that is not about to count, mark or acknowledge has moved freely.
LEMMA FreeMoves ==
  ASSUME NEW a, job'[a] = job[a] \/ job'[a].pc \notin {"count", "mark", "ack"}
  PROVE  Moves(a)
BY DEF Moves

LEMMA BeginMoves ==
  ASSUME NEW a \in Consumers, NEW i \in 1..Len(log), job'[a] = Begin(i)
  PROVE  Moves(a)
<1>1. Begin(i).ref = i
  BY DEF Begin
<1>2. CASE log[i] \in Malformed
  <2>1. Begin(i).pc = "ack"
    BY <1>2 DEF Begin
  <2> QED BY <1>1, <1>2, <2>1 DEF Moves
<1>3. CASE log[i] \notin Malformed
  <2>1. Begin(i).pc = "upsert"
    BY <1>3 DEF Begin
  <2> QED BY <2>1, FreeMoves
<1> QED BY <1>2, <1>3

\* A statement of Ingest that succeeds with nothing stored, or fails.
LEMMA StatementShape ==
  ASSUME TypeInv, NEW a \in Actors, job[a].pc \in Steps,
         NEW rows, NEW copies, NEW pc, Statement(a, rows, copies, pc),
         \/ pc \notin {"count", "mark", "ack"}
         \/ /\ pc = "count" /\ job[a].pc = "insert"
            /\ BatchOf(a) \in Batches /\ copies[BatchOf(a)] > events[BatchOf(a)]
         \/ pc = (IF a \in Retriers THEN "mark" ELSE "ack") /\ job[a].pc = "count"
  PROVE  Shape
<1>1. /\ UNCHANGED <<log, cursor, pel, failed>>
      /\ persisted' = persisted \cup {b \in Batches : events'[b] > events[b]}
  BY DEF Statement, redis
<1>2. Kept /\ Resolves /\ Delivers
  BY <1>1, FrameShape
<1>3. ASSUME NEW c \in Actors PROVE Moves(c)
  <2>1. CASE Goto(a, pc) /\ events' = copies
    <3>1. \A d \in Actors \ {a} : job'[d] = job[d]
      BY <2>1 DEF Goto, TypeInv, TypeOK
    <3>2. job'[a].pc = pc /\ job'[a].ref = job[a].ref
      BY <2>1 DEF Goto, TypeInv, TypeOK, Job
    <3> QED BY <1>1, <2>1, <3>1, <3>2, Zenon DEF Moves
  <2>2. CASE IngestError(a)
    <3>1. /\ \A d \in Actors \ {a} : job'[d] = job[d]
          /\ a \in Retriers => job'[a] = Idle
          /\ a \in Consumers => job'[a].pc \in {"upsert", "park"}
      BY <2>2, IngestErrorType
    <3>2. job'[c] = job[c] \/ job'[c].pc \in {"idle", "upsert", "park"}
      BY <3>1, AtRest DEF Actors
    <3> QED BY <3>2, FreeMoves, Zenon
  <2> QED BY <2>1, <2>2, Zenon DEF Statement
<1> QED BY <1>2, <1>3 DEF Shape

LEMMA IngestShape ==
  ASSUME TypeInv, NEW a \in Actors, Ingest(a)
  PROVE  Shape
<1>1. job[a].pc \in Steps
  BY DEF Ingest, UpsertSession, SetShareToken, SetClientMetadata, InsertEvents,
         IncrementEventCount, Steps
<1>2. BatchOf(a) \in Batches /\ events \in [Batches -> Nat]
  BY <1>1, BatchOfType DEF TypeInv, TypeOK
<1>3. ASSUME NEW b PROVE /\ AfterToken(b) \notin {"count", "mark", "ack"}
                         /\ AfterUpsert(b) \notin {"count", "mark", "ack"}
  BY DEF AfterToken, AfterUpsert
<1>4. CASE UpsertSession(a)
  BY <1>1, <1>3, <1>4, StatementShape DEF UpsertSession
<1>5. CASE SetShareToken(a)
  BY <1>1, <1>3, <1>5, StatementShape DEF SetShareToken
<1>6. CASE SetClientMetadata(a)
  BY <1>1, <1>6, StatementShape DEF SetClientMetadata
<1>7. CASE InsertEvents(a)
  <2>1. CASE /\ IngestError(a)
             /\ UNCHANGED <<redis, tables, process, todo, history, bounds>>
    <3>1. Kept /\ Resolves /\ Delivers
      BY <2>1, FrameShape DEF redis, tables, history
    <3>2. /\ \A d \in Actors \ {a} : job'[d] = job[d]
          /\ a \in Retriers => job'[a] = Idle
          /\ a \in Consumers => job'[a].pc \in {"upsert", "park"}
      BY <1>1, <2>1, IngestErrorType
    <3>3. ASSUME NEW c \in Actors PROVE Moves(c)
      <4>1. job'[c] = job[c] \/ job'[c].pc \in {"idle", "upsert", "park"}
        BY <3>2, AtRest DEF Actors
      <4> QED BY <4>1, FreeMoves
    <3> QED BY <3>1, <3>3 DEF Shape
  <2>2. CASE Statement(a, sessions, [events EXCEPT ![BatchOf(a)] = @ + 1], "count")
    <3>1. [events EXCEPT ![BatchOf(a)] = @ + 1][BatchOf(a)] > events[BatchOf(a)]
      BY <1>2
    <3>2. job[a].pc = "insert"
      BY <1>7 DEF InsertEvents
    <3> QED BY <1>1, <1>2, <2>2, <3>1, <3>2, StatementShape, Zenon
  <2> QED BY <1>7, <2>1, <2>2, Zenon DEF InsertEvents
<1>8. CASE IncrementEventCount(a)
  BY <1>1, <1>8, StatementShape DEF IncrementEventCount
<1> QED BY <1>4, <1>5, <1>6, <1>7, <1>8 DEF Ingest

\* A step that keeps the stream, the tables and the pending list, and leaves
\* every actor where it was, at rest or at the start of an entry or a row.
LEMMA QuietShape ==
  ASSUME TypeInv, UNCHANGED <<log, cursor, pel, failed, persisted>>,
         \A a \in Actors : \/ job'[a] = job[a]
                           \/ job'[a].pc \in {"off", "idle", "upsert"}
                           \/ /\ a \in Consumers
                              /\ \E i \in 1..Len(log) : job'[a] = Begin(i)
  PROVE  Shape
<1>1. Kept /\ Resolves /\ Delivers
  BY FrameShape
<1>2. ASSUME NEW a \in Actors PROVE Moves(a)
  BY FreeMoves, BeginMoves
<1> QED BY <1>1, <1>2 DEF Shape

LEMMA QueueShape ==
  ASSUME TypeInv
  PROVE  /\ \A e \in Batches \cup Malformed : WriterIngest(e) \/ ForeignAdd(e) => Shape
         /\ \A w \in Workers : Read(w) \/ WorkerExit(w) => Shape
         /\ \A a \in Consumers : SaveFailed(a) \/ Ack(a) => Shape
<1>0. /\ job \in [Actors -> Job] /\ log \in Seq(Batches \cup Malformed)
      /\ failed \in Seq(FailedRow) /\ cursor \in 0..Len(log) /\ cursor \in Nat
      /\ Len(log) \in Nat /\ Len(failed) \in Nat
  BY DEF TypeInv, TypeOK
<1>1. ASSUME NEW e \in Batches \cup Malformed, WriterIngest(e) \/ ForeignAdd(e)
      PROVE  Shape
  <2>1. Len(log) <= Len(log') /\ \A i \in 1..Len(log) : log'[i] = log[i]
    <3>1. log' \in {log, Append(log, e), log \o <<e, e>>}
      BY <1>1 DEF WriterIngest, ForeignAdd
    <3> QED BY <3>1, LogGrows
  <2>2. UNCHANGED <<cursor, pel, failed, persisted, job>>
    BY <1>1 DEF WriterIngest, ForeignAdd, tables, history
  <2>3. Kept
    BY <1>0, <2>1, <2>2 DEF Kept
  <2>4. Resolves /\ Delivers
    BY <2>2 DEF Resolves, Delivers
  <2>5. \A a \in Actors : Moves(a)
    BY <2>2, FreeMoves
  <2> QED BY <2>3, <2>4, <2>5 DEF Shape
<1>2. ASSUME NEW w \in Workers, Read(w) PROVE Shape
  <2>1. w \in Consumers /\ w \in Actors
    BY DEF Consumers, Actors
  <2>2. UNCHANGED <<log, failed, persisted>>
    BY <1>2 DEF Read, tables, history
  <2>3. Kept /\ Resolves
    BY <1>0, <2>2 DEF Kept, Resolves
  <2>4. Delivers
    BY <1>0, <1>2 DEF Delivers, Read
  <2>5. PICK j \in {Begin(cursor + 1), Rest(w)} : job' = [job EXCEPT ![w] = j]
    BY <1>2 DEF Read
  <2>6. cursor + 1 \in 1..Len(log)
    BY <1>0, <1>2 DEF Read
  <2>7. ASSUME NEW a \in Actors PROVE Moves(a)
    <3>1. CASE a # w
      BY <1>0, <2>5, <3>1 DEF Moves
    <3>2. CASE a = w /\ j = Rest(w)
      <4>1. job'[a] \in {Idle, Off}
        BY <1>0, <2>1, <2>5, <3>2, RestType
      <4> QED BY <4>1, AtRest, FreeMoves
    <3>3. CASE a = w /\ j = Begin(cursor + 1)
      <4>1. job'[a] = Begin(cursor + 1)
        BY <1>0, <2>1, <2>5, <3>3
      <4> QED BY <2>1, <2>6, <3>3, <4>1, BeginMoves
    <3> QED BY <2>5, <3>1, <3>2, <3>3
  <2> QED BY <2>3, <2>4, <2>7 DEF Shape
<1>3. ASSUME NEW w \in Workers, WorkerExit(w) PROVE Shape
  <2>1. UNCHANGED <<log, cursor, pel, failed, persisted>>
    BY <1>3 DEF WorkerExit, redis, tables, history
  <2>2. \A a \in Actors : job'[a] = job[a] \/ job'[a].pc = "off"
    BY <1>0, <1>3 DEF WorkerExit, Off
  <2> QED BY <2>1, <2>2, QuietShape
<1>4. ASSUME NEW a \in Consumers, SaveFailed(a) PROVE Shape
  <2>1. UNCHANGED <<log, cursor, pel, persisted>>
    BY <1>4 DEF SaveFailed, redis, history
  <2>2. a \in Actors /\ a \notin Retriers
    BY ConstantsAssumption DEF Actors
  <2>3. PICK row : row.resolved = FALSE /\ failed' \in {failed, Append(failed, row)}
    BY <1>4 DEF SaveFailed
  <2>4. /\ Len(failed) <= Len(failed') /\ Len(failed') \in Nat
        /\ \A f \in 1..Len(failed) : failed'[f] = failed[f]
        /\ \A f \in 1..Len(failed') : f \notin 1..Len(failed) => failed'[f] = row
    BY <1>0, <2>3
  <2>5. Kept
    BY <1>0, <2>1, <2>4 DEF Kept
  <2>6. Resolves /\ Delivers
    BY <2>1, <2>3, <2>4 DEF Resolves, Delivers
  <2>7. /\ \A d \in Actors \ {a} : job'[d] = job[d]
        /\ job[a].pc = "park" /\ job'[a].pc = "ack" /\ job'[a].ref = job[a].ref
    BY <1>0, <1>4, <2>2 DEF SaveFailed, Goto, Job
  <2>8. \A d \in Actors : Moves(d)
    BY <1>4, <2>7 DEF Moves
  <2> QED BY <2>5, <2>6, <2>8 DEF Shape
<1>5. ASSUME NEW a \in Consumers, Ack(a) PROVE Shape
  <2>1. UNCHANGED <<log, cursor, failed, persisted>>
    BY <1>5, Zenon DEF Ack, tables, history
  <2>2. Kept /\ Resolves
    BY <1>0, <2>1 DEF Kept, Resolves
  <2>3. Delivers
    <3>1. \A i \in pel : i \in pel' \/ i = job[a].ref
      BY <1>5 DEF Ack
    <3>2. job[a].pc = "ack"
      BY <1>5 DEF Ack
    <3> QED BY <2>1, <3>1, <3>2 DEF Delivers
  <2>4. \A d \in Actors : job'[d] = job[d] \/ job'[d] = Rest(a)
    BY <1>0, <1>5 DEF Ack
  <2>5. ASSUME NEW d \in Actors PROVE Moves(d)
    <3>1. job'[d] = job[d] \/ job'[d] \in {Idle, Off}
      BY <2>4, RestType
    <3> QED BY <3>1, AtRest, FreeMoves
  <2> QED BY <2>2, <2>3, <2>5 DEF Shape
<1> QED BY <1>1, <1>2, <1>3, <1>4, <1>5

LEMMA ProcessShape ==
  ASSUME TypeInv,
         Start \/ ReclaimNext \/ StartWorkers \/ Shutdown \/ Exit \/ WorkerCrash
  PROVE  Shape
<1>0. job \in [Actors -> Job] /\ cursor \in 0..Len(log) /\ todo[Main] \subseteq 1..cursor
  BY DEF TypeInv, TypeOK, TodoOK
<1>1. UNCHANGED <<log, cursor, pel, failed, persisted>>
  BY DEF Start, ReclaimNext, StartWorkers, Shutdown, Exit, WorkerCrash, redis,
         tables, history
<1>2. ASSUME NEW a \in Actors
      PROVE  \/ job'[a] = job[a]
             \/ job'[a].pc \in {"off", "idle", "upsert"}
             \/ a \in Consumers /\ \E i \in 1..Len(log) : job'[a] = Begin(i)
  <2>1. CASE ReclaimNext
    <3>1. PICK i \in todo[Main] : job' = [job EXCEPT ![Main] = Begin(i)]
      BY <2>1, Zenon DEF ReclaimNext
    <3>2. i \in 1..Len(log)
      BY <1>0, <3>1
    <3> QED BY <1>0, <3>1, <3>2 DEF Consumers
  <2>2. CASE Start
    BY <1>0, <2>2 DEF Start, Idle
  <2>3. CASE StartWorkers
    <3>1. \A w \in Workers : Rest(w) \in {Idle, Off}
      BY RestType DEF Consumers
    <3>2. job'[a] \in {Idle, Off} \/ job'[a] = job[a]
      BY <2>3, <3>1 DEF StartWorkers
    <3> QED BY <3>2, AtRest
  <2>4. CASE Shutdown \/ Exit
    BY <2>4 DEF Shutdown, Exit
  <2>5. CASE WorkerCrash
    BY <2>5 DEF WorkerCrash, Off
  <2> QED BY <2>1, <2>2, <2>3, <2>4, <2>5, Zenon
<1> QED BY <1>1, <1>2, QuietShape

LEMMA ReaderShape ==
  ASSUME TypeInv,
         \/ \E r \in Retriers :
              RetryRequest(r) \/ RetryNext(r) \/ MarkFailedResolved(r)
         \/ ReaderCrash
         \/ \E s \in Sessions : DeleteSession(s)
  PROVE  Shape
<1>0. /\ job \in [Actors -> Job] /\ failed \in Seq(FailedRow)
      /\ cursor \in 0..Len(log) /\ Len(failed) \in Nat
  BY DEF TypeInv, TypeOK
<1>1. ASSUME NEW r \in Retriers, RetryRequest(r) \/ RetryNext(r) PROVE Shape
  <2>1. UNCHANGED <<log, cursor, pel, failed, persisted>>
    BY <1>1 DEF RetryRequest, RetryNext, redis, tables, history
  <2>2. ASSUME NEW a \in Actors PROVE job'[a] = job[a] \/ job'[a].pc = "upsert"
    <3>1. CASE RetryRequest(r)
      BY <3>1, Zenon DEF RetryRequest
    <3>2. CASE RetryNext(r)
      BY <1>0, <3>2 DEF RetryNext
    <3> QED BY <1>1, <3>1, <3>2
  <2> QED BY <2>1, <2>2, QuietShape
<1>2. ASSUME NEW r \in Retriers, MarkFailedResolved(r) PROVE Shape
  <2>1. UNCHANGED <<log, cursor, pel, persisted>>
    BY <1>2 DEF MarkFailedResolved, redis, history
  <2>2. /\ job[r].ref \in 1..Len(failed) /\ job[r].pc = "mark" /\ r \in Actors
        /\ job' = [job EXCEPT ![r] = Idle]
    BY <1>2 DEF MarkFailedResolved, TypeInv, JobOK, Actors
  <2> DEFINE row == [failed[job[r].ref] EXCEPT !.resolved = TRUE]
  <2>3. row \in FailedRow /\ row.batch = failed[job[r].ref].batch
    <3>1. failed[job[r].ref] \in FailedRow
      BY <1>0, <2>2
    <3> QED BY <3>1, Zenon DEF FailedRow
  <2>4. failed' \in {failed, [failed EXCEPT ![job[r].ref] = row]}
    BY <1>2 DEF MarkFailedResolved
  <2> HIDE DEF row
  <2>5. /\ Len(failed') = Len(failed)
        /\ \A f \in 1..Len(failed) :
             failed'[f] = failed[f] \/ (f = job[r].ref /\ failed'[f] = row)
    BY <1>0, <2>2, <2>3, <2>4, ExceptSeq
  <2>6. Kept
    <3>1. Len(log) \in Nat
      BY DEF TypeInv, TypeOK
    <3>2. \A f \in 1..Len(failed) : failed'[f].batch = failed[f].batch
      BY <2>3, <2>5
    <3>3. Len(log) <= Len(log') /\ Len(failed) <= Len(failed')
      BY <1>0, <2>1, <2>5, <3>1
    <3> QED BY <2>1, <3>2, <3>3 DEF Kept
  <2>7. Resolves
    BY <2>2, <2>5 DEF Resolves
  <2>8. Delivers
    BY <2>1 DEF Delivers
  <2>9. \A a \in Actors : Moves(a)
    BY <1>0, <2>2 DEF Moves, Idle
  <2> QED BY <2>6, <2>7, <2>8, <2>9 DEF Shape
<1>3. CASE ReaderCrash
  <2>1. UNCHANGED <<log, cursor, pel, failed, persisted>>
    BY <1>3, Zenon DEF ReaderCrash, redis, tables, history
  <2>2. \A a \in Actors : job'[a] = job[a] \/ job'[a].pc = "idle"
    BY <1>3, Zenon DEF ReaderCrash, Idle
  <2> QED BY <2>1, <2>2, QuietShape, Zenon
<1>4. ASSUME NEW s \in Sessions, DeleteSession(s) PROVE Shape
  <2>1. UNCHANGED <<log, cursor, pel, failed, persisted, job>>
    BY <1>4, Zenon DEF DeleteSession, redis
  <2> QED BY <2>1, QuietShape, Zenon
<1> QED BY <1>1, <1>2, <1>3, <1>4

LEMMA ShapeNext == TypeInv /\ [Next]_vars => Shape
<1> SUFFICES ASSUME TypeInv, [Next]_vars PROVE Shape
  OBVIOUS
<1>1. Workers \subseteq Consumers /\ Consumers \subseteq Actors /\ Retriers \subseteq Actors
  BY DEF Consumers, Actors
<1>2. CASE UNCHANGED vars
  <2>1. UNCHANGED <<log, cursor, pel, failed, persisted, job>>
    BY <1>2 DEF vars, redis, tables, history
  <2> QED BY <2>1, QuietShape, Zenon
<1>3. CASE Next
  <2>1. ASSUME NEW a \in Consumers, Process(a) PROVE Shape
    BY <1>1, <2>1, IngestShape, QueueShape DEF Process
  <2>2. ASSUME NEW r \in Retriers, Ingest(r) PROVE Shape
    BY <1>1, <2>2, IngestShape
  <2> QED BY <1>3, <2>1, <2>2, QueueShape, ProcessShape, ReaderShape DEF Next
<1> QED BY <1>2, <1>3

-----------------------------------------------------------------------------
(* Resolved rows are stored                                                *)

\* Second layer: whoever is past InsertEvents has stored its batch.
StoredInv ==
  /\ ResolvedIsPersisted
  /\ \A a \in Actors : job[a].pc \in {"count", "mark"} => BatchOf(a) \in persisted

LEMMA StoredInit == Init => StoredInv
<1> SUFFICES ASSUME Init PROVE StoredInv
  OBVIOUS
<1>1. DOMAIN failed = {}
  BY DEF Init
<1>2. \A a \in Actors : job[a].pc \in {"idle", "off"}
  BY DEF Init, Idle, Off
<1> QED BY <1>1, <1>2 DEF StoredInv, ResolvedIsPersisted

\* An actor in the middle of Ingest keeps its batch as long as it keeps its
\* entry or row.
LEMMA BatchOfKept ==
  ASSUME TypeInv, Kept, NEW a \in Actors, job'[a].ref = job[a].ref,
         \/ a \in Consumers /\ job[a].pc \in Steps \cup {"park", "ack"}
         \/ a \in Retriers /\ job[a].pc \in Steps \cup {"mark"}
  PROVE  BatchOf(a)' = BatchOf(a)
<1>1. CASE a \in Retriers
  <2>1. job[a].ref \in 1..Len(failed)
    BY <1>1, ConstantsAssumption DEF TypeInv, JobOK, Steps
  <2>2. failed'[job[a].ref].batch = failed[job[a].ref].batch
    BY <2>1 DEF Kept
  <2> QED BY <1>1, <2>2 DEF BatchOf
<1>2. CASE a \notin Retriers
  <2>1. job[a].ref \in 1..cursor
    BY <1>2 DEF TypeInv, JobOK
  <2>2. job[a].ref \in 1..Len(log)
    BY <2>1, TypeFacts
  <2>3. log'[job[a].ref] = log[job[a].ref]
    BY <2>2 DEF Kept
  <2> QED BY <1>2, <2>3, Zenon DEF BatchOf
<1> QED BY <1>1, <1>2

LEMMA StoredNext == TypeInv /\ StoredInv /\ [Next]_vars => StoredInv'
<1> SUFFICES ASSUME TypeInv, StoredInv, [Next]_vars PROVE StoredInv'
  OBVIOUS
<1>0. TypeInv' /\ Kept /\ Resolves /\ \A a \in Actors : Moves(a)
  BY TypeNext, ShapeNext DEF Shape
<1>1. ASSUME NEW a \in Actors, job'[a].pc \in {"count", "mark"}
      PROVE  BatchOf(a)' \in persisted'
  <2>0. JobOK(a) /\ JobOK(a)' /\ (a \in Consumers \/ a \in Retriers)
    BY <1>0 DEF TypeInv, Actors
  <2>1. CASE job'[a] = job[a]
    <3>1. BatchOf(a) \in persisted
      BY <1>1, <2>1 DEF StoredInv
    <3>2. \/ a \in Consumers /\ job[a].pc \in Steps \cup {"park", "ack"}
          \/ a \in Retriers /\ job[a].pc \in Steps \cup {"mark"}
      BY <1>1, <2>0, <2>1 DEF Steps, JobOK
    <3> QED BY <1>0, <2>1, <3>1, <3>2, BatchOfKept, Zenon DEF Kept
  <2>2. CASE /\ job[a].pc = "insert" /\ job'[a].ref = job[a].ref
             /\ BatchOf(a) \in persisted'
    BY <1>0, <2>0, <2>2, BatchOfKept DEF Steps
  <2>3. CASE job[a].pc = "count" /\ job'[a].ref = job[a].ref
    <3>1. BatchOf(a) \in persisted
      BY <2>3 DEF StoredInv
    <3> QED BY <1>0, <2>0, <2>3, <3>1, BatchOfKept DEF Kept, Steps
  <2> QED BY <1>0, <1>1, <2>1, <2>2, <2>3 DEF Moves
<1>2. ASSUME NEW f \in DOMAIN failed', failed'[f].resolved
      PROVE  failed'[f].batch \in persisted'
  <2>1. f \in 1..Len(failed')
    BY <1>0 DEF TypeInv, TypeOK
  <2>2. DOMAIN failed = 1..Len(failed)
    BY DEF TypeInv, TypeOK
  <2>3. CASE f \in 1..Len(failed) /\ failed[f].resolved
    BY <1>0, <2>2, <2>3 DEF StoredInv, ResolvedIsPersisted, Kept
  <2>4. CASE \E r \in Retriers : job[r].pc = "mark" /\ job[r].ref = f
    <3>1. PICK r \in Retriers : job[r].pc = "mark" /\ job[r].ref = f
      BY <2>4
    <3>2. f \in 1..Len(failed) /\ r \in Actors
      BY <3>1 DEF TypeInv, JobOK, Actors
    <3>3. failed[f].batch \in persisted
      BY <3>1, <3>2 DEF StoredInv, BatchOf
    <3> QED BY <1>0, <3>2, <3>3 DEF Kept
  <2> QED BY <1>0, <1>2, <2>1, <2>3, <2>4 DEF Resolves
<1> QED BY <1>1, <1>2 DEF StoredInv, ResolvedIsPersisted

\* A failed_ingest row is marked resolved only after its events were stored:
\* RetryFailed returns Ingest's error before it reaches MarkFailedResolved.
THEOREM ResolvedRowsAreStored == Spec => []ResolvedIsPersisted
<1>1. Init => TypeInv /\ StoredInv
  BY TypeInit, StoredInit
<1>2. TypeInv /\ StoredInv /\ [Next]_vars => (TypeInv /\ StoredInv)'
  BY TypeNext, StoredNext
<1>3. StoredInv => ResolvedIsPersisted
  BY DEF StoredInv
<1> QED BY <1>1, <1>2, <1>3, PTL DEF Spec

-----------------------------------------------------------------------------
(* Nothing is silently dropped                                             *)

\* Entry i needs no delivery any more.
Settled(i) == log[i] \in Malformed \/ log[i] \in persisted \/ Parked(log[i])

\* Third layer: an entry leaves the pending list settled, because whoever is
\* about to acknowledge it has stored or parked it.
SettledInv ==
  /\ \A i \in 1..cursor : i \in pel \/ Settled(i)
  /\ \A a \in Consumers : job[a].pc = "ack" => Settled(job[a].ref)

\* A batch that was answered 204 is in the stream.
AcceptedInv == \A b \in accepted : \E i \in 1..Len(log) : log[i] = b

LEMMA SettledKept ==
  ASSUME TypeInv, Kept, TypeInv', NEW i \in 1..Len(log), Settled(i)
  PROVE  Settled(i)'
<1>1. log'[i] = log[i]
  BY DEF Kept
<1>2. ASSUME Parked(log[i]) PROVE Parked(log[i])'
  <2>0. failed \in Seq(FailedRow) /\ failed' \in Seq(FailedRow)
    BY DEF TypeInv, TypeOK
  <2>1. PICK f \in 1..Len(failed) : failed[f].batch = log[i]
    BY <1>2, <2>0 DEF Parked
  <2>2. f \in 1..Len(failed') /\ DOMAIN failed' = 1..Len(failed')
    BY <2>0, <2>1 DEF Kept
  <2>3. failed'[f].batch = log'[i]
    BY <1>1, <2>1 DEF Kept
  <2> QED BY <2>2, <2>3 DEF Parked
<1> QED BY <1>1, <1>2 DEF Settled, Kept

\* saveFailed leaves the batch parked unless its INSERT fails.
LEMMA SaveFailedParks ==
  ASSUME TypeInv, NEW a \in Consumers, SaveFailed(a), "park" \notin FaultKinds,
         NEW i, i = job[a].ref
  PROVE  Settled(i)'
<1> DEFINE row == [batch |-> log[i], resolved |-> FALSE]
<1>1. BatchOf(a) = log[i]
  BY ConstantsAssumption DEF BatchOf
<1>2. failed' = Append(failed, row) /\ log' = log
  BY <1>1 DEF SaveFailed, Fault, redis
<1>3. row.batch = log[i]
  OBVIOUS
<1> HIDE DEF row
<1>4. failed \in Seq(FailedRow)
  BY DEF TypeInv, TypeOK
<1>5. Len(failed) + 1 \in DOMAIN failed' /\ failed'[Len(failed) + 1] = row
  BY <1>2, <1>4
<1>6. \E f \in DOMAIN failed' : failed'[f].batch = log'[i]
  BY <1>2, <1>3, <1>5
<1> QED BY <1>6 DEF Settled, Parked

LEMMA SettledNext ==
  ASSUME "park" \notin FaultKinds
  PROVE  TypeInv /\ StoredInv /\ SettledInv /\ [Next]_vars => SettledInv'
<1> SUFFICES ASSUME TypeInv, StoredInv, SettledInv, [Next]_vars PROVE SettledInv'
  OBVIOUS
<1>0. TypeInv' /\ Kept /\ Delivers /\ \A a \in Actors : Moves(a)
  BY TypeNext, ShapeNext DEF Shape
<1>1. cursor \in Nat /\ Len(log) \in Nat /\ cursor <= Len(log)
  BY DEF TypeInv, TypeOK
<1>2. ASSUME NEW i \in 1..cursor' PROVE i \in pel' \/ Settled(i)'
  <2>1. CASE i \in 1..cursor /\ i \notin pel
    BY <1>0, <1>1, <2>1, SettledKept DEF SettledInv
  <2>2. CASE i \in 1..cursor /\ \E a \in Consumers : job[a].pc = "ack" /\ job[a].ref = i
    BY <1>0, <1>1, <2>2, SettledKept DEF SettledInv
  <2> QED BY <1>0, <2>1, <2>2 DEF Delivers
<1>3. ASSUME NEW a \in Consumers, job'[a].pc = "ack", NEW i, i = job'[a].ref
      PROVE  Settled(i)'
  <2>0. a \in Actors /\ a \notin Retriers /\ JobOK(a)
    BY ConstantsAssumption, Zenon DEF TypeInv, Actors
  <2>1. CASE job'[a] = job[a]
    <3>1. i \in 1..cursor
      BY <1>3, <2>0, <2>1, Zenon DEF JobOK
    <3>2. i \in 1..Len(log)
      BY <1>1, <3>1
    <3>3. Settled(i)
      BY <1>3, <2>1 DEF SettledInv
    <3> QED BY <1>0, <3>2, <3>3, SettledKept
  <2>2. CASE job[a].pc = "count" /\ job'[a].ref = job[a].ref
    <3>0. i \in 1..cursor
      BY <1>3, <2>0, <2>2 DEF JobOK, Steps
    <3>1. i \in 1..Len(log)
      BY <1>1, <3>0
    <3>2. log[i] \in persisted
      BY <1>3, <2>0, <2>2 DEF StoredInv, BatchOf
    <3>3. Settled(i)
      BY <3>2 DEF Settled
    <3> QED BY <1>0, <3>1, <3>3, SettledKept
  <2>3. CASE SaveFailed(a) /\ job'[a].ref = job[a].ref
    BY <1>3, <2>3, SaveFailedParks
  <2>4. CASE i \in 1..Len(log) /\ log[i] \in Malformed
    BY <1>0, <2>4, SettledKept DEF Settled
  <2> QED BY <1>0, <1>3, <2>0, <2>1, <2>2, <2>3, <2>4, Zenon DEF Moves
<1>4. ASSUME NEW a \in Consumers, job'[a].pc = "ack" PROVE Settled(job[a].ref)'
  <2>1. PICK i : i = job'[a].ref
    OBVIOUS
  <2>2. Settled(i)'
    BY <1>3, <1>4, <2>1
  <2> QED BY <2>1, <2>2 DEF Settled, Parked
<1> QED BY <1>2, <1>4 DEF SettledInv

LEMMA AcceptedNext == TypeInv /\ AcceptedInv /\ [Next]_vars => AcceptedInv'
<1> SUFFICES ASSUME TypeInv, AcceptedInv, [Next]_vars PROVE AcceptedInv'
  OBVIOUS
<1>1. TypeInv' /\ Kept
  BY TypeNext, ShapeNext DEF Shape
<1>2. log \in Seq(Batches \cup Malformed) /\ Len(log) \in Nat /\ Len(log') \in Nat
  BY <1>1 DEF TypeInv, TypeOK
<1>3. ASSUME NEW b \in accepted PROVE \E i \in 1..Len(log') : log'[i] = b
  <2>1. PICK i \in 1..Len(log) : log[i] = b
    BY DEF AcceptedInv
  <2>2. i \in 1..Len(log') /\ log'[i] = log[i]
    <3>1. Len(log) <= Len(log') /\ log'[i] = log[i]
      BY <1>1, <2>1 DEF Kept
    <3> QED BY <1>2, <2>1, <3>1
  <2> QED BY <2>1, <2>2
<1>4. \/ accepted' = accepted
      \/ \E b \in Batches : /\ accepted' = accepted \cup {b}
                            /\ log' = Append(log, b) \/ log' = log \o <<b, b>>
  <2>1. CASE UNCHANGED vars
    BY <2>1 DEF vars, history
  <2>2. CASE \E b \in Batches : WriterIngest(b)
    BY <2>2, Zenon DEF WriterIngest
  <2>3. CASE Next /\ ~ \E b \in Batches : WriterIngest(b)
    BY <2>3, Zenon DEF Next, ForeignAdd, Read, WorkerExit, Process, Ingest, UpsertSession,
         SetShareToken, SetClientMetadata, InsertEvents, IncrementEventCount,
         Statement, SaveFailed, Ack, Start, ReclaimNext, StartWorkers, Shutdown,
         Exit, WorkerCrash, RetryRequest, RetryNext, MarkFailedResolved,
         ReaderCrash, DeleteSession, history
  <2> QED BY <2>1, <2>2, <2>3, Zenon
<1>5. ASSUME NEW b \in Batches, log' = Append(log, b) \/ log' = log \o <<b, b>>
      PROVE  \E i \in 1..Len(log') : log'[i] = b
  <2>1. /\ Len(log) <= Len(log')
        /\ \A i \in 1..Len(log') : i > Len(log) => log'[i] = b
    BY <1>5, LogGrows
  <2>2. Len(log') > Len(log)
    BY <1>2, <1>5
  <2> QED BY <1>2, <2>1, <2>2
<1> QED BY <1>3, <1>4, <1>5, Zenon DEF AcceptedInv

\* No batch is silently dropped, as long as the INSERT into failed_ingest does
\* not fail: whatever else fails and whenever the processes crash, a batch
\* that was answered 204 is owed, stored or parked.
THEOREM NothingSilentlyDropped ==
  ASSUME "park" \notin FaultKinds
  PROVE  Spec => []NoSilentDrop
<1> DEFINE Inv == TypeInv /\ StoredInv /\ SettledInv /\ AcceptedInv
<1>1. Init => Inv
  <2> SUFFICES ASSUME Init PROVE SettledInv /\ AcceptedInv
    BY TypeInit, StoredInit
  <2>1. cursor = 0 /\ accepted = {} /\ \A a \in Actors : job[a].pc \in {"idle", "off"}
    BY DEF Init, Idle, Off
  <2> QED BY <2>1 DEF SettledInv, AcceptedInv, Actors
<1>2. Inv /\ [Next]_vars => Inv'
  BY TypeNext, StoredNext, SettledNext, AcceptedNext
<1>3. Inv => NoSilentDrop
  <2> SUFFICES ASSUME Inv, NEW b \in accepted
               PROVE  \/ \E i \in DOMAIN log : log[i] = b /\ Owed(i)
                      \/ b \in persisted
                      \/ Parked(b)
    BY DEF NoSilentDrop
  <2>1. PICK i \in 1..Len(log) : log[i] = b
    BY DEF AcceptedInv
  <2>2. b \in Batches /\ b \notin Malformed
    <3>1. b \in Batches
      BY DEF TypeInv, TypeOK
    <3> QED BY <3>1, ConstantsAssumption
  <2>3. i \in DOMAIN log /\ (i > cursor \/ i \in 1..cursor)
    BY <2>1, TypeFacts
  <2>4. Owed(i) \/ Settled(i)
    BY <2>3 DEF Owed, SettledInv
  <2> QED BY <2>1, <2>2, <2>3, <2>4 DEF Settled
<1> QED BY <1>1, <1>2, <1>3, PTL DEF Spec
=============================================================================
