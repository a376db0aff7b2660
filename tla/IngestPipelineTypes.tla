------------------------- MODULE IngestPipelineTypes ------------------------
(***************************************************************************)
(* Type correctness of IngestPipeline, for every number of batches,        *)
(* sessions, goroutines, retry requests, faults, crashes and deletions:    *)
(* the first layer of the inductive invariant.                             *)
(***************************************************************************)
EXTENDS IngestPipeline, SequenceTheorems, TLAPS

\* What an actor in the middle of something holds: a consumer an entry that
\* was delivered, of a batch unless it is only to be acknowledged; a retry
\* request a row of failed_ingest.
JobOK(a) ==
  /\ a \in Consumers =>
       /\ job[a].pc # "mark"
       /\ job[a].pc \in Steps \cup {"park", "ack"} => job[a].ref \in 1..cursor
       /\ job[a].pc \in Steps \cup {"park"} => log[job[a].ref] \in Batches
  /\ a \in Retriers =>
       /\ job[a].pc \in Steps \cup {"idle", "mark"}
       /\ job[a].pc # "idle" => job[a].ref \in 1..Len(failed)

TodoOK ==
  /\ todo[Main] \subseteq 1..cursor
  /\ \A r \in Retriers : todo[r] \subseteq 1..Len(failed)

\* First layer: types, and what the actors hold.
TypeInv == TypeOK /\ TodoOK /\ \A a \in Actors : JobOK(a)

\* What most steps need of the first layer.
LEMMA TypeFacts ==
  ASSUME TypeInv
  PROVE  /\ log \in Seq(Batches \cup Malformed) /\ Len(log) \in Nat
         /\ DOMAIN log = 1..Len(log)
         /\ failed \in Seq(FailedRow) /\ Len(failed) \in Nat
         /\ DOMAIN failed = 1..Len(failed)
         /\ cursor \in Nat /\ cursor <= Len(log) /\ pel \subseteq 1..cursor
         /\ job \in [Actors -> Job]
<1>1. /\ log \in Seq(Batches \cup Malformed) /\ failed \in Seq(FailedRow)
      /\ cursor \in 0..Len(log) /\ pel \subseteq 1..cursor
      /\ job \in [Actors -> Job]
  BY DEF TypeInv, TypeOK
<1>2. Len(log) \in Nat /\ Len(failed) \in Nat
  BY <1>1
<1>3. cursor \in Nat /\ cursor <= Len(log)
  BY <1>1, <1>2
<1> QED BY <1>1, <1>2, <1>3

LEMMA AtRest == Idle.pc = "idle" /\ Off.pc = "off" /\ Idle # Off
BY DEF Idle, Off

LEMMA RestIsJob == 1 \in 0..MaxAttempts /\ Idle \in Job /\ Off \in Job
<1>1. 1 \in 0..MaxAttempts /\ 0 \in 0..MaxAttempts
  BY ConstantsAssumption
<1> QED BY <1>1 DEF Idle, Off, Job

-----------------------------------------------------------------------------
(* Types                                                                   *)

LEMMA TypeInit == Init => TypeInv
<1> SUFFICES ASSUME Init PROVE TypeInv
  OBVIOUS
<1>1. /\ sessions \in [Sessions -> Row]
      /\ todo \in [Retriers \cup {Main} -> SUBSET Nat]
      /\ job \in [Actors -> Job]
  <2>1. NoRow \in Row
    BY DEF NoRow, Row
  <2>2. Off \in Job /\ Idle \in Job
    BY ConstantsAssumption DEF Off, Idle, Job
  <2> QED BY <2>1, <2>2 DEF Init
<1>2. TypeOK
  <2>1. /\ log \in Seq(Batches \cup Malformed) /\ failed \in Seq(FailedRow)
        /\ cursor \in 0..Len(log) /\ pel \subseteq 1..cursor
    BY DEF Init
  <2>2. stopping \in BOOLEAN
    BY Zenon DEF Init
  <2>3. /\ events \in [Batches -> Nat]
        /\ phase \in {"down", "starting", "running"}
        /\ accepted \subseteq sent /\ sent \subseteq Batches
        /\ persisted \subseteq Batches /\ erased \subseteq Batches
        /\ faults \in Nat /\ crashes \in Nat /\ shutdowns \in Nat
        /\ retries \in Nat /\ deletes \in Nat
    BY DEF Init
  <2> QED BY <1>1, <2>1, <2>2, <2>3 DEF TypeOK
<1>3. TodoOK
  BY DEF Init, TodoOK
<1>4. ASSUME NEW a \in Actors PROVE JobOK(a)
  BY ConstantsAssumption DEF Init, JobOK, Off, Idle, Steps, Actors, Consumers
<1> QED BY <1>2, <1>3, <1>4 DEF TypeInv

\* A failing statement leaves an actor that retries, gives up, or (a retry
\* request) is idle again; in each case with the entry it had.
LEMMA IngestErrorType ==
  ASSUME TypeInv, NEW a \in Actors, job[a].pc \in Steps, IngestError(a)
  PROVE  /\ job' \in [Actors -> Job]
         /\ \A c \in Actors \ {a} : job'[c] = job[c]
         /\ a \in Retriers => job'[a] = Idle
         /\ a \in Consumers => /\ job'[a].pc \in {"upsert", "park"}
                               /\ job'[a].ref = job[a].ref
<1> DEFINE again == [pc |-> "upsert", ref |-> job[a].ref,
                     attempt |-> job[a].attempt + 1]
           parks == [job[a] EXCEPT !.pc = "park"]
<1>1. job \in [Actors -> Job] /\ job[a] \in Job
  BY DEF TypeInv, TypeOK
<1>2. Idle \in Job /\ parks \in Job
  BY <1>1, ConstantsAssumption DEF Idle, Job
<1>3. job[a].attempt < MaxAttempts => again \in Job
  BY <1>1, ConstantsAssumption DEF Job, Steps
<1>4. job' = [job EXCEPT ![a] = IF a \in Retriers THEN Idle
                                ELSE IF job[a].attempt < MaxAttempts THEN again
                                ELSE parks]
  BY DEF IngestError
<1>5. again.pc = "upsert" /\ again.ref = job[a].ref
  OBVIOUS
<1>6. parks.pc = "park" /\ parks.ref = job[a].ref
  BY <1>1 DEF Job
<1>7. a \in Consumers => a \notin Retriers
  BY ConstantsAssumption
<1> HIDE DEF again, parks
<1> QED BY <1>1, <1>2, <1>3, <1>4, <1>5, <1>6, <1>7

\* An error of Ingest that changes nothing in the database.
LEMMA IngestErrorFrame ==
  ASSUME TypeInv, NEW a \in Actors, job[a].pc \in Steps, IngestError(a),
         UNCHANGED <<redis, tables, process, todo, history, bounds>>
  PROVE  TypeInv'
<1>1. /\ job' \in [Actors -> Job]
      /\ \A c \in Actors \ {a} : job'[c] = job[c]
      /\ a \in Retriers => job'[a] = Idle
      /\ a \in Consumers => /\ job'[a].pc \in {"upsert", "park"}
                            /\ job'[a].ref = job[a].ref
  BY IngestErrorType
<1>2. TypeOK' /\ TodoOK'
  BY <1>1 DEF TypeInv, TypeOK, TodoOK, redis, tables, process, history, bounds
<1>3. ASSUME NEW c \in Actors PROVE JobOK(c)'
  <2>1. CASE c # a
    BY <1>1, <2>1 DEF TypeInv, JobOK, redis, tables
  <2>2. CASE c = a
    BY <1>1, <2>2, ConstantsAssumption
       DEF TypeInv, JobOK, Steps, Idle, Actors, redis, tables
  <2> QED BY <2>1, <2>2
<1> QED BY <1>2, <1>3 DEF TypeInv

\* A statement of Ingest keeps the first layer when the rows it writes are
\* rows and the step it goes on to is one for its actor.
LEMMA StatementType ==
  ASSUME TypeInv, NEW a \in Actors, job[a].pc \in Steps,
         NEW rows \in [Sessions -> Row], NEW copies \in [Batches -> Nat],
         NEW pc \in Steps \cup {"ack", "mark"},
         pc = "ack" => a \in Consumers, pc = "mark" => a \in Retriers,
         Statement(a, rows, copies, pc)
  PROVE  TypeInv'
<1>1. /\ sessions' \in [Sessions -> Row] /\ events' \in [Batches -> Nat]
      /\ faults' \in Nat /\ persisted' \subseteq Batches
  BY DEF TypeInv, TypeOK, Statement, Fault
<1>2. UNCHANGED <<log, cursor, pel, failed, phase, stopping, todo, sent, accepted,
                  erased, crashes, shutdowns, retries, deletes>>
  BY DEF Statement, redis, process
<1>3. /\ job' \in [Actors -> Job]
      /\ \A c \in Actors \ {a} : job'[c] = job[c]
      /\ \/ job'[a].pc = pc /\ job'[a].ref = job[a].ref
         \/ /\ a \in Retriers => job'[a] = Idle
            /\ a \in Consumers => /\ job'[a].pc \in {"upsert", "park"}
                                  /\ job'[a].ref = job[a].ref
  <2>1. CASE Goto(a, pc)
    BY <2>1, Zenon DEF Goto, TypeInv, TypeOK, Job
  <2>2. CASE IngestError(a)
    BY <2>2, IngestErrorType
  <2> QED
    BY <2>1, <2>2 DEF Statement
<1>4. TypeOK'
  BY <1>1, <1>2, <1>3 DEF TypeInv, TypeOK
<1>5. TodoOK'
  BY <1>2 DEF TypeInv, TodoOK
<1>6. ASSUME NEW c \in Actors PROVE JobOK(c)'
  <2>1. CASE c # a
    BY <1>2, <1>3, <2>1 DEF TypeInv, JobOK
  <2>2. CASE c = a /\ a \in Consumers
    <3>1. JobOK(a) /\ a \notin Retriers
      BY <2>2, ConstantsAssumption DEF TypeInv
    <3>2. job'[a].pc \in Steps \cup {"ack", "park"} /\ job'[a].ref = job[a].ref
      BY <1>3, <2>2, <3>1 DEF Steps
    <3> QED BY <1>2, <2>2, <3>1, <3>2 DEF JobOK, Steps
  <2>3. CASE c = a /\ a \in Retriers
    <3>1. JobOK(a) /\ a \notin Consumers
      BY <2>3, ConstantsAssumption DEF TypeInv
    <3>2. \/ job'[a].pc \in Steps \cup {"mark"} /\ job'[a].ref = job[a].ref
          \/ job'[a].pc = "idle"
      BY <1>3, <2>3, <3>1, AtRest
    <3> QED BY <1>2, <2>3, <3>1, <3>2 DEF JobOK, Steps
  <2> QED BY <2>1, <2>2, <2>3 DEF Actors
<1> QED BY <1>4, <1>5, <1>6 DEF TypeInv

LEMMA BatchOfType ==
  ASSUME TypeInv, NEW a \in Actors, job[a].pc \in Steps \cup {"park"}
  PROVE  BatchOf(a) \in Batches
<1>1. CASE a \in Retriers
  <2>1. job[a].ref \in 1..Len(failed)
    BY <1>1 DEF TypeInv, JobOK, Steps
  <2>2. failed[job[a].ref] \in FailedRow
    BY <2>1 DEF TypeInv, TypeOK
  <2> QED BY <1>1, <2>2 DEF BatchOf, FailedRow
<1>2. CASE a \notin Retriers
  BY <1>2 DEF TypeInv, JobOK, BatchOf, Actors
<1> QED BY <1>1, <1>2

LEMMA IngestType ==
  ASSUME TypeInv, NEW a \in Actors, Ingest(a)
  PROVE  TypeInv'
<1> DEFINE b == BatchOf(a)
           s == SessionOf[b]
<1>1. job[a].pc \in Steps
  BY DEF Ingest, UpsertSession, SetShareToken, SetClientMetadata, InsertEvents,
         IncrementEventCount, Steps
<1>2. b \in Batches /\ s \in Sessions /\ Size[b] \in Nat
  BY <1>1, BatchOfType, ConstantsAssumption
<1>3. /\ sessions \in [Sessions -> Row] /\ sessions[s] \in Row
      /\ events \in [Batches -> Nat]
  BY <1>2 DEF TypeInv, TypeOK
<1>4. AfterToken(b) \in Steps /\ AfterUpsert(b) \in Steps
  BY DEF AfterToken, AfterUpsert, Steps
<1>5. Steps \cap {"ack", "mark"} = {}
  BY DEF Steps
<1>6. ASSUME NEW row \in Row PROVE Updated(s, row) \in [Sessions -> Row]
  BY <1>3, Zenon DEF Updated
<1> HIDE DEF b, s
<1>7. CASE UpsertSession(a)
  <2>1. [sessions EXCEPT ![s].exists = TRUE, ![s].event_count = 0]
           \in [Sessions -> Row]
    BY <1>2, <1>3, Zenon DEF Row
  <2> QED BY <1>1, <1>3, <1>4, <1>5, <1>7, <2>1, StatementType, Zenon
          DEF UpsertSession, b, s
<1>8. CASE SetShareToken(a)
  <2>1. [sessions[s] EXCEPT !.share_token = TRUE] \in Row
    BY <1>3, Zenon DEF Row
  <2> QED BY <1>1, <1>3, <1>4, <1>5, <1>6, <1>8, <2>1, StatementType, Zenon
          DEF SetShareToken, b, s
<1>9. CASE SetClientMetadata(a)
  <2>1. [sessions[s] EXCEPT !.client = TRUE] \in Row
    BY <1>3, Zenon DEF Row
  <2>2. "insert" \in Steps
    BY DEF Steps
  <2> QED BY <1>1, <1>3, <1>5, <1>6, <1>9, <2>1, <2>2, StatementType, Zenon
          DEF SetClientMetadata, b, s
<1>10. CASE InsertEvents(a)
  <2>1. CASE Statement(a, sessions, [events EXCEPT ![b] = @ + 1], "count")
    <3>1. [events EXCEPT ![b] = @ + 1] \in [Batches -> Nat]
      BY <1>2, <1>3
    <3>2. "count" \in Steps
      BY DEF Steps
    <3> QED BY <1>1, <1>3, <1>5, <2>1, <3>1, <3>2, StatementType, Zenon
  <2>2. CASE /\ IngestError(a)
             /\ UNCHANGED <<redis, tables, process, todo, history, bounds>>
    BY <1>1, <2>2, IngestErrorFrame
  <2> QED BY <1>10, <2>1, <2>2 DEF InsertEvents, b, s
<1>11. CASE IncrementEventCount(a)
  <2>1. [sessions[s] EXCEPT !.event_count = @ + Size[b]] \in Row
    BY <1>2, <1>3 DEF Row
  <2>2. a \in Retriers \/ a \in Consumers
    BY DEF Actors
  <2> DEFINE pc == IF a \in Retriers THEN "mark" ELSE "ack"
  <2>3. /\ pc \in Steps \cup {"ack", "mark"}
        /\ pc = "ack" => a \in Consumers
        /\ pc = "mark" => a \in Retriers
    BY <2>2
  <2>4. Statement(a, Updated(s, [sessions[s] EXCEPT !.event_count = @ + Size[b]]),
                  events, pc)
    BY <1>11 DEF IncrementEventCount, b, s
  <2> HIDE DEF pc
  <2> QED BY <1>1, <1>3, <1>6, <2>1, <2>3, <2>4, StatementType, Zenon
<1> QED BY <1>7, <1>8, <1>9, <1>10, <1>11 DEF Ingest

\* The stream only grows.
LEMMA LogGrows ==
  ASSUME TypeInv, NEW e \in Batches \cup Malformed,
         log' \in {log, Append(log, e), log \o <<e, e>>}
  PROVE  /\ log' \in Seq(Batches \cup Malformed)
         /\ Len(log) <= Len(log')
         /\ \A i \in 1..Len(log) : log'[i] = log[i]
         /\ \A i \in 1..Len(log') : i > Len(log) => log'[i] = e
<1>1. log \in Seq(Batches \cup Malformed)
  BY DEF TypeInv, TypeOK
<1>2. CASE log' = log
  BY <1>1, <1>2
<1>3. CASE log' = Append(log, e)
  BY <1>1, <1>3
<1>4. CASE log' = log \o <<e, e>>
  <2>1. <<e, e>> \in Seq(Batches \cup Malformed) /\ Len(<<e, e>>) = 2
    OBVIOUS
  <2> QED BY <1>1, <1>4, <2>1
<1> QED BY <1>2, <1>3, <1>4, Zenon

\* Steps that add entries to the stream.
LEMMA EnqueueType ==
  ASSUME TypeInv, NEW e \in Batches \cup Malformed,
         WriterIngest(e) \/ ForeignAdd(e)
  PROVE  TypeInv'
<1>1. log' \in {log, Append(log, e), log \o <<e, e>>}
  BY DEF WriterIngest, ForeignAdd
<1>2. /\ log' \in Seq(Batches \cup Malformed)
      /\ Len(log) <= Len(log')
      /\ \A i \in 1..Len(log) : log'[i] = log[i]
  BY <1>1, LogGrows
<1>3. /\ accepted' \subseteq sent' /\ sent' \subseteq Batches
      /\ faults' \in Nat
  <2>1. accepted \subseteq sent /\ sent \subseteq Batches /\ faults \in Nat
    BY DEF TypeInv, TypeOK
  <2>2. CASE WriterIngest(e)
    BY <2>1, <2>2 DEF WriterIngest, Fault
  <2>3. CASE ForeignAdd(e)
    BY <2>1, <2>3 DEF ForeignAdd, history, bounds
  <2> QED BY <2>2, <2>3
<1>4. UNCHANGED <<cursor, pel, sessions, events, failed, phase, stopping, job,
                  todo, persisted, erased, crashes, shutdowns, retries, deletes>>
  BY DEF WriterIngest, ForeignAdd, tables, process, history, bounds
<1>5. cursor' \in 0..Len(log')
  <2>1. Len(log') \in Nat
    BY <1>2
  <2> QED BY <1>2, <1>4, <2>1, TypeFacts
<1>6. TypeOK'
  BY <1>2, <1>3, <1>4, <1>5 DEF TypeInv, TypeOK
<1>7. TodoOK'
  BY <1>4 DEF TypeInv, TodoOK
<1>8. ASSUME NEW a \in Actors PROVE JobOK(a)'
  <2>1. JobOK(a)
    BY DEF TypeInv
  <2>2. \A i \in 1..cursor : log'[i] = log[i]
    BY <1>2, TypeFacts
  <2> QED BY <1>4, <2>1, <2>2 DEF JobOK
<1> QED BY <1>6, <1>7, <1>8 DEF TypeInv

\* A delivered entry is begun with its first statement or with its Ack.
LEMMA BeginType ==
  ASSUME TypeInv, NEW i \in 1..Len(log)
  PROVE  /\ Begin(i) \in Job
         /\ Begin(i).ref = i
         /\ Begin(i).pc \in {"upsert", "ack"}
         /\ Begin(i).pc = "upsert" => log[i] \in Batches
<1>1. log[i] \in Batches \cup Malformed /\ i \in Nat
  BY DEF TypeInv, TypeOK
<1>2. 1 \in 0..MaxAttempts
  BY ConstantsAssumption
<1> QED BY <1>1, <1>2 DEF Begin, Job, Steps

LEMMA RestType ==
  ASSUME NEW a \in Consumers
  PROVE  Idle \in Job /\ Off \in Job /\ Rest(a) \in {Idle, Off} /\ Rest(a) \in Job
BY ConstantsAssumption DEF Rest, Idle, Off, Job

LEMMA ReadType ==
  ASSUME TypeInv, NEW w \in Workers, Read(w)
  PROVE  TypeInv'
<1>1. /\ log \in Seq(Batches \cup Malformed) /\ cursor \in Nat
      /\ cursor + 1 \in 1..Len(log) /\ cursor' = cursor + 1
      /\ pel' = pel \cup {cursor + 1}
  BY DEF Read, TypeInv, TypeOK
<1>2. w \in Actors /\ w \in Consumers /\ w \notin Retriers
  BY ConstantsAssumption DEF Actors, Consumers
<1>3. faults' \in Nat
  BY DEF Read, Fault, TypeInv, TypeOK
<1>4. UNCHANGED <<log, sessions, events, failed, phase, stopping, todo, sent,
                  accepted, persisted, erased, crashes, shutdowns, retries, deletes>>
  BY DEF Read, tables, process, history
<1>5. PICK j \in {Begin(cursor + 1), Rest(w)} : job' = [job EXCEPT ![w] = j]
  BY DEF Read
<1>6. j \in Job
  BY <1>1, <1>2, <1>5, BeginType, RestType
<1>7. TypeOK'
  <2>1. cursor' \in 0..Len(log') /\ pel' \subseteq 1..cursor'
    BY <1>1, <1>4 DEF TypeInv, TypeOK
  <2>2. job' \in [Actors -> Job]
    BY <1>5, <1>6, Zenon DEF TypeInv, TypeOK
  <2> QED BY <1>3, <1>4, <2>1, <2>2 DEF TypeInv, TypeOK
<1>8. TodoOK'
  <2>1. todo[Main] \subseteq 1..cursor'
    BY <1>1 DEF TypeInv, TodoOK
  <2> QED BY <1>4, <2>1 DEF TypeInv, TodoOK
<1>9. ASSUME NEW a \in Actors PROVE JobOK(a)'
  <2>1. CASE a # w
    BY <1>1, <1>4, <1>5, <2>1 DEF TypeInv, TypeOK, JobOK
  <2>2. CASE a = w
    <3>1. job'[w] = j
      BY <1>2, <1>5 DEF TypeInv, TypeOK
    <3>2. CASE j = Begin(cursor + 1)
      BY <1>1, <1>2, <1>4, <2>2, <3>1, <3>2, BeginType DEF JobOK, Steps
    <3>3. CASE j = Rest(w)
      BY <1>2, <2>2, <3>1, <3>3, RestType DEF JobOK, Steps, Idle, Off
    <3> QED BY <1>5, <3>2, <3>3
  <2> QED BY <2>1, <2>2
<1> QED BY <1>7, <1>8, <1>9 DEF TypeInv

\* An actor that goes on as it was, or comes to rest, holds nothing wrong.
LEMMA JobKept ==
  ASSUME TypeInv, UNCHANGED <<log, cursor>>, Len(failed) <= Len(failed'),
         Len(failed') \in Nat,
         NEW a \in Actors,
         \/ job'[a] = job[a]
         \/ job'[a] = Idle
         \/ job'[a] = Off /\ a \notin Retriers
  PROVE  JobOK(a)'
<1>1. JobOK(a) /\ Len(failed) \in Nat
  BY DEF TypeInv, TypeOK
<1>2. CASE job'[a] = job[a]
  BY <1>1, <1>2 DEF JobOK
<1>3. CASE job'[a] = Idle
  BY <1>3 DEF JobOK, Steps, Idle
<1>4. CASE job'[a] = Off /\ a \notin Retriers
  BY <1>4 DEF JobOK, Steps, Off
<1> QED BY <1>2, <1>3, <1>4

LEMMA SaveFailedType ==
  ASSUME TypeInv, NEW a \in Consumers, SaveFailed(a)
  PROVE  TypeInv'
<1> DEFINE row == [batch |-> BatchOf(a), resolved |-> FALSE]
<1>1. a \in Actors /\ a \notin Retriers
  BY ConstantsAssumption DEF Actors
<1>2. row \in FailedRow
  <2>1. BatchOf(a) \in Batches
    BY <1>1, BatchOfType DEF SaveFailed
  <2> QED BY <2>1 DEF FailedRow
<1>3. failed' \in {failed, Append(failed, row)} /\ faults' \in Nat
  BY DEF SaveFailed, Fault, TypeInv, TypeOK
<1> HIDE DEF row
<1>4. /\ failed' \in Seq(FailedRow) /\ Len(failed) <= Len(failed')
      /\ Len(failed) \in Nat /\ Len(failed') \in Nat
  <2>1. failed \in Seq(FailedRow)
    BY DEF TypeInv, TypeOK
  <2>2. CASE failed' = failed
    BY <2>1, <2>2
  <2>3. CASE failed' = Append(failed, row)
    BY <1>2, <2>1, <2>3
  <2> QED BY <1>3, <2>2, <2>3
<1>5. /\ job' \in [Actors -> Job]
      /\ \A c \in Actors \ {a} : job'[c] = job[c]
      /\ job'[a].pc = "ack" /\ job'[a].ref = job[a].ref
  BY <1>1, Zenon DEF SaveFailed, Goto, TypeInv, TypeOK, Job
<1>6. UNCHANGED <<log, cursor, pel, sessions, events, phase, stopping, todo, sent,
                  accepted, persisted, erased, crashes, shutdowns, retries, deletes>>
  BY DEF SaveFailed, redis, process, history
<1>7. TypeOK'
  BY <1>3, <1>4, <1>5, <1>6 DEF TypeInv, TypeOK
<1>8. TodoOK'
  BY <1>4, <1>6 DEF TypeInv, TodoOK
<1>9. ASSUME NEW c \in Actors PROVE JobOK(c)'
  <2>1. CASE c # a
    BY <1>4, <1>5, <1>6, <2>1, JobKept
  <2>2. CASE c = a
    BY <1>1, <1>5, <1>6, <2>2 DEF TypeInv, JobOK, SaveFailed, Steps
  <2> QED BY <2>1, <2>2
<1> QED BY <1>7, <1>8, <1>9 DEF TypeInv

\* Steps after which an actor rests, and that change neither the stream nor
\* failed_ingest: WorkerExit and Ack.
LEMMA RestingType ==
  ASSUME TypeInv, NEW a \in Consumers,
         Ack(a) \/ (a \in Workers /\ WorkerExit(a))
  PROVE  TypeInv'
<1>1. a \in Actors /\ a \notin Retriers
  BY ConstantsAssumption DEF Actors
<1>2. PICK j \in {Idle, Off} : job' = [job EXCEPT ![a] = j]
  BY RestType DEF Ack, WorkerExit
<1>3. pel' \subseteq pel /\ faults' \in Nat
  BY DEF Ack, WorkerExit, Fault, TypeInv, TypeOK, redis, bounds
<1>4. UNCHANGED <<log, cursor, sessions, events, failed, phase, stopping, todo,
                  sent, accepted, persisted, erased, crashes, shutdowns, retries,
                  deletes>>
  BY DEF Ack, WorkerExit, redis, tables, process, history, bounds
<1>5. job' \in [Actors -> Job]
  BY <1>2, RestType, Zenon DEF TypeInv, TypeOK
<1>6. TypeOK'
  BY <1>3, <1>4, <1>5 DEF TypeInv, TypeOK
<1>7. TodoOK'
  BY <1>4, Zenon DEF TypeInv, TodoOK
<1>8. ASSUME NEW c \in Actors PROVE JobOK(c)'
  <2>1. job'[c] = job[c] \/ job'[c] = Idle \/ (job'[c] = Off /\ c \notin Retriers)
    BY <1>1, <1>2 DEF TypeInv, TypeOK
  <2>2. Len(failed) <= Len(failed') /\ Len(failed') \in Nat
    BY <1>4 DEF TypeInv, TypeOK
  <2> QED BY <1>4, <2>1, <2>2, JobKept, Zenon
<1> QED BY <1>6, <1>7, <1>8 DEF TypeInv

\* The steps of the worker process as a whole.
LEMMA WorkerProcessType ==
  ASSUME TypeInv,
         Start \/ ReclaimNext \/ StartWorkers \/ Shutdown \/ Exit \/ WorkerCrash
  PROVE  TypeInv'
<1>1. Main \in Consumers /\ Main \in Actors /\ Main \notin Retriers
  BY ConstantsAssumption DEF Actors, Consumers
<1>2. UNCHANGED <<log, cursor, pel, sessions, events, failed, sent, accepted,
                  persisted, erased, retries, deletes>>
  BY DEF Start, ReclaimNext, StartWorkers, Shutdown, Exit, WorkerCrash, redis,
         tables, history, bounds
<1>3. /\ phase' \in {"down", "starting", "running"}
      /\ faults' \in Nat /\ crashes' \in Nat /\ shutdowns' \in Nat
  <2>1. /\ phase \in {"down", "starting", "running"}
        /\ faults \in Nat /\ crashes \in Nat /\ shutdowns \in Nat
    BY DEF TypeInv, TypeOK
  <2>2. CASE Start
    BY <2>1, <2>2 DEF Start, Fault
  <2>3. CASE ReclaimNext \/ StartWorkers \/ Exit
    BY <2>1, <2>3 DEF ReclaimNext, StartWorkers, Exit, process, bounds
  <2>4. CASE Shutdown \/ WorkerCrash
    BY <2>1, <2>4 DEF Shutdown, WorkerCrash
  <2> QED BY <2>2, <2>3, <2>4
<1>4. stopping' \in BOOLEAN
  BY Zenon DEF Start, ReclaimNext, StartWorkers, Shutdown, Exit, WorkerCrash,
         TypeInv, TypeOK, process
<1>5. /\ todo' \in [Retriers \cup {Main} -> SUBSET Nat]
      /\ todo'[Main] \subseteq 1..cursor
      /\ \A r \in Retriers : todo'[r] = todo[r]
  <2>0. /\ todo \in [Retriers \cup {Main} -> SUBSET Nat]
        /\ todo[Main] \subseteq 1..cursor /\ pel \subseteq 1..cursor
        /\ cursor \in Nat
    BY DEF TypeInv, TypeOK, TodoOK
  <2>1. PICK t \in SUBSET (1..cursor) :
             todo' = todo \/ todo' = [todo EXCEPT ![Main] = t]
    <3>1. CASE Start
      <4> DEFINE oldest == {i \in pel : Cardinality({j \in pel : j <= i})
                                           <= ReclaimCount}
      <4>1. oldest \in SUBSET (1..cursor)
        BY <2>0, Zenon
      <4>2. todo' = todo \/ todo' = [todo EXCEPT ![Main] = oldest]
        BY <3>1 DEF Start
      <4> HIDE DEF oldest
      <4> QED BY <4>1, <4>2
    <3>2. CASE ReclaimNext
      <4>1. PICK i \in todo[Main] : todo' = [todo EXCEPT ![Main] = @ \ {i}]
        BY <3>2, Zenon DEF ReclaimNext
      <4>2. todo' = [todo EXCEPT ![Main] = todo[Main] \ {i}]
        BY <4>1
      <4>3. todo[Main] \ {i} \in SUBSET (1..cursor)
        BY <2>0
      <4> QED BY <4>2, <4>3, Zenon
    <3>3. CASE WorkerCrash
      BY <3>3, Zenon DEF WorkerCrash
    <3>4. CASE StartWorkers \/ Shutdown \/ Exit
      BY <3>4, Zenon DEF StartWorkers, Shutdown, Exit
    <3> QED BY <3>1, <3>2, <3>3, <3>4
  <2>2. t \in SUBSET Nat /\ t \subseteq 1..cursor
    BY <2>0, <2>1
  <2>3. CASE todo' = todo
    BY <2>0, <2>3
  <2>4. CASE todo' = [todo EXCEPT ![Main] = t]
    BY <1>1, <2>0, <2>2, <2>4, Zenon
  <2> QED BY <2>1, <2>3, <2>4
<1>6. TodoOK'
  BY <1>2, <1>5 DEF TypeInv, TodoOK
<1>7. Len(failed) <= Len(failed') /\ Len(failed') \in Nat
  BY <1>2 DEF TypeInv, TypeOK
<1>8. job' \in [Actors -> Job] /\ \A a \in Actors : JobOK(a)'
  <2>0. job \in [Actors -> Job] /\ Idle \in Job /\ Off \in Job
    BY <1>1, RestType DEF TypeInv, TypeOK
  <2>1. CASE ReclaimNext
    <3>1. PICK i \in todo[Main] : job' = [job EXCEPT ![Main] = Begin(i)]
      BY <2>1, Zenon DEF ReclaimNext
    <3>2. i \in 1..cursor /\ i \in 1..Len(log)
      BY <3>1 DEF TypeInv, TypeOK, TodoOK
    <3>3. /\ Begin(i) \in Job /\ Begin(i).ref = i
          /\ Begin(i).pc \in {"upsert", "ack"}
          /\ Begin(i).pc = "upsert" => log[i] \in Batches
      BY <3>2, BeginType
    <3>4. job' \in [Actors -> Job]
      BY <2>0, <3>1, <3>3, Zenon
    <3>5. ASSUME NEW a \in Actors PROVE JobOK(a)'
      <4>1. CASE a # Main
        BY <1>2, <1>7, <2>0, <3>1, <4>1, JobKept
      <4>2. CASE a = Main
        BY <1>1, <1>2, <2>0, <3>1, <3>2, <3>3, <4>2 DEF JobOK, Steps
      <4> QED BY <4>1, <4>2
    <3> QED BY <3>4, <3>5
  <2>2. CASE Start \/ StartWorkers \/ Shutdown \/ Exit \/ WorkerCrash
    <3>1. /\ job' \in [Actors -> Job]
          /\ \A a \in Actors : \/ job'[a] = job[a]
                               \/ job'[a] = Idle
                               \/ job'[a] = Off /\ a \notin Retriers
      <4>1. CASE Start
        BY <1>1, <2>0, <4>1 DEF Start
      <4>2. CASE StartWorkers
        <5>1. \A w \in Workers : Rest(w) \in {Idle, Off} /\ w \notin Retriers
          BY RestType, ConstantsAssumption DEF Consumers
        <5> QED BY <1>1, <2>0, <4>2, <5>1 DEF StartWorkers
      <4>3. CASE Shutdown \/ Exit
        BY <2>0, <4>3 DEF Shutdown, Exit
      <4>4. CASE WorkerCrash
        BY <2>0, <4>4, ConstantsAssumption DEF WorkerCrash
      <4> QED BY <2>2, <4>1, <4>2, <4>3, <4>4
    <3> QED BY <1>2, <1>7, <3>1, JobKept
  <2> QED BY <2>1, <2>2
<1>9. TypeOK'
  BY <1>2, <1>3, <1>4, <1>5, <1>8 DEF TypeInv, TypeOK
<1> QED BY <1>6, <1>8, <1>9 DEF TypeInv

\* The steps of the Reader.
LEMMA RetryType ==
  ASSUME TypeInv, NEW r \in Retriers,
         RetryRequest(r) \/ RetryNext(r) \/ MarkFailedResolved(r)
  PROVE  TypeInv'
<1>0. /\ r \in Actors /\ r \notin Consumers /\ r # Main
      /\ todo \in [Retriers \cup {Main} -> SUBSET Nat]
      /\ \A q \in Retriers : todo[q] \subseteq 1..Len(failed)
      /\ failed \in Seq(FailedRow) /\ Len(failed) \in Nat
      /\ job \in [Actors -> Job]
  <2>1. r \in Actors /\ r \notin Consumers /\ r # Main
    BY ConstantsAssumption DEF Actors, Consumers
  <2>2. /\ todo \in [Retriers \cup {Main} -> SUBSET Nat]
        /\ \A q \in Retriers : todo[q] \subseteq 1..Len(failed)
    BY DEF TypeInv, TypeOK, TodoOK
  <2> QED BY <2>1, <2>2, TypeFacts
<1>1. UNCHANGED <<log, cursor, pel, sessions, events, phase, stopping, sent,
                  accepted, persisted, erased, crashes, shutdowns, deletes>>
  BY DEF RetryRequest, RetryNext, MarkFailedResolved, redis, tables, process, history
<1>2. faults' \in Nat /\ retries' \in Nat
  BY DEF RetryRequest, RetryNext, MarkFailedResolved, Fault, TypeInv, TypeOK
<1>3. PICK t \in SUBSET (1..Len(failed)) :
           todo' = todo \/ todo' = [todo EXCEPT ![r] = t]
  <2>1. CASE RetryRequest(r)
    <3> DEFINE unresolved == {f \in DOMAIN failed : ~failed[f].resolved}
    <3>1. unresolved \in SUBSET (1..Len(failed)) /\ DOMAIN failed = 1..Len(failed)
      BY <1>0
    <3>2. \/ \E f \in DOMAIN failed : todo' = [todo EXCEPT ![r] = {f}]
          \/ todo' = [todo EXCEPT ![r] = unresolved]
      BY <2>1 DEF RetryRequest
    <3> HIDE DEF unresolved
    <3> QED BY <3>1, <3>2
  <2>2. CASE RetryNext(r)
    <3>1. PICK f \in todo[r] : todo' = [todo EXCEPT ![r] = @ \ {f}]
      BY <2>2, Zenon DEF RetryNext
    <3>2. todo[r] \ {f} \in SUBSET (1..Len(failed))
      BY <1>0
    <3>3. todo' = [todo EXCEPT ![r] = todo[r] \ {f}]
      BY <3>1
    <3> QED BY <3>2, <3>3, Zenon
  <2>3. CASE MarkFailedResolved(r)
    BY <2>3, Zenon DEF MarkFailedResolved
  <2> QED BY <2>1, <2>2, <2>3, Zenon
<1>4. /\ todo' \in [Retriers \cup {Main} -> SUBSET Nat]
      /\ todo'[Main] = todo[Main]
      /\ \A q \in Retriers : todo'[q] \subseteq 1..Len(failed)
  <2>1. t \in SUBSET Nat /\ t \subseteq 1..Len(failed)
    BY <1>0, <1>3
  <2>2. CASE todo' = todo
    BY <1>0, <2>2
  <2>3. CASE todo' = [todo EXCEPT ![r] = t]
    BY <1>0, <2>1, <2>3, Zenon
  <2> QED BY <1>3, <2>2, <2>3
<1>5. failed' \in Seq(FailedRow) /\ Len(failed') = Len(failed)
  <2>1. CASE MarkFailedResolved(r)
    <3>1. job[r].ref \in 1..Len(failed)
      BY <1>0, <2>1 DEF MarkFailedResolved, TypeInv, JobOK
    <3> DEFINE marked == [failed EXCEPT ![job[r].ref].resolved = TRUE]
    <3>2. marked \in Seq(FailedRow) /\ Len(marked) = Len(failed)
      <4> DEFINE row == [failed[job[r].ref] EXCEPT !.resolved = TRUE]
      <4>1. failed[job[r].ref] \in FailedRow
        BY <1>0, <3>1
      <4>2. row \in FailedRow
        BY <4>1, Zenon DEF FailedRow
      <4>3. marked = [failed EXCEPT ![job[r].ref] = row]
        OBVIOUS
      <4> HIDE DEF row, marked
      <4> QED BY <1>0, <3>1, <4>2, <4>3, ExceptSeq
    <3>3. failed' \in {failed, marked}
      BY <2>1 DEF MarkFailedResolved
    <3> HIDE DEF marked
    <3> QED BY <1>0, <3>2, <3>3
  <2>2. CASE RetryRequest(r) \/ RetryNext(r)
    BY <1>0, <2>2 DEF RetryRequest, RetryNext, tables
  <2> QED BY <2>1, <2>2
<1>6. PICK j \in Job : /\ job' = job \/ job' = [job EXCEPT ![r] = j]
                       /\ j = Idle \/ (j.pc = "upsert" /\ j.ref \in 1..Len(failed))
  <2>1. CASE RetryNext(r)
    <3>1. PICK f \in todo[r] :
               \/ job' = [job EXCEPT ![r] = [pc |-> "upsert", ref |-> f, attempt |-> 1]]
               \/ job' = job
      BY <2>1 DEF RetryNext
    <3> DEFINE k == [pc |-> "upsert", ref |-> f, attempt |-> 1]
    <3>2. f \in 1..Len(failed)
      BY <1>0
    <3>3. k \in Job /\ k.pc = "upsert" /\ k.ref = f
      <4>1. f \in Nat
        BY <1>0, <3>2
      <4> QED BY <4>1, RestIsJob DEF Job, Steps
    <3>4. job' = [job EXCEPT ![r] = k] \/ job' = job
      BY <3>1
    <3> HIDE DEF k
    <3> QED BY <3>2, <3>3, <3>4
  <2>2. CASE RetryRequest(r) \/ MarkFailedResolved(r)
    <3> QED BY <2>2, RestIsJob DEF RetryRequest, MarkFailedResolved
  <2> QED BY <2>1, <2>2
<1>7. TypeOK'
  <2>1. job' \in [Actors -> Job]
    BY <1>0, <1>6
  <2> QED BY <1>1, <1>2, <1>4, <1>5, <2>1 DEF TypeInv, TypeOK
<1>8. TodoOK'
  BY <1>1, <1>4, <1>5, Zenon DEF TypeInv, TodoOK
<1>9. ASSUME NEW a \in Actors PROVE JobOK(a)'
  <2>1. CASE job'[a] = job[a] \/ job'[a] = Idle
    BY <1>0, <1>1, <1>5, <2>1, JobKept
  <2>2. CASE a = r /\ job'[a] = j /\ j # Idle
    BY <1>0, <1>5, <1>6, <2>2 DEF JobOK, Steps
  <2> QED BY <1>0, <1>6, <2>1, <2>2
<1> QED BY <1>7, <1>8, <1>9 DEF TypeInv

LEMMA ReaderType ==
  ASSUME TypeInv, ReaderCrash \/ \E s \in Sessions : DeleteSession(s)
  PROVE  TypeInv'
<1>0. /\ todo \in [Retriers \cup {Main} -> SUBSET Nat]
      /\ job \in [Actors -> Job] /\ Idle \in Job
      /\ Len(failed) \in Nat /\ Main \notin Retriers
  <2>1. Main \notin Retriers
    BY ConstantsAssumption DEF Consumers
  <2>2. todo \in [Retriers \cup {Main} -> SUBSET Nat]
    BY DEF TypeInv, TypeOK
  <2> QED BY <2>1, <2>2, TypeFacts, RestIsJob
<1>1. CASE ReaderCrash
  <2>1. /\ UNCHANGED <<log, cursor, pel, sessions, events, failed, phase, stopping,
                       sent, accepted, persisted, erased, faults, shutdowns,
                       retries, deletes>>
        /\ crashes' \in Nat
    BY <1>1 DEF ReaderCrash, redis, tables, process, history, TypeInv, TypeOK
  <2>2. /\ todo' \in [Retriers \cup {Main} -> SUBSET Nat]
        /\ todo'[Main] = todo[Main] /\ \A q \in Retriers : todo'[q] = {}
    BY <1>0, <1>1 DEF ReaderCrash
  <2>3. /\ job' \in [Actors -> Job]
        /\ \A a \in Actors : job'[a] = job[a] \/ job'[a] = Idle
    BY <1>0, <1>1 DEF ReaderCrash
  <2>4. TypeOK' /\ TodoOK'
    BY <2>1, <2>2, <2>3 DEF TypeInv, TypeOK, TodoOK
  <2>5. \A a \in Actors : JobOK(a)'
    BY <1>0, <2>1, <2>3, JobKept
  <2> QED BY <2>4, <2>5 DEF TypeInv
<1>2. ASSUME NEW s \in Sessions, DeleteSession(s) PROVE TypeInv'
  <2>1. UNCHANGED <<log, cursor, pel, failed, phase, stopping, job, todo, sent,
                    accepted, persisted, faults, crashes, shutdowns, retries>>
    BY <1>2 DEF DeleteSession, redis, process
  <2>2. NoRow \in Row
    BY DEF NoRow, Row
  <2>3. /\ sessions' \in [Sessions -> Row] /\ events' \in [Batches -> Nat]
        /\ erased' \subseteq Batches /\ deletes' \in Nat
    BY <1>2, <2>2 DEF DeleteSession, TypeInv, TypeOK
  <2>4. TypeOK' /\ TodoOK'
    BY <2>1, <2>3 DEF TypeInv, TypeOK, TodoOK
  <2>5. \A a \in Actors : JobOK(a)'
    BY <1>0, <2>1, JobKept
  <2> QED BY <2>4, <2>5 DEF TypeInv
<1> QED BY <1>1, <1>2

LEMMA TypeNext == TypeInv /\ [Next]_vars => TypeInv'
<1> SUFFICES ASSUME TypeInv, [Next]_vars PROVE TypeInv'
  OBVIOUS
<1>1. Workers \subseteq Consumers /\ Consumers \subseteq Actors /\ Retriers \subseteq Actors
  BY DEF Consumers, Actors
<1>2. CASE UNCHANGED vars
  BY <1>2 DEF vars, redis, tables, process, history, bounds, TypeInv, TypeOK,
              TodoOK, JobOK
<1>3. CASE Next
  <2>1. ASSUME NEW b \in Batches, WriterIngest(b) PROVE TypeInv'
    BY <2>1, EnqueueType
  <2>2. ASSUME NEW m \in Malformed, ForeignAdd(m) PROVE TypeInv'
    BY <2>2, EnqueueType
  <2>3. ASSUME NEW w \in Workers, Read(w) \/ WorkerExit(w) PROVE TypeInv'
    BY <1>1, <2>3, ReadType, RestingType
  <2>4. ASSUME NEW a \in Consumers, Process(a) PROVE TypeInv'
    BY <1>1, <2>4, IngestType, SaveFailedType, RestingType DEF Process
  <2>5. ASSUME NEW r \in Retriers,
               RetryRequest(r) \/ RetryNext(r) \/ Ingest(r) \/ MarkFailedResolved(r)
        PROVE  TypeInv'
    BY <1>1, <2>5, IngestType, RetryType
  <2> QED BY <1>3, <2>1, <2>2, <2>3, <2>4, <2>5, WorkerProcessType, ReaderType
          DEF Next
<1> QED BY <1>2, <1>3

\* Every variable keeps its type, and every actor works on an entry that was
\* delivered to it or on a row that exists, whatever fails and crashes.
THEOREM TypeCorrect == Spec => [](TypeInv /\ TypeOK)
<1>1. TypeInv => TypeOK
  BY DEF TypeInv
<1> QED BY <1>1, TypeInit, TypeNext, PTL DEF Spec
=============================================================================
