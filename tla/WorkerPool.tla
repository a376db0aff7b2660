----------------------------- MODULE WorkerPool -----------------------------
(***************************************************************************)
(* The autoscaled pool of worker goroutines, internal/worker/service.go:   *)
(* monitor, evaluateScaling, scaleWorkers, scaleUp, scaleDown, and the     *)
(* stop channels that runWorker selects on.                                *)
(*                                                                         *)
(* The queue is reduced to numbers: backlog counts the entries of the      *)
(* stream that no consumer has been given, stranded the pending entries    *)
(* that no goroutine holds (a lost reply to XREADGROUP or XACK).  What an  *)
(* entry goes through in process is module IngestPipeline.                 *)
(***************************************************************************)
EXTENDS Integers, FiniteSets

CONSTANTS
  InitialWorkerCount, MinWorkerCount, MaxWorkerCount,
  ScaleUpThreshold, ScaleDownThreshold,
  WorkerScaleFactor,   \* 2.0 in the code; a whole number here
  MaxBacklog,          \* bound on undelivered entries
  MaxStranded,         \* bound on pending entries nobody holds
  MaxLeaving,          \* bound on goroutines still leaving at a tick
  MaxId                \* bound on worker ids: the monitor's ticks end there

ASSUME ConfigAssumption ==
  /\ {InitialWorkerCount, MinWorkerCount, MaxWorkerCount, ScaleUpThreshold,
      ScaleDownThreshold, MaxBacklog, MaxStranded, MaxLeaving, MaxId} \subseteq Nat
  /\ WorkerScaleFactor \in Nat \ {0}
  /\ MinWorkerCount <= MaxWorkerCount /\ 2 * MaxWorkerCount <= MaxId + 1

VARIABLES
  activeWorkers,
  workerChannels,  \* the ids that have a stop channel in the map
  reading,         \* those of them whose goroutine is in its select or Read
  busy,            \* those of them whose goroutine is in process
  leaving,         \* how many goroutines sent a stop have not returned
  started,         \* Start has called scaleWorkers
  cooled,          \* time.Since(lastScaleTime) > CooldownPeriod
  monitor,         \* the goroutine running monitor
  cancelled,       \* the context is cancelled
  backlog, stranded

pool == <<activeWorkers, workerChannels, reading, busy, leaving>>
queue == <<backlog, stranded>>
vars == <<pool, started, cooled, monitor, cancelled, queue>>

Waiting == [pc |-> "wait", pending |-> 0, target |-> 0]

Init ==
  /\ activeWorkers = 0 /\ workerChannels = {} /\ reading = {} /\ busy = {}
  /\ leaving = [reading |-> 0, busy |-> 0]
  /\ started = FALSE /\ cooled = FALSE /\ cancelled = FALSE
  /\ monitor = Waiting
  /\ backlog \in 0..MaxBacklog /\ stranded \in 0..MaxStranded

-----------------------------------------------------------------------------
(* scaleWorkers, under workerMutex                                         *)

\* Mutation: the target is not clamped.
ClampedNot(target) == target

Clamped(target) ==
  IF target < MinWorkerCount THEN MinWorkerCount
  ELSE IF target > MaxWorkerCount THEN MaxWorkerCount
  ELSE target

\* Mutation: ids continue from the number of workers.
\* One more than the largest id in the map.
NextID ==
  IF workerChannels = {} THEN 0
  ELSE 1 + (CHOOSE i \in workerChannels : \A j \in workerChannels : j <= i)

\* A new stop channel and a new goroutine for each worker that is missing.
ScaleUp(target) ==
  LET new == NextID .. NextID + (target - activeWorkers) - 1 IN
  /\ target > activeWorkers
  /\ workerChannels' = workerChannels \cup new
  /\ reading' = reading \cup new
  /\ activeWorkers' = target
  /\ cooled' = FALSE
  /\ UNCHANGED <<busy, leaving>>

\* Mutation: a worker leaves the map and is not told to stop.
ScaleDownSilently(target) ==
  /\ target < activeWorkers
  /\ \E stop \in SUBSET workerChannels :
       /\ Cardinality(stop) = activeWorkers - target
       /\ workerChannels' = workerChannels \ stop
  /\ activeWorkers' = target
  /\ cooled' = FALSE
  /\ UNCHANGED <<reading, busy, leaving>>

\* Go's map iteration picks which workers stop.  The send does not block: the
\* channel has room for one value and gets one.
ScaleDown(target) ==
  /\ target < activeWorkers
  /\ activeWorkers > MinWorkerCount
  /\ \E stop \in SUBSET workerChannels :
       /\ Cardinality(stop) = activeWorkers - target
       /\ workerChannels' = workerChannels \ stop
       /\ reading' = reading \ stop /\ busy' = busy \ stop
       /\ leaving' = [reading |-> leaving.reading + Cardinality(stop \cap reading),
                      busy |-> leaving.busy + Cardinality(stop \cap busy)]
  /\ activeWorkers' = target
  /\ cooled' = FALSE

ScaleWorkers(target) ==
  \/ Clamped(target) = activeWorkers /\ UNCHANGED <<pool, cooled>>
  \/ ScaleUp(Clamped(target))
  \/ ScaleDown(Clamped(target))

-----------------------------------------------------------------------------
(* Start and monitor                                                       *)

StartPool ==
  /\ ~started
  /\ started' = TRUE
  /\ ScaleWorkers(InitialWorkerCount)
  /\ UNCHANGED <<monitor, cancelled, queue>>

\* XPENDING counts delivered, unacknowledged entries.
PendingCount == Cardinality(busy) + leaving.busy + stranded

\* A tick of the monitor: it asks for the pending count, and evaluates when
\* the cooldown is over or the count exceeds five times the threshold.
MonitorTick ==
  /\ monitor.pc = "wait"
  /\ NextID + MaxWorkerCount <= MaxId + 1
  /\ leaving.reading + leaving.busy <= MaxLeaving
  /\ \/ cooled
     \/ PendingCount > 5 * ScaleUpThreshold /\ activeWorkers < MaxWorkerCount
  /\ monitor' = [Waiting EXCEPT !.pc = "evaluate", !.pending = PendingCount]
  /\ UNCHANGED <<pool, started, cooled, cancelled, queue>>

\* ceil(active * factor * 1.5) and ceil(active * factor).
UpTarget(pending, active) ==
  LET wanted == IF pending > 5 * ScaleUpThreshold THEN MaxWorkerCount
                ELSE IF pending > 3 * ScaleUpThreshold
                     THEN (3 * active * WorkerScaleFactor + 1) \div 2
                     ELSE active * WorkerScaleFactor
  IN IF wanted <= active THEN active + 1 ELSE wanted

\* floor(active / factor), at least MinWorkerCount.
DownTarget(active) ==
  LET wanted == active \div WorkerScaleFactor
  IN IF wanted < MinWorkerCount THEN MinWorkerCount ELSE wanted

\* evaluateScaling reads activeWorkers under the mutex and releases it before
\* scaleWorkers takes it again.
EvaluateScaling ==
  LET up == monitor.pending > ScaleUpThreshold /\ activeWorkers < MaxWorkerCount
      down == monitor.pending < ScaleDownThreshold /\ activeWorkers > MinWorkerCount
  IN
  /\ monitor.pc = "evaluate"
  /\ \/ /\ up
        /\ monitor' = [monitor EXCEPT !.pc = "scale",
                         !.target = UpTarget(monitor.pending, activeWorkers)]
     \/ /\ ~up /\ down
        /\ monitor' = [monitor EXCEPT !.pc = "scale",
                         !.target = DownTarget(activeWorkers)]
     \/ ~up /\ ~down /\ monitor' = Waiting
  /\ UNCHANGED <<pool, started, cooled, cancelled, queue>>

MonitorScale ==
  /\ monitor.pc = "scale"
  /\ ScaleWorkers(monitor.target)
  /\ monitor' = Waiting
  /\ UNCHANGED <<started, cancelled, queue>>

MonitorExit ==
  /\ monitor.pc = "wait" /\ cancelled
  /\ monitor' = [Waiting EXCEPT !.pc = "returned"]
  /\ UNCHANGED <<pool, started, cooled, cancelled, queue>>

CooldownElapses ==
  /\ ~cooled
  /\ cooled' = TRUE
  /\ UNCHANGED <<pool, started, monitor, cancelled, queue>>

-----------------------------------------------------------------------------
(* runWorker                                                               *)

\* A goroutine inside Read is given an entry; one that has been told to stop
\* meanwhile still processes it.
Read ==
  /\ backlog > 0
  /\ backlog' = backlog - 1
  /\ \/ /\ \E i \in reading : reading' = reading \ {i} /\ busy' = busy \cup {i}
        /\ UNCHANGED leaving
     \/ /\ leaving.reading > 0
        /\ leaving' = [reading |-> leaving.reading - 1, busy |-> leaving.busy + 1]
        /\ UNCHANGED <<reading, busy>>
  /\ UNCHANGED <<activeWorkers, workerChannels, started, cooled, monitor,
                 cancelled, stranded>>

\* The reply to XREADGROUP is lost: the entry is pending and nobody's.
ReadLost ==
  /\ backlog > 0 /\ stranded < MaxStranded
  /\ reading # {} \/ leaving.reading > 0
  /\ backlog' = backlog - 1
  /\ stranded' = stranded + 1
  /\ UNCHANGED <<pool, started, cooled, monitor, cancelled>>

\* Mutation: the goroutine returns where the loop continues.
ProcessedReturns ==
  /\ \E i \in busy : busy' = busy \ {i}
  /\ UNCHANGED <<activeWorkers, workerChannels, reading, leaving, started,
                 cooled, monitor, cancelled, queue>>

\* process returns, and the loop goes back to its select: there a goroutine
\* whose stop channel or context is ready returns.
Processed ==
  /\ \/ /\ \E i \in busy :
             /\ busy' = busy \ {i}
             /\ reading' = IF cancelled THEN reading ELSE reading \cup {i}
        /\ UNCHANGED leaving
     \/ /\ leaving.busy > 0
        /\ leaving' = [leaving EXCEPT !.busy = @ - 1]
        /\ UNCHANGED <<reading, busy>>
  /\ UNCHANGED <<activeWorkers, workerChannels, started, cooled, monitor,
                 cancelled, queue>>

\* Mutation: the select does not watch the context.
WorkerReturnsOnStop ==
  /\ leaving.reading > 0
  /\ leaving' = [leaving EXCEPT !.reading = @ - 1]
  /\ UNCHANGED <<activeWorkers, workerChannels, reading, busy, started, cooled,
                 monitor, cancelled, queue>>

\* The select finds the context cancelled, or the stop channel ready.
WorkerReturns ==
  /\ \/ /\ cancelled
        /\ \E i \in reading : reading' = reading \ {i}
        /\ UNCHANGED leaving
     \/ /\ leaving.reading > 0
        /\ leaving' = [leaving EXCEPT !.reading = @ - 1]
        /\ UNCHANGED reading
  /\ UNCHANGED <<activeWorkers, workerChannels, busy, started, cooled, monitor,
                 cancelled, queue>>

Enqueued ==
  /\ backlog < MaxBacklog
  /\ backlog' = backlog + 1
  /\ UNCHANGED <<pool, started, cooled, monitor, cancelled, stranded>>

Cancel ==
  /\ ~cancelled
  /\ cancelled' = TRUE
  /\ UNCHANGED <<pool, started, cooled, monitor, queue>>

-----------------------------------------------------------------------------
Monitor == MonitorTick \/ EvaluateScaling \/ MonitorScale \/ MonitorExit

Next ==
  \/ StartPool \/ Monitor \/ CooldownElapses
  \/ Read \/ ReadLost \/ Processed \/ WorkerReturns
  \/ Enqueued \/ Cancel

Spec == Init /\ [][Next]_vars

\* Goroutines are scheduled, the ticker ticks, time passes and process
\* returns.  The monitor leaves at some select that finds the context
\* cancelled, whether or not the ticker is ready too.
FairSpec ==
  /\ Spec
  /\ WF_vars(StartPool)
  /\ WF_vars(Read) /\ WF_vars(Processed) /\ WF_vars(WorkerReturns)
  /\ WF_vars(CooldownElapses) /\ WF_vars(MonitorTick)
  /\ WF_vars(EvaluateScaling) /\ WF_vars(MonitorScale) /\ SF_vars(MonitorExit)

-----------------------------------------------------------------------------
TypeOK ==
  /\ activeWorkers \in Nat
  /\ workerChannels \subseteq 0..MaxId
  /\ reading \subseteq workerChannels /\ busy \subseteq workerChannels
  /\ leaving \in [reading : Nat, busy : Nat]
  /\ {started, cooled, cancelled} \subseteq BOOLEAN
  /\ monitor \in [pc : {"wait", "evaluate", "scale", "returned"},
                  pending : Nat, target : Nat]
  /\ backlog \in 0..MaxBacklog /\ stranded \in 0..MaxStranded

\* Once started the pool is between its minimum and its maximum, whatever the
\* monitor computed from a count of workers it no longer holds the mutex for.
WithinLimits == started => activeWorkers \in MinWorkerCount..MaxWorkerCount

\* The books agree with the goroutines.  The counter that every scaling decision
\* reads is the size of the map: a new worker never takes the id of one that is
\* in it, although ids come and go in an order Go's map iteration chooses.  Until
\* the context is cancelled every channel in the map belongs to a live
\* goroutine, in its loop or in process: a stop that scaleDown sends is always
\* received.
ChannelsHaveWorkers ==
  /\ activeWorkers = Cardinality(workerChannels)
  /\ reading \cap busy = {}
  /\ ~cancelled => reading \cup busy = workerChannels

\* After a cancel every goroutine Start waits for returns, the ones scaled up
\* or told to stop around that moment included, so wg.Wait does.
ShutdownCompletes ==
  cancelled ~> /\ reading = {} /\ busy = {} /\ started
               /\ leaving = [reading |-> 0, busy |-> 0]
               /\ monitor.pc = "returned"

\* The pool grows with the depth of the queue: a queue that stays deeper than
\* the threshold makes it grow beyond its initial size.
ScalesWithQueueDepth ==
  <>[](~cancelled /\ backlog > ScaleUpThreshold)
    => <>(activeWorkers > InitialWorkerCount)
=============================================================================
