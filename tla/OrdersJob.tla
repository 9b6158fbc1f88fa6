----------------------------- MODULE OrdersJob -----------------------------
(***************************************************************************)
(* The fan-out of jobs/orders_cdc_enrichment.py: one driver loads the      *)
(* product catalog, starts one query per sink, each with a checkpoint of   *)
(* its own, and ends when any of them does (awaitAnyTermination).          *)
(*                                                                         *)
(* Every query is a StreamingQuery (checked as a refinement). What it last *)
(* wrote of an event is known by the version of the catalog the event was  *)
(* enriched with. Retention, filters and the sinks' partial writes are in  *)
(* the modules of the query and of the sinks, and left out here.           *)
(***************************************************************************)
EXTENDS Integers, Sequences

CONSTANTS
    SinkSeq,              \* the sinks, in the order run() starts them
    Stalled,              \* sinks whose callback may hang for ever
    MaxEvents,            \* bound: records the producers append
    MaxStarts,            \* bound: drivers started
    MaxCatalog,           \* bound: versions of the product catalog
    MaxOffsetsPerTrigger

Sinks == {SinkSeq[i] : i \in DOMAIN SinkSeq}

ASSUME JobAssumption ==
    /\ SinkSeq \in Seq(Sinks)
    /\ Stalled \subseteq Sinks
    /\ {MaxEvents, MaxStarts, MaxCatalog} \subseteq Nat
    /\ MaxOffsetsPerTrigger \in Nat \ {0}

VARIABLES
    produced,  \* the end of the topic
    catalog,   \* the version of the product catalog in the lake
    driver,    \* down or up
    dim,       \* the catalog the driver loaded
    launched,  \* how many queries this driver has started
    starts,    \* per sink: how often its query was started
    startPos, offsetLog, commitLog, \* per sink: its checkpoint
    phase,     \* per sink: its query
    result,    \* per sink: the last SinkBatchResult
    rows       \* per sink and event: the catalog it was written with, 0 for none

checkpoints == <<startPos, offsetLog, commitLog>>
jobVars == <<produced, catalog, driver, dim, launched, starts, startPos,
             offsetLog, commitLog, phase, result, rows>>

NoPos == -1

CommittedEnd(s) ==
    IF commitLog[s] = 0 THEN startPos[s] ELSE offsetLog[s][commitLog[s]]

PlannedEnd(s) ==
    IF offsetLog[s] = <<>> THEN startPos[s] ELSE offsetLog[s][Len(offsetLog[s])]

(* Mutation: the batch's range includes the position it begins after. *)
BatchEventsInclusive(s) == CommittedEnd(s)..PlannedEnd(s)

(* The events of the batch that is planned and not committed. *)
BatchEvents(s) == (CommittedEnd(s) + 1)..PlannedEnd(s)

-----------------------------------------------------------------------------
(* The world outside. *)

Produce ==
    /\ produced < MaxEvents
    /\ produced' = produced + 1
    /\ UNCHANGED <<catalog, driver, dim, launched, starts, checkpoints, phase,
                   result, rows>>

UpdateCatalog ==
    /\ catalog < MaxCatalog
    /\ catalog' = catalog + 1
    /\ UNCHANGED <<produced, driver, dim, launched, starts, checkpoints, phase,
                   result, rows>>

-----------------------------------------------------------------------------
(* The driver. *)

(* run(): the catalog is loaded before any query starts. *)
StartDriver ==
    /\ driver = "down"
    /\ \A s \in Sinks : starts[s] < MaxStarts
    /\ driver' = "up"
    /\ dim' = catalog
    /\ launched' = 0
    /\ UNCHANGED <<produced, catalog, starts, checkpoints, phase, result, rows>>

(* Mutation: a restart repeats the last batch even when it is committed. *)
StartSinkRepeating ==
    /\ driver = "up"
    /\ launched < Len(SinkSeq)
    /\ launched' = launched + 1
    /\ LET s == SinkSeq[launched + 1] IN
          /\ starts' = [starts EXCEPT ![s] = @ + 1]
          /\ phase' = [phase EXCEPT ![s] =
                IF offsetLog[s] # <<>> THEN "planned" ELSE "idle"]
          /\ commitLog' = [commitLog EXCEPT ![s] =
                IF offsetLog[s] # <<>> THEN Len(offsetLog[s]) - 1 ELSE 0]
    /\ UNCHANGED <<produced, catalog, driver, dim, startPos, offsetLog, result, rows>>

(* _start_sink: the next query of the job is started from its checkpoint. *)
StartSink ==
    /\ driver = "up"
    /\ launched < Len(SinkSeq)
    /\ launched' = launched + 1
    /\ LET s == SinkSeq[launched + 1] IN
          /\ starts' = [starts EXCEPT ![s] = @ + 1]
          /\ phase' = [phase EXCEPT ![s] =
                IF Len(offsetLog[s]) > commitLog[s] THEN "planned" ELSE "idle"]
    /\ UNCHANGED <<produced, catalog, driver, dim, checkpoints, result, rows>>

DriverDown ==
    /\ driver' = "down"
    /\ phase' = [s \in Sinks |-> "down"]
    /\ UNCHANGED <<produced, catalog, dim, launched, starts, checkpoints,
                   result, rows>>

Failed(s) ==
    /\ driver = "up"
    /\ phase[s] = "down"
    /\ \E i \in 1..launched : SinkSeq[i] = s

(* Mutation: the driver waits until every query has ended. *)
AwaitAllTermination ==
    /\ launched = Len(SinkSeq)
    /\ \A s \in Sinks : Failed(s)
    /\ DriverDown

(* awaitAnyTermination raises the failure of a query: the driver exits, and
   the other queries with it. *)
AwaitAnyTermination ==
    /\ launched = Len(SinkSeq)
    /\ \E s \in Sinks : Failed(s)
    /\ DriverDown

CrashDriver == driver = "up" /\ DriverDown

-----------------------------------------------------------------------------
(* The query of sink s. *)

ResolveStart(s) ==
    /\ phase[s] = "idle"
    /\ startPos[s] = NoPos
    /\ startPos' = [startPos EXCEPT ![s] = produced]
    /\ UNCHANGED <<produced, catalog, driver, dim, launched, starts, offsetLog,
                   commitLog, phase, result, rows>>

(* maxOffsetsPerTrigger caps a batch. *)
BatchEnd(first) ==
    IF produced - first > MaxOffsetsPerTrigger
    THEN first + MaxOffsetsPerTrigger
    ELSE produced

(* Mutation: the sinks share their triggers, as in one foreachBatch for all. *)
PlanBatchTogether(s) ==
    /\ \A t \in Sinks : phase[t] = "idle"
    /\ startPos[s] # NoPos
    /\ BatchEnd(CommittedEnd(s)) > CommittedEnd(s) \/ offsetLog[s] = <<>>
    /\ offsetLog' = [offsetLog EXCEPT ![s] = Append(@, BatchEnd(CommittedEnd(s)))]
    /\ phase' = [phase EXCEPT ![s] = "planned"]
    /\ UNCHANGED <<produced, catalog, driver, dim, launched, starts, startPos,
                   commitLog, result, rows>>

PlanBatch(s) ==
    /\ phase[s] = "idle"
    /\ startPos[s] # NoPos
    /\ BatchEnd(CommittedEnd(s)) > CommittedEnd(s) \/ offsetLog[s] = <<>>
    /\ offsetLog' = [offsetLog EXCEPT ![s] = Append(@, BatchEnd(CommittedEnd(s)))]
    /\ phase' = [phase EXCEPT ![s] = "planned"]
    /\ UNCHANGED <<produced, catalog, driver, dim, launched, starts, startPos,
                   commitLog, result, rows>>

ReadBatch(s) ==
    /\ phase[s] = "planned"
    /\ phase' = [phase EXCEPT ![s] = "writing"]
    /\ UNCHANGED <<produced, catalog, driver, dim, launched, starts, checkpoints,
                   result, rows>>

(* The batch as the driver's catalog enriches it. *)
Enriched(s) ==
    [p \in 1..MaxEvents |-> IF p \in BatchEvents(s) THEN dim ELSE rows[s][p]]

BatchSize(s) == PlannedEnd(s) - CommittedEnd(s)

(* Mutation: a sink that failed does not raise. *)
WriteFailedSilently(s) ==
    /\ phase[s] = "writing"
    /\ BatchSize(s) > 0
    /\ phase' = [phase EXCEPT ![s] = "returned"]
    /\ result' = [result EXCEPT ![s] = [written |-> 0, failed |-> BatchSize(s)]]
    /\ \E r \in {rows[s], Enriched(s)} : rows' = [rows EXCEPT ![s] = r]
    /\ UNCHANGED <<produced, catalog, driver, dim, launched, starts, checkpoints>>

(* fn raises; the store may have taken the batch all the same. *)
WriteFailed(s) ==
    /\ phase[s] = "writing"
    /\ BatchSize(s) > 0
    /\ phase' = [phase EXCEPT ![s] = "down"]
    /\ result' = [result EXCEPT ![s] = [written |-> 0, failed |-> BatchSize(s)]]
    /\ \E r \in {rows[s], Enriched(s)} : rows' = [rows EXCEPT ![s] = r]
    /\ UNCHANGED <<produced, catalog, driver, dim, launched, starts, checkpoints>>

WriteDone(s) ==
    /\ phase[s] = "writing"
    /\ phase' = [phase EXCEPT ![s] = "returned"]
    /\ result' = [result EXCEPT ![s] = [written |-> BatchSize(s), failed |-> 0]]
    /\ rows' = [rows EXCEPT ![s] = Enriched(s)]
    /\ UNCHANGED <<produced, catalog, driver, dim, launched, starts, checkpoints>>

CommitBatch(s) ==
    /\ phase[s] = "returned"
    /\ commitLog' = [commitLog EXCEPT ![s] = @ + 1]
    /\ phase' = [phase EXCEPT ![s] = "idle"]
    /\ UNCHANGED <<produced, catalog, driver, dim, launched, starts, startPos,
                   offsetLog, result, rows>>

WriteBatch(s) == WriteDone(s) \/ WriteFailed(s)

-----------------------------------------------------------------------------
(* The specification. *)

Init ==
    /\ produced = 0
    /\ catalog = 1
    /\ driver = "down"
    /\ dim = 0
    /\ launched = 0
    /\ starts = [s \in Sinks |-> 0]
    /\ startPos = [s \in Sinks |-> NoPos]
    /\ offsetLog = [s \in Sinks |-> <<>>]
    /\ commitLog = [s \in Sinks |-> 0]
    /\ phase = [s \in Sinks |-> "down"]
    /\ result = [s \in Sinks |-> [written |-> 0, failed |-> 0]]
    /\ rows = [s \in Sinks |-> [p \in 1..MaxEvents |-> 0]]

Next ==
    \/ Produce
    \/ UpdateCatalog
    \/ StartDriver
    \/ StartSink
    \/ AwaitAnyTermination
    \/ CrashDriver
    \/ \E s \in Sinks :
          \/ ResolveStart(s)
          \/ PlanBatch(s)
          \/ ReadBatch(s)
          \/ WriteBatch(s)
          \/ CommitBatch(s)

Spec == Init /\ [][Next]_jobVars

(* The driver's main thread and the trigger of every query go on; the callback
   of a stalled sink may not. Nothing restarts the driver. *)
Fairness ==
    /\ WF_jobVars(StartSink)
    /\ WF_jobVars(AwaitAnyTermination)
    /\ \A s \in Sinks :
          /\ WF_jobVars(ResolveStart(s))
          /\ WF_jobVars(PlanBatch(s))
          /\ WF_jobVars(ReadBatch(s))
          /\ WF_jobVars(CommitBatch(s))
    /\ \A s \in Sinks \ Stalled : WF_jobVars(WriteBatch(s))

FairSpec == Spec /\ Fairness

-----------------------------------------------------------------------------
(* Properties. *)

(* Every sink has every event behind its own committed offsets, whichever
   query failed and took the others down in the middle of their batches. *)
FanOutAtLeastOnce ==
    \A s \in Sinks, p \in 1..MaxEvents :
        startPos[s] < p /\ p <= CommittedEnd(s) => rows[s][p] > 0

(* Once a sink's batch is committed its rows are final: only the batch in
   doubt is ever written again, and then with the restarted driver's
   catalog. *)
CommittedRowsAreFinal ==
    [][\A s \in Sinks, p \in 1..MaxEvents :
          startPos[s] < p /\ p <= CommittedEnd(s) => rows'[s][p] = rows[s][p]]_jobVars

(* The query of each sink, seen alone, is a StreamingQuery: sharing a driver
   gives it no step that StreamingQuery does not have. *)
Query(s) == INSTANCE StreamingQuery WITH
    ToleranceNum <- 0,
    ToleranceDen <- 1,
    expired <- 0,
    startPos <- startPos[s],
    offsetLog <- offsetLog[s],
    commitLog <- commitLog[s],
    phase <- phase[s],
    batch <- commitLog[s] + 1,
    from <- CommittedEnd(s),
    until <- PlannedEnd(s),
    result <- result[s],
    starts <- starts[s]

ImplementsQueries ==
    /\ \A s \in Sinks : Query(s)!Init
    /\ [][\A s \in Sinks : [Query(s)!Next]_(Query(s)!vars)]_jobVars

(* awaitAnyTermination: when one sink halts its query, the driver exits and
   no other sink is written by it any more. *)
AnyFailureStopsAll ==
    (\E s \in Sinks : Failed(s)) ~> (driver = "down")

(* docs/BACKPRESSURE.md:110, "Now Redis slowness doesn't block S3 writes. Each
   query has independent offsets": a sink whose callbacks end catches up with
   the topic even when those of another one hang. *)
SlowSinkDoesNotBlock ==
    \A s \in Sinks \ Stalled :
        <>[](phase[s] # "down") =>
            \A n \in 1..MaxEvents : produced >= n ~> CommittedEnd(s) >= n

=============================================================================
