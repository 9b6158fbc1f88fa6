--------------------------- MODULE StreamingQuery ---------------------------
(***************************************************************************)
(* One Spark Structured Streaming query as the jobs start it: a Kafka      *)
(* source (sources/kafka.py), a foreachBatch callback built by             *)
(* BaseSink.make_foreach_batch_fn (sinks/base.py) and a checkpoint         *)
(* directory of its own (_start_sink in jobs/orders_cdc_enrichment.py).    *)
(*                                                                         *)
(* The topic has one partition; a position is the number of records before *)
(* it, so a batch <<from, until>> holds the records from + 1 .. until.     *)
(* What a sink's write_batch does to its store is left to the modules that *)
(* extend this one: here it may report any result.                         *)
(***************************************************************************)
EXTENDS Integers, Sequences

CONSTANTS
    MaxEvents,            \* bound: records the producers append to the topic
    MaxStarts,            \* bound: times the driver is started
    MaxOffsetsPerTrigger, \* max_offsets_per_trigger of KafkaSourceConfig
    ToleranceNum,         \* error_tolerance_pct of SinkConfig, a float, as
    ToleranceDen          \*   the rational ToleranceNum / ToleranceDen

ASSUME BoundsAssumption == MaxEvents \in Nat /\ MaxStarts \in Nat
ASSUME TriggerAssumption == MaxOffsetsPerTrigger \in Nat \ {0}
ASSUME ToleranceAssumption == ToleranceNum \in Nat /\ ToleranceDen \in Nat \ {0}

VARIABLES
    produced,  \* the topic's end: records appended so far
    expired,   \* the topic's beginning: records retention has deleted
    startPos,  \* durable: where "latest" was resolved, NoPos before
    offsetLog, \* durable: the end of every batch planned so far
    commitLog, \* durable: the number of batches committed
    phase,     \* the driver: down, idle between triggers, or at work on a batch
    batch,     \* the driver's current batch (its number in offsetLog)
    from,      \* the current batch's first position
    until,     \* the current batch's last position
    result,    \* the SinkBatchResult of the last write_batch
    starts     \* times the driver was started

topic == <<produced, expired>>
checkpoint == <<startPos, offsetLog, commitLog>>
driver == <<phase, batch, from, until>>
vars == <<produced, expired, startPos, offsetLog, commitLog,
          phase, batch, from, until, result, starts>>

NoPos == -1

(* A batch is planned, then the callback reads it and is writing it to the
   sink, then it has returned. *)
BatchPhases == {"planned", "writing", "returned"}
Phases == {"down", "idle"} \union BatchPhases

(* Where batch n begins: at the end of the batch before it. *)
BatchStart(n) == IF n = 1 THEN startPos ELSE offsetLog[n - 1]

(* The end of the last committed batch: the query is done up to here. *)
CommittedEnd == IF commitLog = 0 THEN startPos ELSE offsetLog[commitLog]

-----------------------------------------------------------------------------
(* The topic. *)

Produce ==
    /\ produced < MaxEvents
    /\ produced' = produced + 1
    /\ UNCHANGED <<expired, checkpoint, driver, result, starts>>

(* Retention (retention.ms of config/topics.yaml) deletes the oldest record,
   whoever has or has not read it. *)
Expire ==
    /\ expired < produced
    /\ expired' = expired + 1
    /\ UNCHANGED <<produced, checkpoint, driver, result, starts>>

-----------------------------------------------------------------------------
(* The query. *)

(* Mutation: the restart does not look for a planned, uncommitted batch. *)
StartSkippingPlanned ==
    /\ phase = "down"
    /\ starts < MaxStarts
    /\ starts' = starts + 1
    /\ phase' = "idle"
    /\ batch' = Len(offsetLog) + 1
    /\ from' = IF offsetLog = <<>> THEN startPos ELSE offsetLog[Len(offsetLog)]
    /\ until' = from'
    /\ UNCHANGED <<topic, checkpoint, result>>

(* Mutation: the restart runs the uncommitted batch up to the latest offset. *)
StartUpToLatest ==
    /\ phase = "down"
    /\ starts < MaxStarts
    /\ starts' = starts + 1
    /\ batch' = commitLog + 1
    /\ from' = CommittedEnd
    /\ IF Len(offsetLog) > commitLog
          THEN /\ phase' = "planned"
               /\ until' = produced
               /\ offsetLog' = [offsetLog EXCEPT ![Len(offsetLog)] = produced]
          ELSE /\ phase' = "idle"
               /\ until' = CommittedEnd
               /\ UNCHANGED offsetLog
    /\ UNCHANGED <<topic, startPos, commitLog, result>>

(* writeStream ... .start(): the driver reads its checkpoint. A batch that
   was planned and not committed runs again with the offsets of the log. *)
Start ==
    /\ phase = "down"
    /\ starts < MaxStarts
    /\ starts' = starts + 1
    /\ \/ /\ Len(offsetLog) > commitLog
          /\ phase' = "planned"
          /\ batch' = Len(offsetLog)
          /\ from' = BatchStart(Len(offsetLog))
          /\ until' = offsetLog[Len(offsetLog)]
       \/ /\ Len(offsetLog) = commitLog
          /\ phase' = "idle"
          /\ batch' = commitLog + 1
          /\ from' = CommittedEnd
          /\ until' = CommittedEnd
    /\ UNCHANGED <<topic, checkpoint, result>>

(* The first trigger of a new checkpoint resolves startingOffsets = "latest"
   and saves the answer. *)
ResolveStart ==
    /\ phase = "idle"
    /\ startPos = NoPos
    /\ startPos' = produced
    /\ from' = produced
    /\ until' = produced
    /\ UNCHANGED <<topic, offsetLog, commitLog, phase, batch, result, starts>>

(* Mutation: the cap is taken for the number of records there are. *)
BatchEndIgnoringTopic(first) == first + MaxOffsetsPerTrigger

(* maxOffsetsPerTrigger caps a batch. *)
BatchEnd(first) ==
    IF produced - first > MaxOffsetsPerTrigger
    THEN first + MaxOffsetsPerTrigger
    ELSE produced

(* Mutation: a trigger waits until a whole batch is there. *)
PlanFullBatch ==
    /\ phase = "idle"
    /\ startPos # NoPos
    /\ BatchEnd(from) = from + MaxOffsetsPerTrigger \/ batch = 1
    /\ until' = BatchEnd(from)
    /\ offsetLog' = Append(offsetLog, BatchEnd(from))
    /\ phase' = "planned"
    /\ UNCHANGED <<topic, startPos, commitLog, batch, from, result, starts>>

(* A trigger plans a batch when there is something new; the first batch of a
   checkpoint is planned even when it is empty. *)
PlanBatch ==
    /\ phase = "idle"
    /\ startPos # NoPos
    /\ BatchEnd(from) > from \/ batch = 1
    /\ until' = BatchEnd(from)
    /\ offsetLog' = Append(offsetLog, BatchEnd(from))
    /\ phase' = "planned"
    /\ UNCHANGED <<topic, startPos, commitLog, batch, from, result, starts>>

(* failure_rate > error_tolerance. The rate is a fraction of the batch. *)
ExceedsTolerance(written, failed) ==
    failed * ToleranceDen > ToleranceNum * (written + failed)

(* Mutation: failOnDataLoss = false. *)
DataLostIgnored == FALSE

(* failOnDataLoss: the records of the batch are no longer all in the topic. *)
DataLost == from < until /\ from < expired

(* The callback fetches its rows: count() or toJSON().collect(). *)
ReadBatch ==
    /\ phase = "planned"
    /\ ~DataLost
    /\ phase' = "writing"
    /\ UNCHANGED <<topic, checkpoint, batch, from, until, result, starts>>

(* The rows are gone: the callback re-raises, which ends the query. *)
FailRead ==
    /\ phase = "planned"
    /\ DataLost
    /\ phase' = "down"
    /\ UNCHANGED <<topic, checkpoint, batch, from, until, result, starts>>

(* fn(batch_df, batch_id): write_batch reports written and failed records,
   and fn raises, which ends the query, when the failure rate exceeds the
   tolerance. *)
EndCallback(written, failed) ==
    /\ phase = "writing"
    /\ result' = [written |-> written, failed |-> failed]
    /\ phase' = IF ExceedsTolerance(written, failed) THEN "down" ELSE "returned"
    /\ UNCHANGED <<topic, checkpoint, batch, from, until, starts>>

(* A sink of the records themselves: a filter may leave fewer than there are. *)
RunBatch(written, failed) ==
    /\ written + failed <= until - from
    /\ EndCallback(written, failed)

(* Mutation: the next batch begins where this one did. *)
CommitKeepingStart ==
    /\ phase = "returned"
    /\ commitLog' = batch
    /\ phase' = "idle"
    /\ batch' = batch + 1
    /\ UNCHANGED <<topic, startPos, offsetLog, from, until, result, starts>>

(* fn returned: the batch is entered in the commit log. *)
CommitBatch ==
    /\ phase = "returned"
    /\ commitLog' = batch
    /\ phase' = "idle"
    /\ batch' = batch + 1
    /\ from' = until
    /\ UNCHANGED <<topic, startPos, offsetLog, until, result, starts>>

(* The driver dies, or exits because another query of the job failed
   (awaitAnyTermination); nothing of its memory survives. *)
Crash ==
    /\ phase # "down"
    /\ phase' = "down"
    /\ UNCHANGED <<topic, checkpoint, batch, from, until, result, starts>>

-----------------------------------------------------------------------------
(* The specification. *)

Init ==
    /\ produced = 0
    /\ expired = 0
    /\ startPos = NoPos
    /\ offsetLog = <<>>
    /\ commitLog = 0
    /\ phase = "down"
    /\ batch = 1
    /\ from = NoPos
    /\ until = NoPos
    /\ result = [written |-> 0, failed |-> 0]
    /\ starts = 0

BatchSizes == 0..MaxOffsetsPerTrigger

WriteBatch == \E w, f \in BatchSizes : RunBatch(w, f)

(* The steps that leave every sink's store alone. *)
QueryStep ==
    \/ Produce
    \/ Expire
    \/ Start
    \/ ResolveStart
    \/ PlanBatch
    \/ ReadBatch
    \/ FailRead
    \/ CommitBatch

Next == QueryStep \/ WriteBatch \/ Crash

Spec == Init /\ [][Next]_vars

(* A driver that is up keeps triggering batches and a callback ends (every
   client has a timeout), one way or the other. Nothing restarts a driver that is down. *)
Fairness ==
    /\ WF_vars(ResolveStart)
    /\ WF_vars(PlanBatch)
    /\ WF_vars(ReadBatch \/ FailRead)
    /\ WF_vars(WriteBatch)
    /\ WF_vars(CommitBatch)

FairSpec == Spec /\ Fairness

-----------------------------------------------------------------------------
(* Properties. *)

Results == [written : BatchSizes, failed : BatchSizes]

(* Every variable holds a value of its kind. *)
TypeOK ==
    /\ produced \in 0..MaxEvents
    /\ expired \in 0..produced
    /\ startPos \in {NoPos} \union (0..produced)
    /\ offsetLog \in Seq(Nat)
    /\ commitLog \in Nat
    /\ phase \in Phases
    /\ batch \in Nat
    /\ from \in {NoPos} \union (0..produced)
    /\ until \in {NoPos} \union (0..produced)
    /\ result \in Results
    /\ starts \in 0..MaxStarts

(* The offset log is at most one batch ahead of the commit log, its ends are
   positions that exist and never go back. *)
LogsAgree ==
    /\ commitLog <= Len(offsetLog)
    /\ Len(offsetLog) <= commitLog + 1
    /\ startPos = NoPos => offsetLog = <<>>
    /\ \A n \in 1..Len(offsetLog) :
          /\ BatchStart(n) <= offsetLog[n]
          /\ offsetLog[n] <= produced

(* The driver works where its checkpoint says, through crashes and restarts:
   the batch the callback runs is the one the offset log holds and the commit
   log lacks, it begins where the batch before it ended, and an idle driver
   has nothing planned left to run. *)
DriverFollowsCheckpoint ==
    /\ phase \in BatchPhases =>
          /\ batch = commitLog + 1
          /\ batch = Len(offsetLog)
          /\ from = CommittedEnd
          /\ until = offsetLog[batch]
    /\ phase = "idle" =>
          /\ Len(offsetLog) = commitLog
          /\ batch = commitLog + 1
          /\ from = CommittedEnd

(* docs/BACKPRESSURE.md:22: "Spark never reads more than N messages per
   micro-batch", also when a restart runs an old batch after the topic has
   grown. *)
BatchesBounded ==
    phase \in BatchPhases => until - from <= MaxOffsetsPerTrigger

(* docs/EXACTLY_ONCE.md:29: "restart reads the SAME offsets": what the
   checkpoint has recorded is never revised, whatever crashes, restarts and
   new records come in between, and batches are committed one by one. *)
CheckpointNeverRevised ==
    [][/\ startPos # NoPos => startPos' = startPos
       /\ Len(offsetLog') >= Len(offsetLog)
       /\ \A n \in 1..Len(offsetLog) : offsetLog'[n] = offsetLog[n]
       /\ commitLog' \in {commitLog, commitLog + 1}]_vars

(* Once retention has deleted records the query has not processed and the
   query is down, no restart ever takes it past them: the loss halts it and
   is never skipped in silence (fail_on_data_loss). *)
DataLossHalts ==
    \A n \in 0..MaxEvents :
        [](phase = "down" /\ CommittedEnd = n /\ expired > n
              => [](CommittedEnd = n))

(* A query that eventually stays up commits every record appended after its
   start position, and a backlog larger than one batch drains. *)
Drains ==
    <>[](phase # "down") =>
        \A n \in 1..MaxEvents : produced >= n ~> CommittedEnd >= n

=============================================================================
