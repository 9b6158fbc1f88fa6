--------------------------- MODULE WebSocketSink ---------------------------
(***************************************************************************)
(* The WebSocket sink (sinks/websocket_sink.py): every row of a batch is   *)
(* handed to a producer, which sends it to the topic ws-broadcast in the   *)
(* background. write_batch waits for the producer at most ten seconds and  *)
(* does not look at what is left.                                          *)
(***************************************************************************)
EXTENDS StreamingQuery, Functions

CONSTANTS
    Alerts,  \* the records of the topic from which the job makes an alert
    QueueMax \* how many messages the producer's buffer takes

ASSUME ProducerAssumption ==
    /\ Alerts \subseteq 1..MaxEvents
    /\ QueueMax \in Nat \ {0}

VARIABLES
    queue,   \* the producer's buffer; an alert is known by its record
    wsTopic, \* the topic ws-broadcast
    row,     \* the record of the row write_batch was last at, 0 before the first
    tally,   \* its counts
    lost     \* history: alerts that left the buffer unsent, and not queued since

producer == <<queue, wsTopic, lost>>
loop == <<row, tally>>
sinkVars == <<vars, queue, wsTopic, row, tally, lost>>

(* batch_df.toJSON().collect(), and what of it is still to be handed over. *)
Rows == {p \in Alerts : from < p /\ p <= until}

Pending == {p \in Rows : p > row}

NoCount == [written |-> 0, failed |-> 0]

Broadcast == Range(wsTopic)

-----------------------------------------------------------------------------
(* write_batch. *)

(* Mutation: a full buffer is ignored. *)
ProduceRowUncounted ==
    /\ phase = "writing"
    /\ \E p \in Pending :
          /\ \A q \in Pending : p <= q
          /\ row' = p
          /\ \/ /\ Len(queue) < QueueMax
                /\ queue' = Append(queue, p)
                /\ lost' = lost \ {p}
                /\ tally' = [tally EXCEPT !.written = @ + 1]
             \/ /\ Len(queue) = QueueMax
                /\ UNCHANGED <<queue, lost, tally>>
    /\ UNCHANGED <<vars, wsTopic>>

(* The next row's message is in the buffer: producer.produce. *)
Queued(p) ==
    /\ Len(queue) < QueueMax
    /\ queue' = Append(queue, p)
    /\ lost' = lost \ {p}
    /\ tally' = [tally EXCEPT !.written = @ + 1]

(* The buffer is full, produce raises and the row counts as failed. *)
Refused ==
    /\ Len(queue) = QueueMax
    /\ tally' = [tally EXCEPT !.failed = @ + 1]
    /\ UNCHANGED <<queue, lost>>

(* One turn of the loop. *)
ProduceRow ==
    /\ phase = "writing"
    /\ \E p \in Pending :
          /\ \A q \in Pending : p <= q
          /\ row' = p
          /\ Queued(p) \/ Refused
    /\ UNCHANGED <<vars, wsTopic>>

(* flush(timeout=10) returns, the buffer being empty or not. *)
Flush ==
    /\ Pending = {}
    /\ RunBatch(tally.written, tally.failed)
    /\ row' = 0
    /\ tally' = NoCount
    /\ UNCHANGED producer

-----------------------------------------------------------------------------
(* The producer's own thread, and the end of its process. *)

(* The broker acknowledges a message, perhaps after the driver has died. *)
Deliver ==
    /\ queue # <<>>
    /\ wsTopic' = Append(wsTopic, Head(queue))
    /\ queue' = Tail(queue)
    /\ UNCHANGED <<vars, loop, lost>>

(* A message is dropped after message.timeout.ms; no callback hears of it. *)
GiveUp ==
    /\ queue # <<>>
    /\ lost' = lost \union {Head(queue)}
    /\ queue' = Tail(queue)
    /\ UNCHANGED <<vars, loop, wsTopic>>

(* A new driver has a new producer. *)
SinkStart ==
    /\ Start
    /\ lost' = lost \union Range(queue)
    /\ queue' = <<>>
    /\ UNCHANGED <<wsTopic, loop>>

SinkCrash ==
    /\ Crash
    /\ row' = 0
    /\ tally' = NoCount
    /\ UNCHANGED producer

-----------------------------------------------------------------------------
(* The specification. *)

SinkInit ==
    /\ Init
    /\ queue = <<>>
    /\ wsTopic = <<>>
    /\ row = 0
    /\ tally = NoCount
    /\ lost = {}

SinkQueryStep ==
    /\ \/ Produce \/ Expire \/ ResolveStart \/ PlanBatch \/ ReadBatch
       \/ FailRead \/ CommitBatch
    /\ UNCHANGED <<producer, loop>>

SinkNext ==
    \/ SinkQueryStep
    \/ SinkStart
    \/ SinkCrash
    \/ ProduceRow
    \/ Flush
    \/ Deliver
    \/ GiveUp

SinkSpec == SinkInit /\ [][SinkNext]_sinkVars

-----------------------------------------------------------------------------
(* Properties. *)

(* The alerts behind the committed offsets. *)
CommittedAlerts == {p \in Alerts : startPos < p /\ p <= CommittedEnd}

(* In the topic, in the buffer, or lost by a producer. *)
Accounted == Broadcast \union Range(queue) \union lost

(* Nothing but the producer loses an alert: what is committed is in the topic,
   or in the buffer, or was in the buffer of a producer that gave it up or
   died. Full buffers, half produced batches and replays lose none. *)
AlertsAccountedFor == CommittedAlerts \subseteq Accounted

(* README.md:29, "At-least-once guarantees": what is committed is in the topic
   ws-broadcast or still on its way there. *)
AlertsBroadcastAtLeastOnce ==
    CommittedAlerts \subseteq Broadcast \union Range(queue)

=============================================================================
