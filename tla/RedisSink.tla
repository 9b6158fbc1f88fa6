----------------------------- MODULE RedisSink -----------------------------
(***************************************************************************)
(* The hot sink (sinks/redis_sink.py): every record of a micro-batch is an *)
(* HSET and an EXPIRE of a pipeline without a transaction, so the server   *)
(* runs the commands one by one and a connection may break between any two *)
(* of them. The client repeats a broken pipeline once (retry_on_timeout),  *)
(* and bytes of a connection it has left may still reach the server.       *)
(*                                                                         *)
(* Every field of a hash is known by the event that wrote it last. A key   *)
(* with a time to live may go at any time: nothing bounds how much time    *)
(* passes between two steps.                                               *)
(***************************************************************************)
EXTENDS OrdersStream, FiniteSets

CONSTANTS
    OrderId, \* the order of every event, NoOrder when its order_id is null
    Fields   \* the columns of every event that are not null: toJSON leaves
             \*   the others out

NoOrder == "none"

ASSUME RecordAssumption ==
    /\ DOMAIN OrderId = 1..MaxEvents
    /\ DOMAIN Fields = 1..MaxEvents
    /\ \A p \in 1..MaxEvents : Fields[p] # {}

VARIABLES
    hash,     \* for every key and field, the event that wrote it, 0 for none
    expiring, \* the keys that have a time to live
    pipe,     \* the client: the commands sent, was it repeated, was one refused
    late,     \* commands of a connection left behind, still under way
    lateRan,  \* history: some late command has been executed
    landed    \* history: the events whose HSET was executed

redisVars == <<vars, hash, expiring, pipe, late, lateRan, landed>>

-----------------------------------------------------------------------------
(* Keys and commands. *)

(* key_prefix and the key_field, or the token when the field is missing. *)
Key(p) == IF OrderId[p] = NoOrder
          THEN IdempotencyToken(p)
          ELSE <<"order", OrderId[p]>>

Keys == {Key(p) : p \in KeptEvents}
FieldNames == UNION {Fields[p] : p \in KeptEvents}

Present(k) == \E f \in FieldNames : hash[k][f] # 0

(* HSET and EXPIRE of every record of the batch. *)
Pipeline == [cmd : {"hset", "expire"}, event : BatchRows]

(* Mutation: the records are queued from the last to the first. *)
QueuedReversed(c, d) ==
    \/ c.event > d.event
    \/ c.event = d.event /\ c.cmd = "hset" /\ d.cmd = "expire"

(* Mutation: EXPIRE is queued before the HSET it belongs to. *)
QueuedExpireFirst(c, d) ==
    \/ c.event < d.event
    \/ c.event = d.event /\ c.cmd = "expire" /\ d.cmd = "hset"

(* Command c is queued before d: record by record, HSET before EXPIRE. *)
Queued(c, d) ==
    \/ c.event < d.event
    \/ c.event = d.event /\ c.cmd = "hset" /\ d.cmd = "expire"

(* The first of some commands, if there are any. *)
FirstOf(commands) == {c \in commands : \A d \in commands : ~Queued(d, c)}

(* HSET leaves the fields it does not name as they are. *)
HSet(p) ==
    /\ hash' = [hash EXCEPT ![Key(p)] =
                   [f \in FieldNames |-> IF f \in Fields[p] THEN p ELSE @[f]]]
    /\ landed' = landed \union {p}
    /\ UNCHANGED expiring

(* EXPIRE does nothing to a key that is gone. *)
ExpireKey(p) ==
    /\ expiring' = IF Present(Key(p)) THEN expiring \union {Key(p)} ELSE expiring
    /\ UNCHANGED <<hash, landed>>

Execute(c) ==
    \/ c.cmd = "hset" /\ HSet(c.event)
    \/ c.cmd = "expire" /\ ExpireKey(c.event)

-----------------------------------------------------------------------------
(* write_batch. *)

IdlePipe == [sent |-> {}, repeated |-> FALSE, refused |-> FALSE]

(* What may stay under way of the connection the client leaves. *)
LeftBehind ==
    {late, {}, Pipeline \ pipe.sent}

(* The server executes the next command, or answers it with an error (out of
   memory, read only) and goes on with the one after it. *)
SendCommand ==
    /\ phase = "writing"
    /\ \E c \in FirstOf(Pipeline \ pipe.sent) :
          \/ /\ Execute(c)
             /\ pipe' = [pipe EXCEPT !.sent = @ \union {c}]
          \/ /\ pipe' = [pipe EXCEPT !.sent = @ \union {c}, !.refused = TRUE]
             /\ UNCHANGED <<hash, expiring, landed>>
    /\ UNCHANGED <<vars, late, lateRan>>

(* A connection error or a timeout, also of the last answer: the client sends
   the whole pipeline again on a new connection, once. *)
RepeatPipeline ==
    /\ phase = "writing"
    /\ Pipeline # {}
    /\ ~pipe.repeated
    /\ pipe' = [IdlePipe EXCEPT !.repeated = TRUE]
    /\ late' \in LeftBehind
    /\ UNCHANGED <<vars, hash, expiring, lateRan, landed>>

(* len(records) *)
Records == Cardinality(BatchRows)

(* execute() returns, or raises the first error among its answers. *)
PipelineAnswered ==
    /\ pipe.sent = Pipeline
    /\ IF pipe.refused THEN RunBatch(0, Records) ELSE RunBatch(Records, 0)
    /\ pipe' = IdlePipe
    /\ UNCHANGED <<hash, expiring, late, lateRan, landed>>

(* Mutation: the records queued are still reported as written. *)
PipelineBrokenUncounted ==
    /\ pipe.repeated
    /\ RunBatch(Records, 0)
    /\ pipe' = IdlePipe
    /\ late' \in LeftBehind
    /\ UNCHANGED <<hash, expiring, lateRan, landed>>

(* A second error: failed += written. *)
PipelineBroken ==
    /\ pipe.repeated
    /\ RunBatch(0, Records)
    /\ pipe' = IdlePipe
    /\ late' \in LeftBehind
    /\ UNCHANGED <<hash, expiring, lateRan, landed>>

RedisCrash ==
    /\ Crash
    /\ pipe' = IdlePipe
    /\ IF phase = "writing" THEN late' \in LeftBehind ELSE UNCHANGED late
    /\ UNCHANGED <<hash, expiring, lateRan, landed>>

-----------------------------------------------------------------------------
(* The server. *)

(* A key's time to live is over. *)
Evict ==
    /\ \E k \in expiring :
          /\ hash' = [hash EXCEPT ![k] = [f \in FieldNames |-> 0]]
          /\ expiring' = expiring \ {k}
    /\ UNCHANGED <<vars, pipe, late, lateRan, landed>>

LateCommand ==
    /\ \E c \in FirstOf(late) :
          /\ Execute(c)
          /\ late' = late \ {c}
    /\ lateRan' = TRUE
    /\ UNCHANGED <<vars, pipe>>

LateDropped ==
    /\ late # {}
    /\ late' = {}
    /\ UNCHANGED <<vars, hash, expiring, pipe, lateRan, landed>>

-----------------------------------------------------------------------------
(* The specification. *)

RedisInit ==
    /\ Init
    /\ hash = [k \in Keys |-> [f \in FieldNames |-> 0]]
    /\ expiring = {}
    /\ pipe = IdlePipe
    /\ late = {}
    /\ lateRan = FALSE
    /\ landed = {}

RedisWrite ==
    SendCommand \/ RepeatPipeline \/ PipelineAnswered \/ PipelineBroken

RedisNext ==
    \/ QueryStep /\ UNCHANGED <<hash, expiring, pipe, late, lateRan, landed>>
    \/ RedisWrite
    \/ RedisCrash
    \/ Evict
    \/ LateCommand
    \/ LateDropped

RedisSpec == RedisInit /\ [][RedisNext]_redisVars

-----------------------------------------------------------------------------
(* Properties. *)

(* No batch is planned and uncommitted: nothing is left to be replayed. *)
Settled == Len(offsetLog) = commitLog

(* The events of key k behind the committed offsets that have field f. *)
CommittedWriters(k, f) ==
    {p \in KeptEvents : /\ startPos < p
                        /\ p <= CommittedEnd
                        /\ Key(p) = k
                        /\ f \in Fields[p]}

(* A lookup finds the newest committed value of every field, or nothing once
   its key has expired: batches that broke off half way, repeated pipelines
   and replays after restarts leave no older value behind, as long as no
   bytes of a broken connection arrive late. *)
HotStateIsLatest ==
    Settled /\ ~lateRan =>
        \A k \in Keys, f \in FieldNames :
            \/ hash[k][f] = 0
            \/ /\ hash[k][f] \in CommittedWriters(k, f)
               /\ \A p \in CommittedWriters(k, f) : p <= hash[k][f]

(* sinks/redis_sink.py:3, "TTL enforced per-record": a key without a time to
   live, which an HSET may leave behind when the connection breaks before the
   EXPIRE, has one again when the batch is committed. *)
NoImmortalKeys ==
    Settled /\ ~lateRan => \A k \in Keys : Present(k) => k \in expiring

(* README.md:29, "At-least-once guarantees": the hot store is written as
   AtLeastOnceDelivery promises, each event's HSET being what is owed. *)
HotDelivery == INSTANCE AtLeastOnceDelivery WITH
    Positions <- 1..MaxEvents,
    Owed <- KeptEvents,
    opened <- startPos,
    acked <- CommittedEnd,
    stored <- landed

ImplementsHotDelivery == HotDelivery!Spec

=============================================================================
