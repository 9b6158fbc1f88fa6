---------------------------- MODULE OrdersStream ----------------------------
(***************************************************************************)
(* The dataframe of jobs/orders_cdc_enrichment.py: the Debezium envelopes  *)
(* of the topic, parsed (sources/debezium.py) and filtered, as its queries *)
(* hand them to their sinks. An event is known by its position in the      *)
(* topic; what the properties need of its content are constants.           *)
(***************************************************************************)
EXTENDS StreamingQuery

CONSTANTS
    Op,  \* the operation of every event, "invalid" when the value is no envelope
    Lsn  \* its source.lsn, NoLsn when the envelope has none

NoLsn == 0

Ops == {"c", "u", "r", "d", "t", "invalid"}

ASSUME EventAssumption ==
    /\ Op \in [1..MaxEvents -> Ops]
    /\ Lsn \in [1..MaxEvents -> Nat]

(* The job keeps creates, updates and snapshot reads. *)
KeptEvents == {p \in 1..MaxEvents : Op[p] \in {"c", "u", "r"}}

(* Mutation: the fallback leaves the offset out. *)
EventIdWithoutOffset(p) ==
    IF Lsn[p] # NoLsn THEN <<"lsn", Lsn[p]>> ELSE <<"offset", 0>>

(* event_id: the LSN when there is one, the event's place in Kafka if not. *)
EventId(p) ==
    IF Lsn[p] # NoLsn THEN <<"lsn", Lsn[p]>> ELSE <<"offset", p>>

(* The job's columns have an event_id and no lsn of their own. *)
IdempotencyToken(p) == EventId(p)

(* Mutation: the batch's range includes the position it begins after. *)
BatchRowsInclusive == {p \in KeptEvents : from <= p /\ p <= until}

(* The rows of the current batch that reach the sink. *)
BatchRows == {p \in KeptEvents : from < p /\ p <= until}

=============================================================================
