--------------------------- MODULE ClickHouseSink ---------------------------
(***************************************************************************)
(* The OLAP sink (sinks/clickhouse_sink.py): the rows of a micro-batch are *)
(* sent in one insert, which succeeds, or fails after some of its blocks   *)
(* were stored. An insert that timed out may still be carried out later.   *)
(*                                                                         *)
(* The target table replaces rows that are equal (ReplacingMergeTree), so  *)
(* it is a set of rows; what a row is, is left to the query.               *)
(***************************************************************************)
EXTENDS StreamingQuery, FiniteSets

VARIABLES
    table,      \* the rows in the target table
    abandoned   \* rows of failed inserts that may still arrive

store == <<table, abandoned>>
clickHouseVars == <<vars, table, abandoned>>

(* pandas_df.empty: nothing is sent and nothing reported. *)
WriteEmpty(rows) ==
    /\ rows = {}
    /\ EndCallback(0, 0)
    /\ UNCHANGED store

InsertDone(rows) ==
    /\ rows # {}
    /\ EndCallback(Cardinality(rows), 0)
    /\ table' = table \union rows
    /\ abandoned' = abandoned \ table'

(* Part of the rows are in the table, the others may get there on their own. *)
InsertBroken(rows) ==
    /\ \E stored \in SUBSET rows : table' = table \union stored
    /\ abandoned' = (abandoned \union rows) \ table'

(* Mutation: the exception is logged and not counted. *)
InsertFailedUncounted(rows) ==
    /\ rows # {}
    /\ EndCallback(0, 0)
    /\ InsertBroken(rows)

(* except: the whole batch counts as failed. *)
InsertFailed(rows) ==
    /\ rows # {}
    /\ EndCallback(0, Cardinality(rows))
    /\ InsertBroken(rows)

WriteRows(rows) == WriteEmpty(rows) \/ InsertDone(rows) \/ InsertFailed(rows)

(* The driver dies, inside insert_df with part of the rows stored. *)
CrashInserting(rows) ==
    /\ Crash
    /\ IF phase = "writing" THEN InsertBroken(rows) ELSE UNCHANGED store

(* A block of a given-up insert is stored after all. *)
InsertLate ==
    /\ \E row \in abandoned :
          /\ table' = table \union {row}
          /\ abandoned' = abandoned \ {row}
    /\ UNCHANGED vars

NoRows == table = {} /\ abandoned = {}

=============================================================================
