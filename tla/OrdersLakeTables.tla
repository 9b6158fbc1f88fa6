-------------------------- MODULE OrdersLakeTables --------------------------
(***************************************************************************)
(* The Databricks track of the orders workload: the streaming notebook     *)
(* notebooks/01_orders_cdc_comparison.py, which appends to an Iceberg      *)
(* table, and the pipeline notebooks/02_dlt_orders_pipeline.py, whose      *)
(* bronze, silver and gold tables each stream from the one before.         *)
(*                                                                         *)
(* Unlike the foreachBatch sinks, these are native table sinks: a commit   *)
(* of the table carries the number of the query's batch, and a batch the   *)
(* table already has is not appended again. A table is the sequence of its *)
(* commits, each standing for the input positions between from and until;  *)
(* a reader of a table counts its commits, a reader of the topic records.  *)
(* product_dim has one row for a product, so the joins keep every row one. *)
(***************************************************************************)
EXTENDS Integers, Sequences

CONSTANTS
    Kinds,       \* the kinds of CDC record on the topic
    MaxRecords,  \* bound: records published
    MaxCrashes   \* bound: times a query dies

AllKinds == {"write",    \* op c or u
             "snapshot", \* op r
             "delete",   \* op d
             "noId",     \* op c, u or r of a row whose order_id is null
             "unparsed"} \* from_json gives null

ASSUME KindsAssumption == Kinds \subseteq AllKinds
ASSUME LakeBoundsAssumption == MaxRecords \in Nat /\ MaxCrashes \in Nat

Pipeline == {"bronze", "silver", "gold"}
Stages == {"databricks"} \union Pipeline

VARIABLES
    topic,    \* cdc.public.orders: the kinds of its records
    table,    \* per stage: the commits of its table
    start,    \* per stage, durable: where its input was opened, NoPos before
    offsets,  \* per stage, durable: the ends of the batches planned
    commits,  \* per stage, durable: the batches committed to the checkpoint
    phase,    \* per stage: what its query is at
    crashes

checkpoints == <<start, offsets, commits>>
lakeVars == <<topic, table, start, offsets, commits, phase, crashes>>

NoPos == -1

ReadsTopic(s) == s \in {"databricks", "bronze"}

(* dlt.read_stream: the table a stage reads. *)
Upstream == [silver |-> "bronze", gold |-> "silver"]

InputEnd(s) == IF ReadsTopic(s) THEN Len(topic) ELSE Len(table[Upstream[s]])

BatchStart(s, n) == IF n = 1 THEN start[s] ELSE offsets[s][n - 1]

CommittedEnd(s) == IF commits[s] = 0 THEN start[s] ELSE offsets[s][commits[s]]

-----------------------------------------------------------------------------
(* The three filters of one workload. *)

(* jobs/orders_cdc_enrichment.py: env not null, cdc_op.isin("c", "u", "r"). *)
JobSelects(kind) == kind \in {"write", "snapshot", "noId"}

(* Mutation: the notebook's list of operations lacks the snapshot's "r". *)
IcebergSelectsNoSnapshots(kind) == kind \in {"write", "noId"}

(* env not null, op.isin("c", "u", "r"); the left join drops nothing. *)
IcebergSelects(kind) == kind \in {"write", "snapshot", "noId"}

(* env not null, and the expect_or_drop rules valid_op and order_id_not_null,
   applied to the envelope they name; a plain expectation drops nothing. Bronze
   keeps the raw envelope, gold joins from the left, so both keep every row. *)
SilverSelects(kind) == kind \in {"write", "snapshot"}

-----------------------------------------------------------------------------
(* The queries. *)

Publish(kind) ==
    /\ Len(topic) < MaxRecords
    /\ topic' = Append(topic, kind)
    /\ UNCHANGED <<table, checkpoints, phase, crashes>>

(* A query is started: nothing says that it ever is. The job is paused and
   retried once (infra/terraform/modules/databricks), the pipeline is in no
   configuration, and it does not start where silver's rules, on columns its
   select has dropped, are not resolved. A batch that was planned and not
   committed runs again. *)
StartStage(s) ==
    /\ phase[s] = "down"
    /\ phase' = [phase EXCEPT ![s] = IF Len(offsets[s]) > commits[s] THEN "planned" ELSE "idle"]
    /\ UNCHANGED <<topic, table, checkpoints, crashes>>

(* Mutation: a table is followed from its latest commit on. *)
OpenInputAtEnd(s) ==
    /\ phase[s] = "idle"
    /\ start[s] = NoPos
    /\ start' = [start EXCEPT ![s] = InputEnd(s)]
    /\ UNCHANGED <<topic, table, offsets, commits, phase, crashes>>

(* The topic is opened at its end, a table at its first commit. *)
OpenInput(s) ==
    /\ phase[s] = "idle"
    /\ start[s] = NoPos
    /\ start' = [start EXCEPT ![s] = IF ReadsTopic(s) THEN InputEnd(s) ELSE 0]
    /\ UNCHANGED <<topic, table, offsets, commits, phase, crashes>>

(* No cap: a batch takes all there is. (The empty first batch of a topic reader
   would add an empty commit and is left out.) *)
PlanStage(s) ==
    /\ phase[s] = "idle"
    /\ start[s] # NoPos
    /\ InputEnd(s) > CommittedEnd(s)
    /\ offsets' = [offsets EXCEPT ![s] = Append(@, InputEnd(s))]
    /\ phase' = [phase EXCEPT ![s] = "planned"]
    /\ UNCHANGED <<topic, table, start, commits, crashes>>

(* Mutation: the table does not look at the batch numbers it has. *)
AppendBatchAgain(s) ==
    /\ phase[s] = "planned"
    /\ LET n == Len(offsets[s])
       IN table' = [table EXCEPT ![s] =
                       Append(@, [epoch |-> n, from |-> BatchStart(s, n), until |-> offsets[s][n]])]
    /\ phase' = [phase EXCEPT ![s] = "written"]
    /\ UNCHANGED <<topic, checkpoints, crashes>>

(* Mutation: a batch that was planned before a restart counts as appended. *)
AppendBatchLost(s) ==
    /\ phase[s] = "planned"
    /\ LET n == Len(offsets[s])
           lastEpoch == IF crashes > 0 THEN n
                        ELSE IF table[s] = <<>> THEN 0 ELSE table[s][Len(table[s])].epoch
           commit == [epoch |-> n, from |-> BatchStart(s, n), until |-> offsets[s][n]]
       IN table' = IF lastEpoch < n THEN [table EXCEPT ![s] = Append(@, commit)] ELSE table
    /\ phase' = [phase EXCEPT ![s] = "written"]
    /\ UNCHANGED <<topic, checkpoints, crashes>>

(* One atomic commit of the table, unless its last one is this batch's. *)
AppendBatch(s) ==
    /\ phase[s] = "planned"
    /\ LET n == Len(offsets[s])
           lastEpoch == IF table[s] = <<>> THEN 0 ELSE table[s][Len(table[s])].epoch
           commit == [epoch |-> n, from |-> BatchStart(s, n), until |-> offsets[s][n]]
       IN table' = IF lastEpoch < n THEN [table EXCEPT ![s] = Append(@, commit)] ELSE table
    /\ phase' = [phase EXCEPT ![s] = "written"]
    /\ UNCHANGED <<topic, checkpoints, crashes>>

CommitStage(s) ==
    /\ phase[s] = "written"
    /\ commits' = [commits EXCEPT ![s] = Len(offsets[s])]
    /\ phase' = [phase EXCEPT ![s] = "idle"]
    /\ UNCHANGED <<topic, table, start, offsets, crashes>>

(* A spot node is taken or the query fails; a job's queries may die together. *)
CrashStage(s) ==
    /\ phase[s] # "down"
    /\ crashes < MaxCrashes
    /\ crashes' = crashes + 1
    /\ phase' = [phase EXCEPT ![s] = "down"]
    /\ UNCHANGED <<topic, table, checkpoints>>

RunStage(s) == OpenInput(s) \/ PlanStage(s) \/ AppendBatch(s) \/ CommitStage(s)

StageStep(s) == StartStage(s) \/ RunStage(s)

LakeInit ==
    /\ topic = <<>>
    /\ table = [s \in Stages |-> <<>>]
    /\ start = [s \in Stages |-> NoPos]
    /\ offsets = [s \in Stages |-> <<>>]
    /\ commits = [s \in Stages |-> 0]
    /\ phase = [s \in Stages |-> "down"]
    /\ crashes = 0

LakeNext ==
    \/ \E kind \in Kinds : Publish(kind)
    \/ \E s \in Stages : StageStep(s) \/ CrashStage(s)

LakeSpec == LakeInit /\ [][LakeNext]_lakeVars

(* A query that is up goes on: its trigger fires, its appends end. *)
FairLakeSpec == LakeSpec /\ \A s \in Stages : WF_lakeVars(RunStage(s))

-----------------------------------------------------------------------------
(* Properties. *)

(* The commits of s that hold its input position n. *)
Holding(s, n) == {i \in 1..Len(table[s]) : table[s][i].from < n /\ n <= table[s][i].until}

(* Stage s has committed its input position n to its checkpoint. *)
Behind(s, n) == start[s] # NoPos /\ start[s] < n /\ n <= CommittedEnd(s)

(* The rows a record has become: the notebook's rows, and gold's rows with the
   bronze and silver commits they came through. *)
IcebergRows(p) == IF IcebergSelects(topic[p]) THEN Holding("databricks", p) ELSE {}

GoldRows(p) ==
    IF SilverSelects(topic[p])
    THEN {path \in Holding("bronze", p) \X (1..Len(table["silver"])) \X (1..Len(table["gold"])) :
              path[2] \in Holding("silver", path[1]) /\ path[3] \in Holding("gold", path[2])}
    ELSE {}

(* README.md:29 promises at-least-once; the native sinks do better: a record
   of the topic is at most one row of the Iceberg table and of gold, whichever
   queries of the chain died between the table's commit and the checkpoint's. *)
OneRowPerRecord ==
    \A p \in 1..Len(topic) :
        /\ \A x, y \in IcebergRows(p) : x = y
        /\ \A x, y \in GoldRows(p) : x = y

(* What a checkpoint has committed is in the table. *)
CommittedIsStored ==
    \A s \in Stages : \A n \in 1..InputEnd(s) : Behind(s, n) => Holding(s, n) # {}

(* Gold has committed what became of a record, through both tables before it. *)
ThroughGold(p) ==
    /\ Behind("bronze", p)
    /\ \A b \in Holding("bronze", p) :
        /\ b <= CommittedEnd("silver")
        /\ \A v \in Holding("silver", b) : v <= CommittedEnd("gold")

(* Once a track is past a record, it shows a row of it if and only if the job
   on EMR keeps the record; the pipeline, if and only if it also has an
   order_id. *)
NotebookAgrees(p) == Behind("databricks", p) => (IcebergRows(p) # {} <=> JobSelects(topic[p]))
PipelineAgrees(p) ==
    ThroughGold(p) => (GoldRows(p) # {} <=> JobSelects(topic[p]) /\ topic[p] # "noId")

(* docs/RUNTIME_COMPARISON.md:19, "All three tracks process the identical
   workload", does not hold to the letter: silver's rule order_id_not_null
   (02_dlt_orders_pipeline.py:88) has no counterpart in the other two filters.
   That is the only difference: no operation is kept here and dropped there,
   and no crash, replay or checkpoint of the chain takes a row from one track
   or adds one. *)
TracksAgree == \A p \in 1..Len(topic) : NotebookAgrees(p) /\ PipelineAgrees(p)

(* While the three queries of the pipeline stay up, an order published after
   bronze was opened ends up in gold, whatever died before and however their
   checkpoints stood to each other. *)
GoldCatchesUp ==
    (\A s \in Pipeline : <>[](phase[s] # "down")) =>
        \A p \in 1..MaxRecords :
            Len(topic) >= p /\ SilverSelects(topic[p]) /\ start["bronze"] \in 0..(p - 1)
                ~> p <= Len(topic) /\ GoldRows(p) # {}

=============================================================================
