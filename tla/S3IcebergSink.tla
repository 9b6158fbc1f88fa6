--------------------------- MODULE S3IcebergSink ---------------------------
(***************************************************************************)
(* The cold sink (sinks/s3_iceberg_sink.py): every micro-batch is appended *)
(* to an Iceberg table by one commit of the table's metadata.              *)
(*                                                                         *)
(* A row of the table is known by the position of its record in the topic; *)
(* the table is the number of copies of every row. The driver may die, or  *)
(* lose the answer of the catalog, on either side of the commit.           *)
(***************************************************************************)
EXTENDS OrdersStream, FiniteSets

VARIABLE table      \* the copies of every record in the Iceberg table

icebergVars == <<vars, table>>

(* batch_df.count() *)
Count == Cardinality(BatchRows)

-----------------------------------------------------------------------------
(* write_batch. *)

(* The table's commit: all rows of the batch become visible at once. *)
Appended == [p \in 1..MaxEvents |->
                IF p \in BatchRows THEN table[p] + 1 ELSE table[p]]

(* append() reads the rows again, which retention may have deleted since they
   were counted. *)
CanAppend == phase = "writing" /\ BatchRows # {} /\ ~DataLost

(* An attempt that ends in an exception or a crash may have got its commit in. *)
TableAfterAttempt == {table} \union (IF CanAppend THEN {Appended} ELSE {})

(* An empty batch writes nothing and reports nothing. *)
WriteEmpty ==
    /\ BatchRows = {}
    /\ RunBatch(0, 0)
    /\ UNCHANGED table

WriteAppended ==
    /\ CanAppend
    /\ RunBatch(Count, 0)
    /\ table' = Appended

(* Mutation: count is cleared before it is copied into failed. *)
WriteFailedUncounted ==
    /\ BatchRows # {}
    /\ RunBatch(0, 0)
    /\ table' \in TableAfterAttempt

(* An exception of append() counts the whole batch as failed, whether the
   commit did not happen or only its answer was lost. *)
WriteFailed ==
    /\ BatchRows # {}
    /\ RunBatch(0, Count)
    /\ table' \in TableAfterAttempt

(* The driver dies, inside append() on either side of the table's commit. *)
IcebergCrash ==
    /\ Crash
    /\ table' \in TableAfterAttempt

-----------------------------------------------------------------------------
(* The specification. *)

IcebergInit ==
    /\ Init
    /\ table = [p \in 1..MaxEvents |-> 0]

IcebergWrite == WriteEmpty \/ WriteAppended \/ WriteFailed

IcebergNext ==
    \/ QueryStep /\ UNCHANGED table
    \/ IcebergWrite
    \/ IcebergCrash

IcebergSpec == IcebergInit /\ [][IcebergNext]_icebergVars

-----------------------------------------------------------------------------
(* Properties. *)

(* README.md:29, "At-least-once guarantees": every record behind the
   committed offsets is in the table, whatever appends failed and whatever
   crashes fell between an append and its commit. *)
ArchivedAtLeastOnce ==
    \A p \in KeptEvents :
        startPos < p /\ p <= CommittedEnd => table[p] >= 1

(* A batch is in the table as a whole or not at all, however often it was
   appended: all its rows have the same number of copies. *)
BatchAtomic ==
    \A n \in 1..Len(offsetLog) :
        \A p, q \in (BatchStart(n) + 1)..offsetLog[n] :
            {p, q} \subseteq KeptEvents => table[p] = table[q]

(* Only restarts duplicate: a driver appends a batch once, so no row has more
   copies than there were drivers; and no row precedes the plan. *)
CopiesBoundedByStarts ==
    \A p \in 1..MaxEvents :
        /\ table[p] <= starts
        /\ table[p] > 0 => /\ offsetLog # <<>>
                           /\ startPos < p
                           /\ p <= offsetLog[Len(offsetLog)]
                           /\ p \in KeptEvents

(* The table's consumers see the promise of AtLeastOnceDelivery. *)
Delivery == INSTANCE AtLeastOnceDelivery WITH
    Positions <- 1..MaxEvents,
    Owed <- KeptEvents,
    opened <- startPos,
    acked <- CommittedEnd,
    stored <- {p \in 1..MaxEvents : table[p] > 0}

ImplementsDelivery == Delivery!Spec

=============================================================================
