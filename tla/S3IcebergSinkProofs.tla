------------------------ MODULE S3IcebergSinkProofs ------------------------
(***************************************************************************)
(* Proofs about S3IcebergSink for every topic, batch cap, number of        *)
(* restarts and mix of events: the archive is at-least-once, and it        *)
(* implements AtLeastOnceDelivery. Both need a failed append to raise,     *)
(* which is why they assume a tolerance below 1: error_tolerance is        *)
(* compared with the fraction of failed records, 1 for a failed append.    *)
(***************************************************************************)
EXTENDS S3IcebergSink, StreamingQueryProofs, FiniteSetTheorems

(* What the callback has written when it returns: without it the commit could
   cover rows that are not in the table. *)
ReturnedIsWritten ==
    phase = "returned" => \A p \in BatchRows : table[p] >= 1

(* The inductive invariant of the archive. *)
ArchiveInv ==
    /\ CheckpointInv
    /\ table \in [1..MaxEvents -> Nat]
    /\ ArchivedAtLeastOnce
    /\ ReturnedIsWritten

-----------------------------------------------------------------------------
(* Lemmas. *)

(* The rows of a batch can be counted, and a batch with rows counts some. *)
LEMMA CountType ==
    /\ IsFiniteSet(BatchRows)
    /\ Count \in Nat
    /\ BatchRows # {} => Count > 0
<1>1. IsFiniteSet(1..MaxEvents)
  BY FS_Interval, BoundsAssumption
<1>2. BatchRows \subseteq 1..MaxEvents
  BY DEF BatchRows, KeptEvents
<1>3. IsFiniteSet(BatchRows)
  BY <1>1, <1>2, FS_Subset
<1>4. Count \in Nat
  BY <1>3, FS_CardinalityType DEF Count
<1>5. BatchRows # {} => Count # 0
  BY <1>3, FS_EmptySet DEF Count
<1> QED
  BY <1>3, <1>4, <1>5

(* An attempt adds copies and takes none away. *)
LEMMA AttemptAdds ==
    ASSUME table \in [1..MaxEvents -> Nat], table' \in {table, Appended}
    PROVE  /\ table' \in [1..MaxEvents -> Nat]
           /\ \A p \in 1..MaxEvents : table'[p] >= table[p]
<1>1. CASE table' = table
  BY <1>1
<1>2. CASE table' = Appended
  <2>1. Appended \in [1..MaxEvents -> Nat]
    BY DEF Appended
  <2>2. ASSUME NEW p \in 1..MaxEvents
        PROVE  Appended[p] >= table[p]
    BY DEF Appended
  <2> QED
    BY <1>2, <2>1, <2>2
<1> QED
  BY <1>1, <1>2

(* Every step of the sink is a step of the query it extends. *)
LEMMA IcebergStepIsQueryStep ==
    ASSUME CheckpointInv, [IcebergNext]_icebergVars
    PROVE  [Next]_vars
<1>1. CASE QueryStep /\ UNCHANGED table
  BY <1>1 DEF Next
<1>2. CASE IcebergWrite
  <2>1. PICK w \in {0, Count}, f \in {0, Count} : RunBatch(w, f)
    BY <1>2 DEF IcebergWrite, WriteEmpty, WriteAppended, WriteFailed
  <2>2. w \in Nat /\ f \in Nat
    BY CountType
  <2>3. until - from <= MaxOffsetsPerTrigger
    BY <2>1, CheckpointBoundsBatches DEF RunBatch, EndCallback, BatchesBounded, BatchPhases
  <2>4. from \in Int /\ until \in Int
    BY BoundsAssumption DEF CheckpointInv, LogTypes, NoPos
  <2>5. w \in BatchSizes /\ f \in BatchSizes
    BY <2>1, <2>2, <2>3, <2>4, TriggerAssumption DEF RunBatch, EndCallback, BatchSizes
  <2> QED
    BY <2>1, <2>5 DEF Next, WriteBatch
<1>3. CASE IcebergCrash
  BY <1>3 DEF IcebergCrash, Next
<1>4. CASE UNCHANGED icebergVars
  BY <1>4 DEF icebergVars
<1> QED
  BY <1>1, <1>2, <1>3, <1>4 DEF IcebergNext

-----------------------------------------------------------------------------
(* The archive is at-least-once. *)

LEMMA InitArchiveInv == IcebergInit => ArchiveInv
<1> SUFFICES ASSUME IcebergInit PROVE ArchiveInv
  OBVIOUS
<1>1. CheckpointInv
  BY InitCheckpointInv DEF IcebergInit
<1>2. table \in [1..MaxEvents -> Nat]
  BY DEF IcebergInit
<1>3. ArchivedAtLeastOnce
  BY DEF IcebergInit, Init, ArchivedAtLeastOnce, CommittedEnd, NoPos, KeptEvents
<1>4. ReturnedIsWritten
  BY DEF IcebergInit, Init, ReturnedIsWritten
<1> QED
  BY <1>1, <1>2, <1>3, <1>4 DEF ArchiveInv

(* The table after any step: copies are only added. *)
LEMMA TableGrows ==
    ASSUME ArchiveInv, [IcebergNext]_icebergVars
    PROVE  /\ table' \in [1..MaxEvents -> Nat]
           /\ \A p \in 1..MaxEvents : table'[p] >= table[p]
<1>1. table' \in {table, Appended}
  BY DEF IcebergNext, icebergVars, IcebergWrite, WriteEmpty, WriteAppended,
         WriteFailed, IcebergCrash, TableAfterAttempt
<1> QED
  BY <1>1, AttemptAdds DEF ArchiveInv

(* A step that leaves the committed end alone keeps the archive complete. *)
LEMMA StillArchived ==
    ASSUME ArchiveInv, [IcebergNext]_icebergVars,
           UNCHANGED <<startPos, CommittedEnd>>
    PROVE  ArchivedAtLeastOnce'
<1> SUFFICES ASSUME NEW p \in KeptEvents, startPos < p, p <= CommittedEnd
             PROVE  table'[p] >= 1
  BY DEF ArchivedAtLeastOnce
<1>1. p \in 1..MaxEvents
  BY DEF KeptEvents
<1>2. table[p] \in Nat /\ table[p] >= 1
  BY <1>1 DEF ArchiveInv, ArchivedAtLeastOnce
<1>3. table'[p] \in Nat /\ table'[p] >= table[p]
  BY <1>1, TableGrows
<1> QED
  BY <1>2, <1>3

LEMMA WriteStep ==
    ASSUME ToleranceNum < ToleranceDen, ArchiveInv, IcebergWrite
    PROVE  ArchivedAtLeastOnce' /\ ReturnedIsWritten'
<1>1. UNCHANGED <<startPos, CommittedEnd, BatchRows>>
  BY DEF IcebergWrite, WriteEmpty, WriteAppended, WriteFailed, RunBatch, EndCallback,
         CommittedEnd, BatchRows, checkpoint
<1>2. ArchivedAtLeastOnce'
  BY <1>1, StillArchived DEF IcebergNext
<1>3. CASE WriteEmpty
  BY <1>1, <1>2, <1>3 DEF WriteEmpty, ReturnedIsWritten
<1>4. CASE WriteAppended
  <2> SUFFICES ASSUME NEW p \in BatchRows
               PROVE  table'[p] >= 1
    BY <1>1, <1>2 DEF ReturnedIsWritten
  <2>1. p \in 1..MaxEvents
    BY DEF BatchRows, KeptEvents
  <2>2. table'[p] = table[p] + 1
    BY <1>4, <2>1 DEF WriteAppended, Appended
  <2> QED
    BY <2>1, <2>2 DEF ArchiveInv
<1>5. CASE WriteFailed
  <2>1. BatchRows # {} /\ RunBatch(0, Count)
    BY <1>5 DEF WriteFailed
  <2>2. ExceedsTolerance(0, Count)
    BY <2>1, CountType, WholeFailureRaises
  <2>3. phase' = "down"
    BY <2>1, <2>2 DEF RunBatch, EndCallback
  <2> QED
    BY <1>2, <2>3 DEF ReturnedIsWritten
<1> QED
  BY <1>2, <1>3, <1>4, <1>5 DEF IcebergWrite

(* The commit covers the rows the callback has just written. *)
LEMMA CommitStep ==
    ASSUME ArchiveInv, CommitBatch, UNCHANGED table
    PROVE  ArchivedAtLeastOnce' /\ ReturnedIsWritten'
<1>1. /\ phase = "returned"
      /\ phase' = "idle"
      /\ commitLog' = batch
      /\ UNCHANGED <<startPos, offsetLog>>
  BY DEF CommitBatch
<1>2. /\ commitLog \in Nat
      /\ batch = commitLog + 1
      /\ from = CommittedEnd
      /\ until = offsetLog[batch]
  BY <1>1 DEF ArchiveInv, CheckpointInv, LogTypes, DriverFollowsCheckpoint,
              BatchPhases
<1>3. CommittedEnd' = until
  BY <1>1, <1>2 DEF CommittedEnd
<1>4. ASSUME NEW p \in KeptEvents, startPos' < p, p <= CommittedEnd'
      PROVE  table'[p] >= 1
  <2>1. startPos < p /\ p <= until
    BY <1>1, <1>3, <1>4
  <2>2. p \in Int /\ from \in Int
    BY BoundsAssumption DEF KeptEvents, ArchiveInv, CheckpointInv, LogTypes, NoPos
  <2>3. CASE p <= from
    BY <1>2, <2>1, <2>3 DEF ArchiveInv, ArchivedAtLeastOnce
  <2>4. CASE from < p
    <3>1. p \in BatchRows
      BY <2>1, <2>4 DEF BatchRows
    <3> QED
      BY <1>1, <3>1 DEF ArchiveInv, ReturnedIsWritten
  <2> QED
    BY <2>2, <2>3, <2>4
<1> QED
  BY <1>1, <1>4 DEF ArchivedAtLeastOnce, ReturnedIsWritten

(* The steps that plan, start or end without writing. *)
LEMMA OtherStep ==
    ASSUME ArchiveInv, [IcebergNext]_icebergVars,
           \/ Produce \/ Expire \/ Start \/ PlanBatch \/ ReadBatch \/ FailRead
           \/ Crash \/ UNCHANGED vars,
           phase' = "returned" => UNCHANGED <<phase, BatchRows>>
    PROVE  ArchivedAtLeastOnce' /\ ReturnedIsWritten'
<1>1. UNCHANGED <<startPos, commitLog>>
  BY DEF Produce, Expire, Start, PlanBatch, ReadBatch, FailRead, Crash, vars,
         checkpoint
<1>2. commitLog # 0 => offsetLog'[commitLog] = offsetLog[commitLog]
  <2>1. CASE PlanBatch
    <3>1. /\ offsetLog \in Seq(Nat)
          /\ commitLog \in Nat
          /\ commitLog <= Len(offsetLog)
          /\ offsetLog' = Append(offsetLog, BatchEnd(from))
      BY <2>1 DEF PlanBatch, ArchiveInv, CheckpointInv, LogTypes, LogsAgree
    <3> QED
      BY <3>1
  <2>2. CASE ~PlanBatch
    BY <2>2 DEF Produce, Expire, Start, ReadBatch, FailRead, Crash, vars,
                checkpoint
  <2> QED
    BY <2>1, <2>2
<1>3. UNCHANGED CommittedEnd
  BY <1>1, <1>2 DEF CommittedEnd
<1>4. ArchivedAtLeastOnce'
  BY <1>1, <1>3, StillArchived
<1>5. ReturnedIsWritten'
  <2> SUFFICES ASSUME phase' = "returned", NEW p \in BatchRows'
               PROVE  table'[p] >= 1
    BY DEF ReturnedIsWritten
  <2>1. p \in BatchRows /\ phase = "returned" /\ p \in 1..MaxEvents
    BY DEF BatchRows, KeptEvents
  <2>2. table[p] >= 1 /\ table[p] \in Nat
    BY <2>1 DEF ArchiveInv, ReturnedIsWritten
  <2>3. table'[p] >= table[p] /\ table'[p] \in Nat
    BY <2>1, TableGrows
  <2> QED
    BY <2>2, <2>3
<1> QED
  BY <1>4, <1>5

LEMMA ArchiveInvStep ==
    ASSUME ToleranceNum < ToleranceDen, ArchiveInv, [IcebergNext]_icebergVars
    PROVE  ArchiveInv'
<1>1. CheckpointInv'
  BY IcebergStepIsQueryStep, CheckpointInvStep DEF ArchiveInv
<1>2. table' \in [1..MaxEvents -> Nat]
  BY TableGrows
<1>3. ArchivedAtLeastOnce' /\ ReturnedIsWritten'
  <2>1. CASE IcebergWrite
    BY <2>1, WriteStep
  <2>2. CASE CommitBatch /\ UNCHANGED table
    BY <2>2, CommitStep
  <2>3. CASE ResolveStart /\ UNCHANGED table
    <3>1. /\ startPos' = produced
          /\ commitLog = 0
          /\ commitLog' = 0
          /\ phase' = "idle"
      BY <2>3 DEF ResolveStart, ArchiveInv, CheckpointInv, LogTypes, LogsAgree
    <3>2. CommittedEnd' = startPos' /\ startPos' \in Int
      BY <3>1, BoundsAssumption
      DEF CommittedEnd, ArchiveInv, CheckpointInv, LogTypes
    <3> QED
      BY <3>1, <3>2 DEF ArchivedAtLeastOnce, ReturnedIsWritten, KeptEvents
  <2>4. CASE \/ Produce \/ Expire \/ Start \/ PlanBatch \/ ReadBatch
             \/ FailRead \/ Crash \/ UNCHANGED vars
    <3>1. phase' = "returned" => UNCHANGED <<phase, BatchRows>>
      BY <2>4 DEF Produce, Expire, Start, PlanBatch, ReadBatch, FailRead,
                  Crash, vars, driver, BatchRows
    <3> QED
      BY <2>4, <3>1, OtherStep
  <2> QED
    BY <2>1, <2>2, <2>3, <2>4
    DEF IcebergNext, QueryStep, IcebergCrash, icebergVars
<1> QED
  BY <1>1, <1>2, <1>3 DEF ArchiveInv

LEMMA ArchiveInvariant ==
    ASSUME ToleranceNum < ToleranceDen
    PROVE  IcebergSpec => []ArchiveInv
<1>1. IcebergInit => ArchiveInv
  BY InitArchiveInv
<1>2. ArchiveInv /\ [IcebergNext]_icebergVars => ArchiveInv'
  BY ArchiveInvStep
<1> QED
  BY <1>1, <1>2, PTL DEF IcebergSpec

(* Every record behind the committed offsets is in the Iceberg table, through
   failed appends, lost answers, crashes and restarts. *)
THEOREM ArchiveIsAtLeastOnce ==
    ASSUME ToleranceNum < ToleranceDen
    PROVE  IcebergSpec => []ArchivedAtLeastOnce
<1>1. ArchiveInv => ArchivedAtLeastOnce
  BY DEF ArchiveInv
<1> QED
  BY <1>1, ArchiveInvariant, PTL

-----------------------------------------------------------------------------
(* The archive implements AtLeastOnceDelivery. *)

Stored == {p \in 1..MaxEvents : table[p] > 0}

LEMMA InitDelivery == IcebergInit => Delivery!Init
<1> SUFFICES ASSUME IcebergInit PROVE Delivery!Init
  OBVIOUS
<1>1. startPos = -1 /\ CommittedEnd = -1
  BY DEF IcebergInit, Init, CommittedEnd, NoPos
<1>2. Stored = {}
  BY DEF IcebergInit, Stored
<1> QED
  BY <1>1, <1>2 DEF Delivery!Init, Stored

(* Steps that leave the checkpoint and the table alone are not seen. *)
LEMMA UnseenStep ==
    ASSUME UNCHANGED <<startPos, CommittedEnd, table>>
    PROVE  UNCHANGED Delivery!vars
  BY DEF Delivery!vars

(* An append stores the rows of the batch, all of them behind no commit. *)
LEMMA AppendIsStore ==
    ASSUME ArchiveInv, CanAppend, table' = Appended,
           UNCHANGED <<startPos, offsetLog, commitLog>>
    PROVE  Delivery!Next
<1>1. /\ from = CommittedEnd
      /\ startPos # -1
  <2>1. phase \in BatchPhases
    BY DEF CanAppend, BatchPhases
  <2>2. from = CommittedEnd /\ batch = Len(offsetLog) /\ batch = commitLog + 1
    BY <2>1 DEF ArchiveInv, CheckpointInv, DriverFollowsCheckpoint
  <2>3. commitLog \in Nat /\ Len(offsetLog) # 0
    BY <2>2 DEF ArchiveInv, CheckpointInv, LogTypes
  <2>4. offsetLog # <<>>
    BY <2>3
  <2> QED
    BY <2>2, <2>4 DEF ArchiveInv, CheckpointInv, LogsAgree, NoPos
<1>2. /\ BatchRows \in SUBSET (1..MaxEvents)
      /\ \A p \in BatchRows : p \in KeptEvents /\ p > CommittedEnd
  BY <1>1 DEF BatchRows, KeptEvents
<1>3. Stored' = Stored \union BatchRows
  <2>1. ASSUME NEW p \in 1..MaxEvents
        PROVE  table'[p] > 0 <=> table[p] > 0 \/ p \in BatchRows
    BY DEF Appended, ArchiveInv
  <2> QED
    BY <1>2, <2>1 DEF Stored
<1>4. UNCHANGED <<startPos, CommittedEnd>>
  BY DEF CommittedEnd
<1>5. PICK S \in SUBSET (1..MaxEvents) : S = BatchRows
  BY <1>2
<1>6. Delivery!Store(S)
  BY <1>1, <1>2, <1>3, <1>4, <1>5 DEF Delivery!Store, Stored
<1> QED
  BY <1>5, <1>6 DEF Delivery!Next

(* The first trigger opens the topic where "latest" is. *)
LEMMA ResolveIsOpen ==
    ASSUME ArchiveInv, ResolveStart, UNCHANGED table
    PROVE  Delivery!Next
<1>1. /\ startPos = -1
      /\ startPos' = produced
      /\ commitLog = 0
      /\ commitLog' = 0
  BY DEF ResolveStart, NoPos, ArchiveInv, CheckpointInv, LogTypes, LogsAgree
<1>2. CommittedEnd' = produced
  BY <1>1 DEF CommittedEnd
<1>3. produced \in (1..MaxEvents) \union {0}
  BY BoundsAssumption DEF ArchiveInv, CheckpointInv, LogTypes
<1>4. Delivery!Open(produced)
  BY <1>1, <1>2 DEF Delivery!Open
<1> QED
  BY <1>3, <1>4 DEF Delivery!Next

(* A commit acknowledges the batch: the invariant has its rows stored. *)
LEMMA CommitIsAck ==
    ASSUME ArchiveInv, CommitBatch, UNCHANGED table
    PROVE  Delivery!Next
<1>1. /\ phase = "returned" /\ UNCHANGED startPos
      /\ CommittedEnd = from /\ CommittedEnd' = until
      /\ until \in 0..MaxEvents /\ from <= until /\ startPos # -1
  BY CommitMoves DEF ArchiveInv, NoPos
<1>2. until \in (1..MaxEvents) \union {0}
  BY <1>1, BoundsAssumption
<1>3. ASSUME NEW p \in KeptEvents, CommittedEnd < p, p <= until
      PROVE  p \in Stored
  <2>1. p \in BatchRows /\ p \in 1..MaxEvents
    BY <1>1, <1>3 DEF BatchRows, KeptEvents
  <2>2. table[p] \in Nat /\ table[p] >= 1
    BY <1>1, <2>1 DEF ArchiveInv, ReturnedIsWritten
  <2> QED
    BY <2>1, <2>2 DEF Stored
<1>4. Delivery!Ack(until)
  BY <1>1, <1>3 DEF Delivery!Ack, Stored
<1> QED
  BY <1>2, <1>4 DEF Delivery!Next

(* No other step of the query moves what the table's readers can see. *)
LEMMA QuietStep ==
    ASSUME ArchiveInv, UNCHANGED table,
           \/ Produce \/ Expire \/ Start \/ PlanBatch \/ ReadBatch \/ FailRead
           \/ Crash \/ IcebergWrite \/ UNCHANGED vars
    PROVE  UNCHANGED Delivery!vars
<1>1. UNCHANGED <<startPos, commitLog>>
  BY DEF Produce, Expire, Start, PlanBatch, ReadBatch, FailRead, Crash, vars,
         checkpoint, IcebergWrite, WriteEmpty, WriteAppended, WriteFailed, RunBatch, EndCallback
<1>2. commitLog # 0 => offsetLog'[commitLog] = offsetLog[commitLog]
  <2>1. CASE PlanBatch
    <3>1. /\ offsetLog \in Seq(Nat)
          /\ commitLog \in Nat
          /\ commitLog <= Len(offsetLog)
          /\ offsetLog' = Append(offsetLog, BatchEnd(from))
      BY <2>1 DEF PlanBatch, ArchiveInv, CheckpointInv, LogTypes, LogsAgree
    <3> QED
      BY <3>1
  <2>2. CASE ~PlanBatch
    BY <2>2 DEF Produce, Expire, Start, ReadBatch, FailRead, Crash, vars,
                checkpoint, IcebergWrite, WriteEmpty, WriteAppended,
                WriteFailed, RunBatch, EndCallback
  <2> QED
    BY <2>1, <2>2
<1>3. UNCHANGED CommittedEnd
  BY <1>1, <1>2 DEF CommittedEnd
<1> QED
  BY <1>1, <1>3, UnseenStep

LEMMA DeliveryStep ==
    ASSUME ArchiveInv, [IcebergNext]_icebergVars
    PROVE  [Delivery!Next]_(Delivery!vars)
<1>1. CASE CanAppend /\ table' = Appended /\ (IcebergWrite \/ IcebergCrash)
  <2>1. UNCHANGED <<startPos, offsetLog, commitLog>>
    BY <1>1 DEF IcebergWrite, WriteEmpty, WriteAppended, WriteFailed, RunBatch, EndCallback,
                IcebergCrash, Crash, checkpoint
  <2> QED
    BY <1>1, <2>1, AppendIsStore
<1>2. CASE ResolveStart /\ UNCHANGED table
  BY <1>2, ResolveIsOpen
<1>3. CASE CommitBatch /\ UNCHANGED table
  BY <1>3, CommitIsAck
<1>4. CASE /\ UNCHANGED table
           /\ \/ Produce \/ Expire \/ Start \/ PlanBatch \/ ReadBatch
              \/ FailRead \/ Crash \/ IcebergWrite \/ UNCHANGED vars
  BY <1>4, QuietStep
<1> QED
  BY <1>1, <1>2, <1>3, <1>4
  DEF IcebergNext, QueryStep, IcebergCrash, icebergVars, IcebergWrite,
      WriteEmpty, WriteAppended, WriteFailed, TableAfterAttempt

(* The Iceberg table implements the promise of at-least-once delivery. *)
THEOREM ArchiveImplementsDelivery ==
    ASSUME ToleranceNum < ToleranceDen
    PROVE  IcebergSpec => ImplementsDelivery
<1>1. IcebergInit => Delivery!Init
  BY InitDelivery
<1>2. ArchiveInv /\ [IcebergNext]_icebergVars => [Delivery!Next]_(Delivery!vars)
  BY DeliveryStep
<1> QED
  BY <1>1, <1>2, ArchiveInvariant, PTL
  DEF IcebergSpec, ImplementsDelivery, Delivery!Spec

-----------------------------------------------------------------------------
(* Copies. None of this depends on the tolerance. *)

(* This driver has not appended the batch it is about to write. *)
NotYetAppended ==
    /\ phase # "down" => starts >= 1
    /\ phase \in {"planned", "writing"} => \A p \in BatchRows : table[p] < starts

CopiesInv ==
    /\ CheckpointInv
    /\ table \in [1..MaxEvents -> Nat]
    /\ EndsOrdered
    /\ NotYetAppended
    /\ CopiesBoundedByStarts
    /\ BatchAtomic

LEMMA KeptIsPosition == \A p \in KeptEvents : p \in 1..MaxEvents /\ p \in Int
  BY BoundsAssumption DEF KeptEvents

(* An append adds one copy to every row of the last batch and none elsewhere. *)
LEMMA AppendCopies ==
    ASSUME CopiesInv, phase = "writing", table' = Appended,
           UNCHANGED <<startPos, offsetLog, starts>>
    PROVE  CopiesBoundedByStarts' /\ BatchAtomic'
<1>1. /\ Len(offsetLog) \in 1..Len(offsetLog)
      /\ until = offsetLog[Len(offsetLog)]
      /\ from = BatchStart(Len(offsetLog))
      /\ startPos <= from
      /\ \A n \in 1..(Len(offsetLog) - 1) : offsetLog[n] <= from
  BY BatchIsLast DEF CopiesInv, BatchPhases
<1> USE CheckpointTypes DEF CopiesInv
<1>2. \A p \in 1..MaxEvents :
        table'[p] = IF p \in BatchRows THEN table[p] + 1 ELSE table[p]
  BY DEF Appended
<1>3. ASSUME NEW p \in 1..MaxEvents
      PROVE  /\ table'[p] <= starts
             /\ table'[p] > 0 => /\ offsetLog # <<>>
                                 /\ startPos < p
                                 /\ p <= offsetLog[Len(offsetLog)]
                                 /\ p \in KeptEvents
  <2>1. CASE p \in BatchRows
    <3>1. table[p] < starts /\ table[p] \in Nat
      BY <2>1 DEF NotYetAppended
    <3>2. p \in KeptEvents /\ from < p /\ p <= until /\ p \in Int
      BY <2>1, KeptIsPosition DEF BatchRows
    <3>3. table'[p] <= starts
      BY <1>2, <2>1, <3>1
    <3>4. offsetLog # <<>>
      BY <1>1
    <3> QED
      BY <1>1, <3>2, <3>3, <3>4
  <2>2. CASE p \notin BatchRows
    BY <1>2, <2>2 DEF CopiesBoundedByStarts
  <2> QED
    BY <2>1, <2>2
<1>4. ASSUME NEW n \in 1..Len(offsetLog),
             NEW p \in (BatchStart(n) + 1)..offsetLog[n],
             NEW q \in (BatchStart(n) + 1)..offsetLog[n],
             p \in KeptEvents, q \in KeptEvents
      PROVE  table'[p] = table'[q]
  <2>1. /\ p \in 1..MaxEvents /\ q \in 1..MaxEvents /\ table[p] = table[q]
        /\ p \in Int /\ q \in Int
    <3>1. table[p] = table[q]
      <4>1. BatchAtomic /\ {p, q} \subseteq KeptEvents
        BY <1>4
      <4> QED
        BY ONLY <4>1, n \in 1..Len(offsetLog), p \in (BatchStart(n) + 1)..offsetLog[n],
                q \in (BatchStart(n) + 1)..offsetLog[n]
           DEF BatchAtomic
    <3> QED
      BY <1>4, <3>1, KeptIsPosition
  <2>2. BatchStart(n) \in Int
    <3>1. startPos \in Int /\ \A m \in 1..Len(offsetLog) : offsetLog[m] \in Int
      BY CheckpointTypes
    <3>2. n # 1 => n - 1 \in 1..Len(offsetLog)
      BY Len(offsetLog) \in Nat
    <3> QED
      BY ONLY <3>1, <3>2 DEF BatchStart
  <2>3. CASE n = Len(offsetLog)
    <3>1. p \in KeptEvents /\ q \in KeptEvents /\ BatchStart(n) = from /\ offsetLog[n] = until
      BY <1>1, <1>4, <2>3
    <3>2. from < p /\ p <= until /\ from < q /\ q <= until
      BY ONLY <2>1, <2>2, <3>1, p \in (BatchStart(n) + 1)..offsetLog[n],
              q \in (BatchStart(n) + 1)..offsetLog[n]
    <3>3. p \in BatchRows /\ q \in BatchRows
      BY ONLY <3>1, <3>2 DEF BatchRows
    <3> QED
      BY <1>2, <2>1, <3>3
  <2>4. CASE n # Len(offsetLog)
    <3>1. n \in 1..(Len(offsetLog) - 1) /\ offsetLog[n] \in Int
      BY <2>4
    <3>2. offsetLog[n] <= from /\ from \in Int
      BY <1>1, <3>1
    <3>3. p <= from /\ q <= from
      BY ONLY <2>1, <2>2, <3>1, <3>2, p \in (BatchStart(n) + 1)..offsetLog[n],
              q \in (BatchStart(n) + 1)..offsetLog[n]
    <3>4. p \notin BatchRows /\ q \notin BatchRows
      BY ONLY <2>1, <3>2, <3>3 DEF BatchRows
    <3> QED
      BY <1>2, <2>1, <3>4
  <2> QED
    BY <2>3, <2>4
<1>5. CopiesBoundedByStarts'
  BY <1>3 DEF CopiesBoundedByStarts
<1>6. BatchAtomic'
  BY <1>4 DEF BatchAtomic, BatchStart
<1> QED
  BY <1>5, <1>6

(* The rows of a new batch have no copies. *)
LEMMA PlanCopies ==
    ASSUME CopiesInv, PlanBatch, UNCHANGED table
    PROVE  CopiesBoundedByStarts' /\ BatchAtomic' /\ NotYetAppended'
<1> USE CheckpointTypes DEF CopiesInv
<1>1. /\ offsetLog' = Append(offsetLog, until')
      /\ until' \in Nat /\ from <= until' /\ startPos <= from
      /\ from = BatchStart(Len(offsetLog) + 1)
      /\ \A n \in 1..Len(offsetLog) : offsetLog[n] <= from
  BY PlanIsBehind, PlanIsCapped
<1>2. /\ Len(offsetLog') = Len(offsetLog) + 1
      /\ offsetLog'[Len(offsetLog) + 1] = until'
      /\ \A n \in 1..Len(offsetLog) : offsetLog'[n] = offsetLog[n]
      /\ offsetLog' # <<>>
  BY <1>1
<1>3. UNCHANGED <<startPos, starts, from>> /\ phase' = "planned" /\ phase # "down"
  BY DEF PlanBatch
<1>4. ASSUME NEW p \in 1..MaxEvents, table[p] > 0
      PROVE  p <= from
  <2>1. Len(offsetLog) \in 1..Len(offsetLog) /\ p <= offsetLog[Len(offsetLog)]
    <3>1. offsetLog # <<>> /\ p <= offsetLog[Len(offsetLog)]
      BY <1>4 DEF CopiesBoundedByStarts
    <3>2. Len(offsetLog) # 0
      BY <3>1
    <3> QED
      BY <3>1, <3>2
  <2>2. offsetLog[Len(offsetLog)] <= from /\ offsetLog[Len(offsetLog)] \in Int
    BY <1>1, <2>1
  <2> QED
    BY <2>1, <2>2, BoundsAssumption
<1>5. CopiesBoundedByStarts'
  <2> SUFFICES ASSUME NEW p \in 1..MaxEvents
               PROVE  /\ table[p] <= starts
                      /\ table[p] > 0 => /\ startPos < p
                                         /\ p <= until'
                                         /\ p \in KeptEvents
    BY <1>2, <1>3 DEF CopiesBoundedByStarts
  <2>1. table[p] > 0 => p <= until'
    BY <1>1, <1>4, BoundsAssumption
  <2> QED
    BY <2>1 DEF CopiesBoundedByStarts
<1>6. ASSUME NEW p \in BatchRows' PROVE table[p] = 0
  <2>1. p \in 1..MaxEvents /\ p \in Int /\ from < p
    BY <1>3, KeptIsPosition DEF BatchRows
  <2>2. table[p] \in Nat /\ ~(table[p] > 0)
    BY <1>4, <2>1
  <2> QED
    BY <2>2
<1>7. NotYetAppended'
  <2>1. starts \in Nat /\ starts >= 1
    BY <1>3 DEF NotYetAppended
  <2> QED
    BY <1>3, <1>6, <2>1 DEF NotYetAppended
<1>8. BatchAtomic'
  <2> SUFFICES ASSUME NEW n \in 1..(Len(offsetLog) + 1),
                      NEW p \in (BatchStart(n)' + 1)..offsetLog'[n],
                      NEW q \in (BatchStart(n)' + 1)..offsetLog'[n],
                      p \in KeptEvents, q \in KeptEvents
               PROVE  table[p] = table[q]
    BY <1>2 DEF BatchAtomic
  <2>1. BatchStart(n)' = BatchStart(n)
    <3>1. CASE n = 1
      BY ONLY <1>3, <3>1 DEF BatchStart
    <3>2. CASE n # 1
      <4>1. n - 1 \in 1..Len(offsetLog) /\ n \in Int
        BY <3>2
      <4> QED
        BY ONLY <1>2, <3>2, <4>1 DEF BatchStart
    <3> QED
      BY <3>1, <3>2
  <2>2. CASE n \in 1..Len(offsetLog)
    BY <1>2, <2>1, <2>2 DEF BatchAtomic
  <2>3. CASE n = Len(offsetLog) + 1
    <3>1. from < p /\ from < q /\ p <= until' /\ q <= until'
      BY <1>1, <1>2, <2>1, <2>3, KeptIsPosition
    <3>2. p \in BatchRows' /\ q \in BatchRows'
      BY <1>3, <3>1 DEF BatchRows
    <3> QED
      BY <1>6, <3>2
  <2> QED
    BY <2>2, <2>3
<1> QED
  BY <1>5, <1>7, <1>8

(* Steps that append nothing and plan nothing. *)
LEMMA QuietCopies ==
    ASSUME CopiesInv, EndsOrdered', UNCHANGED <<table, startPos, offsetLog>>,
           starts' \in Nat, starts <= starts'
    PROVE  CopiesBoundedByStarts' /\ BatchAtomic'
<1> USE CheckpointTypes DEF CopiesInv
<1>1. CopiesBoundedByStarts'
  <2> SUFFICES ASSUME NEW p \in 1..MaxEvents
               PROVE  /\ table[p] <= starts'
                      /\ table[p] > 0 => /\ offsetLog # <<>>
                                         /\ startPos < p
                                         /\ p <= offsetLog[Len(offsetLog)]
                                         /\ p \in KeptEvents
    BY DEF CopiesBoundedByStarts
  <2>1. table[p] \in Nat /\ table[p] <= starts
    BY DEF CopiesBoundedByStarts
  <2> QED
    BY <2>1 DEF CopiesBoundedByStarts
<1>2. BatchAtomic'
  BY DEF BatchAtomic, BatchStart
<1> QED
  BY <1>1, <1>2

LEMMA CopiesInvStep ==
    ASSUME CopiesInv, [IcebergNext]_icebergVars
    PROVE  CopiesInv'
<1> USE CheckpointTypes DEF CopiesInv
<1>1. [Next]_vars
  BY IcebergStepIsQueryStep
<1>2. CheckpointInv' /\ EndsOrdered'
  BY <1>1, CheckpointInvStep, EndsOrderedStep
<1>3. table' \in {table, Appended}
  BY DEF IcebergNext, icebergVars, IcebergWrite, WriteEmpty, WriteAppended,
         WriteFailed, IcebergCrash, TableAfterAttempt
<1>4. table' \in [1..MaxEvents -> Nat]
  BY <1>3, AttemptAdds
<1>5. CASE IcebergWrite \/ IcebergCrash
  <2>1. /\ UNCHANGED <<startPos, offsetLog, starts>>
        /\ phase' \in {"returned", "down"}
        /\ phase # "down"
        /\ table' # table => phase = "writing"
    BY <1>3, <1>5
    DEF IcebergWrite, WriteEmpty, WriteAppended, WriteFailed, RunBatch, EndCallback,
        IcebergCrash, Crash, TableAfterAttempt, CanAppend, checkpoint
  <2>2. NotYetAppended'
    BY <2>1 DEF NotYetAppended
  <2>3. CopiesBoundedByStarts' /\ BatchAtomic'
    <3>1. CASE table' = table
      BY <1>2, <2>1, <3>1, QuietCopies
    <3>2. CASE table' # table
      BY <1>3, <2>1, <3>2, AppendCopies
    <3> QED
      BY <3>1, <3>2
  <2> QED
    BY <1>2, <1>4, <2>2, <2>3
<1>6. CASE PlanBatch /\ UNCHANGED table
  BY <1>2, <1>4, <1>6, PlanCopies
<1>7. CASE ResolveStart /\ UNCHANGED table
  <2>1. offsetLog = <<>> /\ UNCHANGED <<offsetLog, starts, phase>> /\ phase = "idle"
    BY <1>7 DEF ResolveStart, CheckpointInv, LogsAgree
  <2>2. \A p \in 1..MaxEvents : table[p] = 0
    BY <2>1 DEF CopiesBoundedByStarts
  <2>3. CopiesBoundedByStarts'
    BY <1>7, <2>1, <2>2 DEF CopiesBoundedByStarts
  <2>4. NotYetAppended'
    BY <2>1 DEF NotYetAppended
  <2>5. BatchAtomic'
    <3>1. 1..Len(offsetLog') = {}
      BY <2>1
    <3> QED
      BY <3>1 DEF BatchAtomic
  <2> QED
    BY <1>2, <1>4, <2>3, <2>4, <2>5
<1>8. CASE /\ UNCHANGED table
           /\ \/ Produce \/ Expire \/ Start \/ ReadBatch \/ FailRead \/ CommitBatch
              \/ UNCHANGED vars
  <2>1. /\ UNCHANGED <<startPos, offsetLog>>
        /\ starts' \in Nat /\ starts <= starts'
        /\ Start => starts < starts'
    BY <1>8 DEF Produce, Expire, Start, ReadBatch, FailRead, CommitBatch, checkpoint, vars
  <2>2. CopiesBoundedByStarts' /\ BatchAtomic'
    BY <1>2, <1>8, <2>1, QuietCopies
  <2>3. NotYetAppended'
    <3>1. CASE Start
      <4>1. \A p \in BatchRows' : table'[p] < starts'
        <5> SUFFICES ASSUME NEW p \in BatchRows'
                     PROVE  table[p] < starts'
          BY <1>8
        <5>1. p \in 1..MaxEvents
          BY KeptIsPosition DEF BatchRows
        <5>2. table[p] \in Nat /\ table[p] <= starts
          BY <5>1 DEF CopiesBoundedByStarts
        <5> QED
          BY <2>1, <3>1, <5>2
      <4>2. starts' >= 1
        BY <2>1, <3>1
      <4> QED
        BY <4>1, <4>2 DEF NotYetAppended
    <3>2. CASE Produce \/ Expire \/ ReadBatch \/ FailRead \/ CommitBatch \/ UNCHANGED vars
      <4>1. /\ starts' = starts
            /\ phase' # "down" => phase # "down"
            /\ phase' \in {"planned", "writing"} =>
                 phase \in {"planned", "writing"} /\ UNCHANGED <<from, until>>
        BY <3>2 DEF Produce, Expire, ReadBatch, FailRead, CommitBatch, driver, vars
      <4> QED
        BY <1>8, <4>1 DEF NotYetAppended, BatchRows
    <3> QED
      BY <1>8, <3>1, <3>2
  <2> QED
    BY <1>2, <1>4, <2>2, <2>3
<1> QED
  BY <1>5, <1>6, <1>7, <1>8 DEF IcebergNext, QueryStep, icebergVars

LEMMA InitCopiesInv == IcebergInit => CopiesInv
<1> SUFFICES ASSUME IcebergInit PROVE CopiesInv
  OBVIOUS
<1>1. CheckpointInv
  BY InitCheckpointInv DEF IcebergInit
<1>2. /\ offsetLog = <<>> /\ phase = "down" /\ starts = 0
      /\ table = [p \in 1..MaxEvents |-> 0]
  BY DEF IcebergInit, Init
<1>3. 1..Len(offsetLog) = {}
  BY <1>2
<1>4. EndsOrdered /\ BatchAtomic
  BY <1>3 DEF EndsOrdered, BatchAtomic
<1>5. NotYetAppended /\ CopiesBoundedByStarts
  BY <1>2 DEF NotYetAppended, CopiesBoundedByStarts
<1> QED
  BY <1>1, <1>2, <1>4, <1>5 DEF CopiesInv

LEMMA CopiesInvariant == IcebergSpec => []CopiesInv
<1>1. CopiesInv /\ [IcebergNext]_icebergVars => CopiesInv'
  BY CopiesInvStep
<1> QED
  BY <1>1, InitCopiesInv, PTL DEF IcebergSpec

(* A batch is in the archive as a whole or not at all, however often it was
   appended. *)
THEOREM ArchivedWhole == IcebergSpec => []BatchAtomic
<1>1. CopiesInv => BatchAtomic
  BY DEF CopiesInv
<1> QED
  BY <1>1, CopiesInvariant, PTL

(* Only restarts duplicate: no row has more copies than drivers were started,
   and none but the rows of planned batches is there at all. *)
THEOREM ArchivedOncePerStart == IcebergSpec => []CopiesBoundedByStarts
<1>1. CopiesInv => CopiesBoundedByStarts
  BY DEF CopiesInv
<1> QED
  BY <1>1, CopiesInvariant, PTL

=============================================================================
