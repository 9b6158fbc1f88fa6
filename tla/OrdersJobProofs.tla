-------------------------- MODULE OrdersJobProofs --------------------------
(***************************************************************************)
(* Proofs about OrdersJob for any number of sinks, stalled or not, records,*)
(* catalogs and drivers: every sink has what is behind its own offsets,    *)
(* what it has committed is final, and its query is a StreamingQuery,      *)
(* whatever the others do. The proofs go sink by sink: an action of one    *)
(* query leaves the part of every other as it is.                          *)
(***************************************************************************)
EXTENDS OrdersJob, TLAPS

BatchPhases == {"planned", "writing", "returned"}
Phases == {"down", "idle"} \union BatchPhases

(* The kinds of all variables; a driver that is up has a catalog, and no query
   runs without it. *)
JobTypes ==
    /\ produced \in 0..MaxEvents
    /\ catalog \in Nat \ {0}
    /\ driver \in {"down", "up"}
    /\ dim \in Nat
    /\ driver = "up" => dim > 0
    /\ startPos \in [Sinks -> Int]
    /\ offsetLog \in [Sinks -> Seq(Nat)]
    /\ commitLog \in [Sinks -> Nat]
    /\ phase \in [Sinks -> Phases]
    /\ rows \in [Sinks -> [1..MaxEvents -> Nat]]
    /\ DOMAIN result = Sinks /\ DOMAIN starts = Sinks
    /\ \A s \in Sinks : phase[s] # "down" => driver = "up"

(* The offsets of sink s agree with each other and with its query. *)
SinkOffsets(s) ==
    /\ startPos[s] \in {NoPos} \union 0..produced
    /\ startPos[s] = NoPos => offsetLog[s] = <<>>
    /\ commitLog[s] <= Len(offsetLog[s])
    /\ Len(offsetLog[s]) <= commitLog[s] + 1
    /\ CommittedEnd(s) \in Int /\ PlannedEnd(s) \in Int
    /\ startPos[s] <= CommittedEnd(s)
    /\ CommittedEnd(s) <= PlannedEnd(s)
    /\ PlannedEnd(s) <= produced
    /\ PlannedEnd(s) - CommittedEnd(s) <= MaxOffsetsPerTrigger
    /\ phase[s] \in BatchPhases => Len(offsetLog[s]) = commitLog[s] + 1
    /\ phase[s] = "idle" => Len(offsetLog[s]) = commitLog[s]

(* Sink s has the rows of what is committed, and of what its callback has
   returned from: a commit covers no row that is not there. *)
SinkRows(s) ==
    /\ \A p \in 1..MaxEvents : startPos[s] < p /\ p <= CommittedEnd(s) => rows[s][p] > 0
    /\ phase[s] = "returned" => \A p \in BatchEvents(s) \intersect 1..MaxEvents : rows[s][p] > 0

JobInv == JobTypes /\ \A s \in Sinks : SinkOffsets(s) /\ SinkRows(s)

-----------------------------------------------------------------------------
(* Lemmas. *)

LEMMA Bounds ==
    /\ MaxEvents \in Nat /\ MaxStarts \in Nat /\ MaxOffsetsPerTrigger \in Nat \ {0}
    /\ Len(SinkSeq) \in Nat
    /\ \A i \in 1..Len(SinkSeq) : SinkSeq[i] \in Sinks
    /\ \A s \in Sinks : \E i \in 1..Len(SinkSeq) : SinkSeq[i] = s
  BY JobAssumption DEF Sinks

LEMMA EndCapped ==
    ASSUME produced \in Nat, NEW first \in 0..produced
    PROVE  /\ BatchEnd(first) \in first..produced
           /\ BatchEnd(first) - first <= MaxOffsetsPerTrigger
  BY Bounds DEF BatchEnd

(* With no batch in doubt the planned end is the committed one. *)
LEMMA NothingPlanned ==
    ASSUME JobTypes, NEW s \in Sinks, Len(offsetLog[s]) = commitLog[s]
    PROVE  PlannedEnd(s) = CommittedEnd(s)
<1>1. offsetLog[s] \in Seq(Nat) /\ commitLog[s] \in Nat
  BY DEF JobTypes
<1>2. offsetLog[s] = <<>> <=> Len(offsetLog[s]) = 0
  BY <1>1
<1> QED
  BY <1>2 DEF PlannedEnd, CommittedEnd

(* The step leaves the checkpoint and the store of sink s alone. *)
Untouched(s) == UNCHANGED <<startPos[s], offsetLog[s], commitLog[s], rows[s]>>

(* A sink whose part is left alone, while its query stays or starts again. *)
LEMMA UntouchedSink ==
    ASSUME JobTypes, NEW s \in Sinks, SinkOffsets(s), SinkRows(s), Untouched(s),
           produced' \in Nat, produced <= produced',
           \/ phase'[s] \in {phase[s], "down"}
           \/ phase'[s] = "planned" /\ Len(offsetLog[s]) > commitLog[s]
           \/ phase'[s] = "idle" /\ Len(offsetLog[s]) <= commitLog[s]
           \/ phase'[s] = "writing" /\ phase[s] = "planned"
    PROVE  SinkOffsets(s)' /\ SinkRows(s)'
<1>1. CommittedEnd(s)' = CommittedEnd(s) /\ PlannedEnd(s)' = PlannedEnd(s)
  BY DEF Untouched, CommittedEnd, PlannedEnd
<1>2. BatchEvents(s)' = BatchEvents(s)
  BY <1>1 DEF BatchEvents
<1>3. /\ Len(offsetLog[s]) \in Nat /\ commitLog[s] \in Nat
      /\ startPos[s] \in Int /\ produced \in Nat
  BY Bounds DEF JobTypes
<1>4. SinkOffsets(s)'
  <2>1. UNCHANGED <<startPos[s], offsetLog[s], commitLog[s]>>
    BY DEF Untouched
  <2>2. startPos[s] \in {NoPos} \union 0..produced' /\ PlannedEnd(s) <= produced'
    BY <1>3 DEF SinkOffsets
  <2>3. /\ phase'[s] \in BatchPhases => Len(offsetLog[s]) = commitLog[s] + 1
        /\ phase'[s] = "idle" => Len(offsetLog[s]) = commitLog[s]
    BY <1>3 DEF SinkOffsets, BatchPhases
  <2>4. SinkOffsets(s)
    OBVIOUS
  <2> QED
    BY ONLY <1>1, <2>1, <2>2, <2>3, <2>4 DEF SinkOffsets
<1>5. SinkRows(s)'
  BY <1>1, <1>2 DEF SinkRows, Untouched
<1> QED
  BY <1>4, <1>5

-----------------------------------------------------------------------------
(* The actions of a query keep its sink's invariant. *)

LEMMA ResolveKeeps ==
    ASSUME JobTypes, NEW s \in Sinks, SinkOffsets(s), SinkRows(s), ResolveStart(s)
    PROVE  SinkOffsets(s)' /\ SinkRows(s)'
<1>1. /\ startPos[s] = NoPos /\ startPos'[s] = produced
      /\ offsetLog[s] = <<>> /\ commitLog[s] = 0
      /\ phase[s] = "idle"
      /\ UNCHANGED <<offsetLog, commitLog, phase, produced>>
      /\ produced \in Nat
  BY Bounds DEF ResolveStart, JobTypes, SinkOffsets
<1>2. CommittedEnd(s)' = produced /\ PlannedEnd(s)' = produced
  BY <1>1 DEF CommittedEnd, PlannedEnd
<1>3. SinkOffsets(s)'
  BY <1>1, <1>2, Bounds DEF SinkOffsets, BatchPhases
<1>4. SinkRows(s)'
  BY <1>1, <1>2 DEF SinkRows
<1> QED
  BY <1>3, <1>4

(* What a plan adds: a batch from the committed end, at most the cap long. *)
LEMMA PlanAdds ==
    ASSUME JobTypes, NEW s \in Sinks, SinkOffsets(s), PlanBatch(s)
    PROVE  /\ CommittedEnd(s)' = CommittedEnd(s)
           /\ PlannedEnd(s)' = BatchEnd(CommittedEnd(s))
           /\ CommittedEnd(s) \in 0..produced
           /\ offsetLog'[s] = Append(offsetLog[s], BatchEnd(CommittedEnd(s)))
           /\ BatchEnd(CommittedEnd(s)) \in CommittedEnd(s)..produced
           /\ BatchEnd(CommittedEnd(s)) - CommittedEnd(s) <= MaxOffsetsPerTrigger
<1>1. /\ phase[s] = "idle" /\ startPos[s] # NoPos
      /\ offsetLog'[s] = Append(offsetLog[s], BatchEnd(CommittedEnd(s)))
      /\ UNCHANGED <<startPos, commitLog>>
      /\ produced \in Nat /\ offsetLog[s] \in Seq(Nat) /\ commitLog[s] \in Nat
  BY Bounds DEF PlanBatch, JobTypes
<1>2. startPos[s] \in 0..produced /\ Len(offsetLog[s]) = commitLog[s]
  BY <1>1 DEF SinkOffsets
<1>3. CommittedEnd(s) \in 0..produced
  BY <1>1, <1>2 DEF SinkOffsets
<1>4. /\ BatchEnd(CommittedEnd(s)) \in CommittedEnd(s)..produced
      /\ BatchEnd(CommittedEnd(s)) - CommittedEnd(s) <= MaxOffsetsPerTrigger
  BY <1>1, <1>3, EndCapped
<1>5. CommittedEnd(s)' = CommittedEnd(s)
  BY <1>1, <1>2 DEF CommittedEnd
<1>6. offsetLog'[s] # <<>> /\ offsetLog'[s][Len(offsetLog'[s])] = BatchEnd(CommittedEnd(s))
  BY <1>1
<1>7. PlannedEnd(s)' = BatchEnd(CommittedEnd(s))
  BY <1>6 DEF PlannedEnd
<1> QED
  BY <1>1, <1>3, <1>4, <1>5, <1>7

LEMMA PlanKeeps ==
    ASSUME JobTypes, NEW s \in Sinks, SinkOffsets(s), SinkRows(s), PlanBatch(s)
    PROVE  SinkOffsets(s)' /\ SinkRows(s)'
<1>1. /\ phase[s] = "idle" /\ phase'[s] = "planned" /\ startPos[s] # NoPos
      /\ UNCHANGED <<startPos, commitLog, rows, produced>>
      /\ produced \in Nat /\ offsetLog[s] \in Seq(Nat) /\ commitLog[s] \in Nat
      /\ Len(offsetLog[s]) = commitLog[s]
  BY Bounds DEF PlanBatch, JobTypes, SinkOffsets
<1>2. Len(offsetLog'[s]) = commitLog[s] + 1
  BY <1>1, PlanAdds
<1>3. SinkOffsets(s)'
  BY <1>1, <1>2, PlanAdds DEF SinkOffsets
<1>4. SinkRows(s)'
  BY <1>1, PlanAdds DEF SinkRows
<1> QED
  BY <1>3, <1>4

(* A callback that succeeds writes the batch, one that fails raises. *)
LEMMA WriteKeeps ==
    ASSUME JobTypes, NEW s \in Sinks, SinkOffsets(s), SinkRows(s), WriteBatch(s)
    PROVE  SinkOffsets(s)' /\ SinkRows(s)'
<1>1. /\ phase[s] = "writing" /\ phase'[s] \in {"down", "returned"}
      /\ UNCHANGED <<startPos, offsetLog, commitLog, produced>>
      /\ rows'[s] \in {rows[s], Enriched(s)}
      /\ phase'[s] = "returned" => rows'[s] = Enriched(s)
      /\ dim \in Nat /\ dim > 0
  BY DEF WriteBatch, WriteDone, WriteFailed, JobTypes, checkpoints
<1>2. /\ CommittedEnd(s)' = CommittedEnd(s)
      /\ PlannedEnd(s)' = PlannedEnd(s)
      /\ BatchEvents(s)' = BatchEvents(s)
  BY <1>1 DEF CommittedEnd, PlannedEnd, BatchEvents
<1>3. SinkOffsets(s)'
  BY <1>1, <1>2 DEF SinkOffsets, BatchPhases
<1>4. ASSUME NEW p \in 1..MaxEvents, rows[s][p] > 0
      PROVE  rows'[s][p] > 0
  BY <1>1, <1>4 DEF Enriched
<1>5. ASSUME phase'[s] = "returned", NEW p \in BatchEvents(s) \intersect 1..MaxEvents
      PROVE  rows'[s][p] > 0
  BY <1>1, <1>5 DEF Enriched
<1> QED
  BY <1>1, <1>2, <1>3, <1>4, <1>5 DEF SinkRows

(* A commit covers the rows of the batch that has returned. *)
LEMMA CommitCovers ==
    ASSUME JobTypes, NEW s \in Sinks, SinkOffsets(s), CommitBatch(s)
    PROVE  /\ commitLog'[s] = commitLog[s] + 1
           /\ Len(offsetLog[s]) = commitLog[s] + 1
           /\ CommittedEnd(s)' = PlannedEnd(s)
           /\ PlannedEnd(s)' = PlannedEnd(s)
<1>1. /\ phase[s] = "returned" /\ commitLog'[s] = commitLog[s] + 1
      /\ UNCHANGED <<startPos, offsetLog>>
      /\ offsetLog[s] \in Seq(Nat) /\ commitLog[s] \in Nat
  BY DEF CommitBatch, JobTypes
<1>2. Len(offsetLog[s]) = commitLog[s] + 1
  BY <1>1 DEF SinkOffsets, BatchPhases
<1>3. offsetLog[s] # <<>>
  BY <1>1, <1>2
<1> QED
  BY <1>1, <1>2, <1>3 DEF CommittedEnd, PlannedEnd

LEMMA CommitKeeps ==
    ASSUME JobTypes, NEW s \in Sinks, SinkOffsets(s), SinkRows(s), CommitBatch(s)
    PROVE  SinkOffsets(s)' /\ SinkRows(s)'
<1>1. /\ phase[s] = "returned" /\ phase'[s] = "idle"
      /\ UNCHANGED <<startPos, offsetLog, rows, produced>>
      /\ offsetLog[s] \in Seq(Nat) /\ commitLog[s] \in Nat /\ startPos[s] \in Int
  BY DEF CommitBatch, JobTypes
<1>2. SinkOffsets(s)'
  <2>1. /\ commitLog'[s] = commitLog[s] + 1 /\ Len(offsetLog[s]) = commitLog[s] + 1
        /\ CommittedEnd(s)' = PlannedEnd(s) /\ PlannedEnd(s)' = PlannedEnd(s)
    BY CommitCovers
  <2>2. /\ PlannedEnd(s) \in Int /\ startPos[s] <= PlannedEnd(s)
        /\ PlannedEnd(s) <= PlannedEnd(s)
        /\ PlannedEnd(s) - PlannedEnd(s) <= MaxOffsetsPerTrigger
    BY <1>1, Bounds DEF SinkOffsets
  <2>3. /\ startPos[s] \in {NoPos} \union 0..produced
        /\ startPos[s] = NoPos => offsetLog[s] = <<>>
        /\ PlannedEnd(s) <= produced
    BY DEF SinkOffsets
  <2>4. phase'[s] \notin BatchPhases
    BY <1>1 DEF BatchPhases
  <2> QED
    BY ONLY <1>1, <2>1, <2>2, <2>3, <2>4 DEF SinkOffsets
<1>3. ASSUME NEW p \in 1..MaxEvents, startPos[s] < p, p <= PlannedEnd(s)
      PROVE  rows[s][p] > 0
  <2>1. CASE p <= CommittedEnd(s)
    BY <1>3, <2>1 DEF SinkRows
  <2>2. CASE ~(p <= CommittedEnd(s))
    <3>1. p \in BatchEvents(s)
      BY <1>3, <2>2 DEF BatchEvents, SinkOffsets
    <3> QED
      BY <1>1, <3>1 DEF SinkRows
  <2> QED
    BY <2>1, <2>2
<1>4. SinkRows(s)'
  BY <1>1, <1>3, CommitCovers DEF SinkRows
<1> QED
  BY <1>2, <1>4

-----------------------------------------------------------------------------
(* The job. *)

QueryAction(s) ==
    ResolveStart(s) \/ PlanBatch(s) \/ ReadBatch(s) \/ WriteBatch(s) \/ CommitBatch(s)

(* The step of one query touches no other sink, nor the driver. *)
LEMMA OthersUntouched ==
    ASSUME JobTypes, NEW s \in Sinks, QueryAction(s)
    PROVE  /\ UNCHANGED <<produced, catalog, driver, dim, launched, starts>>
           /\ \A t \in Sinks \ {s} : Untouched(t) /\ UNCHANGED <<phase[t], result[t]>>
<1> USE DEF JobTypes, Untouched, checkpoints
<1>1. CASE ResolveStart(s)
  BY <1>1 DEF ResolveStart
<1>2. CASE PlanBatch(s)
  BY <1>2 DEF PlanBatch
<1>3. CASE ReadBatch(s)
  BY <1>3 DEF ReadBatch
<1>4. CASE WriteBatch(s)
  BY <1>4 DEF WriteBatch, WriteDone, WriteFailed
<1>5. CASE CommitBatch(s)
  BY <1>5 DEF CommitBatch
<1> QED
  BY <1>1, <1>2, <1>3, <1>4, <1>5 DEF QueryAction

LEMMA QueryActionTypes ==
    ASSUME JobTypes, NEW s \in Sinks, SinkOffsets(s), QueryAction(s)
    PROVE  JobTypes'
<1>1. UNCHANGED <<produced, catalog, driver, dim>>
  BY OthersUntouched
<1>2. /\ \/ startPos' = startPos
         \/ startPos' = [startPos EXCEPT ![s] = produced]
      /\ \/ commitLog' = commitLog
         \/ commitLog' = [commitLog EXCEPT ![s] = commitLog[s] + 1]
      /\ \E q \in Phases : phase' = [phase EXCEPT ![s] = q]
      /\ phase[s] # "down"
  <2>1. CASE ResolveStart(s)
    BY <2>1 DEF ResolveStart, JobTypes, Phases
  <2>2. CASE ~ResolveStart(s)
    BY <2>2 DEF QueryAction, PlanBatch, ReadBatch, WriteBatch, WriteDone, WriteFailed,
                CommitBatch, checkpoints, Phases, BatchPhases
  <2> QED
    BY <2>1, <2>2
<1>3. startPos' \in [Sinks -> Int] /\ commitLog' \in [Sinks -> Nat]
  <2>1. produced \in Int /\ commitLog[s] + 1 \in Nat
    BY Bounds DEF JobTypes
  <2>2. startPos \in [Sinks -> Int] /\ commitLog \in [Sinks -> Nat]
    BY DEF JobTypes
  <2>3. startPos' \in [Sinks -> Int]
    BY <1>2, <2>1, <2>2
  <2>4. commitLog' \in [Sinks -> Nat]
    BY <1>2, <2>1, <2>2
  <2> QED
    BY <2>3, <2>4
<1>4. /\ phase' \in [Sinks -> Phases]
      /\ \A t \in Sinks : phase'[t] # "down" => driver = "up"
  BY <1>2 DEF JobTypes
<1>5. DOMAIN result' = Sinks /\ DOMAIN starts' = Sinks
  BY DEF JobTypes, QueryAction, ResolveStart, PlanBatch, ReadBatch, WriteBatch, WriteDone,
         WriteFailed, CommitBatch
<1>6. offsetLog' \in [Sinks -> Seq(Nat)]
  <2>1. CASE PlanBatch(s)
    <3>1. BatchEnd(CommittedEnd(s)) \in Nat
      BY <2>1, PlanAdds, Bounds DEF JobTypes
    <3>2. offsetLog[s] \in Seq(Nat)
      BY DEF JobTypes
    <3>3. Append(offsetLog[s], BatchEnd(CommittedEnd(s))) \in Seq(Nat)
      BY <3>1, <3>2
    <3> QED
      BY <2>1, <3>3 DEF PlanBatch, JobTypes
  <2>2. CASE ~PlanBatch(s)
    BY <2>2 DEF JobTypes, QueryAction, ResolveStart, ReadBatch, WriteBatch, WriteDone,
                WriteFailed, CommitBatch, checkpoints
  <2> QED
    BY <2>1, <2>2
<1>7. rows' \in [Sinks -> [1..MaxEvents -> Nat]]
  <2>1. Enriched(s) \in [1..MaxEvents -> Nat]
    BY DEF JobTypes, Enriched
  <2> QED
    <3>1. rows[s] \in [1..MaxEvents -> Nat]
      BY DEF JobTypes
    <3>2. \/ rows' = rows
          \/ \E r \in {rows[s], Enriched(s)} : rows' = [rows EXCEPT ![s] = r]
      BY DEF QueryAction, ResolveStart, PlanBatch, ReadBatch, WriteBatch, WriteDone,
             WriteFailed, CommitBatch
    <3> QED
      BY <2>1, <3>1, <3>2 DEF JobTypes
<1> QED
  BY <1>1, <1>3, <1>4, <1>5, <1>6, <1>7 DEF JobTypes

LEMMA QueryActionKeeps ==
    ASSUME JobInv, NEW s \in Sinks, QueryAction(s)
    PROVE  JobInv'
<1>1. JobTypes /\ SinkOffsets(s) /\ SinkRows(s)
  BY DEF JobInv
<1>2. SinkOffsets(s)' /\ SinkRows(s)'
  <2>1. CASE ReadBatch(s)
    <3>1. Untouched(s) /\ phase'[s] = "writing" /\ phase[s] = "planned" /\ produced' = produced
      BY <1>1, <2>1 DEF ReadBatch, Untouched, JobTypes, checkpoints
    <3>2. produced \in Nat
      BY <1>1, Bounds DEF JobTypes
    <3> QED
      BY <1>1, <3>1, <3>2, UntouchedSink
  <2> QED
    BY <1>1, <2>1, ResolveKeeps, PlanKeeps, WriteKeeps, CommitKeeps DEF QueryAction
<1>3. ASSUME NEW t \in Sinks \ {s}
      PROVE  SinkOffsets(t)' /\ SinkRows(t)'
  <2>1. Untouched(t) /\ phase'[t] = phase[t] /\ produced' = produced
    BY <1>1, OthersUntouched
  <2>2. produced \in Nat
    BY <1>1, Bounds DEF JobTypes
  <2>3. SinkOffsets(t) /\ SinkRows(t)
    BY DEF JobInv
  <2> QED
    BY <1>1, <2>1, <2>2, <2>3, UntouchedSink
<1> QED
  BY <1>1, <1>2, <1>3, QueryActionTypes DEF JobInv

(* The steps of the world and of the driver leave offsets and rows alone. *)
LEMMA DriverStepKeeps ==
    ASSUME JobInv,
           \/ Produce \/ UpdateCatalog \/ StartDriver \/ StartSink
           \/ AwaitAnyTermination \/ CrashDriver \/ UNCHANGED jobVars
    PROVE  JobInv'
<1>1. JobTypes'
  <2>1. CASE StartSink
    BY <2>1 DEF StartSink, JobInv, JobTypes, checkpoints, Phases, BatchPhases
  <2>2. CASE ~StartSink
    BY <2>2, Bounds DEF JobInv, JobTypes, Produce, UpdateCatalog, StartDriver, AwaitAnyTermination,
                CrashDriver, DriverDown, jobVars, checkpoints, Phases
  <2> QED
    BY <2>1, <2>2
<1>2. ASSUME NEW s \in Sinks
      PROVE  SinkOffsets(s)' /\ SinkRows(s)'
  <2>1. JobTypes /\ SinkOffsets(s) /\ SinkRows(s)
    BY DEF JobInv
  <2>2. produced' \in Nat /\ produced <= produced'
    BY Bounds DEF JobInv, JobTypes, Produce, UpdateCatalog, StartDriver, StartSink,
                  AwaitAnyTermination, CrashDriver, DriverDown, jobVars
  <2>3. UNCHANGED <<startPos[s], offsetLog[s], commitLog[s], rows[s]>>
    BY DEF Produce, UpdateCatalog, StartDriver, StartSink, AwaitAnyTermination,
           CrashDriver, DriverDown, jobVars, checkpoints
  <2>4. \/ phase'[s] \in {phase[s], "down"}
        \/ phase'[s] = "planned" /\ Len(offsetLog[s]) > commitLog[s]
        \/ phase'[s] = "idle" /\ Len(offsetLog[s]) <= commitLog[s]
    <3>1. CASE StartSink
      <4>1. /\ phase \in [Sinks -> Phases]
            /\ Len(offsetLog[s]) \in Nat /\ commitLog[s] \in Nat
        BY DEF JobInv, JobTypes
      <4> QED
        BY <3>1, <4>1 DEF StartSink
    <3>2. CASE ~StartSink
      BY <3>2 DEF Produce, UpdateCatalog, StartDriver, AwaitAnyTermination, CrashDriver,
                  DriverDown, jobVars
    <3> QED
      BY <3>1, <3>2
  <2> QED
    BY <2>1, <2>2, <2>3, <2>4, UntouchedSink DEF Untouched
<1> QED
  BY <1>1, <1>2 DEF JobInv

LEMMA JobInvStep == JobInv /\ [Next]_jobVars => JobInv'
  BY QueryActionKeeps, DriverStepKeeps DEF Next, QueryAction

LEMMA JobInvariant == Spec => []JobInv
<1>1. Init => JobInv
  <2> SUFFICES ASSUME Init PROVE JobInv
    OBVIOUS
  <2>1. JobTypes
    BY Bounds DEF Init, JobTypes, Phases, NoPos
  <2>2. ASSUME NEW s \in Sinks
        PROVE  SinkOffsets(s) /\ SinkRows(s)
    <3>1. CommittedEnd(s) = -1 /\ PlannedEnd(s) = -1 /\ Len(offsetLog[s]) = 0
      BY DEF Init, CommittedEnd, PlannedEnd, NoPos
    <3>2. /\ startPos[s] = NoPos /\ offsetLog[s] = <<>> /\ commitLog[s] = 0
          /\ phase[s] = "down" /\ produced = 0
      BY DEF Init
    <3> QED
      BY <3>1, <3>2, Bounds DEF SinkOffsets, SinkRows, BatchPhases, NoPos
  <2> QED
    BY <2>1, <2>2 DEF JobInv
<1>2. JobInv /\ [Next]_jobVars => JobInv'
  BY JobInvStep
<1> QED
  BY <1>1, <1>2, PTL DEF Spec

(* Every sink has every event behind its own committed offsets, whichever query
   failed and took the others down in the middle of their batches. *)
THEOREM EverySinkAtLeastOnce == Spec => []FanOutAtLeastOnce
<1>1. JobInv => FanOutAtLeastOnce
  BY DEF JobInv, SinkRows, FanOutAtLeastOnce
<1> QED
  BY <1>1, JobInvariant, PTL

(* Once a sink's batch is committed its rows are final: no restart, of whatever
   query, has a later driver write them again with another catalog. *)
THEOREM CommittedRowsStay == Spec => CommittedRowsAreFinal
<1> DEFINE Kept ==
      \A s \in Sinks, p \in 1..MaxEvents :
          startPos[s] < p /\ p <= CommittedEnd(s) => rows'[s][p] = rows[s][p]
<1>1. JobInv /\ [Next]_jobVars => [Kept]_jobVars
  <2> SUFFICES ASSUME JobInv, [Next]_jobVars, NEW s \in Sinks, NEW p \in 1..MaxEvents,
                      p <= CommittedEnd(s)
               PROVE  rows'[s][p] = rows[s][p]
    OBVIOUS
  <2>1. CASE \E t \in Sinks : WriteBatch(t)
    <3>1. PICK t \in Sinks : WriteBatch(t)
      BY <2>1
    <3>2. CASE t = s
      <4>1. rows'[s] \in {rows[s], Enriched(s)}
        BY <3>1, <3>2 DEF WriteBatch, WriteDone, WriteFailed, JobInv, JobTypes
      <4>2. p \notin BatchEvents(s)
        BY DEF BatchEvents, JobInv, SinkOffsets
      <4> QED
        BY <4>1, <4>2 DEF Enriched
    <3>3. CASE t # s
      BY <3>1, <3>3, OthersUntouched DEF QueryAction, Untouched, JobInv
    <3> QED
      BY <3>2, <3>3
  <2>2. CASE ~\E t \in Sinks : WriteBatch(t)
    BY <2>2 DEF Next, Produce, UpdateCatalog, StartDriver, StartSink, AwaitAnyTermination,
                CrashDriver, DriverDown, ResolveStart, PlanBatch, ReadBatch, CommitBatch,
                jobVars
  <2> QED
    BY <2>1, <2>2
<1> QED
  BY <1>1, JobInvariant, PTL DEF Spec, CommittedRowsAreFinal

-----------------------------------------------------------------------------
(* Every query of the job is a StreamingQuery. *)

(* The job has each sink once. *)
Distinct ==
    \A i, j \in 1..Len(SinkSeq) : SinkSeq[i] = SinkSeq[j] => i = j

(* Only launched queries run, so that a sink is not started twice; those still
   to be launched have a start left. *)
LaunchInv ==
    /\ launched \in 0..Len(SinkSeq)
    /\ \A i \in 1..Len(SinkSeq) :
          /\ phase[SinkSeq[i]] # "down" => i <= launched
          /\ driver = "up" /\ i > launched => starts[SinkSeq[i]] < MaxStarts

LEMMA LaunchInvStep ==
    ASSUME Distinct, JobInv, LaunchInv, [Next]_jobVars
    PROVE  LaunchInv'
<1>1. CASE \E s \in Sinks : QueryAction(s)
  <2>1. PICK s \in Sinks : QueryAction(s)
    BY <1>1
  <2>2. UNCHANGED <<driver, launched, starts>>
    BY <2>1, OthersUntouched DEF JobInv
  <2>3. phase[s] # "down"
    BY <2>1 DEF QueryAction, ResolveStart, PlanBatch, ReadBatch, WriteBatch, WriteDone,
                WriteFailed, CommitBatch
  <2>4. \A t \in Sinks : phase'[t] # "down" => phase[t] # "down"
    BY <2>1, <2>3, OthersUntouched DEF JobInv
  <2> QED
    BY <2>2, <2>4, Bounds DEF LaunchInv
<1>2. CASE StartSink
  <2>1. launched' = launched + 1 /\ launched' \in 1..Len(SinkSeq) /\ driver' = driver
    BY <1>2, Bounds DEF StartSink, LaunchInv
  <2>2. ASSUME NEW i \in 1..Len(SinkSeq), i # launched + 1
        PROVE  UNCHANGED <<phase[SinkSeq[i]], starts[SinkSeq[i]]>>
    <3>1. SinkSeq[i] # SinkSeq[launched + 1] /\ SinkSeq[i] \in Sinks
      BY <2>1, <2>2, Bounds DEF Distinct
    <3> QED
      BY <1>2, <3>1 DEF StartSink, JobInv, JobTypes
  <2>3. ASSUME NEW i \in 1..Len(SinkSeq)
        PROVE  /\ phase'[SinkSeq[i]] # "down" => i <= launched'
               /\ driver' = "up" /\ i > launched' => starts'[SinkSeq[i]] < MaxStarts
    <3>1. launched \in Nat
      BY Bounds DEF LaunchInv
    <3>2. CASE i = launched + 1
      BY <2>1, <3>1, <3>2
    <3>3. CASE i # launched + 1
      BY <2>1, <2>2, <3>1, <3>3 DEF LaunchInv
    <3> QED
      BY <3>2, <3>3
  <2> QED
    BY <2>1, <2>3, Bounds DEF LaunchInv
<1>3. CASE StartDriver
  <2>1. \A s \in Sinks : phase[s] = "down" /\ starts[s] < MaxStarts
    BY <1>3 DEF StartDriver, JobInv, JobTypes
  <2> QED
    BY <1>3, <2>1, Bounds DEF StartDriver, LaunchInv
<1>4. CASE DriverDown
  BY <1>4, Bounds DEF DriverDown, LaunchInv
<1>5. CASE Produce \/ UpdateCatalog \/ UNCHANGED jobVars
  BY <1>5 DEF Produce, UpdateCatalog, jobVars, LaunchInv
<1> QED
  BY <1>1, <1>2, <1>3, <1>4, <1>5 DEF Next, QueryAction, AwaitAnyTermination, CrashDriver

LEMMA InitIsQueryInit == Init => \A s \in Sinks : Query(s)!Init
  BY DEF Init, Query!Init, Query!NoPos, NoPos, CommittedEnd, PlannedEnd

(* The query of a sink does not see the steps that leave its part alone. *)
LEMMA UnseenByQuery ==
    ASSUME NEW s \in Sinks, Untouched(s), UNCHANGED <<phase[s], result[s], starts[s], produced>>
    PROVE  UNCHANGED Query(s)!vars
  BY DEF Untouched, CommittedEnd, PlannedEnd, Query!vars

LEMMA QueryActionIsQueryStep ==
    ASSUME JobInv, NEW s \in Sinks, QueryAction(s)
    PROVE  Query(s)!Next
<1> USE DEF Query!topic, Query!checkpoint, Query!driver
<1>1. /\ JobTypes /\ SinkOffsets(s)
      /\ commitLog[s] \in Nat /\ offsetLog[s] \in Seq(Nat) /\ startPos[s] \in Int
      /\ UNCHANGED <<produced, starts>>
  BY OthersUntouched DEF JobInv, JobTypes
<1>2. CASE ResolveStart(s)
  <2>1. offsetLog[s] = <<>> /\ commitLog[s] = 0 /\ startPos'[s] = produced
    BY <1>1, <1>2 DEF ResolveStart, SinkOffsets, JobTypes
  <2>2. CommittedEnd(s)' = produced /\ PlannedEnd(s)' = produced
    BY <1>2, <2>1 DEF ResolveStart, CommittedEnd, PlannedEnd
  <2>3. Query(s)!ResolveStart
    BY <1>1, <1>2, <2>1, <2>2 DEF ResolveStart, NoPos, Query!ResolveStart, Query!NoPos
  <2> QED
    BY <2>3 DEF Query!Next, Query!QueryStep
<1>3. CASE PlanBatch(s)
  <2>1. Len(offsetLog[s]) = commitLog[s]
    BY <1>1, <1>3 DEF PlanBatch, SinkOffsets
  <2>2. offsetLog[s] = <<>> => commitLog[s] + 1 = 1
    BY <1>1, <2>1
  <2>3. Query(s)!BatchEnd(CommittedEnd(s)) = BatchEnd(CommittedEnd(s))
    BY DEF BatchEnd, Query!BatchEnd
  <2>4. phase'[s] = "planned" /\ UNCHANGED <<startPos, commitLog, result>>
    BY <1>1, <1>3 DEF PlanBatch, JobTypes
  <2>5. Query(s)!PlanBatch
    BY <1>1, <1>3, <2>2, <2>3, <2>4, PlanAdds
    DEF PlanBatch, NoPos, Query!PlanBatch, Query!NoPos
  <2> QED
    BY <2>5 DEF Query!Next, Query!QueryStep
<1>4. CASE ReadBatch(s)
  <2>1. startPos[s] # NoPos
    BY <1>1, <1>4 DEF ReadBatch, SinkOffsets, BatchPhases
  <2>2. ~(CommittedEnd(s) < 0)
    BY <1>1, <2>1 DEF SinkOffsets
  <2>3. /\ Untouched(s) /\ UNCHANGED <<commitLog, result>>
        /\ CommittedEnd(s)' = CommittedEnd(s) /\ PlannedEnd(s)' = PlannedEnd(s)
        /\ phase'[s] = "writing"
    BY <1>1, <1>4 DEF ReadBatch, Untouched, checkpoints, CommittedEnd, PlannedEnd, JobTypes
  <2>4. Query(s)!ReadBatch
    BY <1>1, <1>4, <2>2, <2>3
    DEF ReadBatch, Untouched, Query!ReadBatch, Query!DataLost
  <2> QED
    BY <2>4 DEF Query!Next, Query!QueryStep
<1>5. CASE WriteBatch(s)
  <2>1. /\ phase[s] = "writing"
        /\ UNCHANGED <<startPos, offsetLog, commitLog>>
        /\ CommittedEnd(s)' = CommittedEnd(s) /\ PlannedEnd(s)' = PlannedEnd(s)
    BY <1>5 DEF WriteBatch, WriteDone, WriteFailed, checkpoints, CommittedEnd, PlannedEnd
  <2>2. BatchSize(s) \in 0..MaxOffsetsPerTrigger
    BY <1>1, Bounds DEF BatchSize, SinkOffsets
  <2>3. PICK w, f \in 0..MaxOffsetsPerTrigger :
            /\ w + f = BatchSize(s)
            /\ result'[s] = [written |-> w, failed |-> f]
            /\ phase'[s] = IF f > 0 THEN "down" ELSE "returned"
    <3>1. CASE WriteDone(s)
      BY <1>1, <2>2, <3>1, Bounds DEF WriteDone, JobTypes
    <3>2. CASE WriteFailed(s)
      BY <1>1, <2>2, <3>2, Bounds DEF WriteFailed, JobTypes
    <3> QED
      BY <1>5, <3>1, <3>2 DEF WriteBatch
  <2>4. Query(s)!ExceedsTolerance(w, f) <=> f > 0
    BY <2>3, Bounds DEF Query!ExceedsTolerance
  <2>5. Query(s)!RunBatch(w, f)
    BY <1>1, <2>1, <2>2, <2>3, <2>4 DEF BatchSize, Query!RunBatch, Query!EndCallback
  <2> QED
    BY <2>3, <2>5 DEF Query!Next, Query!WriteBatch, Query!BatchSizes
<1>6. CASE CommitBatch(s)
  <2>1. /\ phase[s] = "returned" /\ phase'[s] = "idle"
        /\ UNCHANGED <<startPos, offsetLog, result>>
    BY <1>1, <1>6 DEF CommitBatch, JobTypes
  <2>2. Query(s)!CommitBatch
    BY <1>1, <1>6, <2>1, CommitCovers DEF Query!CommitBatch
  <2> QED
    BY <2>2 DEF Query!Next, Query!QueryStep
<1> QED
  BY <1>2, <1>3, <1>4, <1>5, <1>6 DEF QueryAction

(* Launching a query reads the checkpoint of its sink. *)
LEMMA LaunchIsStart ==
    ASSUME JobInv, LaunchInv, StartSink, NEW s \in Sinks, s = SinkSeq[launched + 1]
    PROVE  Query(s)!Start
<1>1. /\ JobTypes /\ SinkOffsets(s)
      /\ commitLog[s] \in Nat /\ offsetLog[s] \in Seq(Nat)
      /\ launched + 1 \in 1..Len(SinkSeq) /\ launched + 1 > launched
  <2>1. launched \in 0..Len(SinkSeq) /\ launched < Len(SinkSeq) /\ Len(SinkSeq) \in Nat
    BY Bounds DEF LaunchInv, StartSink
  <2>2. JobTypes /\ SinkOffsets(s)
    BY DEF JobInv
  <2> QED
    BY <2>1, <2>2 DEF JobTypes
<1>2. phase[s] = "down" /\ starts[s] < MaxStarts
  BY <1>1 DEF LaunchInv, StartSink
<1>3. /\ UNCHANGED <<produced, startPos, offsetLog, commitLog, result>>
      /\ starts'[s] = starts[s] + 1
      /\ phase'[s] = IF Len(offsetLog[s]) > commitLog[s] THEN "planned" ELSE "idle"
  BY <1>1 DEF StartSink, JobTypes, checkpoints
<1>4. CommittedEnd(s)' = CommittedEnd(s) /\ PlannedEnd(s)' = PlannedEnd(s)
  BY <1>3 DEF CommittedEnd, PlannedEnd
<1>5. CASE Len(offsetLog[s]) > commitLog[s]
  <2>1. Len(offsetLog[s]) = commitLog[s] + 1 /\ offsetLog[s] # <<>>
    <3>1. Len(offsetLog[s]) <= commitLog[s] + 1 /\ Len(offsetLog[s]) \in Nat
      BY <1>1 DEF SinkOffsets
    <3>2. Len(offsetLog[s]) = commitLog[s] + 1
      BY <1>1, <1>5, <3>1
    <3> QED
      BY ONLY <1>1, <3>2
  <2>2. Query(s)!BatchStart(Len(offsetLog[s])) = CommittedEnd(s)
    BY <1>1, <2>1 DEF CommittedEnd, Query!BatchStart
  <2>3. PlannedEnd(s) = offsetLog[s][Len(offsetLog[s])]
    BY <2>1 DEF PlannedEnd
  <2> QED
    BY <1>2, <1>3, <1>4, <1>5, <2>1, <2>2, <2>3
    DEF Query!Start, Query!topic, Query!checkpoint
<1>6. CASE Len(offsetLog[s]) = commitLog[s]
  <2>1. PlannedEnd(s) = CommittedEnd(s)
    BY <1>1, <1>6, NothingPlanned
  <2>2. Query(s)!CommittedEnd = CommittedEnd(s)
    BY DEF CommittedEnd, Query!CommittedEnd
  <2>3. phase'[s] = "idle"
    BY <1>1, <1>3, <1>6
  <2> QED
    BY <1>2, <1>3, <1>4, <1>6, <2>1, <2>2, <2>3
    DEF Query!Start, Query!topic, Query!checkpoint
<1> QED
  BY <1>1, <1>5, <1>6 DEF SinkOffsets

LEMMA JobStepIsQueryStep ==
    ASSUME JobInv, LaunchInv, [Next]_jobVars, NEW s \in Sinks
    PROVE  [Query(s)!Next]_(Query(s)!vars)
<1>1. CASE \E t \in Sinks : QueryAction(t)
  <2>1. PICK t \in Sinks : QueryAction(t)
    BY <1>1
  <2>2. CASE t = s
    BY <2>1, <2>2, QueryActionIsQueryStep
  <2>3. CASE t # s
    <3>1. Untouched(s) /\ UNCHANGED <<phase[s], result[s], starts[s], produced>>
      BY <2>1, <2>3, OthersUntouched DEF JobInv
    <3> QED
      BY <3>1, UnseenByQuery
  <2> QED
    BY <2>2, <2>3
<1>2. CASE StartSink
  <2>1. CASE s = SinkSeq[launched + 1]
    BY <1>2, <2>1, LaunchIsStart DEF Query!Next, Query!QueryStep
  <2>2. CASE s # SinkSeq[launched + 1]
    <3>1. Untouched(s) /\ UNCHANGED <<phase[s], result[s], starts[s], produced>>
      BY <1>2, <2>2 DEF StartSink, Untouched, JobInv, JobTypes, checkpoints
    <3> QED
      BY <3>1, UnseenByQuery
  <2> QED
    BY <2>1, <2>2
<1>3. CASE DriverDown
  <2>1. Untouched(s) /\ phase'[s] = "down" /\ UNCHANGED <<result[s], starts[s], produced>>
    BY <1>3 DEF DriverDown, Untouched, checkpoints
  <2>2. CASE phase[s] = "down"
    BY <2>1, <2>2, UnseenByQuery
  <2>3. CASE phase[s] # "down"
    <3>1. Query(s)!Crash
      BY <2>1, <2>3 DEF Untouched, CommittedEnd, PlannedEnd, Query!Crash, Query!topic,
                        Query!checkpoint
    <3> QED
      BY <3>1 DEF Query!Next
  <2> QED
    BY <2>2, <2>3
<1>4. CASE Produce
  <2>1. Untouched(s) /\ UNCHANGED <<phase[s], result[s], starts[s]>>
    BY <1>4 DEF Produce, Untouched, checkpoints
  <2>2. Query(s)!Produce
    BY <1>4, <2>1 DEF Produce, Untouched, CommittedEnd, PlannedEnd, Query!Produce,
                      Query!checkpoint, Query!driver
  <2> QED
    BY <2>2 DEF Query!Next, Query!QueryStep
<1>5. CASE UpdateCatalog \/ StartDriver \/ UNCHANGED jobVars
  <2>1. Untouched(s) /\ UNCHANGED <<phase[s], result[s], starts[s], produced>>
    BY <1>5 DEF UpdateCatalog, StartDriver, jobVars, Untouched, checkpoints
  <2> QED
    BY <2>1, UnseenByQuery
<1> QED
  BY <1>1, <1>2, <1>3, <1>4, <1>5 DEF Next, QueryAction, AwaitAnyTermination, CrashDriver

(* The query of each sink, seen alone, is a StreamingQuery: the others neither
   keep it from a step nor give it one, whatever they share with it. *)
THEOREM JobImplementsQueries ==
    ASSUME Distinct
    PROVE  Spec => ImplementsQueries
<1> DEFINE QueryInits == \A s \in Sinks : Query(s)!Init
           QuerySteps == \A s \in Sinks : [Query(s)!Next]_(Query(s)!vars)
<1>1. Init => QueryInits /\ LaunchInv
  <2>1. Init => LaunchInv
    BY Bounds DEF Init, LaunchInv
  <2> QED
    BY <2>1, InitIsQueryInit
<1>2. JobInv /\ LaunchInv /\ [Next]_jobVars => LaunchInv'
  BY LaunchInvStep
<1>3. JobInv /\ LaunchInv /\ [Next]_jobVars => [QuerySteps]_jobVars
  BY JobStepIsQueryStep
<1>4. ImplementsQueries <=> QueryInits /\ [][QuerySteps]_jobVars
  BY DEF ImplementsQueries
<1> HIDE DEF QueryInits, QuerySteps
<1> QED
  BY <1>1, <1>2, <1>3, <1>4, JobInvariant, PTL DEF Spec

=============================================================================
