------------------------ MODULE StreamingQueryProofs ------------------------
(***************************************************************************)
(* Proofs about StreamingQuery for every topic length, batch cap, number   *)
(* of restarts and tolerance: the checkpoint protocol is an inductive      *)
(* invariant, and what the checkpoint has recorded is never revised.       *)
(***************************************************************************)
EXTENDS StreamingQuery, TLAPS

(* Every batch of the offset log respects the cap: BatchesBounded is not
   inductive alone, as a restart runs a batch it takes from the log. *)
LoggedBatchesBounded ==
    \A n \in 1..Len(offsetLog) :
        offsetLog[n] - BatchStart(n) <= MaxOffsetsPerTrigger

(* The types of the topic, the checkpoint and the driver: all but the result
   of a callback, which counts records in some jobs and windows in others. *)
LogTypes ==
    /\ produced \in 0..MaxEvents
    /\ expired \in 0..produced
    /\ startPos \in {NoPos} \union (0..produced)
    /\ offsetLog \in Seq(Nat)
    /\ commitLog \in Nat
    /\ phase \in Phases
    /\ batch \in Nat
    /\ from \in {NoPos} \union (0..produced)
    /\ until \in {NoPos} \union (0..produced)
    /\ starts \in 0..MaxStarts

(* The inductive invariant of the checkpoint protocol. *)
CheckpointInv ==
    /\ LogTypes
    /\ LogsAgree
    /\ DriverFollowsCheckpoint
    /\ LoggedBatchesBounded

(* A batch is planned up to some position within the cap, also up to the one
   it begins at, as the no-data batches of a stateful query are. *)
PlanUpTo(end) ==
    /\ phase = "idle"
    /\ startPos # NoPos
    /\ end \in from..produced
    /\ end - from <= MaxOffsetsPerTrigger
    /\ until' = end
    /\ offsetLog' = Append(offsetLog, end)
    /\ phase' = "planned"
    /\ UNCHANGED <<topic, startPos, commitLog, batch, from, result, starts>>

Plan == \E end \in Nat : PlanUpTo(end)
Callback == \E w, f : EndCallback(w, f)

(* The steps the checkpoint protocol is safe under: those of a query whatever
   its batches hold. *)
CheckpointNext ==
    \/ Produce
    \/ Expire
    \/ Start
    \/ ResolveStart
    \/ Plan
    \/ ReadBatch
    \/ FailRead
    \/ Callback
    \/ CommitBatch
    \/ Crash

-----------------------------------------------------------------------------
(* Lemmas. *)

(* Where the committed part ends is a position of the topic once the start
   position is known. *)
LEMMA CommittedEndType ==
    ASSUME LogTypes, LogsAgree
    PROVE  /\ CommittedEnd \in {NoPos} \union (0..produced)
           /\ startPos # NoPos => CommittedEnd \in 0..produced
           /\ CommittedEnd # NoPos => startPos # NoPos
<1>1. CASE commitLog = 0
  BY <1>1 DEF LogTypes, CommittedEnd, NoPos
<1>2. CASE commitLog # 0
  <2>1. commitLog \in 1..Len(offsetLog)
    BY <1>2 DEF LogTypes, LogsAgree
  <2>2. offsetLog[commitLog] \in 0..produced
    BY <2>1 DEF LogTypes, LogsAgree
  <2>3. startPos # NoPos
    BY <2>1 DEF LogsAgree
  <2> QED
    BY <1>2, <2>2, <2>3 DEF CommittedEnd, NoPos, LogTypes
<1> QED
  BY <1>1, <1>2

(* Where a batch begins is where the batches before it end. *)
LEMMA NextBatchStart ==
    ASSUME LogTypes, LogsAgree
    PROVE  BatchStart(commitLog + 1) = CommittedEnd
  BY DEF LogTypes, BatchStart, CommittedEnd

(* The cap yields an end between the start and the end of the topic, at most
   a whole batch away. *)
LEMMA BatchEndCapped ==
    ASSUME LogTypes, NEW first \in 0..produced
    PROVE  /\ BatchEnd(first) \in first..produced
           /\ BatchEnd(first) - first <= MaxOffsetsPerTrigger
  BY TriggerAssumption DEF LogTypes, BatchEnd

-----------------------------------------------------------------------------
(* The invariant. *)

LEMMA InitCheckpointInv == Init => CheckpointInv
  BY BoundsAssumption, TriggerAssumption
  DEF Init, CheckpointInv, LogTypes, LogsAgree, DriverFollowsCheckpoint,
      LoggedBatchesBounded, Results, BatchSizes, Phases, BatchPhases, NoPos

(* The topic grows or loses its oldest record: the checkpoint is untouched. *)
LEMMA TopicStep ==
    ASSUME CheckpointInv, Produce \/ Expire
    PROVE  CheckpointInv'
<1>1. /\ produced' \in 0..MaxEvents
      /\ produced <= produced'
      /\ expired' \in 0..produced'
      /\ UNCHANGED <<startPos, offsetLog, commitLog, phase, batch, from, until,
                     result, starts>>
  BY BoundsAssumption
  DEF CheckpointInv, LogTypes, Produce, Expire, checkpoint, driver
<1>2. LogTypes'
  BY <1>1, BoundsAssumption DEF CheckpointInv, LogTypes
<1>3. LogsAgree'
  <2>1. \A n \in 1..Len(offsetLog) : offsetLog[n] \in Nat
    BY DEF CheckpointInv, LogTypes
  <2>2. produced \in Int /\ produced' \in Int /\ LogsAgree
    BY <1>1, BoundsAssumption DEF CheckpointInv, LogTypes
  <2>3. ASSUME NEW n \in 1..Len(offsetLog)
        PROVE  BatchStart(n) <= offsetLog[n] /\ offsetLog[n] <= produced'
    BY <1>1, <2>1, <2>2 DEF LogsAgree
  <2>4. \A n : BatchStart(n)' = BatchStart(n)
    BY <1>1 DEF BatchStart
  <2> QED
    BY ONLY <1>1, <2>2, <2>3, <2>4 DEF LogsAgree
<1>4. DriverFollowsCheckpoint'
  BY <1>1 DEF CheckpointInv, DriverFollowsCheckpoint, BatchPhases, CommittedEnd
<1>5. LoggedBatchesBounded'
  BY <1>1 DEF CheckpointInv, LoggedBatchesBounded, BatchStart
<1> QED
  BY <1>2, <1>3, <1>4, <1>5 DEF CheckpointInv

LEMMA StartStep ==
    ASSUME CheckpointInv, Start
    PROVE  CheckpointInv'
<1>1. /\ UNCHANGED <<produced, expired, startPos, offsetLog, commitLog, result>>
      /\ starts' \in 0..MaxStarts
  BY BoundsAssumption DEF Start, topic, checkpoint, CheckpointInv, LogTypes
<1>2. /\ LogsAgree'
      /\ LoggedBatchesBounded'
      /\ CommittedEnd' = CommittedEnd
  BY <1>1 DEF CheckpointInv, LogsAgree, LoggedBatchesBounded, BatchStart,
              CommittedEnd
<1>3. CASE Len(offsetLog) > commitLog
  <2>1. /\ commitLog \in Nat
        /\ Len(offsetLog) = commitLog + 1
    BY <1>3 DEF CheckpointInv, LogTypes, LogsAgree
  <2>2. /\ phase' = "planned"
        /\ batch' = commitLog + 1
        /\ from' = BatchStart(commitLog + 1)
        /\ until' = offsetLog[commitLog + 1]
    BY <1>3, <2>1 DEF Start
  <2>3. from' = CommittedEnd
    BY <2>2, NextBatchStart DEF CheckpointInv
  <2>4. offsetLog[commitLog + 1] \in 0..produced
    BY <2>1 DEF CheckpointInv, LogTypes, LogsAgree
  <2>5. LogTypes'
    BY <1>1, <2>1, <2>2, <2>3, <2>4, CommittedEndType
    DEF CheckpointInv, LogTypes, Phases, BatchPhases
  <2>6. DriverFollowsCheckpoint'
    BY <1>1, <1>2, <2>1, <2>2, <2>3 DEF DriverFollowsCheckpoint, BatchPhases
  <2> QED
    BY <1>2, <2>5, <2>6 DEF CheckpointInv
<1>4. CASE Len(offsetLog) = commitLog
  <2>1. /\ phase' = "idle"
        /\ batch' = commitLog + 1
        /\ from' = CommittedEnd
        /\ until' = CommittedEnd
    BY <1>4 DEF Start, CheckpointInv, LogTypes
  <2>2. LogTypes'
    BY <1>1, <2>1, CommittedEndType DEF CheckpointInv, LogTypes, Phases, BatchPhases
  <2>3. DriverFollowsCheckpoint'
    BY <1>1, <1>2, <1>4, <2>1 DEF DriverFollowsCheckpoint, BatchPhases
  <2> QED
    BY <1>2, <2>2, <2>3 DEF CheckpointInv
<1> QED
  BY <1>3, <1>4 DEF Start

LEMMA ResolveStartStep ==
    ASSUME CheckpointInv, ResolveStart
    PROVE  CheckpointInv'
<1>1. /\ offsetLog = <<>>
      /\ commitLog = 0
    BY DEF CheckpointInv, LogTypes, LogsAgree, ResolveStart
<1>2. LogTypes'
  BY DEF CheckpointInv, LogTypes, ResolveStart, topic
<1>3. LogsAgree' /\ LoggedBatchesBounded'
  BY <1>1 DEF LogsAgree, LoggedBatchesBounded, ResolveStart, topic
<1>4. DriverFollowsCheckpoint'
  BY <1>1 DEF CheckpointInv, DriverFollowsCheckpoint, BatchPhases, CommittedEnd, ResolveStart
<1> QED
  BY <1>2, <1>3, <1>4 DEF CheckpointInv

(* A trigger plans a batch within the cap. *)
LEMMA PlanIsCapped ==
    ASSUME CheckpointInv, PlanBatch
    PROVE  Plan
<1>1. from = CommittedEnd
  BY DEF CheckpointInv, DriverFollowsCheckpoint, PlanBatch
<1>2. from \in 0..produced
  BY <1>1, CommittedEndType DEF CheckpointInv, PlanBatch
<1>3. BatchEnd(from) \in from..produced /\ BatchEnd(from) - from <= MaxOffsetsPerTrigger
  BY <1>2, BatchEndCapped DEF CheckpointInv
<1>4. BatchEnd(from) \in Nat
  BY <1>2, <1>3, BoundsAssumption DEF CheckpointInv, LogTypes
<1> QED
  BY <1>3, <1>4 DEF PlanBatch, PlanUpTo, Plan

(* The steps of the query are among those the protocol is safe under. *)
LEMMA NextIsCheckpointStep ==
    ASSUME CheckpointInv, [Next]_vars
    PROVE  [CheckpointNext]_vars
<1>1. CASE WriteBatch
  BY <1>1 DEF WriteBatch, RunBatch, Callback, CheckpointNext
<1>2. CASE PlanBatch
  BY <1>2, PlanIsCapped DEF CheckpointNext
<1> QED
  BY <1>1, <1>2 DEF Next, QueryStep, CheckpointNext

LEMMA PlanStep ==
    ASSUME CheckpointInv, Plan
    PROVE  CheckpointInv'
<1>0. PICK end \in Nat : PlanUpTo(end)
  BY DEF Plan
<1>1. /\ Len(offsetLog) = commitLog
      /\ commitLog \in Nat
      /\ batch = commitLog + 1
      /\ from = CommittedEnd
  BY <1>0 DEF CheckpointInv, DriverFollowsCheckpoint, BatchPhases, PlanUpTo, LogTypes
<1>2. from \in 0..produced
  BY <1>0, <1>1, CommittedEndType DEF CheckpointInv, PlanUpTo
<1>3. end \in from..produced /\ end - from <= MaxOffsetsPerTrigger
  BY <1>0 DEF PlanUpTo
<1>4. /\ offsetLog \in Seq(Nat)
      /\ produced \in Nat
  BY BoundsAssumption DEF CheckpointInv, LogTypes
<1>5. end \in Nat
  OBVIOUS
<1>6. /\ offsetLog' = Append(offsetLog, end)
      /\ phase' = "planned"
      /\ until' = end
      /\ UNCHANGED <<produced, expired, startPos, commitLog, batch, from,
                     result, starts>>
  BY <1>0 DEF PlanUpTo, topic
<1>7. /\ offsetLog' \in Seq(Nat)
      /\ Len(offsetLog') = commitLog + 1
      /\ offsetLog'[commitLog + 1] = end
      /\ \A n \in 1..commitLog : offsetLog'[n] = offsetLog[n]
  BY <1>1, <1>4, <1>5, <1>6
<1>8. /\ CommittedEnd' = CommittedEnd
      /\ \A n \in 1..commitLog : BatchStart(n)' = BatchStart(n)
      /\ BatchStart(commitLog + 1)' = CommittedEnd
  BY <1>1, <1>6, <1>7 DEF CommittedEnd, BatchStart
<1>9. LogTypes'
  BY <1>2, <1>3, <1>5, <1>6, <1>7 DEF CheckpointInv, LogTypes, Phases, BatchPhases
<1>10. LogsAgree'
  <2>1. startPos' # NoPos
    BY <1>0, <1>6 DEF PlanUpTo
  <2>2. ASSUME NEW n \in 1..Len(offsetLog')
        PROVE  BatchStart(n)' <= offsetLog'[n] /\ offsetLog'[n] <= produced'
    <3>1. CASE n = commitLog + 1
      BY <1>1, <1>2, <1>3, <1>5, <1>6, <1>7, <1>8, <3>1
    <3>2. CASE n # commitLog + 1
      <4>1. n \in 1..Len(offsetLog) /\ n \in 1..commitLog
        BY <1>1, <1>7, <3>2
      <4> QED
        BY <1>6, <1>7, <1>8, <4>1 DEF CheckpointInv, LogsAgree
    <3> QED
      BY <3>1, <3>2
  <2> QED
    BY <1>1, <1>6, <1>7, <2>1, <2>2 DEF LogsAgree
<1>11. DriverFollowsCheckpoint'
  BY <1>1, <1>6, <1>7, <1>8 DEF DriverFollowsCheckpoint, BatchPhases
<1>12. LoggedBatchesBounded'
  <2>1. ASSUME NEW n \in 1..Len(offsetLog')
        PROVE  offsetLog'[n] - BatchStart(n)' <= MaxOffsetsPerTrigger
    <3>1. CASE n = commitLog + 1
      BY <1>1, <1>2, <1>3, <1>5, <1>6, <1>7, <1>8, <3>1
    <3>2. CASE n # commitLog + 1
      <4>1. n \in 1..Len(offsetLog) /\ n \in 1..commitLog
        BY <1>1, <1>7, <3>2
      <4> QED
        BY <1>7, <1>8, <4>1 DEF CheckpointInv, LoggedBatchesBounded
    <3> QED
      BY <3>1, <3>2
  <2> QED
    BY <2>1 DEF LoggedBatchesBounded
<1> QED
  BY <1>9, <1>10, <1>11, <1>12 DEF CheckpointInv

(* The callback, its failures and a crash leave the checkpoint alone and move
   the driver within the batch it runs or down. *)
LEMMA CallbackStep ==
    ASSUME CheckpointInv, ReadBatch \/ FailRead \/ Callback \/ Crash
    PROVE  CheckpointInv'
<1>1. UNCHANGED <<produced, expired, startPos, offsetLog, commitLog, batch,
                  from, until, starts>>
  BY DEF Callback, EndCallback, ReadBatch, FailRead, Crash, topic, checkpoint
<1>2. phase' = "down" \/ (phase \in BatchPhases /\ phase' \in BatchPhases)
  BY DEF Callback, EndCallback, ReadBatch, FailRead, Crash, BatchPhases
<1>3. LogTypes'
  BY <1>1, <1>2 DEF CheckpointInv, LogTypes, Phases, BatchPhases
<1>4. LogsAgree' /\ LoggedBatchesBounded'
  BY <1>1 DEF CheckpointInv, LogsAgree, LoggedBatchesBounded, BatchStart
<1>5. DriverFollowsCheckpoint'
  BY <1>1, <1>2 DEF CheckpointInv, DriverFollowsCheckpoint, BatchPhases, CommittedEnd
<1> QED
  BY <1>3, <1>4, <1>5 DEF CheckpointInv

LEMMA CommitBatchStep ==
    ASSUME CheckpointInv, CommitBatch
    PROVE  CheckpointInv'
<1>1. /\ commitLog \in Nat
      /\ commitLog' = commitLog + 1
      /\ batch' = commitLog + 2
      /\ phase' = "idle"
      /\ from' = until
      /\ UNCHANGED <<produced, expired, startPos, offsetLog, until, result, starts>>
  BY DEF CheckpointInv, LogTypes, DriverFollowsCheckpoint, BatchPhases, CommitBatch, topic
<1>2. /\ Len(offsetLog) = commitLog + 1
      /\ until = offsetLog[commitLog + 1]
  BY DEF CheckpointInv, DriverFollowsCheckpoint, BatchPhases, CommitBatch
<1>3. LogTypes'
  BY <1>1 DEF CheckpointInv, LogTypes, Phases, BatchPhases
<1>4. LogsAgree' /\ LoggedBatchesBounded'
  BY <1>1, <1>2 DEF CheckpointInv, LogsAgree, LoggedBatchesBounded, BatchStart
<1>5. DriverFollowsCheckpoint'
  BY <1>1, <1>2 DEF DriverFollowsCheckpoint, BatchPhases, CommittedEnd
<1> QED
  BY <1>3, <1>4, <1>5 DEF CheckpointInv

LEMMA CheckpointNextStep ==
    ASSUME CheckpointInv, [CheckpointNext]_vars
    PROVE  CheckpointInv'
<1>1. CASE Produce \/ Expire
  BY <1>1, TopicStep
<1>2. CASE Start
  BY <1>2, StartStep
<1>3. CASE ResolveStart
  BY <1>3, ResolveStartStep
<1>4. CASE Plan
  BY <1>4, PlanStep
<1>5. CASE ReadBatch \/ FailRead \/ Callback \/ Crash
  BY <1>5, CallbackStep
<1>6. CASE CommitBatch
  BY <1>6, CommitBatchStep
<1>7. CASE UNCHANGED vars
  BY <1>7 DEF vars, CheckpointInv, LogTypes, LogsAgree, DriverFollowsCheckpoint,
              LoggedBatchesBounded, BatchStart, CommittedEnd
<1> QED
  BY <1>1, <1>2, <1>3, <1>4, <1>5, <1>6, <1>7 DEF CheckpointNext

LEMMA CheckpointInvStep == CheckpointInv /\ [Next]_vars => CheckpointInv'
  BY NextIsCheckpointStep, CheckpointNextStep

(* The checkpoint protocol: in every reachable state, after any crashes and
   restarts, the two logs agree and the driver works where they say. *)
THEOREM CheckpointSafety == Spec => []CheckpointInv
<1>1. Init => CheckpointInv
  BY InitCheckpointInv
<1>2. CheckpointInv /\ [Next]_vars => CheckpointInv'
  BY CheckpointInvStep
<1> QED
  BY <1>1, <1>2, PTL DEF Spec

(* The variables keep their types. *)
THEOREM TypeCorrect == Spec => []TypeOK
<1> DEFINE Typed == result \in Results
<1>1. Init => Typed
  BY TriggerAssumption DEF Init, Results, BatchSizes
<1>2. Typed /\ [Next]_vars => Typed'
  BY DEF Next, QueryStep, WriteBatch, RunBatch, EndCallback, Produce, Expire, Start, ResolveStart,
         PlanBatch, ReadBatch, FailRead, CommitBatch, Crash, Results, vars
<1>3. CheckpointInv /\ Typed => TypeOK
  BY DEF CheckpointInv, LogTypes, TypeOK
<1> HIDE DEF Typed
<1> QED
  BY <1>1, <1>2, <1>3, CheckpointSafety, PTL DEF Spec

(* The offset log is never more than one batch ahead of the commit log and its
   ends never go back. *)
THEOREM LogsAlwaysAgree == Spec => []LogsAgree
<1>1. CheckpointInv => LogsAgree
  BY DEF CheckpointInv
<1> QED
  BY <1>1, CheckpointSafety, PTL

(* The batch a driver runs is the planned, uncommitted one, whatever crash or
   restart put the driver there. *)
THEOREM DriverFollows == Spec => []DriverFollowsCheckpoint
<1>1. CheckpointInv => DriverFollowsCheckpoint
  BY DEF CheckpointInv
<1> QED
  BY <1>1, CheckpointSafety, PTL

(* The batch the driver runs is one of the log, so the cap covers it. *)
LEMMA CheckpointBoundsBatches == CheckpointInv => BatchesBounded
<1> SUFFICES ASSUME CheckpointInv, phase \in BatchPhases
             PROVE  until - from <= MaxOffsetsPerTrigger
  BY DEF BatchesBounded
<1>1. /\ batch = commitLog + 1
      /\ batch \in 1..Len(offsetLog)
      /\ until = offsetLog[batch]
      /\ from = CommittedEnd
  BY DEF CheckpointInv, LogTypes, DriverFollowsCheckpoint, BatchPhases
<1>2. from = BatchStart(batch)
  BY <1>1, NextBatchStart DEF CheckpointInv
<1> QED
  BY <1>1, <1>2 DEF CheckpointInv, LoggedBatchesBounded

(* No micro-batch reads more than maxOffsetsPerTrigger records, not even one
   that a restart repeats after the topic has grown. *)
THEOREM BoundedBatches == Spec => []BatchesBounded
  BY CheckpointBoundsBatches, CheckpointSafety, PTL

(* No step takes back what the checkpoint holds. *)
LEMMA CheckpointKept ==
    ASSUME CheckpointInv, [CheckpointNext]_vars
    PROVE  /\ startPos # NoPos => startPos' = startPos
           /\ Len(offsetLog') >= Len(offsetLog)
           /\ \A n \in 1..Len(offsetLog) : offsetLog'[n] = offsetLog[n]
           /\ commitLog' \in {commitLog, commitLog + 1}
<1>1. offsetLog \in Seq(Nat) /\ Len(offsetLog) \in Nat
  BY DEF CheckpointInv, LogTypes
<1>2. CASE Plan
  <2>1. PICK end \in Nat : offsetLog' = Append(offsetLog, end)
    BY <1>2 DEF Plan, PlanUpTo
  <2>2. UNCHANGED <<startPos, commitLog>>
    BY <1>2 DEF Plan, PlanUpTo
  <2> QED
    BY <1>1, <2>1, <2>2
<1>3. CASE CommitBatch
  <2>1. UNCHANGED <<startPos, offsetLog>> /\ commitLog' = commitLog + 1
    BY <1>3 DEF CommitBatch, CheckpointInv, DriverFollowsCheckpoint, BatchPhases
  <2> QED
    BY <1>1, <2>1
<1>4. CASE ResolveStart
  BY <1>1, <1>4 DEF ResolveStart
<1>5. CASE ~Plan /\ ~CommitBatch /\ ~ResolveStart
  <2>1. UNCHANGED <<startPos, offsetLog, commitLog>>
    BY <1>5 DEF CheckpointNext, Produce, Expire, Start, ReadBatch, FailRead, Callback,
                EndCallback, Crash, checkpoint, vars
  <2> QED
    BY <1>1, <2>1
<1> QED
  BY <1>2, <1>3, <1>4, <1>5

(* What the checkpoint has recorded is never revised: a replayed batch has
   the offsets it had, and batches are committed one at a time. *)
THEOREM NeverRevised == Spec => CheckpointNeverRevised
<1> DEFINE Kept ==
      /\ startPos # NoPos => startPos' = startPos
      /\ Len(offsetLog') >= Len(offsetLog)
      /\ \A n \in 1..Len(offsetLog) : offsetLog'[n] = offsetLog[n]
      /\ commitLog' \in {commitLog, commitLog + 1}
<1>1. CheckpointInv /\ [Next]_vars => [Kept]_vars
  BY NextIsCheckpointStep, CheckpointKept
<1> QED
  BY <1>1, CheckpointSafety, PTL DEF Spec, CheckpointNeverRevised

-----------------------------------------------------------------------------
(* The order of the batches. *)

(* Batches follow one another. It holds by induction over the offset log, and
   is part of the invariant because that induction is out of reach. *)
EndsOrdered ==
    /\ \A n \in 1..Len(offsetLog) : startPos <= offsetLog[n]
    /\ \A m, n \in 1..Len(offsetLog) : m <= n => offsetLog[m] <= offsetLog[n]

(* The types of the checkpoint and of the current batch. *)
LEMMA CheckpointTypes ==
    ASSUME CheckpointInv
    PROVE  /\ offsetLog \in Seq(Nat) /\ commitLog \in Nat /\ starts \in Nat
           /\ Len(offsetLog) \in Nat
           /\ startPos \in Int /\ from \in Int /\ until \in Int /\ produced \in Nat
           /\ \A n \in 1..Len(offsetLog) : offsetLog[n] \in Nat
  BY BoundsAssumption DEF CheckpointInv, LogTypes, NoPos

(* The current batch is the last one of the log, behind all others. *)
LEMMA BatchIsLast ==
    ASSUME CheckpointInv, EndsOrdered, phase \in BatchPhases
    PROVE  /\ Len(offsetLog) \in 1..Len(offsetLog)
           /\ until = offsetLog[Len(offsetLog)]
           /\ from = BatchStart(Len(offsetLog))
           /\ startPos <= from
           /\ \A n \in 1..(Len(offsetLog) - 1) : offsetLog[n] <= from
<1>1. /\ batch = commitLog + 1
      /\ batch = Len(offsetLog)
      /\ from = CommittedEnd
      /\ until = offsetLog[batch]
  BY DEF CheckpointInv, DriverFollowsCheckpoint
<1>2. from = BatchStart(Len(offsetLog))
  BY <1>1, NextBatchStart DEF CheckpointInv
<1>3. CASE commitLog = 0
  <2>1. from = startPos /\ Len(offsetLog) = 1
    BY <1>1, <1>3 DEF CommittedEnd
  <2> QED
    BY <1>1, <1>2, <2>1, CheckpointTypes
<1>4. CASE commitLog # 0
  <2>0. commitLog \in Nat /\ Len(offsetLog) \in Nat
    BY CheckpointTypes
  <2>1. commitLog \in 1..Len(offsetLog) /\ Len(offsetLog) - 1 = commitLog
    BY ONLY <1>1, <1>4, <2>0
  <2>2. from = offsetLog[commitLog]
    BY <1>1, <1>4 DEF CommittedEnd
  <2>3. startPos <= from
    BY <2>1, <2>2 DEF EndsOrdered
  <2>4. ASSUME NEW n \in 1..(Len(offsetLog) - 1) PROVE offsetLog[n] <= from
    <3>1. n \in 1..Len(offsetLog) /\ n <= commitLog
      BY ONLY <2>0, <2>1, n \in 1..(Len(offsetLog) - 1)
    <3> QED
      BY <2>1, <2>2, <3>1 DEF EndsOrdered
  <2>5. Len(offsetLog) \in 1..Len(offsetLog)
    BY <2>1, CheckpointTypes
  <2> QED
    BY <1>1, <1>2, <2>3, <2>4, <2>5
<1> QED
  BY <1>3, <1>4

(* A batch is planned behind all others, where no row has a copy. *)
LEMMA PlanIsBehind ==
    ASSUME CheckpointInv, EndsOrdered, Plan
    PROVE  /\ offsetLog' = Append(offsetLog, until')
           /\ until' \in Nat /\ from <= until' /\ startPos <= from
           /\ Len(offsetLog) = commitLog
           /\ from = BatchStart(Len(offsetLog) + 1)
           /\ \A n \in 1..Len(offsetLog) : offsetLog[n] <= from
<1>0. PICK end \in Nat : PlanUpTo(end)
  BY DEF Plan
<1>1. /\ startPos # NoPos
      /\ Len(offsetLog) = commitLog
      /\ from = CommittedEnd
      /\ until' = end
      /\ offsetLog' = Append(offsetLog, end)
  BY <1>0 DEF PlanUpTo, CheckpointInv, DriverFollowsCheckpoint
<1>2. from \in 0..produced
  BY <1>1, CommittedEndType DEF CheckpointInv
<1>3. end \in from..produced
  BY <1>0 DEF PlanUpTo
<1>4. until' \in Nat /\ from <= until'
  BY <1>1, <1>2, <1>3, CheckpointTypes
<1>5. from = BatchStart(Len(offsetLog) + 1)
  BY <1>1, NextBatchStart DEF CheckpointInv
<1>6. startPos <= from /\ \A n \in 1..Len(offsetLog) : offsetLog[n] <= from
  <2>1. CASE commitLog = 0
    BY <1>1, <2>1, CheckpointTypes DEF CommittedEnd
  <2>2. CASE commitLog # 0
    <3>1. commitLog \in 1..Len(offsetLog) /\ from = offsetLog[commitLog]
      BY <1>1, <2>2, CheckpointTypes DEF CommittedEnd
    <3>2. startPos <= from
      BY <3>1 DEF EndsOrdered
    <3>3. ASSUME NEW n \in 1..Len(offsetLog) PROVE offsetLog[n] <= from
      BY <1>1, <3>1, CheckpointTypes DEF EndsOrdered
    <3> QED
      BY <3>2, <3>3
  <2> QED
    BY <2>1, <2>2
<1> QED
  BY <1>1, <1>4, <1>5, <1>6

LEMMA EndsOrderedNext ==
    ASSUME CheckpointInv, EndsOrdered, [CheckpointNext]_vars
    PROVE  EndsOrdered'
<1>1. CASE Plan
  <2>1. /\ startPos' = startPos
        /\ Len(offsetLog') = Len(offsetLog) + 1
        /\ offsetLog'[Len(offsetLog) + 1] = until'
        /\ \A n \in 1..Len(offsetLog) : offsetLog'[n] = offsetLog[n]
    BY <1>1, PlanIsBehind, CheckpointTypes DEF Plan, PlanUpTo
  <2>2. /\ startPos <= until'
        /\ \A n \in 1..Len(offsetLog) : offsetLog[n] <= until'
    BY <1>1, PlanIsBehind, CheckpointTypes
  <2>3. ASSUME NEW n \in 1..(Len(offsetLog) + 1)
        PROVE  startPos <= offsetLog'[n]
    <3>1. n \in 1..Len(offsetLog) \/ n = Len(offsetLog) + 1
      BY CheckpointTypes
    <3> QED
      BY <2>1, <2>2, <3>1 DEF EndsOrdered
  <2>4. ASSUME NEW m \in 1..(Len(offsetLog) + 1), NEW n \in 1..(Len(offsetLog) + 1), m <= n
        PROVE  offsetLog'[m] <= offsetLog'[n]
    <3>1. CASE n \in 1..Len(offsetLog)
      <4>1. m \in 1..Len(offsetLog)
        BY <2>4, <3>1, CheckpointTypes
      <4> QED
        BY <2>1, <2>4, <3>1, <4>1 DEF EndsOrdered
    <3>2. CASE n = Len(offsetLog) + 1
      <4>1. CASE m = n
        BY <2>1, <3>2, <4>1, PlanIsBehind, <1>1
      <4>2. CASE m \in 1..Len(offsetLog)
        BY <2>1, <2>2, <3>2, <4>2
      <4> QED
        BY <3>2, <4>1, <4>2, CheckpointTypes
    <3> QED
      BY <3>1, <3>2, CheckpointTypes
  <2> QED
    BY <2>1, <2>3, <2>4 DEF EndsOrdered
<1>2. CASE ResolveStart
  <2>1. offsetLog = <<>> /\ offsetLog' = offsetLog
    BY <1>2 DEF ResolveStart, CheckpointInv, LogsAgree
  <2>2. 1..Len(offsetLog') = {}
    BY <2>1
  <2> QED
    BY <2>2 DEF EndsOrdered
<1>3. CASE ~Plan /\ ~ResolveStart
  <2>1. UNCHANGED <<startPos, offsetLog>>
    BY <1>3 DEF CheckpointNext, Callback, EndCallback, Produce, Expire, Start,
                ReadBatch, FailRead, CommitBatch, Crash, checkpoint, vars
  <2> QED
    BY <2>1 DEF EndsOrdered
<1> QED
  BY <1>1, <1>2, <1>3

LEMMA EndsOrderedStep ==
    ASSUME CheckpointInv, EndsOrdered, [Next]_vars
    PROVE  EndsOrdered'
  BY NextIsCheckpointStep, EndsOrderedNext

(* Position p is in a batch of the offset log. *)
Logged(p) ==
    /\ offsetLog # <<>>
    /\ startPos < p
    /\ p <= offsetLog[Len(offsetLog)]

(* What is in the offset log stays in it. *)
LEMMA LoggedStaysNext ==
    ASSUME CheckpointInv, EndsOrdered, [CheckpointNext]_vars, NEW p \in Nat, Logged(p)
    PROVE  Logged(p)'
<1>1. CASE Plan
  <2>1. /\ offsetLog' = Append(offsetLog, until')
        /\ until' \in Nat /\ from <= until' /\ startPos' = startPos
    BY <1>1, PlanIsBehind DEF Plan, PlanUpTo
  <2>2. Len(offsetLog) \in 1..Len(offsetLog)
    BY CheckpointTypes DEF Logged
  <2>3. offsetLog[Len(offsetLog)] <= until' /\ offsetLog[Len(offsetLog)] \in Nat
    BY <1>1, <2>1, <2>2, PlanIsBehind, CheckpointTypes
  <2>4. offsetLog'[Len(offsetLog')] = until' /\ offsetLog' # <<>>
    BY <2>1, CheckpointTypes
  <2> QED
    BY <2>1, <2>3, <2>4 DEF Logged
<1>2. CASE ~Plan
  <2>1. ~ResolveStart
    BY DEF ResolveStart, Logged, CheckpointInv, LogsAgree
  <2>2. UNCHANGED <<startPos, offsetLog>>
    BY <1>2, <2>1 DEF CheckpointNext, Callback, EndCallback, Produce, Expire,
                      Start, ReadBatch, FailRead, CommitBatch, Crash, checkpoint, vars
  <2> QED
    BY <2>2 DEF Logged
<1> QED
  BY <1>1, <1>2

LEMMA LoggedStays ==
    ASSUME CheckpointInv, EndsOrdered, [Next]_vars, NEW p \in Nat, Logged(p)
    PROVE  Logged(p)'
  BY NextIsCheckpointStep, LoggedStaysNext

(* A batch that fails as a whole exceeds any tolerance below 1. *)
LEMMA WholeFailureRaises ==
    ASSUME ToleranceNum < ToleranceDen, NEW n \in Nat, n > 0
    PROVE  ExceedsTolerance(0, n)
<1>1. n * ToleranceDen > ToleranceNum * n
  BY ToleranceAssumption
<1> QED
  BY <1>1, ToleranceAssumption DEF ExceedsTolerance

(* A commit moves the committed end over the batch that has returned. *)
LEMMA CommitMoves ==
    ASSUME CheckpointInv, CommitBatch
    PROVE  /\ phase = "returned" /\ phase' = "idle"
           /\ UNCHANGED <<startPos, offsetLog, until>>
           /\ CommittedEnd = from /\ CommittedEnd' = until
           /\ from \in 0..MaxEvents /\ until \in 0..MaxEvents /\ from <= until
           /\ startPos # NoPos
<1>1. /\ phase = "returned" /\ phase' = "idle" /\ phase \in BatchPhases
      /\ commitLog' = batch
      /\ UNCHANGED <<startPos, offsetLog, until>>
  BY DEF CommitBatch, BatchPhases
<1>2. /\ commitLog \in Nat
      /\ batch = commitLog + 1
      /\ batch \in 1..Len(offsetLog)
      /\ from = CommittedEnd
      /\ until = offsetLog[batch]
  BY <1>1, CheckpointTypes DEF CheckpointInv, DriverFollowsCheckpoint
<1>3. CommittedEnd' = until
  BY <1>1, <1>2 DEF CommittedEnd
<1>4. BatchStart(batch) = from
  BY <1>2, NextBatchStart DEF CheckpointInv
<1>5. from <= until /\ until <= produced
  BY <1>2, <1>4 DEF CheckpointInv, LogsAgree
<1>6. startPos # NoPos
  BY <1>2 DEF CheckpointInv, LogsAgree
<1>7. from \in 0..produced
  BY <1>2, <1>6, CommittedEndType DEF CheckpointInv
<1>8. produced \in 0..MaxEvents
  BY DEF CheckpointInv, LogTypes
<1>9. from \in 0..MaxEvents /\ until \in 0..MaxEvents
  BY <1>5, <1>7, <1>8, CheckpointTypes, BoundsAssumption
<1> QED
  BY <1>1, <1>2, <1>3, <1>5, <1>6, <1>9

(* Nothing else moves it, but the first trigger, which opens the topic. *)
LEMMA EndStaysNext ==
    ASSUME CheckpointInv, [CheckpointNext]_vars, ~CommitBatch, ~ResolveStart
    PROVE  UNCHANGED <<startPos, commitLog, CommittedEnd>>
<1>1. UNCHANGED <<startPos, commitLog>>
  BY DEF CheckpointNext, Callback, EndCallback, Produce, Expire, Start,
         Plan, PlanUpTo, ReadBatch, FailRead, Crash, checkpoint, vars
<1>2. commitLog # 0 => offsetLog'[commitLog] = offsetLog[commitLog]
  <2>1. CASE Plan
    <3>1. /\ offsetLog' = Append(offsetLog, until')
          /\ commitLog <= Len(offsetLog)
      BY <2>1 DEF Plan, PlanUpTo, CheckpointInv, LogsAgree
    <3> QED
      BY <3>1, CheckpointTypes
  <2>2. CASE ~Plan
    BY <2>2 DEF CheckpointNext, Callback, EndCallback, Produce, Expire, Start,
                ReadBatch, FailRead, Crash, checkpoint, vars
  <2> QED
    BY <2>1, <2>2
<1> QED
  BY <1>1, <1>2 DEF CommittedEnd

LEMMA EndStays ==
    ASSUME CheckpointInv, [Next]_vars, ~CommitBatch, ~ResolveStart
    PROVE  UNCHANGED <<startPos, commitLog, CommittedEnd>>
  BY NextIsCheckpointStep, EndStaysNext

-----------------------------------------------------------------------------
(* A loss of records halts the query. *)

(* Records behind the committed end n are gone, and no callback has read a
   batch that holds them. *)
LossStands(n) ==
    /\ CommittedEnd = n
    /\ expired > n
    /\ phase \in {"writing", "returned"} => until = n

(* A batch that is read after the loss is empty: FailRead takes the others. *)
LEMMA ReadIsEmpty ==
    ASSUME CheckpointInv, NEW n \in Nat, LossStands(n), ReadBatch
    PROVE  until = n
<1>1. /\ commitLog \in Nat
      /\ batch = commitLog + 1
      /\ batch = Len(offsetLog)
      /\ from = n
      /\ until = offsetLog[batch]
  BY DEF ReadBatch, LossStands, CheckpointInv, DriverFollowsCheckpoint, BatchPhases, LogTypes
<1>2. BatchStart(batch) = n
  BY <1>1, NextBatchStart DEF CheckpointInv, LossStands
<1>3. batch \in 1..Len(offsetLog) /\ until \in Int
  BY <1>1 DEF CheckpointInv, LogTypes, NoPos
<1>4. n <= until
  BY <1>1, <1>2, <1>3 DEF CheckpointInv, LogsAgree
<1>5. ~(from < until)
  BY <1>1 DEF ReadBatch, DataLost, LossStands
<1> QED
  BY <1>1, <1>3, <1>4, <1>5

LEMMA LossStandsStep ==
    ASSUME NEW n \in Nat, CheckpointInv, LossStands(n), [Next]_vars
    PROVE  LossStands(n)'
<1> USE DEF LossStands
<1>1. CASE Produce \/ Expire
  <2>1. expired' >= expired /\ UNCHANGED <<startPos, offsetLog, commitLog, phase, until>>
    BY <1>1 DEF Produce, Expire, checkpoint, driver, CheckpointInv, LogTypes
  <2>2. expired \in Int /\ expired' \in Int
    BY <1>1, BoundsAssumption DEF Produce, Expire, CheckpointInv, LogTypes
  <2> QED
    BY <2>1, <2>2 DEF CommittedEnd
<1>2. CASE Start
  BY <1>2 DEF Start, topic, checkpoint, CommittedEnd
<1>3. CASE ResolveStart
  <2>1. startPos = NoPos /\ CommittedEnd # NoPos
    BY <1>3 DEF ResolveStart, NoPos
  <2> QED
    BY <2>1, CommittedEndType DEF CheckpointInv
<1>4. CASE PlanBatch
  <2>1. /\ offsetLog \in Seq(Nat)
        /\ commitLog \in Nat
        /\ commitLog <= Len(offsetLog)
        /\ offsetLog' = Append(offsetLog, BatchEnd(from))
        /\ UNCHANGED <<startPos, commitLog, expired>>
        /\ phase' = "planned"
    BY <1>4 DEF PlanBatch, topic, CheckpointInv, LogTypes, LogsAgree
  <2>2. commitLog # 0 => offsetLog'[commitLog] = offsetLog[commitLog]
    BY <2>1
  <2> QED
    BY <2>1, <2>2 DEF CommittedEnd
<1>5. CASE ReadBatch
  BY <1>5, ReadIsEmpty DEF ReadBatch, topic, checkpoint, CommittedEnd
<1>6. CASE FailRead \/ Crash
  BY <1>6 DEF FailRead, Crash, topic, checkpoint, CommittedEnd
<1>7. CASE WriteBatch
  BY <1>7 DEF WriteBatch, RunBatch, EndCallback, topic, checkpoint, CommittedEnd
<1>8. CASE CommitBatch
  <2>1. /\ commitLog' = batch
        /\ batch = commitLog + 1
        /\ commitLog \in Nat
        /\ until = offsetLog[batch]
        /\ until = n
        /\ phase' = "idle"
        /\ UNCHANGED <<startPos, offsetLog, expired>>
    BY <1>8 DEF CommitBatch, topic, CheckpointInv, LogTypes, DriverFollowsCheckpoint, BatchPhases
  <2>2. commitLog' # 0 /\ offsetLog'[commitLog'] = n
    <3>1. commitLog' # 0
      BY ONLY <2>1
    <3>2. offsetLog' = offsetLog /\ commitLog' = batch /\ offsetLog[batch] = n
      BY ONLY <2>1
    <3> QED
      BY ONLY <3>1, <3>2
  <2>4. CommittedEnd' = n
    BY ONLY <2>2 DEF CommittedEnd
  <2>3. expired' > n
    BY <2>1
  <2> QED
    BY <2>1, <2>3, <2>4
<1>9. CASE UNCHANGED vars
  BY <1>9 DEF vars, CommittedEnd
<1> QED
  BY <1>1, <1>2, <1>3, <1>4, <1>5, <1>6, <1>7, <1>8, <1>9 DEF Next, QueryStep

(* Once retention has deleted records a query that is down has not processed,
   its committed end never moves again: it halts, whatever restarts follow. *)
THEOREM LossHalts == Spec => DataLossHalts
<1>1. ASSUME NEW n \in 0..MaxEvents
      PROVE  Spec => [](phase = "down" /\ CommittedEnd = n /\ expired > n
                            => [](CommittedEnd = n))
  <2>1. n \in Nat
    BY BoundsAssumption
  <2>2. phase = "down" /\ CommittedEnd = n /\ expired > n => LossStands(n)
    BY DEF LossStands
  <2>3. CheckpointInv /\ LossStands(n) /\ [Next]_vars => LossStands(n)'
    BY <2>1, LossStandsStep DEF LossStands
  <2>4. LossStands(n) => CommittedEnd = n
    BY DEF LossStands
  <2> QED
    BY <2>2, <2>3, <2>4, CheckpointSafety, PTL DEF Spec
<1> QED
  BY <1>1 DEF DataLossHalts

=============================================================================
