-------------------------- MODULE WebSocketProofs --------------------------
(***************************************************************************)
(* Proofs about the way of an alert to the clients, in two parts.          *)
(*                                                                         *)
(* WebSocketSink, for every topic, choice of alerts, buffer size and       *)
(* number of restarts: with an error tolerance of 0, the default of        *)
(* core/types.py:129, an alert behind the committed offsets was lost by a  *)
(* producer or is in the topic ws-broadcast or on its way there.           *)
(*                                                                         *)
(* WsBroadcast: records are shown to their users only, and the clients     *)
(* that were connected get them or are known to have missed them, but for  *)
(* those taken for gone and for lookups longer than a page, for any number *)
(* of clients, records and failing invocations and any page size.          *)
(***************************************************************************)
EXTENDS WebSocketSink, WsBroadcast, StreamingQueryProofs, FiniteSetTheorems

-----------------------------------------------------------------------------
(* The sink. *)

SinkTypeOK ==
    /\ queue \in Seq(Alerts)
    /\ wsTopic \in Seq(Alerts)
    /\ row \in Nat
    /\ tally \in [written : Nat, failed : Nat]

(* What the loop has gone past in an attempt without failures. *)
HandedOver ==
    phase = "writing" /\ tally.failed = 0 =>
        \A p \in Rows : p <= row => p \in Accounted

(* The loop begins anew in every attempt. *)
LoopReset == phase # "writing" => row = 0 /\ tally = NoCount

(* What the commit will cover. *)
ReturnedIsHandedOver == phase = "returned" => Rows \subseteq Accounted

(* The inductive invariant. *)
AlertInv ==
    /\ CheckpointInv
    /\ SinkTypeOK
    /\ AlertsAccountedFor
    /\ HandedOver
    /\ LoopReset
    /\ ReturnedIsHandedOver

-----------------------------------------------------------------------------
(* Lemmas. *)

LEMMA RangeOfAppend ==
    ASSUME NEW S, NEW s \in Seq(S), NEW e \in S
    PROVE  Range(Append(s, e)) = Range(s) \union {e}
<1> DEFINE longer == Append(s, e)
<1>1. /\ DOMAIN longer = 1..(Len(s) + 1)
      /\ DOMAIN s = 1..Len(s)
      /\ Len(s) \in Nat
      /\ longer[Len(s) + 1] = e
      /\ \A i \in 1..Len(s) : longer[i] = s[i]
  OBVIOUS
<1> HIDE DEF longer
<1>2. ASSUME NEW x \in Range(longer) PROVE x \in Range(s) \union {e}
  <2>1. PICK i \in 1..(Len(s) + 1) : x = longer[i]
    BY <1>1, <1>2 DEF Range
  <2>2. CASE i = Len(s) + 1
    BY <1>1, <2>1, <2>2
  <2>3. CASE i \in 1..Len(s)
    BY <1>1, <2>1, <2>3 DEF Range
  <2> QED
    BY <1>1, <2>1, <2>2, <2>3
<1>3. ASSUME NEW x \in Range(s) PROVE x \in Range(longer)
  <2>1. PICK i \in 1..Len(s) : x = s[i]
    BY <1>1, <1>3 DEF Range
  <2>2. i \in 1..(Len(s) + 1) /\ x = longer[i]
    BY <1>1, <2>1
  <2> QED
    BY <1>1, <2>2 DEF Range
<1>4. e \in Range(longer)
  <2>1. Len(s) + 1 \in 1..(Len(s) + 1)
    BY <1>1
  <2> QED
    BY <1>1, <2>1 DEF Range
<1> QED
  BY <1>2, <1>3, <1>4 DEF longer

LEMMA RangeOfTail ==
    ASSUME NEW S, NEW s \in Seq(S), s # <<>>
    PROVE  /\ Head(s) \in S
           /\ Tail(s) \in Seq(S)
           /\ Range(s) = {Head(s)} \union Range(Tail(s))
<1> DEFINE rest == Tail(s)
<1>1. /\ Len(s) \in Nat \ {0}
      /\ DOMAIN s = 1..Len(s)
      /\ rest \in Seq(S)
      /\ DOMAIN rest = 1..(Len(s) - 1)
      /\ Head(s) = s[1]
      /\ s[1] \in S
      /\ \A i \in 1..(Len(s) - 1) : rest[i] = s[i + 1]
  OBVIOUS
<1> HIDE DEF rest
<1>2. ASSUME NEW x \in Range(s) PROVE x \in {Head(s)} \union Range(rest)
  <2>1. PICK i \in 1..Len(s) : x = s[i]
    BY <1>1, <1>2 DEF Range
  <2>2. CASE i = 1
    BY <1>1, <2>1, <2>2
  <2>3. CASE i # 1
    <3>1. i - 1 \in 1..(Len(s) - 1) /\ (i - 1) + 1 = i
      BY <1>1, <2>3
    <3>2. x = rest[i - 1]
      BY <1>1, <2>1, <3>1
    <3> QED
      BY <1>1, <3>1, <3>2 DEF Range
  <2> QED
    BY <2>2, <2>3
<1>3. ASSUME NEW x \in Range(rest) PROVE x \in Range(s)
  <2>1. PICK i \in 1..(Len(s) - 1) : x = rest[i]
    BY <1>1, <1>3 DEF Range
  <2>2. i + 1 \in 1..Len(s) /\ x = s[i + 1]
    BY <1>1, <2>1
  <2> QED
    BY <1>1, <2>2 DEF Range
<1>4. Head(s) \in Range(s)
  <2>1. 1 \in 1..Len(s)
    BY <1>1
  <2> QED
    BY <1>1, <2>1 DEF Range
<1> QED
  BY <1>1, <1>2, <1>3, <1>4 DEF rest

(* Alerts are positions of the topic. *)
LEMMA AlertIsPosition == \A p \in Alerts : p \in Int /\ p > 0 /\ p \in Nat
  BY ProducerAssumption, BoundsAssumption

(* The types of the batch's offsets. *)
LEMMA BatchType == CheckpointInv => from \in Int /\ until \in Int /\ startPos \in Int
  BY BoundsAssumption DEF CheckpointInv, LogTypes, NoPos

(* Every step of the sink is a step of the query it extends. *)
LEMMA SinkStepIsQueryStep ==
    ASSUME AlertInv, [SinkNext]_sinkVars
    PROVE  [Next]_vars
<1>1. CASE SinkQueryStep
  BY <1>1 DEF SinkQueryStep, Next, QueryStep
<1>2. CASE Flush
  <2>1. RunBatch(tally.written, tally.failed) /\ phase = "writing"
    BY <1>2 DEF Flush, RunBatch, EndCallback
  <2>2. tally.written \in Nat /\ tally.failed \in Nat
    BY DEF AlertInv, SinkTypeOK
  <2>3. until - from <= MaxOffsetsPerTrigger /\ from \in Int /\ until \in Int
    BY <2>1, CheckpointBoundsBatches, BatchType DEF AlertInv, BatchesBounded, BatchPhases
  <2>4. tally.written + tally.failed <= until - from
    BY <2>1 DEF RunBatch
  <2>5. tally.written \in BatchSizes /\ tally.failed \in BatchSizes
    BY <2>2, <2>3, <2>4, TriggerAssumption DEF BatchSizes
  <2> QED
    BY <2>1, <2>5 DEF Next, WriteBatch
<1>3. CASE SinkStart \/ SinkCrash
  BY <1>3 DEF SinkStart, SinkCrash, Next, QueryStep
<1>4. CASE ProduceRow \/ Deliver \/ GiveUp \/ UNCHANGED sinkVars
  BY <1>4 DEF ProduceRow, Deliver, GiveUp, sinkVars
<1> QED
  BY <1>1, <1>2, <1>3, <1>4 DEF SinkNext

(* No step of sink, producer or driver forgets an alert: one that leaves the
   buffer goes to the topic or is lost, one that is queued again is not. *)
LEMMA AccountedStays ==
    ASSUME AlertInv, [SinkNext]_sinkVars
    PROVE  Accounted \subseteq Accounted' /\ SinkTypeOK'
<1> USE DEF SinkTypeOK
<1>0. SinkTypeOK
  BY DEF AlertInv
<1>1. CASE ProduceRow
  <2>1. PICK p \in Pending : row' = p /\ (Queued(p) \/ Refused)
    BY <1>1 DEF ProduceRow
  <2>2. p \in Alerts /\ p \in Nat /\ wsTopic' = wsTopic
    BY <1>1, AlertIsPosition DEF ProduceRow, Pending, Rows
  <2>3. CASE Queued(p)
    <3>0. queue \in Seq(Alerts) /\ p \in Alerts
      BY <1>0, <2>2
    <3>1. queue' = Append(queue, p) /\ lost' = lost \ {p} /\ queue' \in Seq(Alerts)
      BY ONLY <2>3, <3>0 DEF Queued
    <3>2. Range(queue') = Range(queue) \union {p}
      BY <1>0, <2>2, <3>1, RangeOfAppend
    <3>3. tally' \in [written : Nat, failed : Nat]
      BY <1>0, <2>3 DEF Queued
    <3> QED
      BY <1>0, <2>1, <2>2, <3>1, <3>2, <3>3 DEF Accounted, Broadcast
  <2>4. CASE Refused
    <3>1. tally' \in [written : Nat, failed : Nat]
      BY <1>0, <2>4 DEF Refused
    <3> QED
      BY <1>0, <2>1, <2>2, <2>4, <3>1 DEF Refused, Accounted, Broadcast
  <2> QED
    BY <2>1, <2>3, <2>4
<1>2. CASE Deliver
  <2>1. /\ Head(queue) \in Alerts /\ Tail(queue) \in Seq(Alerts)
        /\ Range(queue) = {Head(queue)} \union Range(Tail(queue))
    BY <1>0, <1>2, RangeOfTail DEF Deliver
  <2>2. /\ wsTopic' = Append(wsTopic, Head(queue)) /\ queue' = Tail(queue)
        /\ lost' = lost /\ row' = row /\ tally' = tally
    BY <1>2 DEF Deliver, loop
  <2>3. wsTopic' \in Seq(Alerts) /\ Range(wsTopic') = Range(wsTopic) \union {Head(queue)}
    BY <1>0, <2>1, <2>2, RangeOfAppend
  <2> QED
    BY <1>0, <2>1, <2>2, <2>3 DEF Accounted, Broadcast
<1>3. CASE GiveUp
  <2>1. /\ Tail(queue) \in Seq(Alerts)
        /\ Range(queue) = {Head(queue)} \union Range(Tail(queue))
    BY <1>0, <1>3, RangeOfTail DEF GiveUp
  <2>2. /\ lost' = lost \union {Head(queue)} /\ queue' = Tail(queue)
        /\ wsTopic' = wsTopic /\ row' = row /\ tally' = tally
    BY <1>3 DEF GiveUp, loop
  <2> QED
    BY <1>0, <2>1, <2>2 DEF Accounted, Broadcast
<1>4. CASE SinkStart
  BY <1>0, <1>4 DEF SinkStart, loop, Accounted, Broadcast
<1>5. CASE \/ SinkQueryStep \/ SinkCrash \/ Flush \/ UNCHANGED sinkVars
  BY <1>0, <1>5
  DEF SinkQueryStep, SinkCrash, Flush, sinkVars, producer, loop, NoCount, Accounted, Broadcast
<1> QED
  BY <1>1, <1>2, <1>3, <1>4, <1>5 DEF SinkNext

-----------------------------------------------------------------------------
(* The steps. *)

(* A step that plans and commits nothing leaves the committed alerts alone. *)
LEMMA StillAccounted ==
    ASSUME AlertInv, [SinkNext]_sinkVars, UNCHANGED <<startPos, CommittedEnd>>
    PROVE  AlertsAccountedFor'
<1>1. CommittedAlerts' = CommittedAlerts
  BY DEF CommittedAlerts
<1>2. CommittedAlerts \subseteq Accounted
  BY DEF AlertInv, AlertsAccountedFor
<1> QED
  BY <1>1, <1>2, AccountedStays DEF AlertsAccountedFor

(* One turn of the loop: the row is in the buffer, or has failed. *)
LEMMA RowStep ==
    ASSUME AlertInv, ProduceRow
    PROVE  HandedOver'
<1>1. UNCHANGED <<phase, Rows>> /\ Accounted \subseteq Accounted'
  BY AccountedStays DEF ProduceRow, SinkNext, vars, Rows
<1>2. PICK p \in Pending :
        /\ \A q \in Pending : p <= q
        /\ row' = p
        /\ Queued(p) \/ Refused
  BY DEF ProduceRow
<1>3. SinkTypeOK
  BY DEF AlertInv
<1>4. CASE Refused
  <2>1. tally'.failed = tally.failed + 1 /\ tally.failed \in Nat
    BY <1>3, <1>4 DEF Refused, SinkTypeOK
  <2> QED
    BY <2>1 DEF HandedOver
<1>5. CASE Queued(p)
  <2>1. tally'.failed = tally.failed
    BY <1>3, <1>5 DEF Queued, SinkTypeOK
  <2>2. p \in Accounted'
    <3>1. Range(queue') = Range(queue) \union {p}
      BY <1>3, <1>5, RangeOfAppend DEF Queued, SinkTypeOK, Pending, Rows
    <3> QED
      BY <3>1 DEF Accounted
  <2> SUFFICES ASSUME phase = "writing", tally.failed = 0, NEW q \in Rows, q <= p
               PROVE  q \in Accounted'
    BY <1>1, <1>2, <2>1 DEF HandedOver
  <2>3. q \in Int /\ p \in Int /\ row \in Int
    BY <1>3, AlertIsPosition DEF Rows, Pending, SinkTypeOK
  <2>4. CASE q <= row
    BY <1>1, <2>4 DEF AlertInv, HandedOver
  <2>5. CASE q > row
    <3>1. p <= q
      BY <1>2, <2>5 DEF Pending
    <3> QED
      BY <2>2, <2>3, <3>1
  <2> QED
    BY <2>3, <2>4, <2>5
<1> QED
  BY <1>2, <1>4, <1>5

(* The callback returns only if no row failed, and the loop is through. *)
LEMMA FlushStep ==
    ASSUME ToleranceNum = 0, AlertInv, Flush
    PROVE  phase' = "returned" => Rows \subseteq Accounted
<1> SUFFICES ASSUME phase' = "returned", NEW p \in Rows
             PROVE  p \in Accounted
  OBVIOUS
<1>1. phase = "writing" /\ ~ExceedsTolerance(tally.written, tally.failed) /\ Pending = {}
  BY DEF Flush, RunBatch, EndCallback
<1>2. tally.written \in Nat /\ tally.failed \in Nat /\ row \in Int
  BY DEF AlertInv, SinkTypeOK
<1>3. tally.failed = 0
  <2>1. ~(tally.failed * ToleranceDen > 0)
    BY <1>1, <1>2 DEF ExceedsTolerance
  <2> QED
    BY <1>2, <2>1, ToleranceAssumption
<1>4. p \in Int /\ ~(p > row)
  BY <1>1, AlertIsPosition DEF Pending, Rows
<1> QED
  BY <1>1, <1>2, <1>3, <1>4 DEF AlertInv, HandedOver

(* The commit covers the rows the callback has handed over. *)
LEMMA CommitCovers ==
    ASSUME AlertInv, CommitBatch, UNCHANGED <<producer, loop>>
    PROVE  AlertsAccountedFor'
<1>1. phase = "returned" /\ commitLog' = batch /\ UNCHANGED <<startPos, offsetLog>>
  BY DEF CommitBatch
<1>2. /\ commitLog \in Nat
      /\ batch = commitLog + 1
      /\ from = CommittedEnd
      /\ until = offsetLog[batch]
  BY <1>1 DEF AlertInv, CheckpointInv, LogTypes, DriverFollowsCheckpoint, BatchPhases
<1>3. CommittedEnd' = until
  BY <1>1, <1>2 DEF CommittedEnd
<1>4. Accounted' = Accounted
  BY DEF producer, Accounted, Broadcast
<1> SUFFICES ASSUME NEW p \in Alerts, startPos < p, p <= until
             PROVE  p \in Accounted
  BY <1>1, <1>3, <1>4 DEF AlertsAccountedFor, CommittedAlerts
<1>5. p \in Int /\ from \in Int
  BY AlertIsPosition, BatchType DEF AlertInv
<1>6. CASE p <= from
  BY <1>2, <1>6 DEF AlertInv, AlertsAccountedFor, CommittedAlerts
<1>7. CASE from < p
  BY <1>1, <1>7 DEF AlertInv, ReturnedIsHandedOver, Rows
<1> QED
  BY <1>5, <1>6, <1>7

LEMMA InitAlertInv == SinkInit => AlertInv
<1> SUFFICES ASSUME SinkInit PROVE AlertInv
  OBVIOUS
<1>1. CheckpointInv
  BY InitCheckpointInv DEF SinkInit
<1>2. SinkTypeOK /\ LoopReset
  BY DEF SinkInit, SinkTypeOK, LoopReset, NoCount
<1>3. AlertsAccountedFor
  BY AlertIsPosition DEF SinkInit, Init, AlertsAccountedFor, CommittedAlerts, CommittedEnd, NoPos
<1>4. HandedOver /\ ReturnedIsHandedOver
  BY DEF SinkInit, Init, HandedOver, ReturnedIsHandedOver
<1> QED
  BY <1>1, <1>2, <1>3, <1>4 DEF AlertInv

(* The loop variables move only while the sink writes. *)
LEMMA LoopStep ==
    ASSUME AlertInv, [SinkNext]_sinkVars
    PROVE  LoopReset'
<1>1. CASE SinkQueryStep
  <2>1. phase = "writing" => phase' = "writing"
    BY <1>1 DEF SinkQueryStep, Produce, Expire, ResolveStart, PlanBatch, ReadBatch, FailRead,
                CommitBatch, driver
  <2> QED
    BY <1>1, <2>1 DEF SinkQueryStep, loop, AlertInv, LoopReset, NoCount
<1>2. CASE Flush \/ SinkCrash
  BY <1>2 DEF Flush, SinkCrash, LoopReset, NoCount
<1>3. CASE SinkStart
  <2>1. phase = "down"
    BY <1>3 DEF SinkStart, Start
  <2> QED
    BY <1>3, <2>1 DEF SinkStart, loop, AlertInv, LoopReset, NoCount
<1>4. CASE ProduceRow
  BY <1>4 DEF ProduceRow, vars, LoopReset
<1>5. CASE Deliver \/ GiveUp \/ UNCHANGED sinkVars
  BY <1>5 DEF Deliver, GiveUp, sinkVars, vars, loop, AlertInv, LoopReset, NoCount
<1> QED
  BY <1>1, <1>2, <1>3, <1>4, <1>5 DEF SinkNext

(* What was handed over stays so, and a new attempt has handed over nothing. *)
LEMMA HandedOverStep ==
    ASSUME AlertInv, [SinkNext]_sinkVars
    PROVE  HandedOver'
<1>1. CASE ProduceRow
  BY <1>1, RowStep
<1>2. CASE ReadBatch /\ UNCHANGED <<producer, loop>>
  <2>1. row = 0 /\ row' = row
    BY <1>2 DEF ReadBatch, loop, AlertInv, LoopReset
  <2> QED
    BY <2>1, AlertIsPosition DEF HandedOver, Rows
<1>3. CASE ~ProduceRow /\ ~ReadBatch
  <2> SUFFICES ASSUME phase' = "writing"
               PROVE  HandedOver'
    BY DEF HandedOver
  <2>1. phase = "writing" /\ UNCHANGED <<from, until, row, tally>>
    BY <1>3 DEF SinkNext, SinkQueryStep, SinkStart, SinkCrash, Flush, Deliver, GiveUp, loop,
                sinkVars, vars, driver, Produce, Expire, Start, ResolveStart, PlanBatch,
                FailRead, CommitBatch, RunBatch, EndCallback, Crash
  <2>2. Rows' = Rows
    BY <2>1 DEF Rows
  <2> QED
    BY <2>1, <2>2, AccountedStays DEF AlertInv, HandedOver
<1> QED
  BY <1>1, <1>2, <1>3
  DEF SinkNext, SinkQueryStep, SinkStart, SinkCrash, ProduceRow, Flush, Deliver, GiveUp,
      sinkVars, vars, ReadBatch, Start, Crash, RunBatch, EndCallback

LEMMA AlertInvStep ==
    ASSUME ToleranceNum = 0, AlertInv, [SinkNext]_sinkVars
    PROVE  AlertInv'
<1>1. CheckpointInv'
  BY SinkStepIsQueryStep, CheckpointInvStep DEF AlertInv
<1>2. SinkTypeOK' /\ Accounted \subseteq Accounted'
  BY AccountedStays
<1>3. HandedOver' /\ LoopReset'
  BY HandedOverStep, LoopStep
<1>4. ReturnedIsHandedOver'
  <2> SUFFICES ASSUME phase' = "returned"
               PROVE  Rows' \subseteq Accounted'
    BY DEF ReturnedIsHandedOver
  <2>1. CASE Flush
    <3>1. Rows' = Rows
      BY <2>1 DEF Flush, RunBatch, EndCallback, Rows
    <3> QED
      BY <1>2, <2>1, <3>1, FlushStep
  <2>2. CASE ~Flush
    <3>1. phase = "returned" /\ UNCHANGED <<from, until>>
      BY <2>2 DEF SinkNext, SinkQueryStep, SinkStart, SinkCrash, ProduceRow, Deliver, GiveUp,
                  sinkVars, vars, driver, Produce, Expire, Start, ResolveStart, PlanBatch,
                  ReadBatch, FailRead, CommitBatch, Crash
    <3> QED
      BY <1>2, <3>1 DEF AlertInv, ReturnedIsHandedOver, Rows
  <2> QED
    BY <2>1, <2>2
<1>5. AlertsAccountedFor'
  <2>1. CASE CommitBatch /\ UNCHANGED <<producer, loop>>
    BY <2>1, CommitCovers
  <2>2. CASE ResolveStart
    <3>1. startPos' = produced /\ commitLog = 0 /\ commitLog' = 0
      BY <2>2 DEF ResolveStart, AlertInv, CheckpointInv, LogTypes, LogsAgree
    <3>2. CommittedEnd' = startPos' /\ startPos' \in Int
      BY <3>1, BoundsAssumption DEF CommittedEnd, AlertInv, CheckpointInv, LogTypes
    <3> QED
      BY <3>2, AlertIsPosition DEF AlertsAccountedFor, CommittedAlerts
  <2>3. CASE ~CommitBatch /\ ~ResolveStart
    <3>1. UNCHANGED <<startPos, CommittedEnd>>
      BY <2>3, SinkStepIsQueryStep, EndStays DEF AlertInv
    <3> QED
      BY <3>1, StillAccounted
  <2>4. CommitBatch => UNCHANGED <<producer, loop>>
    BY DEF SinkNext, SinkQueryStep, SinkStart, SinkCrash, ProduceRow, Flush, Deliver, GiveUp,
           sinkVars, vars, producer, loop, CommitBatch, Start, Crash, RunBatch, EndCallback
  <2> QED
    BY <2>1, <2>2, <2>3, <2>4
<1> QED
  BY <1>1, <1>2, <1>3, <1>4, <1>5 DEF AlertInv

-----------------------------------------------------------------------------

(* AlertsAccountedFor, with no failed row tolerated: full buffers, half
   produced batches, crashes and replays lose no alert that is committed. *)
THEOREM AlertsAreAccountedFor ==
    ASSUME ToleranceNum = 0
    PROVE  SinkSpec => []AlertsAccountedFor
<1>1. SinkInit => AlertInv
  BY InitAlertInv
<1>2. AlertInv /\ [SinkNext]_sinkVars => AlertInv'
  BY AlertInvStep
<1>3. AlertInv => AlertsAccountedFor
  BY DEF AlertInv
<1> QED
  BY <1>1, <1>2, <1>3, PTL DEF SinkSpec

-----------------------------------------------------------------------------
(* The broadcast. *)

(* What ConnectedClientsServed says of one client and one record. *)
Reached(c, i) == c \notin evicted /\ i \notin cut => Served(c, i)

(* A client that has not left and was not taken for gone is registered. *)
Listed ==
    \A c \in Conns :
        socket[c] \in {"connecting", "open"} /\ c \notin evicted => c \in registry

(* Whoever is owed a record had opened, and every copy of the registry has
   known it since. *)
OwedKnown ==
    \A c \in Conns, i \in 1..sent :
        <<c, i>> \in owed =>
            /\ socket[c] \in {"open", "closed"}
            /\ IsFor(c, i)
            /\ socket[c] = "open" /\ c \notin evicted => c \notin lagging

(* The invocation is at a record that is not done with yet. *)
Underway ==
    call.stage # "idle" => offset < call.at /\ call.at <= call.last

(* Whom it still has to post to are clients the record is for. *)
TodoIsFor == \A c \in call.todo : IsFor(c, call.at)

(* Client c is settled for record i: the record is done with, or behind the
   invocation, or at hand and the client's turn is over. *)
Settled(c, i) ==
    \/ i <= offset
    \/ call.stage # "idle" /\ i < call.at
    \/ call.stage = "push" /\ i = call.at /\ c \notin call.todo

SettledReached ==
    \A c \in Conns, i \in 1..sent : Settled(c, i) => Reached(c, i)

BroadcastInv ==
    /\ BroadcastTypeOK
    /\ Underway
    /\ TodoIsFor
    /\ TargetedOnly
    /\ Listed
    /\ OwedKnown
    /\ SettledReached

-----------------------------------------------------------------------------
(* Types. *)

(* Whatever a read shows and its pages hold, the lambda goes on to post to
   known connections the record is for. *)
LEMMA FindAnswers ==
    ASSUME BroadcastTypeOK, Find
    PROVE  \E found \in SUBSET Conns :
               /\ \A c \in found : IsFor(c, call.at)
               /\ call' = [call EXCEPT !.stage = "push", !.todo = found]
<1>1. PICK shown \in SUBSET lagging :
          \E found \in FirstPages(Readable(shown)) :
              call' = [call EXCEPT !.stage = "push", !.todo = found]
  BY DEF Find
<1>2. PICK found \in FirstPages(Readable(shown)) :
          call' = [call EXCEPT !.stage = "push", !.todo = found]
  BY <1>1
<1>3. Readable(shown) \subseteq Conns /\ \A c \in Readable(shown) : IsFor(c, call.at)
  BY DEF BroadcastTypeOK, Readable
<1>4. found \subseteq Readable(shown)
  BY DEF FirstPages
<1> QED
  BY <1>2, <1>3, <1>4

(* The stages of a call, its records and its todo stay what they are: every
   handler of the three lambdas writes values of the right kind. *)
LEMMA TypeStep ==
    ASSUME BroadcastTypeOK, Underway, [BroadcastNext]_broadcastVars
    PROVE  BroadcastTypeOK' /\ Underway'
<1> USE DEF BroadcastTypeOK, Underway, table, lambda
<1> DEFINE CallType == [stage : {"idle", "find", "push"}, at : 0..sent,
                        last : 0..sent, todo : SUBSET Conns]
<1> sent \in Nat /\ MaxRecords \in Nat /\ offset \in Nat
  BY ClientAssumption
<1>1. CASE Send
  <2>1. {<<c, sent + 1>> : c \in {d \in Conns : Connected(d) /\ IsFor(d, sent + 1)}}
            \subseteq Conns \X (1..(sent + 1))
    OBVIOUS
  <2>2. owed' \subseteq Conns \X (1..sent')
    BY <1>1, <2>1 DEF Send
  <2> QED
    BY <1>1, <2>2, ClientAssumption DEF Send
<1>2. ASSUME NEW c \in Conns, Connect(c) PROVE BroadcastTypeOK' /\ Underway'
  BY <1>2 DEF Connect, Sockets
<1>3. ASSUME NEW c \in Conns, Open(c) PROVE BroadcastTypeOK' /\ Underway'
  BY <1>3 DEF Open, Sockets
<1>4. ASSUME NEW c \in Conns, Close(c) PROVE BroadcastTypeOK' /\ Underway'
  BY <1>4 DEF Close, Sockets
<1>5. ASSUME NEW c \in Conns, Disconnect(c) \/ Replicate(c) PROVE BroadcastTypeOK' /\ Underway'
  BY <1>5 DEF Disconnect, Replicate, Delete
<1>6. CASE Invoke
  BY <1>6 DEF Invoke
<1>7. CASE Find
  <2>1. PICK found \in SUBSET Conns :
            call' = [call EXCEPT !.stage = "push", !.todo = found]
    BY <1>7, FindAnswers
  <2>2. call'.stage = "push" /\ call'.at = call.at /\ call'.last = call.last
    BY <2>1
  <2>3. call' \in CallType
    BY <2>1
  <2>4. missed' \subseteq missed /\ UNCHANGED <<sent, socket, table, owed, offset, got, deaths>>
    BY <1>7 DEF Find
  <2>5. cut' \subseteq 1..sent
    BY <1>7 DEF Find, CutAfter
  <2> QED
    BY <1>7, <2>2, <2>3, <2>4, <2>5 DEF Find
<1>8. CASE FindFailed
  <2>1. call' = [call EXCEPT !.stage = "push", !.todo = {}]
    BY <1>8 DEF FindFailed
  <2>2. call'.stage = "push" /\ call'.at = call.at /\ call'.last = call.last
    BY <2>1
  <2>3. call' \in CallType
    BY <2>1
  <2>4. call.at \in 1..sent
    BY <1>8 DEF FindFailed
  <2> QED
    BY <1>8, <2>2, <2>3, <2>4 DEF FindFailed
<1>9. CASE PostToConnection
  <2>1. PICK c \in call.todo :
            Push(c) \/ PushFailed(c) \/ PushGone(c) \/ PushGoneRaised(c)
    BY <1>9 DEF PostToConnection
  <2>2. call.at \in 1..sent /\ c \in Conns /\ call.todo \in SUBSET Conns
    BY <1>9 DEF PostToConnection
  <2>3. CASE Push(c)
    BY <1>9, <2>2, <2>3 DEF PostToConnection, Push, Pushed
  <2>4. CASE PushFailed(c)
    BY <1>9, <2>2, <2>4 DEF PostToConnection, PushFailed, Pushed
  <2>5. CASE PushGone(c)
    BY <1>9, <2>2, <2>5 DEF PostToConnection, PushGone, Pushed, Evict, Delete
  <2>6. CASE PushGoneRaised(c)
    BY <1>9, <2>2, <2>6 DEF PostToConnection, PushGoneRaised, Evict, Delete
  <2> QED BY <2>1, <2>3, <2>4, <2>5, <2>6
<1>10. CASE NextRecord
  <2>1. call' = [call EXCEPT !.stage = "find", !.at = @ + 1]
    BY <1>10 DEF NextRecord
  <2>2. call'.stage = "find" /\ call'.at = call.at + 1 /\ call'.last = call.last
    BY <2>1
  <2>3. call.at + 1 \in 0..sent
    BY <1>10 DEF NextRecord
  <2>4. call' \in CallType
    BY <2>1, <2>3
  <2> QED
    BY <1>10, <2>2, <2>4 DEF NextRecord
<1>11. CASE Answer
  BY <1>11 DEF Answer, IdleCall
<1>12. CASE LambdaDies
  BY <1>12, ClientAssumption DEF LambdaDies, IdleCall
<1>13. CASE UNCHANGED broadcastVars
  BY <1>13 DEF broadcastVars
<1> QED
  BY <1>1, <1>2, <1>3, <1>4, <1>5, <1>6, <1>7, <1>8, <1>9, <1>10, <1>11,
     <1>12, <1>13 DEF BroadcastNext, Lambda

-----------------------------------------------------------------------------
(* Targets. *)

(* The lambda never has somebody to post to, nor posts to somebody, the record
   is not for. *)
LEMMA TargetStep ==
    ASSUME BroadcastTypeOK, Underway, TodoIsFor, TargetedOnly, [BroadcastNext]_broadcastVars
    PROVE  TodoIsFor' /\ TargetedOnly'
<1> USE DEF TodoIsFor, TargetedOnly, IsFor, table, lambda
<1>1. CASE UNCHANGED <<call, got>>
  BY <1>1
<1>2. CASE Invoke \/ Answer \/ LambdaDies
  BY <1>2 DEF Invoke, Answer, LambdaDies, IdleCall
<1>3. CASE Find
  <2>1. PICK found \in SUBSET Conns :
            /\ \A c \in found : IsFor(c, call.at)
            /\ call' = [call EXCEPT !.stage = "push", !.todo = found]
    BY <1>3, FindAnswers
  <2>2. call'.at = call.at /\ call'.todo = found
    BY <2>1 DEF BroadcastTypeOK
  <2>3. got' = got
    BY <1>3 DEF Find
  <2> QED
    BY <2>1, <2>2, <2>3
<1>4. CASE FindFailed
  BY <1>4 DEF FindFailed, BroadcastTypeOK
<1>5. CASE PostToConnection
  <2>1. PICK c \in call.todo :
            Push(c) \/ PushFailed(c) \/ PushGone(c) \/ PushGoneRaised(c)
    BY <1>5 DEF PostToConnection
  <2>2. call'.todo \subseteq call.todo /\ call'.at = call.at
    BY <2>1 DEF Push, PushFailed, PushGone, PushGoneRaised, Pushed, BroadcastTypeOK
  <2>3. TodoIsFor'
    BY <2>2
  <2>4. CASE Push(c)
    BY <2>3, <2>4 DEF Push, BroadcastTypeOK
  <2>5. CASE ~Push(c)
    BY <2>1, <2>3, <2>5 DEF PushFailed, PushGone, PushGoneRaised
  <2> QED
    BY <2>4, <2>5
<1>6. CASE NextRecord
  BY <1>6 DEF NextRecord, BroadcastTypeOK
<1>7. CASE Send \/ \E c \in Conns : Connect(c) \/ Open(c) \/ Close(c) \/ Disconnect(c) \/ Replicate(c)
  BY <1>1, <1>7 DEF Send, Connect, Open, Close, Disconnect, Replicate
<1>8. CASE UNCHANGED broadcastVars
  BY <1>1, <1>8 DEF broadcastVars
<1> QED
  BY <1>2, <1>3, <1>4, <1>5, <1>6, <1>7, <1>8 DEF BroadcastNext, Lambda

-----------------------------------------------------------------------------
(* Delivery. *)

(* Only the lambda takes a client that has not left out of the registry, and
   then it has taken it for gone; only $connect puts one in. *)
LEMMA RegistryStep ==
    ASSUME BroadcastTypeOK, Underway, TodoIsFor, Listed, OwedKnown, [BroadcastNext]_broadcastVars
    PROVE  Listed' /\ OwedKnown'
<1> USE DEF Listed, OwedKnown, IsFor, table, lambda
<1>1. CASE UNCHANGED <<sent, socket, table, owed>>
  BY <1>1
<1>2. CASE Send
  <2>1. sent \in Nat /\ sent' = sent + 1 /\ UNCHANGED <<socket, table>>
    BY <1>2, ClientAssumption DEF Send, BroadcastTypeOK
  <2>2. ASSUME NEW c \in Conns, NEW i \in 1..sent', <<c, i>> \in owed'
        PROVE  (<<c, i>> \in owed /\ i \in 1..sent) \/ (Connected(c) /\ IsFor(c, i))
    BY <1>2, <2>1, <2>2 DEF Send, BroadcastTypeOK
  <2> QED
    BY <2>1, <2>2 DEF Connected
<1>3. ASSUME NEW d \in Conns, Connect(d) PROVE Listed' /\ OwedKnown'
  BY <1>3 DEF Connect, BroadcastTypeOK
<1>4. ASSUME NEW d \in Conns, Open(d) PROVE Listed' /\ OwedKnown'
  BY <1>4 DEF Open, BroadcastTypeOK
<1>5. ASSUME NEW d \in Conns, Close(d) PROVE Listed' /\ OwedKnown'
  BY <1>5 DEF Close, BroadcastTypeOK
<1>6. ASSUME NEW d \in Conns, Disconnect(d) PROVE Listed' /\ OwedKnown'
  BY <1>6 DEF Disconnect, Delete, BroadcastTypeOK
<1>7. ASSUME NEW d \in Conns, Replicate(d) PROVE Listed' /\ OwedKnown'
  BY <1>7 DEF Replicate, BroadcastTypeOK
<1>8. CASE PostToConnection
  <2>1. PICK d \in call.todo :
            Push(d) \/ PushFailed(d) \/ PushGone(d) \/ PushGoneRaised(d)
    BY <1>8 DEF PostToConnection
  <2>2. UNCHANGED <<sent, socket, owed>>
    BY <1>8 DEF PostToConnection
  <2>3. CASE UNCHANGED table
    BY <1>1, <2>2, <2>3
  <2>4. CASE Evict(d)
    BY <2>2, <2>4 DEF Evict, Delete
  <2> QED
    BY <2>1, <2>3, <2>4 DEF Push, PushFailed, PushGone, PushGoneRaised
<1>9. CASE Invoke \/ Find \/ FindFailed \/ NextRecord \/ Answer \/ LambdaDies \/ UNCHANGED broadcastVars
  BY <1>1, <1>9 DEF Invoke, Find, FindFailed, NextRecord, Answer, LambdaDies, broadcastVars
<1> QED
  BY <1>2, <1>3, <1>4, <1>5, <1>6, <1>7, <1>8, <1>9 DEF BroadcastNext, Lambda

(* A client that has been reached stays so, unless its record is tried anew. *)
LEMMA ReachedStays ==
    ASSUME BroadcastTypeOK, OwedKnown, [BroadcastNext]_broadcastVars,
           NEW c \in Conns, NEW i \in 1..sent,
           Reached(c, i),
           ~(Find /\ i = call.at)
    PROVE  Reached(c, i)'
<1> USE DEF Reached, Served, table, lambda
<1>1. CASE UNCHANGED <<socket, evicted, owed, got, missed, cut>>
  BY <1>1
<1>2. CASE Invoke \/ NextRecord \/ Answer \/ LambdaDies
  BY <1>1, <1>2 DEF Invoke, NextRecord, Answer, LambdaDies
<1>3. CASE Send
  <2>1. i # sent + 1
    BY ClientAssumption DEF BroadcastTypeOK
  <2>2. <<c, i>> \in owed' => <<c, i>> \in owed
    BY <1>3, <2>1 DEF Send
  <2> QED
    BY <1>3, <2>2 DEF Send
<1>4. ASSUME NEW d \in Conns, Connect(d) \/ Close(d) \/ Disconnect(d) \/ Replicate(d)
      PROVE  Reached(c, i)'
  BY <1>4 DEF Connect, Close, Disconnect, Replicate, BroadcastTypeOK
<1>5. ASSUME NEW d \in Conns, Open(d) PROVE Reached(c, i)'
  BY <1>5 DEF Open, OwedKnown, BroadcastTypeOK
<1>6. CASE Find
  <2>1. i # call.at
    BY <1>6
  <2>2. i \in cut <=> i \in cut'
    BY <1>6, <2>1 DEF Find, CutAfter
  <2> QED
    BY <1>6, <2>1, <2>2 DEF Find
<1>7. CASE FindFailed
  BY <1>7 DEF FindFailed
<1>8. CASE PostToConnection
  <2>1. PICK d \in call.todo :
            Push(d) \/ PushFailed(d) \/ PushGone(d) \/ PushGoneRaised(d)
    BY <1>8 DEF PostToConnection
  <2>2. UNCHANGED <<socket, owed, cut>>
    BY <1>8 DEF PostToConnection
  <2>3. evicted \subseteq evicted' /\ missed \subseteq missed'
    BY <2>1 DEF Push, PushFailed, PushGone, PushGoneRaised, Evict
  <2>4. got[c] \subseteq got'[c]
    BY <2>1 DEF Push, PushFailed, PushGone, PushGoneRaised, BroadcastTypeOK
  <2> QED
    BY <2>2, <2>3, <2>4
<1>9. CASE UNCHANGED broadcastVars
  BY <1>1, <1>9 DEF broadcastVars
<1> QED
  BY <1>2, <1>3, <1>4, <1>5, <1>6, <1>7, <1>8, <1>9 DEF BroadcastNext, Lambda

(* A lookup that fits into its pages shows everybody who is owed the record and
   was not taken for gone: every copy of the registry has it. *)
LEMMA FindMissesNobody ==
    ASSUME BroadcastTypeOK, Listed, OwedKnown, Find, call.at \in 1..sent,
           NEW c \in Conns, <<c, call.at>> \in owed, socket[c] = "open",
           c \notin evicted, call.at \notin cut'
    PROVE  c \in call'.todo
<1>1. PICK shown \in SUBSET lagging :
          /\ \E found \in FirstPages(Readable(shown)) :
                call' = [call EXCEPT !.stage = "push", !.todo = found]
          /\ cut' = CutAfter(Readable(shown))
  BY DEF Find
<1>2. PICK found \in FirstPages(Readable(shown)) :
          call' = [call EXCEPT !.stage = "push", !.todo = found]
  BY <1>1
<1>3. IsFor(c, call.at) /\ c \in registry /\ c \notin lagging
  BY DEF Listed, OwedKnown
<1>4. PICK q \in Queries : c \in q
  <2>1. CASE Targets[call.at] = All
    BY <2>1 DEF Queries
  <2>2. CASE Targets[call.at] # All
    <3>1. User[c] \in Targets[call.at]
      BY <1>3, <2>2 DEF IsFor
    <3>2. {d \in Conns : User[d] = User[c]} \in Queries
      BY <2>2, <3>1 DEF Queries
    <3> QED
      BY <3>2
  <2> QED
    BY <2>1, <2>2
<1>5. ~(Cardinality(Readable(shown) \intersect q) > PageSize)
  BY <1>1, <1>4 DEF CutAfter
<1>6. Cardinality(Readable(shown) \intersect q) \in Nat
  <2>1. Readable(shown) \intersect q \subseteq Conns
    BY DEF Readable, BroadcastTypeOK
  <2> QED
    BY <2>1, ClientAssumption, FS_Subset, FS_CardinalityType
<1>7. Pages(Readable(shown) \intersect q) = {Readable(shown) \intersect q}
  BY <1>5, <1>6, ClientAssumption DEF Pages
<1>8. c \in Readable(shown) \intersect q
  BY <1>3, <1>4 DEF Readable
<1>9. c \in found
  BY <1>2, <1>4, <1>7, <1>8 DEF FirstPages
<1> QED
  BY <1>2, <1>9 DEF BroadcastTypeOK

(* Whoever becomes settled in a step has been reached in it, and whoever was
   settled stays reached. *)
LEMMA SettledStep ==
    ASSUME BroadcastInv, [BroadcastNext]_broadcastVars
    PROVE  SettledReached'
<1> USE DEF BroadcastInv, Settled, lambda
<1> SUFFICES ASSUME NEW c \in Conns, NEW i \in 1..sent', Settled(c, i)'
             PROVE  Reached(c, i)'
  BY DEF SettledReached
<1> BroadcastTypeOK /\ Underway /\ offset \in Nat /\ sent \in Nat
  BY ClientAssumption DEF BroadcastTypeOK
<1>1. ASSUME i \in 1..sent, Settled(c, i), ~(Find /\ i = call.at)
      PROVE  Reached(c, i)'
  BY <1>1, ReachedStays DEF SettledReached
<1>2. CASE Send
  <2>1. UNCHANGED <<offset, call>> /\ sent' = sent + 1
    BY <1>2 DEF Send
  <2>2. i \in 1..sent
    BY <2>1 DEF BroadcastTypeOK, Underway
  <2>3. ~Find
    BY <2>1 DEF Find, BroadcastTypeOK
  <2> QED
    BY <1>1, <2>1, <2>2, <2>3
<1>3. CASE UNCHANGED <<sent, offset, call>>
  BY <1>1, <1>3 DEF Find, BroadcastTypeOK
<1>4. CASE \E d \in Conns : Connect(d) \/ Open(d) \/ Close(d) \/ Disconnect(d) \/ Replicate(d)
  BY <1>3, <1>4 DEF Connect, Open, Close, Disconnect, Replicate, lambda
<1>5. CASE Invoke
  BY <1>1, <1>5 DEF Invoke, Find, BroadcastTypeOK
<1>6. CASE Find
  <2>1. UNCHANGED <<sent, offset, socket, table, owed>>
    BY <1>6 DEF Find
  <2>2. call'.at = call.at /\ call'.stage = "push" /\ call.stage = "find"
    BY <1>6, FindAnswers DEF BroadcastTypeOK, Find
  <2>3. CASE i = call.at
    <3>1. c \notin call'.todo /\ call.at \in 1..sent
      BY <2>1, <2>2, <2>3 DEF Underway
    <3> SUFFICES ASSUME c \notin evicted, i \notin cut', <<c, i>> \in owed, socket[c] = "open"
                 PROVE  FALSE
      BY <2>1 DEF Reached, Served, table
    <3> QED
      BY <1>6, <2>3, <3>1, FindMissesNobody
  <2>4. CASE i # call.at
    BY <1>1, <2>1, <2>2, <2>4
  <2> QED
    BY <2>3, <2>4
<1>7. CASE FindFailed
  <2>1. UNCHANGED <<sent, offset>> /\ call.stage = "find"
    BY <1>7 DEF FindFailed
  <2>2. call'.at = call.at
    BY <1>7 DEF BroadcastTypeOK, FindFailed
  <2>3. CASE i = call.at
    BY <1>7, <2>3 DEF FindFailed, Reached, Served
  <2>4. CASE i # call.at
    BY <1>1, <1>7, <2>1, <2>2, <2>4 DEF Find
  <2> QED
    BY <2>3, <2>4
<1>8. CASE PostToConnection
  <2>1. PICK d \in call.todo :
            Push(d) \/ PushFailed(d) \/ PushGone(d) \/ PushGoneRaised(d)
    BY <1>8 DEF PostToConnection
  <2>2. UNCHANGED <<sent, offset, socket, owed>> /\ call.stage = "push"
    BY <1>8 DEF PostToConnection
  <2>3. call'.at = call.at /\ call'.stage = "push"
    BY <2>1, <2>2 DEF Push, PushFailed, PushGone, PushGoneRaised, Pushed, BroadcastTypeOK
  <2>4. CASE i = call.at /\ c \in call.todo
    <3>1. CASE Push(c)
      BY <2>4, <3>1 DEF Push, Reached, Served, BroadcastTypeOK
    <3>2. CASE PushFailed(c)
      BY <2>4, <3>2 DEF PushFailed, Reached, Served
    <3>3. CASE PushGone(c)
      BY <2>2, <3>3 DEF PushGone, Reached, Served
    <3>4. CASE PushGoneRaised(d)
      BY <2>4, <3>4 DEF PushGoneRaised, Reached, Served
    <3>5. CASE d # c /\ (Push(d) \/ PushFailed(d) \/ PushGone(d))
      <4>1. call'.todo = call.todo \ {d}
        BY <3>5 DEF Push, PushFailed, PushGone, Pushed, BroadcastTypeOK
      <4> QED
        BY <2>2, <2>3, <2>4, <3>5, <4>1 DEF Underway
    <3> QED
      BY <2>1, <3>1, <3>2, <3>3, <3>4, <3>5 DEF PushGoneRaised
  <2>5. CASE ~(i = call.at /\ c \in call.todo)
    BY <1>1, <2>2, <2>3, <2>5 DEF Find
  <2> QED
    BY <2>4, <2>5
<1>9. CASE NextRecord
  BY <1>1, <1>9 DEF NextRecord, Find, BroadcastTypeOK
<1>10. CASE Answer
  BY <1>1, <1>10 DEF Answer, Find, IdleCall, BroadcastTypeOK
<1>11. CASE LambdaDies
  BY <1>1, <1>11 DEF LambdaDies, Find, IdleCall, BroadcastTypeOK, Underway
<1>12. CASE UNCHANGED broadcastVars
  BY <1>3, <1>12 DEF broadcastVars
<1> QED
  BY <1>2, <1>4, <1>5, <1>6, <1>7, <1>8, <1>9, <1>10, <1>11, <1>12
     DEF BroadcastNext, Lambda

-----------------------------------------------------------------------------
(* The theorems. *)

LEMMA InitInv == BroadcastInit => BroadcastInv
BY ClientAssumption DEF BroadcastInit, BroadcastInv, BroadcastTypeOK, Sockets, IdleCall, Underway,
   TodoIsFor, TargetedOnly, SettledReached, Listed, OwedKnown

(* Every variable of the WebSocket path keeps its type. *)
THEOREM BroadcastTypes == BroadcastSpec => []BroadcastTypeOK
<1>1. BroadcastInit => BroadcastTypeOK /\ Underway
  BY InitInv DEF BroadcastInv
<1>2. BroadcastTypeOK /\ Underway /\ [BroadcastNext]_broadcastVars => BroadcastTypeOK' /\ Underway'
  BY TypeStep
<1> QED
  BY <1>1, <1>2, PTL DEF BroadcastSpec

(* Only the users a record is for are shown it (_find_connection_ids). *)
THEOREM TargetsOnly == BroadcastSpec => []TargetedOnly
<1> DEFINE Inv == BroadcastTypeOK /\ Underway /\ TodoIsFor /\ TargetedOnly
<1>1. BroadcastInit => Inv
  BY InitInv DEF BroadcastInv
<1>2. Inv /\ [BroadcastNext]_broadcastVars => Inv'
  BY TypeStep, TargetStep
<1>3. Inv => TargetedOnly
  OBVIOUS
<1> HIDE DEF Inv
<1> QED
  BY <1>1, <1>2, <1>3, PTL DEF BroadcastSpec

(* Whoever was connected when a record was sent is served with it: neither stale
   reads, nor clients that come, go or are removed, nor invocations that fail half
   way and are repeated pass it over. Left out are clients taken for gone in their
   handshake and records with a lookup of more than a page (ConnectedClientsServed). *)
THEOREM ClientsServed == BroadcastSpec => []ConnectedClientsServed
<1>1. BroadcastInit => BroadcastInv
  BY InitInv
<1>2. BroadcastInv /\ [BroadcastNext]_broadcastVars => BroadcastInv'
  BY TypeStep, TargetStep, RegistryStep, SettledStep DEF BroadcastInv
<1>3. BroadcastInv => ConnectedClientsServed
  BY ClientAssumption DEF BroadcastInv, SettledReached, Settled, Reached,
     ConnectedClientsServed, BroadcastTypeOK
<1> QED
  BY <1>1, <1>2, <1>3, PTL DEF BroadcastSpec

=============================================================================
