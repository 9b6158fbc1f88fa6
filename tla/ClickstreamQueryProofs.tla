----------------------- MODULE ClickstreamQueryProofs -----------------------
(***************************************************************************)
(* Proofs about ClickstreamQuery for every topic, set of users and event   *)
(* times, duration, gap, delay, batch cap and number of restarts.          *)
(***************************************************************************)
EXTENDS ClickstreamQuery, StreamingQueryProofs, FiniteSetTheorems, FunctionTheorems

(* The clicks of window (u, s) that the first n batches have counted: those
   that were not late in the batch they came with. *)
Counted(n, u, s) ==
    {p \in 1..produced :
        /\ clicks[p].user = u
        /\ s \in WindowsOf(clicks[p].time)
        /\ \E m \in 1..n : /\ BatchStart(m) < p
                           /\ p <= offsetLog[m]
                           /\ s + Duration > Watermark(m - 1)}

(* The row of the window after n batches. *)
WindowRow(n, u, s) ==
    [user |-> u, start |-> s, end |-> s + Duration, count |-> Cardinality(Counted(n, u, s))]

ClicksInv ==
    /\ CheckpointInv
    /\ EndsOrdered
    /\ clicks \in Seq([user : Users, time : ClickTimes])
    /\ Len(clicks) = produced
    /\ query \in {"windows", "sessions"}

(* The state store has the rows of the open windows, the table has or may get
   rows that some batch has planned, and the last row of every window that is
   committed. *)
WindowsInv ==
    /\ \A w \in state : \E u \in Users, s \in WindowStarts : w = WindowRow(commitLog, u, s)
    /\ \A u \in Users, s \in WindowStarts :
          Counted(commitLog, u, s) # {} =>
              /\ WindowRow(commitLog, u, s) \in table
              /\ s + Duration > Watermark(commitLog) => WindowRow(commitLog, u, s) \in state
    /\ \A r \in table \union abandoned :
          \E u \in Users, s \in WindowStarts, n \in 1..Len(offsetLog) : r = WindowRow(n, u, s)
    /\ phase = "returned" =>
          \A u \in Users, s \in WindowStarts :
              Counted(batch, u, s) # {} => WindowRow(batch, u, s) \in table

ClickInv == ClicksInv /\ (query = "windows" => WindowsInv)

-----------------------------------------------------------------------------
(* Lemmas: the largest of a set, and the watermark. *)

(* A finite set of integers that is not empty has a largest element: no subset
   of it, the smallest ones first, can lack one. *)
LEMMA FiniteMax ==
    ASSUME NEW S \in SUBSET Int, IsFiniteSet(S), S # {}
    PROVE  Max(S) \in S /\ \A x \in S : x <= Max(S)
<1> DEFINE Topped(A) == \E m \in A : \A x \in A : x <= m
           Bad == {A \in SUBSET S : A # {} /\ ~Topped(A)}
<1>1. Bad = {}
  <2> SUFFICES ASSUME Bad # {} PROVE FALSE
    OBVIOUS
  <2>1. IsWellFoundedOn(StrictSubsetOrdering(S), SUBSET S)
    BY FS_StrictSubsetOrderingWellFounded, FS_FiniteSubsetsOfFinite
  <2>2. Bad \subseteq SUBSET S
    OBVIOUS
  <2> HIDE DEF Bad
  <2>3. PICK A \in Bad : \A B \in Bad : ~(<<B, A>> \in StrictSubsetOrdering(S))
    BY <2>1, <2>2, WFMin
  <2> USE DEF Bad
  <2>4. PICK a \in A : TRUE
    BY <2>3
  <2>5. A \ {a} \notin Bad
    BY <2>3, <2>4 DEF StrictSubsetOrdering
  <2>6. A \subseteq Int /\ a \in Int
    BY <2>3, <2>4
  <2>7. CASE A \ {a} = {}
    <3>1. \A x \in A : x <= a
      BY <2>6, <2>7
    <3> QED
      BY <2>3, <2>4, <3>1
  <2>8. CASE A \ {a} # {}
    <3>1. PICK m \in A \ {a} : \A x \in A \ {a} : x <= m
      BY <2>3, <2>5, <2>8
    <3>2. CASE a <= m
      <4>1. \A x \in A : x <= m
        BY <3>1, <3>2
      <4> QED
        BY <2>3, <3>1, <4>1
    <3>3. CASE m < a
      <4>1. \A x \in A : x <= a
        BY <2>6, <3>1, <3>3
      <4> QED
        BY <2>3, <2>4, <4>1
    <3> QED
      BY <2>6, <3>1, <3>2, <3>3
  <2> QED
    BY <2>7, <2>8
<1>2. PICK m \in S : \A x \in S : x <= m
  BY <1>1
<1>3. m >= m /\ \A x \in S : m >= x
  BY <1>2
<1> QED
  BY <1>2, <1>3 DEF Max

LEMMA ClickTypes ==
    ASSUME ClicksInv, NEW p \in 1..produced
    PROVE  clicks[p].user \in Users /\ clicks[p].time \in ClickTimes /\ clicks[p].time \in Nat
<1> DEFINE Click == [user : Users, time : ClickTimes]
<1>1. clicks \in Seq(Click) /\ p \in 1..Len(clicks)
  BY DEF ClicksInv
<1> HIDE DEF Click
<1>2. clicks[p] \in Click
  BY <1>1
<1> QED
  BY <1>2, WindowAssumption DEF Click

(* Batches hold records of the topic: what comes before a batch does, too. *)
LEMMA LogPositions ==
    ASSUME ClicksInv, NEW n \in 1..Len(offsetLog)
    PROVE  /\ startPos \in Nat /\ offsetLog[n] \in Nat /\ BatchStart(n) \in Nat
           /\ startPos <= BatchStart(n) /\ BatchStart(n) <= offsetLog[n]
           /\ offsetLog[n] <= produced /\ produced \in Nat
           /\ \A p \in Nat : startPos < p /\ p <= offsetLog[n] => p \in 1..produced
<1>1. startPos # NoPos /\ startPos \in Nat /\ produced \in Nat /\ Len(offsetLog) \in Nat
  BY CheckpointTypes DEF ClicksInv, CheckpointInv, LogTypes, LogsAgree
<1>2. offsetLog[n] \in Nat /\ BatchStart(n) <= offsetLog[n] /\ offsetLog[n] <= produced
  BY CheckpointTypes DEF ClicksInv, CheckpointInv, LogsAgree
<1>3. BatchStart(n) \in Nat /\ startPos <= BatchStart(n)
  <2>1. CASE n = 1
    BY <1>1, <2>1 DEF BatchStart
  <2>2. CASE n # 1
    <3>1. n - 1 \in 1..Len(offsetLog)
      BY <1>1, <2>2
    <3> QED
      BY <2>2, <3>1, CheckpointTypes DEF BatchStart, ClicksInv, EndsOrdered
  <2> QED
    BY <2>1, <2>2
<1> QED
  BY <1>1, <1>2, <1>3

(* The event times before a batch are finitely many. *)
LEMMA TimesFinite ==
    ASSUME ClicksInv, NEW n \in 2..(Len(offsetLog) + 1)
    PROVE  /\ IsFiniteSet(TimesBefore(n)) /\ TimesBefore(n) \subseteq Nat
           /\ \A x : x \in TimesBefore(n) <=>
                  \E p \in 1..produced : /\ startPos < p
                                        /\ p <= offsetLog[n - 1]
                                        /\ x = clicks[p].time
<1>1. n - 1 \in 1..Len(offsetLog)
  BY CheckpointTypes DEF ClicksInv
<1>2. PICK a \in Nat : a = startPos + 1
  BY <1>1, LogPositions
<1>3. PICK b \in Nat : b = offsetLog[n - 1]
  BY <1>1, LogPositions
<1>4. \A p : p \in a..b <=> p \in 1..produced /\ startPos < p /\ p <= b
  <2>1. startPos \in Nat /\ b <= produced /\ produced \in Nat
    BY <1>1, <1>3, LogPositions
  <2> QED
    BY ONLY <1>2, <2>1, a \in Nat, b \in Nat
<1> DEFINE T == {clicks[p].time : p \in a..b}
           f == [p \in a..b |-> clicks[p].time]
<1>5. TimesBefore(n) = T
  BY <1>2, <1>3 DEF TimesBefore
<1>6. IsFiniteSet(T)
  <2>1. IsFiniteSet(a..b)
    BY FS_Interval
  <2>2. f \in Surjection(a..b, T)
    BY DEF Surjection
  <2> QED
    BY <2>1, <2>2, FS_Surjection
<1>7. ASSUME NEW x PROVE x \in T <=> \E p \in a..b : x = clicks[p].time
  OBVIOUS
<1>8. T \subseteq Nat
  BY <1>4, ClickTypes
<1> HIDE DEF T
<1>9. ASSUME NEW x
      PROVE  x \in T <=> \E p \in 1..produced : /\ startPos < p
                                               /\ p <= offsetLog[n - 1]
                                               /\ x = clicks[p].time
  BY <1>3, <1>4, <1>7
<1> QED
  BY <1>5, <1>6, <1>8, <1>9

(* The watermark of batch n is the least bound that no click before the batch
   is more than the delay ahead of. *)
LEMMA WatermarkBounds ==
    ASSUME ClicksInv, NEW n \in 2..(Len(offsetLog) + 1)
    PROVE  /\ Watermark(n) \in Int /\ NoWatermark <= Watermark(n)
           /\ \A p \in 1..produced : startPos < p /\ p <= offsetLog[n - 1]
                                         => clicks[p].time - Delay <= Watermark(n)
           /\ \/ Watermark(n) = NoWatermark
              \/ \E p \in 1..produced : /\ startPos < p
                                        /\ p <= offsetLog[n - 1]
                                        /\ Watermark(n) = clicks[p].time - Delay
<1>1. ~(n < 2)
  BY CheckpointTypes DEF ClicksInv
<1> DEFINE times == TimesBefore(n)
<1>2. /\ IsFiniteSet(times) /\ times \subseteq Nat
      /\ \A x : x \in times <=> \E p \in 1..produced : /\ startPos < p
                                                    /\ p <= offsetLog[n - 1]
                                                    /\ x = clicks[p].time
  BY TimesFinite
<1>3. NoWatermark \in Int /\ Delay \in Nat /\ NoWatermark < -Delay
  BY WindowAssumption DEF NoWatermark
<1>4. Watermark(n) = IF times = {} THEN NoWatermark ELSE Max(times) - Delay
  BY <1>1 DEF Watermark
<1> HIDE DEF times
<1>5. CASE times = {}
  <2>1. Watermark(n) = NoWatermark
    BY <1>4, <1>5
  <2>2. ASSUME NEW q \in 1..produced, startPos < q, q <= offsetLog[n - 1] PROVE FALSE
    BY <1>2, <1>5, <2>2
  <2> QED
    BY <1>3, <2>1, <2>2
<1>6. CASE times # {}
  <2>1. Max(times) \in times /\ \A x \in times : x <= Max(times)
    BY <1>2, <1>6, FiniteMax
  <2>2. PICK max \in Nat : max = Max(times)
    BY <1>2, <2>1
  <2>3. Watermark(n) = max - Delay
    BY <1>4, <1>6, <2>2
  <2>4. PICK p \in 1..produced : startPos < p /\ p <= offsetLog[n - 1] /\ max = clicks[p].time
    BY <1>2, <2>1, <2>2
  <2>5. Watermark(n) \in Int /\ NoWatermark <= Watermark(n)
    BY <1>3, <2>3
  <2>6. ASSUME NEW q \in 1..produced, startPos < q, q <= offsetLog[n - 1]
        PROVE  clicks[q].time - Delay <= Watermark(n)
    <3>1. clicks[q].time \in Nat /\ clicks[q].time <= max
      BY <1>2, <2>1, <2>2, <2>6
    <3> QED
      BY <1>3, <2>3, <3>1
  <2>7. Watermark(n) = clicks[p].time - Delay
    BY <2>3, <2>4
  <2> QED
    BY <2>4, <2>5, <2>6, <2>7
<1> QED
  BY <1>5, <1>6

LEMMA EarlyWatermark ==
    ASSUME NEW n \in Int, n < 2
    PROVE  Watermark(n) = NoWatermark /\ NoWatermark \in Int
  BY WindowAssumption DEF Watermark, NoWatermark

(* The watermark never goes back from one batch to the next. *)
LEMMA WatermarkGrows ==
    ASSUME ClicksInv, NEW m \in 0..(Len(offsetLog) + 1), NEW n \in m..(Len(offsetLog) + 1)
    PROVE  Watermark(m) \in Int /\ Watermark(n) \in Int /\ Watermark(m) <= Watermark(n)
<1>0. Len(offsetLog) \in Nat
  BY CheckpointTypes DEF ClicksInv
<1>1. CASE n < 2
  BY <1>0, <1>1, EarlyWatermark
<1>2. CASE n >= 2 /\ m < 2
  <2>1. n \in 2..(Len(offsetLog) + 1)
    BY <1>0, <1>2
  <2> QED
    BY <1>0, <1>2, <2>1, EarlyWatermark, WatermarkBounds
<1>3. CASE m >= 2
  <2>1. m \in 2..(Len(offsetLog) + 1) /\ n \in 2..(Len(offsetLog) + 1)
    BY <1>0, <1>3
  <2>2. Watermark(m) \in Int /\ Watermark(n) \in Int
    BY <2>1, WatermarkBounds
  <2>3. CASE Watermark(m) = NoWatermark
    BY <2>1, <2>2, <2>3, WatermarkBounds
  <2>4. ASSUME NEW p \in 1..produced, startPos < p, p <= offsetLog[m - 1],
               Watermark(m) = clicks[p].time - Delay
        PROVE  Watermark(m) <= Watermark(n)
    <3>1. m - 1 \in 1..Len(offsetLog) /\ n - 1 \in 1..Len(offsetLog) /\ m - 1 <= n - 1
      BY <1>0, <2>1
    <3>2. offsetLog[m - 1] <= offsetLog[n - 1] /\ offsetLog[m - 1] \in Nat /\ offsetLog[n - 1] \in Nat
      BY <3>1, LogPositions DEF ClicksInv, EndsOrdered
    <3>3. p <= offsetLog[n - 1]
      <4>1. p \in Nat
        BY <3>1, LogPositions
      <4> QED
        BY <2>4, <3>2, <4>1
    <3> QED
      BY <2>1, <2>4, <3>3, WatermarkBounds
  <2> QED
    BY <2>1, <2>2, <2>3, <2>4, WatermarkBounds
<1> QED
  BY <1>0, <1>1, <1>2, <1>3

-----------------------------------------------------------------------------
(* The steps of the query. *)

(* A no-data batch ends where it begins; all else is a step of StreamingQuery,
   but for the result, which counts windows or sessions. *)
LEMMA ClickStepIsCheckpointStep ==
    ASSUME ClicksInv, [ClickNext]_clickVars
    PROVE  [CheckpointNext]_vars
<1>1. CASE PlanClicks
  <2>1. CASE PlanBatch
    BY <2>1, PlanIsCapped DEF CheckpointNext, ClicksInv
  <2>2. CASE ~PlanBatch
    <3>1. /\ phase = "idle" /\ startPos # NoPos /\ until' = from
          /\ offsetLog' = Append(offsetLog, from) /\ phase' = "planned"
          /\ UNCHANGED <<topic, startPos, commitLog, batch, from, result, starts>>
      BY <1>1, <2>2 DEF PlanClicks
    <3>2. from = CommittedEnd
      BY <3>1 DEF ClicksInv, CheckpointInv, DriverFollowsCheckpoint
    <3>3. from \in 0..produced /\ produced \in Nat
      BY <3>1, <3>2, CommittedEndType, CheckpointTypes DEF ClicksInv, CheckpointInv
    <3>4. from \in from..produced /\ from - from <= MaxOffsetsPerTrigger /\ from \in Nat
      BY <3>3, TriggerAssumption
    <3>5. PlanUpTo(from)
      BY <3>1, <3>4 DEF PlanUpTo
    <3> QED
      BY <3>4, <3>5 DEF Plan, CheckpointNext
  <2> QED
    BY <2>1, <2>2
<1>2. CASE WriteClicks
  BY <1>2 DEF WriteClicks, WriteRows, WriteEmpty, InsertDone, InsertFailed, Callback,
              CheckpointNext
<1>3. CASE ProduceClick \/ StartQuery \/ ReadClicks \/ CommitClicks \/ CrashClicks
  BY <1>3 DEF ProduceClick, StartQuery, ReadClicks, CommitClicks, CrashClicks, CrashInserting,
              CheckpointNext
<1>4. CASE StoreClicksLate \/ UNCHANGED clickVars
  BY <1>4 DEF StoreClicksLate, InsertLate, clickVars, clickHouseVars
<1> QED
  BY <1>1, <1>2, <1>3, <1>4 DEF ClickNext

(* Only a producer adds clicks, and the query is the one it was. *)
LEMMA TopicOnlyGrows ==
    ASSUME ClicksInv, [ClickNext]_clickVars
    PROVE  /\ query' = query
           /\ produced' \in Nat /\ produced <= produced'
           /\ clicks' \in Seq([user : Users, time : ClickTimes]) /\ Len(clicks') = produced'
           /\ \A p \in 1..produced : p \in 1..produced' /\ clicks'[p] = clicks[p]
<1>1. produced \in Nat
  BY CheckpointTypes DEF ClicksInv
<1>2. CASE ProduceClick
  <2>1. PICK u \in Users, t \in ClickTimes : clicks' = Append(clicks, [user |-> u, time |-> t])
    BY <1>2 DEF ProduceClick
  <2>2. produced' = produced + 1 /\ query' = query
    BY <1>2 DEF ProduceClick, Produce
  <2>3. PICK c \in [user : Users, time : ClickTimes] : clicks' = Append(clicks, c)
    BY <2>1
  <2> DEFINE Click == [user : Users, time : ClickTimes]
  <2>4. clicks \in Seq(Click) /\ c \in Click /\ Len(clicks) = produced
    BY <2>3 DEF ClicksInv
  <2> HIDE DEF Click
  <2>5. /\ clicks' \in Seq(Click) /\ Len(clicks') = Len(clicks) + 1
        /\ \A p \in 1..Len(clicks) : clicks'[p] = clicks[p]
    BY <2>3, <2>4
  <2> USE DEF Click
  <2> QED
    BY <1>1, <2>2, <2>4, <2>5
<1>3. CASE ~ProduceClick
  <2>1. UNCHANGED <<query, clicks, produced>>
    BY <1>3 DEF ClickNext, StartQuery, PlanClicks, ReadClicks, WriteClicks, CommitClicks,
                CrashClicks, StoreClicksLate, clickVars, clickHouseVars, vars, Start, PlanBatch,
                ResolveStart, ReadBatch, WriteRows, WriteEmpty, InsertDone, InsertFailed,
                EndCallback, CommitBatch, CrashInserting, Crash, InsertLate, topic
  <2> QED
    BY <1>1, <2>1 DEF ClicksInv
<1> QED
  BY <1>2, <1>3

LEMMA InitClicksInv == ClickInit => ClicksInv
<1> SUFFICES ASSUME ClickInit PROVE ClicksInv
  OBVIOUS
<1>1. CheckpointInv /\ offsetLog = <<>>
  BY InitCheckpointInv DEF ClickInit, Init
<1>2. EndsOrdered
  <2>1. 1..Len(offsetLog) = {}
    BY <1>1
  <2> QED
    BY <2>1 DEF EndsOrdered
<1>3. clicks \in Seq([user : Users, time : ClickTimes]) /\ Len(clicks) = produced
  BY DEF ClickInit, Init
<1> QED
  BY <1>1, <1>2, <1>3 DEF ClicksInv, ClickInit

LEMMA ClicksInvStep ==
    ASSUME ClicksInv, [ClickNext]_clickVars
    PROVE  ClicksInv'
<1>1. [CheckpointNext]_vars /\ CheckpointInv /\ EndsOrdered
  BY ClickStepIsCheckpointStep DEF ClicksInv
<1>2. CheckpointInv' /\ EndsOrdered'
  BY <1>1, CheckpointNextStep, EndsOrderedNext
<1> QED
  BY <1>2, TopicOnlyGrows DEF ClicksInv

(* What a batch of the log holds, its watermark and what it counted never
   change: a replay does what the first attempt did. *)
LEMMA LogStands ==
    ASSUME ClicksInv, [ClickNext]_clickVars
    PROVE  /\ Len(offsetLog) \in Nat /\ Len(offsetLog') \in Nat
           /\ Len(offsetLog) <= Len(offsetLog')
           /\ \A n \in 1..Len(offsetLog) :
                 offsetLog'[n] = offsetLog[n] /\ BatchStart(n)' = BatchStart(n)
           /\ \A n \in 0..(Len(offsetLog) + 1) : Watermark(n)' = Watermark(n)
<1>1. /\ startPos # NoPos => startPos' = startPos
      /\ Len(offsetLog') >= Len(offsetLog)
      /\ \A n \in 1..Len(offsetLog) : offsetLog'[n] = offsetLog[n]
  BY ClickStepIsCheckpointStep, CheckpointKept DEF ClicksInv
<1>2. Len(offsetLog) \in Nat /\ Len(offsetLog') \in Nat
  BY ClicksInvStep, CheckpointTypes DEF ClicksInv
<1>3. ASSUME NEW n \in 1..Len(offsetLog) PROVE startPos' = startPos /\ BatchStart(n)' = BatchStart(n)
  <2>1. startPos' = startPos
    BY <1>1, LogPositions DEF NoPos
  <2>2. CASE n = 1
    BY <2>1, <2>2 DEF BatchStart
  <2>3. CASE n # 1
    <3>1. n - 1 \in 1..Len(offsetLog)
      BY <1>2, <2>3
    <3> QED
      BY <1>1, <2>1, <2>3, <3>1 DEF BatchStart
  <2> QED
    BY <2>1, <2>2, <2>3
<1>4. ASSUME NEW n \in 0..(Len(offsetLog) + 1) PROVE Watermark(n)' = Watermark(n)
  <2>1. CASE n < 2
    BY <2>1 DEF Watermark, NoWatermark
  <2>2. CASE ~(n < 2)
    <3>1. n - 1 \in 1..Len(offsetLog)
      BY <1>2, <2>2
    <3>2. /\ startPos' = startPos /\ offsetLog'[n - 1] = offsetLog[n - 1]
          /\ startPos \in Nat /\ offsetLog[n - 1] \in Nat /\ offsetLog[n - 1] <= produced
          /\ produced \in Nat
      BY <1>1, <1>3, <3>1, LogPositions
    <3>3. \A p \in (startPos + 1)..offsetLog[n - 1] : clicks'[p] = clicks[p]
      <4>1. \A p \in (startPos + 1)..offsetLog[n - 1] : p \in 1..produced
        BY <3>2
      <4> QED
        BY <4>1, TopicOnlyGrows
    <3>4. TimesBefore(n)' = TimesBefore(n)
      BY <3>2, <3>3 DEF TimesBefore
    <3> QED
      BY <3>4 DEF Watermark, NoWatermark
  <2> QED
    BY <2>1, <2>2
<1> QED
  BY <1>1, <1>2, <1>3, <1>4

-----------------------------------------------------------------------------
(* Windows: what the batches have counted. *)

(* The clicks of the window that batch n adds. *)
NewIn(n, u, s) ==
    {p \in 1..produced : /\ clicks[p].user = u
                         /\ s \in WindowsOf(clicks[p].time)
                         /\ BatchStart(n) < p
                         /\ p <= offsetLog[n]
                         /\ s + Duration > Watermark(n - 1)}

LEMMA CountedTypes ==
    ASSUME ClicksInv, NEW n, NEW u, NEW s
    PROVE  /\ Counted(n, u, s) \subseteq 1..produced
           /\ IsFiniteSet(Counted(n, u, s)) /\ Cardinality(Counted(n, u, s)) \in Nat
           /\ NewIn(n, u, s) \subseteq 1..produced
           /\ IsFiniteSet(NewIn(n, u, s)) /\ Cardinality(NewIn(n, u, s)) \in Nat
<1>1. Counted(n, u, s) \subseteq 1..produced /\ NewIn(n, u, s) \subseteq 1..produced
  BY DEF Counted, NewIn
<1>2. IsFiniteSet(1..produced)
  BY FS_Interval, CheckpointTypes DEF ClicksInv
<1> QED
  BY <1>1, <1>2, FS_Subset, FS_CardinalityType

LEMMA CountedGrows ==
    ASSUME ClicksInv, NEW n \in Nat, NEW m \in 0..n, NEW u, NEW s
    PROVE  /\ Counted(m, u, s) \subseteq Counted(n, u, s)
           /\ Cardinality(Counted(m, u, s)) <= Cardinality(Counted(n, u, s))
<1>1. \A i \in 1..m : i \in 1..n
  OBVIOUS
<1>2. Counted(m, u, s) \subseteq Counted(n, u, s)
  BY <1>1 DEF Counted
<1> QED
  BY <1>2, CountedTypes, FS_Subset

(* A batch adds its own clicks to those counted before it. *)
LEMMA CountedAdds ==
    ASSUME ClicksInv, NEW n \in 1..Len(offsetLog), NEW u, NEW s
    PROVE  /\ Counted(n, u, s) = Counted(n - 1, u, s) \union NewIn(n, u, s)
           /\ Cardinality(Counted(n, u, s))
                = Cardinality(Counted(n - 1, u, s)) + Cardinality(NewIn(n, u, s))
<1>0. Len(offsetLog) \in Nat
  BY CheckpointTypes DEF ClicksInv
<1>1. \A m : m \in 1..n <=> m \in 1..(n - 1) \/ m = n
  BY <1>0
<1>2. Counted(n, u, s) = Counted(n - 1, u, s) \union NewIn(n, u, s)
  BY <1>1 DEF Counted, NewIn
<1>3. ASSUME NEW p \in Counted(n - 1, u, s) PROVE p \notin NewIn(n, u, s)
  <2>1. PICK m \in 1..(n - 1) : p <= offsetLog[m]
    BY DEF Counted
  <2>2. m \in 1..Len(offsetLog) /\ n - 1 \in 1..Len(offsetLog) /\ m <= n - 1 /\ n # 1
    BY <1>0, <2>1
  <2>3. BatchStart(n) = offsetLog[n - 1] /\ offsetLog[m] <= offsetLog[n - 1]
    BY <2>2 DEF BatchStart, ClicksInv, EndsOrdered
  <2>4. p \in Int /\ offsetLog[m] \in Int /\ offsetLog[n - 1] \in Int
    BY <2>2, LogPositions, CountedTypes
  <2> QED
    BY <2>1, <2>3, <2>4 DEF NewIn
<1>4. Counted(n - 1, u, s) \intersect NewIn(n, u, s) = {}
  BY <1>3
<1>5. PICK old : old = Counted(n - 1, u, s)
  OBVIOUS
<1>6. PICK new : new = NewIn(n, u, s)
  OBVIOUS
<1>7. /\ IsFiniteSet(old) /\ Cardinality(old) \in Nat
      /\ IsFiniteSet(new) /\ Cardinality(new) \in Nat
  BY <1>5, <1>6, CountedTypes
<1>8. Cardinality(old \intersect new) = 0
  BY <1>4, <1>5, <1>6, FS_EmptySet
<1>9. Cardinality(old \union new) = Cardinality(old) + Cardinality(new)
  <2>1. Cardinality(old \union new)
          = Cardinality(old) + Cardinality(new) - Cardinality(old \intersect new)
    BY ONLY <1>7, FS_Union
  <2> QED
    BY ONLY <1>7, <1>8, <2>1
<1>10. Cardinality(Counted(n, u, s)) = Cardinality(old \union new)
  BY <1>2, <1>5, <1>6
<1>11. Cardinality(Counted(n - 1, u, s)) = Cardinality(old)
  BY <1>5
<1>12. Cardinality(NewIn(n, u, s)) = Cardinality(new)
  BY <1>6
<1> QED
  BY <1>2, <1>9, <1>10, <1>11, <1>12

(* A window that has counted clicks is one of some user and time. *)
LEMMA CountedWindows ==
    ASSUME ClicksInv, NEW n, NEW u, NEW s, Counted(n, u, s) # {}
    PROVE  u \in Users /\ s \in WindowStarts
<1>1. PICK p \in 1..produced : clicks[p].user = u /\ s \in WindowsOf(clicks[p].time)
  BY DEF Counted
<1> QED
  BY <1>1, ClickTypes DEF WindowStarts

LEMMA WindowTypes ==
    ASSUME NEW s \in WindowStarts
    PROVE  s \in Int /\ s + Duration \in Int /\ s + Duration >= 1
  BY WindowAssumption DEF WindowStarts, WindowsOf

(* What the batches of the log have counted stands. *)
LEMMA CountedStands ==
    ASSUME ClicksInv, [ClickNext]_clickVars, NEW n \in 0..Len(offsetLog), NEW u, NEW s
    PROVE  /\ Counted(n, u, s)' = Counted(n, u, s)
           /\ WindowRow(n, u, s)' = WindowRow(n, u, s)
<1>1. /\ Len(offsetLog) \in Nat
      /\ \A m \in 1..n : m \in 1..Len(offsetLog) /\ m - 1 \in 0..(Len(offsetLog) + 1)
  BY LogStands
<1>2. \A m \in 1..n : /\ BatchStart(m)' = BatchStart(m)
                      /\ offsetLog'[m] = offsetLog[m]
                      /\ Watermark(m - 1)' = Watermark(m - 1)
  BY <1>1, LogStands
<1>3. \A m \in 1..n, p \in 1..produced' : p <= offsetLog[m] => p \in 1..produced
  BY <1>1, LogPositions, TopicOnlyGrows
<1>4. \A p \in 1..produced : p \in 1..produced' /\ clicks'[p] = clicks[p]
  BY TopicOnlyGrows
<1>5. ASSUME NEW p PROVE p \in Counted(n, u, s)' <=> p \in Counted(n, u, s)
  <2>1. p \in Counted(n, u, s)' <=>
            /\ p \in 1..produced'
            /\ clicks'[p].user = u
            /\ s \in WindowsOf(clicks'[p].time)
            /\ \E m \in 1..n : /\ BatchStart(m) < p
                               /\ p <= offsetLog[m]
                               /\ s + Duration > Watermark(m - 1)
    BY <1>2 DEF Counted, WindowsOf
  <2>2. p \in Counted(n, u, s) <=>
            /\ p \in 1..produced
            /\ clicks[p].user = u
            /\ s \in WindowsOf(clicks[p].time)
            /\ \E m \in 1..n : /\ BatchStart(m) < p
                               /\ p <= offsetLog[m]
                               /\ s + Duration > Watermark(m - 1)
    BY DEF Counted
  <2> QED
    BY <1>3, <1>4, <2>1, <2>2
<1>6. Counted(n, u, s)' = Counted(n, u, s)
  BY <1>5
<1> QED
  BY <1>6 DEF WindowRow

-----------------------------------------------------------------------------
(* Windows: the rows of a batch. *)

LEMMA TotalOfOne ==
    ASSUME NEW w, w.count \in Nat
    PROVE  Total({w}) = w.count
<1>1. PICK c \in Nat : c = w.count
  OBVIOUS
<1>2. UNION {{row} \X (1..row.count) : row \in {w}} = {w} \X (1..c)
  BY <1>1
<1>3. IsFiniteSet({w}) /\ Cardinality({w}) = 1
  BY FS_Singleton
<1>4. IsFiniteSet(1..c) /\ Cardinality(1..c) = c
  BY FS_Interval
<1>5. Cardinality({w} \X (1..c)) = c
  <2>1. PICK one : one = {w}
    OBVIOUS
  <2>2. PICK counts : counts = 1..c
    OBVIOUS
  <2>3. IsFiniteSet(one) /\ IsFiniteSet(counts) /\ Cardinality(one) = 1 /\ Cardinality(counts) = c
    BY <1>3, <1>4, <2>1, <2>2
  <2>4. Cardinality(one \X counts) = Cardinality(one) * Cardinality(counts)
    BY ONLY <2>3, FS_Product
  <2>5. Cardinality(one \X counts) = c
    BY <2>3, <2>4
  <2> QED
    BY <2>1, <2>2, <2>5
<1> QED
  BY <1>1, <1>2, <1>5 DEF Total

LEMMA TotalOfNone == Total({}) = 0
<1>1. UNION {{row} \X (1..row.count) : row \in {}} = {}
  OBVIOUS
<1> QED
  BY <1>1, FS_EmptySet DEF Total

(* The batch at work is the last of the log, the next to commit. *)
LEMMA CurrentBatch ==
    ASSUME ClicksInv, phase \in BatchPhases
    PROVE  /\ batch \in 1..Len(offsetLog) /\ batch = Len(offsetLog)
           /\ commitLog = batch - 1 /\ commitLog \in Nat
           /\ from = BatchStart(batch) /\ until = offsetLog[batch]
           /\ from \in Nat /\ until \in Nat /\ produced \in Nat
           /\ \A p : p \in BatchClicks <=> p \in 1..produced /\ from < p /\ p <= until
<1>1. /\ batch = commitLog + 1 /\ batch = Len(offsetLog)
      /\ until = offsetLog[batch]
  BY DEF ClicksInv, CheckpointInv, DriverFollowsCheckpoint
<1>2. batch \in 1..Len(offsetLog) /\ from = BatchStart(batch)
  BY <1>1, BatchIsLast DEF ClicksInv
<1>3. /\ from \in Nat /\ until \in Nat /\ until <= produced /\ produced \in Nat
  BY <1>1, <1>2, LogPositions
<1>4. commitLog \in Nat
  BY CheckpointTypes DEF ClicksInv
<1>5. \A p : p \in BatchClicks <=> p \in 1..produced /\ from < p /\ p <= until
  BY <1>3 DEF BatchClicks
<1> QED
  BY <1>1, <1>2, <1>3, <1>4, <1>5

(* A window that is not late has the count of the batches before in the state
   store, if it has one. *)
LEMMA StateHasTheCount ==
    ASSUME ClicksInv, WindowsInv, commitLog \in Nat, NEW u \in Users, NEW s \in WindowStarts,
           s + Duration > Watermark(commitLog)
    PROVE  Total({w \in state : w.user = u /\ w.start = s})
             = Cardinality(Counted(commitLog, u, s))
<1> DEFINE row == WindowRow(commitLog, u, s)
           mine == {w \in state : w.user = u /\ w.start = s}
<1>1. row.user = u /\ row.start = s /\ row.count = Cardinality(Counted(commitLog, u, s))
  BY DEF WindowRow
<1>2. \A w \in mine : w = row
  BY DEF WindowsInv, WindowRow
<1>3. Cardinality(Counted(commitLog, u, s)) \in Nat
  BY CountedTypes
<1>4. CASE row \in state
  <2>1. mine = {row}
    BY <1>1, <1>2, <1>4
  <2> QED
    BY <1>1, <1>3, <2>1, TotalOfOne
<1>5. CASE row \notin state
  <2>1. mine = {}
    BY <1>2, <1>5
  <2>2. Counted(commitLog, u, s) = {}
    BY <1>5 DEF WindowsInv
  <2> QED
    BY <2>1, <2>2, TotalOfNone, FS_EmptySet
<1> QED
  BY <1>4, <1>5

(* The windows the batch adds clicks to, by user and start. *)
Touched ==
    {k \in UNION {{clicks[p].user} \X WindowsOf(clicks[p].time) : p \in BatchClicks} :
        NotLate(k[2] + Duration)}

LEMMA TouchedIsNew ==
    ASSUME ClicksInv, phase \in BatchPhases
    PROVE  /\ \A k \in Touched : /\ k = <<k[1], k[2]>>
                                 /\ k[1] \in Users /\ k[2] \in WindowStarts
                                 /\ k[2] + Duration > Watermark(commitLog)
                                 /\ NewIn(batch, k[1], k[2]) # {}
           /\ \A u, s : NewIn(batch, u, s) # {} => <<u, s>> \in Touched
<1>1. ASSUME NEW k \in Touched
      PROVE  /\ k = <<k[1], k[2]>>
             /\ k[1] \in Users /\ k[2] \in WindowStarts
             /\ k[2] + Duration > Watermark(commitLog)
             /\ NewIn(batch, k[1], k[2]) # {}
  <2>1. PICK p \in BatchClicks : k \in {clicks[p].user} \X WindowsOf(clicks[p].time)
    BY <1>1 DEF Touched
  <2>2. k = <<k[1], k[2]>> /\ k[1] = clicks[p].user /\ k[2] \in WindowsOf(clicks[p].time)
    BY <2>1
  <2>3. k[2] + Duration > Watermark(batch - 1)
    BY <1>1 DEF Touched, NotLate
  <2>4. p \in 1..produced /\ BatchStart(batch) < p /\ p <= offsetLog[batch]
    BY CurrentBatch
  <2>5. p \in NewIn(batch, k[1], k[2])
    BY <2>2, <2>3, <2>4 DEF NewIn
  <2>6. k[1] \in Users /\ k[2] \in WindowStarts
    BY <2>2, <2>4, ClickTypes DEF WindowStarts
  <2> QED
    BY <2>2, <2>3, <2>5, <2>6, CurrentBatch
<1>2. ASSUME NEW u, NEW s, NEW p \in NewIn(batch, u, s) PROVE <<u, s>> \in Touched
  <2>1. /\ p \in 1..produced /\ clicks[p].user = u /\ s \in WindowsOf(clicks[p].time)
        /\ BatchStart(batch) < p /\ p <= offsetLog[batch]
        /\ s + Duration > Watermark(batch - 1)
    BY DEF NewIn
  <2>2. p \in BatchClicks
    BY <2>1, CurrentBatch
  <2>3. <<u, s>> \in {clicks[p].user} \X WindowsOf(clicks[p].time)
    BY <2>1
  <2>4. <<u, s>>[2] = s
    OBVIOUS
  <2> QED
    BY <2>1, <2>2, <2>3, <2>4 DEF Touched, NotLate
<1> QED
  BY <1>1, <1>2

(* The rows of the batch are those of the windows it adds clicks to, with the
   clicks of the batches before: also when it runs again. *)
LEMMA UpdatedRows ==
    ASSUME ClicksInv, WindowsInv, phase \in BatchPhases
    PROVE  \A r : r \in UpdatedWindows <=>
               \E u \in Users, s \in WindowStarts :
                   NewIn(batch, u, s) # {} /\ r = WindowRow(batch, u, s)
<1> DEFINE rowOf(k) ==
               [user |-> k[1], start |-> k[2], end |-> k[2] + Duration,
                count |-> Cardinality({p \in BatchClicks :
                                          clicks[p].user = k[1]
                                              /\ k[2] \in WindowsOf(clicks[p].time)})
                              + Total({w \in state : w.user = k[1] /\ w.start = k[2]})]
<1>1. UpdatedWindows = {rowOf(k) : k \in Touched}
  BY DEF UpdatedWindows, Touched
<1>2. ASSUME NEW u \in Users, NEW s \in WindowStarts, s + Duration > Watermark(commitLog)
      PROVE  rowOf(<<u, s>>) = WindowRow(batch, u, s)
  <2> DEFINE mine == {p \in BatchClicks : clicks[p].user = u /\ s \in WindowsOf(clicks[p].time)}
  <2>1. ASSUME NEW p PROVE p \in mine <=> p \in NewIn(batch, u, s)
    BY <1>2, CurrentBatch DEF NewIn
  <2>2. mine = NewIn(batch, u, s)
    BY <2>1
  <2>3. Total({w \in state : w.user = u /\ w.start = s}) = Cardinality(Counted(batch - 1, u, s))
    BY <1>2, CurrentBatch, StateHasTheCount
  <2>4. Cardinality(Counted(batch, u, s))
          = Cardinality(Counted(batch - 1, u, s)) + Cardinality(NewIn(batch, u, s))
    BY CurrentBatch, CountedAdds
  <2>5. Cardinality(Counted(batch - 1, u, s)) \in Nat /\ Cardinality(NewIn(batch, u, s)) \in Nat
    BY CountedTypes
  <2>6. Cardinality(mine) + Total({w \in state : w.user = u /\ w.start = s})
          = Cardinality(Counted(batch, u, s))
    <3> DEFINE kept == Total({w \in state : w.user = u /\ w.start = s})
    <3>1. Cardinality(mine) = Cardinality(NewIn(batch, u, s))
      BY <2>2
    <3> HIDE DEF mine, kept
    <3>2. kept = Cardinality(Counted(batch - 1, u, s))
      BY <2>3 DEF kept
    <3>3. Cardinality(mine) + kept = Cardinality(Counted(batch, u, s))
      BY ONLY <2>4, <2>5, <3>1, <3>2
    <3> QED
      BY <3>3 DEF kept
  <2> QED
    BY <2>6 DEF WindowRow
<1> HIDE DEF rowOf
<1>3. \A r : r \in UpdatedWindows <=> \E k \in Touched : r = rowOf(k)
  BY <1>1
<1>4. ASSUME NEW k \in Touched
      PROVE  /\ k[1] \in Users /\ k[2] \in WindowStarts /\ NewIn(batch, k[1], k[2]) # {}
             /\ rowOf(k) = WindowRow(batch, k[1], k[2])
  BY <1>2, TouchedIsNew
<1>5. ASSUME NEW u \in Users, NEW s \in WindowStarts, NewIn(batch, u, s) # {}
      PROVE  <<u, s>> \in Touched /\ rowOf(<<u, s>>) = WindowRow(batch, u, s)
  <2>1. <<u, s>> \in Touched
    BY <1>5, TouchedIsNew
  <2> QED
    BY <1>4, <2>1
<1>6. ASSUME NEW r \in UpdatedWindows
      PROVE  \E u \in Users, s \in WindowStarts :
                 NewIn(batch, u, s) # {} /\ r = WindowRow(batch, u, s)
  BY <1>3, <1>4
<1>7. ASSUME NEW u \in Users, NEW s \in WindowStarts, NewIn(batch, u, s) # {}
      PROVE  WindowRow(batch, u, s) \in UpdatedWindows
  BY <1>3, <1>5, <1>7
<1> QED
  BY <1>6, <1>7

(* The rows of a batch are finitely many: an insert of them that fails counts
   them all as failed. *)
LEMMA UpdatedFinite ==
    ASSUME ClicksInv, phase \in BatchPhases
    PROVE  IsFiniteSet(UpdatedWindows) /\ Cardinality(UpdatedWindows) \in Nat
<1> DEFINE keysOf == [p \in BatchClicks |-> {clicks[p].user} \X WindowsOf(clicks[p].time)]
           keys == {{clicks[p].user} \X WindowsOf(clicks[p].time) : p \in BatchClicks}
           rowOf == [k \in Touched |->
               [user |-> k[1], start |-> k[2], end |-> k[2] + Duration,
                count |-> Cardinality({p \in BatchClicks :
                                          clicks[p].user = k[1]
                                              /\ k[2] \in WindowsOf(clicks[p].time)})
                              + Total({w \in state : w.user = k[1] /\ w.start = k[2]})]]
<1>1. IsFiniteSet(BatchClicks)
  BY CurrentBatch, FS_Interval DEF BatchClicks
<1>2. IsFiniteSet(keys)
  <2>1. keysOf \in Surjection(BatchClicks, keys)
    BY DEF Surjection
  <2> QED
    BY <1>1, <2>1, FS_Surjection
<1>3. ASSUME NEW p \in BatchClicks
      PROVE  IsFiniteSet({clicks[p].user} \X WindowsOf(clicks[p].time))
  <2>1. PICK one : one = {clicks[p].user}
    OBVIOUS
  <2>2. PICK starting : starting = WindowsOf(clicks[p].time)
    OBVIOUS
  <2>3. PICK time \in Int : time = clicks[p].time
    BY CurrentBatch, ClickTypes
  <2>4. IsFiniteSet(one) /\ IsFiniteSet(starting)
    <3>1. IsFiniteSet((time - Duration + 1)..time)
      BY FS_Interval, WindowAssumption
    <3> QED
      BY <2>1, <2>2, <2>3, <3>1, FS_Singleton DEF WindowsOf
  <2>5. IsFiniteSet(one \X starting)
    BY ONLY <2>4, FS_Product
  <2> QED
    BY <2>1, <2>2, <2>5
<1>4. IsFiniteSet(UNION keys)
  <2>1. \A k \in keys : IsFiniteSet(k)
    BY <1>3
  <2> HIDE DEF keys
  <2> QED
    BY <1>2, <2>1, FS_UNION
<1>5. IsFiniteSet(Touched)
  <2>1. Touched \subseteq UNION keys
    BY DEF Touched
  <2> HIDE DEF keys
  <2> QED
    BY <1>4, <2>1, FS_Subset
<1>6. rowOf \in Surjection(Touched, UpdatedWindows)
  <2>1. UpdatedWindows = {rowOf[k] : k \in Touched}
    BY DEF UpdatedWindows, Touched
  <2>2. DOMAIN rowOf = Touched /\ rowOf = [k \in Touched |-> rowOf[k]]
    OBVIOUS
  <2> HIDE DEF rowOf
  <2> QED
    BY <2>1, <2>2 DEF Surjection
<1> HIDE DEF rowOf
<1> QED
  BY <1>5, <1>6, FS_Surjection, FS_CardinalityType

-----------------------------------------------------------------------------
(* Windows: the steps. *)

LEMMA NothingNew ==
    ASSUME ClicksInv, phase \in BatchPhases, NEW u, NEW s, NewIn(batch, u, s) = {}
    PROVE  /\ Counted(batch, u, s) = Counted(commitLog, u, s)
           /\ WindowRow(batch, u, s) = WindowRow(commitLog, u, s)
<1>1. batch \in 1..Len(offsetLog) /\ commitLog = batch - 1
  BY CurrentBatch
<1>2. Counted(batch, u, s) = Counted(batch - 1, u, s) \union NewIn(batch, u, s)
  BY <1>1, CountedAdds
<1>3. Counted(batch, u, s) = Counted(batch - 1, u, s)
  BY <1>2
<1>4. Counted(batch - 1, u, s) = Counted(commitLog, u, s)
  BY <1>1
<1> QED
  BY <1>3, <1>4 DEF WindowRow

(* A step that leaves the state store and the commit log alone, and puts
   nothing in the table or on its way to it but rows of the batch at work. *)
LEMMA WindowsKept ==
    ASSUME ClicksInv, [ClickNext]_clickVars, WindowsInv,
           UNCHANGED <<state, commitLog>>, table \subseteq table',
           \A r \in table' \union abandoned' :
               \/ r \in table \union abandoned
               \/ phase \in BatchPhases /\ r \in UpdatedWindows,
           phase' = "returned" =>
               /\ batch' = batch /\ phase \in BatchPhases
               /\ phase = "returned" \/ UpdatedWindows \subseteq table'
    PROVE  WindowsInv'
<1>1. /\ Len(offsetLog) \in Nat /\ Len(offsetLog') \in Nat /\ Len(offsetLog) <= Len(offsetLog')
      /\ commitLog \in 0..Len(offsetLog)
  BY LogStands, CheckpointTypes DEF ClicksInv, CheckpointInv, LogsAgree
<1>2. \A u, s : /\ Counted(commitLog, u, s)' = Counted(commitLog, u, s)
                /\ WindowRow(commitLog, u, s)' = WindowRow(commitLog, u, s)
  <2>1. PICK c \in 0..Len(offsetLog) : c = commitLog /\ c = commitLog'
    BY <1>1
  <2>2. \A u, s : /\ Counted(c, u, s)' = Counted(c, u, s)
                  /\ WindowRow(c, u, s)' = WindowRow(c, u, s)
    BY CountedStands
  <2> QED
    BY <2>1, <2>2
<1>3. Watermark(commitLog)' = Watermark(commitLog)
  <2>1. PICK c \in 0..(Len(offsetLog) + 1) : c = commitLog /\ c = commitLog'
    BY <1>1
  <2>2. Watermark(c)' = Watermark(c)
    BY LogStands
  <2> QED
    BY <2>1, <2>2
<1>4. \A w \in state' : \E u \in Users, s \in WindowStarts : w = WindowRow(commitLog, u, s)'
  BY <1>2 DEF WindowsInv
<1>5. ASSUME NEW u \in Users, NEW s \in WindowStarts, Counted(commitLog, u, s)' # {}
      PROVE  /\ WindowRow(commitLog, u, s)' \in table'
             /\ s + Duration > Watermark(commitLog)' => WindowRow(commitLog, u, s)' \in state'
  BY <1>2, <1>3, <1>5 DEF WindowsInv
<1>6. ASSUME NEW r \in table' \union abandoned'
      PROVE  \E u \in Users, s \in WindowStarts, n \in 1..Len(offsetLog') :
                 r = WindowRow(n, u, s)'
  <2>1. PICK u \in Users, s \in WindowStarts, n \in 1..Len(offsetLog) : r = WindowRow(n, u, s)
    <3>1. CASE r \in table \union abandoned
      BY <3>1 DEF WindowsInv
    <3>2. CASE phase \in BatchPhases /\ r \in UpdatedWindows
      BY <3>2, UpdatedRows, CurrentBatch
    <3> QED
      BY <3>1, <3>2
  <2>2. n \in 0..Len(offsetLog) /\ n \in 1..Len(offsetLog')
    BY <1>1
  <2>3. r = WindowRow(n, u, s)'
    BY <2>1, <2>2, CountedStands
  <2> QED
    BY <2>2, <2>3
<1>7. ASSUME phase' = "returned", NEW u \in Users, NEW s \in WindowStarts,
             Counted(batch, u, s)' # {}
      PROVE  WindowRow(batch, u, s)' \in table'
  <2>1. phase \in BatchPhases /\ batch' = batch
    BY <1>7
  <2>2. PICK b \in 1..Len(offsetLog) : b = batch /\ b = batch'
    BY <2>1, CurrentBatch
  <2>3. b \in 0..Len(offsetLog)
    BY <1>1
  <2>4. Counted(b, u, s)' = Counted(b, u, s) /\ WindowRow(b, u, s)' = WindowRow(b, u, s)
    BY <2>3, CountedStands
  <2>5. Counted(batch, u, s) # {} /\ WindowRow(batch, u, s)' = WindowRow(batch, u, s)
    BY <1>7, <2>2, <2>4
  <2>6. CASE phase = "returned"
    BY <2>5, <2>6 DEF WindowsInv
  <2>7. CASE UpdatedWindows \subseteq table' /\ NewIn(batch, u, s) # {}
    BY <2>1, <2>5, <2>7, UpdatedRows
  <2>8. CASE NewIn(batch, u, s) = {}
    <3>1. Counted(batch, u, s) = Counted(commitLog, u, s)
      BY <2>1, <2>8, NothingNew
    <3>2. WindowRow(batch, u, s) = WindowRow(commitLog, u, s)
      BY <3>1 DEF WindowRow
    <3> QED
      BY <2>5, <3>1, <3>2 DEF WindowsInv
  <2> QED
    BY <1>7, <2>6, <2>7, <2>8
<1> QED
  BY <1>4, <1>5, <1>6, <1>7 DEF WindowsInv

(* The callback: an insert that fails raises, one that returns has stored its
   rows. *)
LEMMA WriteWindows ==
    ASSUME ToleranceNum < ToleranceDen, ClicksInv, query = "windows", WindowsInv, WriteClicks
    PROVE  WindowsInv'
<1>1. phase = "writing" /\ phase \in BatchPhases
  BY DEF WriteClicks, WriteRows, WriteEmpty, InsertDone, InsertFailed, EndCallback, BatchPhases
<1>2. BatchRows = UpdatedWindows
  BY DEF BatchRows
<1>3. UNCHANGED <<state, commitLog, batch>>
  BY DEF WriteClicks, WriteRows, WriteEmpty, InsertDone, InsertFailed, EndCallback, checkpoint
<1>4. /\ table \subseteq table'
      /\ \A r \in table' \union abandoned' : r \in table \union abandoned \/ r \in UpdatedWindows
  BY <1>2 DEF WriteClicks, WriteRows, WriteEmpty, InsertDone, InsertFailed, InsertBroken, store
<1>5. ASSUME phase' = "returned" PROVE UpdatedWindows \subseteq table'
  <2>1. CASE WriteEmpty(UpdatedWindows)
    BY <2>1 DEF WriteEmpty
  <2>2. CASE InsertDone(UpdatedWindows)
    BY <2>2 DEF InsertDone
  <2>3. CASE InsertFailed(UpdatedWindows)
    <3>1. PICK c \in Nat : c = Cardinality(UpdatedWindows)
      BY <1>1, UpdatedFinite
    <3>2. c # 0
      BY <1>1, <2>3, <3>1, UpdatedFinite, FS_EmptySet DEF InsertFailed
    <3>3. ExceedsTolerance(0, c)
      BY <3>2, WholeFailureRaises
    <3>4. phase' = "down"
      BY <2>3, <3>1, <3>3 DEF InsertFailed, EndCallback
    <3> QED
      BY <1>5, <3>4
  <2> QED
    BY <1>2, <2>1, <2>2, <2>3 DEF WriteClicks, WriteRows
<1>6. [ClickNext]_clickVars
  BY DEF ClickNext
<1> QED
  BY <1>1, <1>3, <1>4, <1>5, <1>6, WindowsKept

(* The commit keeps, of what the batch wrote, the windows still open. *)
LEMMA CommitWindows ==
    ASSUME ClicksInv, query = "windows", WindowsInv, CommitClicks
    PROVE  WindowsInv'
<1>1. phase = "returned" /\ phase \in BatchPhases /\ phase' = "idle"
  BY DEF CommitClicks, CommitBatch, BatchPhases
<1>2. /\ commitLog' = batch /\ UNCHANGED <<startPos, offsetLog, produced, clicks, table, abandoned>>
      /\ state' = StateAfter
  BY DEF CommitClicks, CommitBatch, topic, store
<1>3. /\ batch \in 1..Len(offsetLog) /\ commitLog = batch - 1
      /\ Watermark(commitLog) \in Int /\ Watermark(batch) \in Int
      /\ Watermark(commitLog) <= Watermark(batch)
  <2>1. batch \in 1..Len(offsetLog) /\ commitLog = batch - 1 /\ Len(offsetLog) \in Nat
    BY <1>1, CurrentBatch, LogPositions, CheckpointTypes DEF ClicksInv
  <2>2. PICK b \in 0..(Len(offsetLog) + 1) : b = batch
    BY <2>1
  <2>3. PICK c \in 0..(Len(offsetLog) + 1) : c = commitLog /\ b \in c..(Len(offsetLog) + 1)
    BY <2>1, <2>2
  <2> QED
    BY <2>1, <2>2, <2>3, WatermarkGrows
<1>4. /\ \A n, u, s : Counted(n, u, s)' = Counted(n, u, s) /\ WindowRow(n, u, s)' = WindowRow(n, u, s)
      /\ \A n : Watermark(n)' = Watermark(n)
  BY <1>2 DEF Counted, WindowRow, WindowsOf, BatchStart, Watermark, TimesBefore, NoWatermark
<1>5. \A w : w \in state' <=>
          /\ \/ w \in UpdatedWindows
             \/ w \in state /\ \A x \in UpdatedWindows : x.user # w.user \/ x.start # w.start
          /\ ~(w.end <= Watermark(batch))
  BY <1>2 DEF StateAfter, Ended
<1>6. \A r : r \in UpdatedWindows <=>
               \E u \in Users, s \in WindowStarts :
                   NewIn(batch, u, s) # {} /\ r = WindowRow(batch, u, s)
  BY <1>1, UpdatedRows
<1>7. \A n, u, s : /\ WindowRow(n, u, s).user = u /\ WindowRow(n, u, s).start = s
                   /\ WindowRow(n, u, s).end = s + Duration
  BY DEF WindowRow
<1>8. ASSUME NEW w \in state'
      PROVE  \E u \in Users, s \in WindowStarts : w = WindowRow(batch, u, s)
  <2>1. CASE w \in UpdatedWindows
    BY <1>6, <2>1
  <2>2. CASE w \notin UpdatedWindows
    <3>1. w \in state /\ \A x \in UpdatedWindows : x.user # w.user \/ x.start # w.start
      BY <1>5, <2>2
    <3>2. PICK u \in Users, s \in WindowStarts : w = WindowRow(commitLog, u, s)
      BY <3>1 DEF WindowsInv
    <3>3. NewIn(batch, u, s) = {}
      <4> SUFFICES ASSUME NewIn(batch, u, s) # {} PROVE FALSE
        OBVIOUS
      <4>1. WindowRow(batch, u, s) \in UpdatedWindows
        BY <1>6
      <4> QED
        BY <1>7, <3>1, <3>2, <4>1
    <3>4. WindowRow(batch, u, s) = WindowRow(commitLog, u, s)
      BY <1>1, <3>3, NothingNew
    <3> QED
      BY <3>2, <3>4
  <2> QED
    BY <2>1, <2>2
<1>9. ASSUME NEW u \in Users, NEW s \in WindowStarts, Counted(batch, u, s) # {},
             s + Duration > Watermark(batch)
      PROVE  WindowRow(batch, u, s) \in state'
  <2>1. ~(WindowRow(batch, u, s).end <= Watermark(batch))
    BY <1>3, <1>7, <1>9, WindowTypes
  <2>2. CASE NewIn(batch, u, s) # {}
    BY <1>5, <1>6, <2>1, <2>2
  <2>3. CASE NewIn(batch, u, s) = {}
    <3>1. /\ Counted(batch, u, s) = Counted(commitLog, u, s)
          /\ WindowRow(batch, u, s) = WindowRow(commitLog, u, s)
      BY <1>1, <2>3, NothingNew
    <3>2. s + Duration > Watermark(commitLog)
      BY <1>3, <1>9, WindowTypes
    <3>3. WindowRow(batch, u, s) \in state
      BY <1>9, <3>1, <3>2 DEF WindowsInv
    <3>4. ASSUME NEW x \in UpdatedWindows PROVE x.user # u \/ x.start # s
      BY <1>6, <1>7, <2>3
    <3> QED
      BY <1>5, <1>7, <2>1, <3>3, <3>4
  <2> QED
    BY <2>2, <2>3
<1>10. ASSUME NEW u \in Users, NEW s \in WindowStarts, Counted(batch, u, s) # {}
       PROVE  WindowRow(batch, u, s) \in table
  BY <1>1, <1>10 DEF WindowsInv
<1>11. \A r \in table \union abandoned :
          \E u \in Users, s \in WindowStarts, n \in 1..Len(offsetLog) : r = WindowRow(n, u, s)
  BY DEF WindowsInv
<1>12. /\ \A w \in state' : \E u \in Users, s \in WindowStarts : w = WindowRow(commitLog, u, s)'
       /\ \A u \in Users, s \in WindowStarts :
             Counted(commitLog, u, s)' # {} =>
                 /\ WindowRow(commitLog, u, s)' \in table'
                 /\ s + Duration > Watermark(commitLog)' => WindowRow(commitLog, u, s)' \in state'
  <2>1. \A u, s : Counted(commitLog, u, s)' = Counted(batch, u, s)
    BY <1>2 DEF Counted, WindowsOf, BatchStart, Watermark, TimesBefore, NoWatermark
  <2>2. \A u, s : WindowRow(commitLog, u, s)' = WindowRow(batch, u, s)
    BY <2>1 DEF WindowRow
  <2>3. Watermark(commitLog)' = Watermark(batch)
    BY <1>2 DEF Watermark, TimesBefore, NoWatermark
  <2> QED
    BY <1>2, <1>8, <1>9, <1>10, <2>1, <2>2, <2>3
<1>13. \A r \in table' \union abandoned' :
          \E u \in Users, s \in WindowStarts, n \in 1..Len(offsetLog') : r = WindowRow(n, u, s)'
  BY <1>2, <1>4, <1>11
<1> QED
  BY <1>1, <1>12, <1>13 DEF WindowsInv

LEMMA InitWindowsInv == ClickInit => WindowsInv
<1> SUFFICES ASSUME ClickInit PROVE WindowsInv
  OBVIOUS
<1>1. commitLog = 0 /\ state = {} /\ table = {} /\ abandoned = {} /\ phase = "down"
  BY DEF ClickInit, Init, NoRows
<1>2. \A u, s : Counted(commitLog, u, s) = {}
  <2>1. 1..commitLog = {}
    BY <1>1
  <2> QED
    BY <2>1 DEF Counted
<1> QED
  BY <1>1, <1>2 DEF WindowsInv

LEMMA WindowsInvStep ==
    ASSUME ToleranceNum < ToleranceDen, ClicksInv, [ClickNext]_clickVars,
           query = "windows", WindowsInv
    PROVE  WindowsInv'
<1>1. CASE WriteClicks
  BY <1>1, WriteWindows
<1>2. CASE CommitClicks
  BY <1>2, CommitWindows
<1>3. CASE CrashClicks
  <2>1. UNCHANGED <<state, commitLog>> /\ phase' = "down"
    BY <1>3 DEF CrashClicks, CrashInserting, Crash, checkpoint
  <2>2. /\ table \subseteq table'
        /\ \A r \in table' \union abandoned' :
               \/ r \in table \union abandoned
               \/ phase \in BatchPhases /\ r \in UpdatedWindows
    BY <1>3 DEF CrashClicks, CrashInserting, InsertBroken, BatchRows, store, BatchPhases
  <2> QED
    BY <2>1, <2>2, WindowsKept
<1>4. CASE StoreClicksLate
  <2>1. /\ UNCHANGED <<state, commitLog, phase, batch>> /\ table \subseteq table'
        /\ \A r \in table' \union abandoned' : r \in table \union abandoned
    BY <1>4 DEF StoreClicksLate, InsertLate, vars
  <2> QED
    BY <2>1, WindowsKept DEF BatchPhases
<1>5. CASE ~(WriteClicks \/ CommitClicks \/ CrashClicks \/ StoreClicksLate)
  <2>1. UNCHANGED <<state, commitLog, table, abandoned>>
    BY <1>5 DEF ClickNext, ProduceClick, StartQuery, PlanClicks, ReadClicks, clickVars,
                clickHouseVars, store, vars, checkpoint, topic, driver, Produce, Start, PlanBatch,
                ResolveStart, ReadBatch
  <2>2. phase' = "returned" => phase = "returned" /\ batch' = batch
    BY <1>5 DEF ClickNext, ProduceClick, StartQuery, PlanClicks, ReadClicks, clickVars,
                clickHouseVars, vars, driver, Produce, Start, PlanBatch, ResolveStart, ReadBatch
  <2> QED
    BY <2>1, <2>2, WindowsKept DEF BatchPhases
<1> QED
  BY <1>1, <1>2, <1>3, <1>4, <1>5

-----------------------------------------------------------------------------
(* Windows: what the table shows. *)

LEMMA MaxIs ==
    ASSUME NEW S \in SUBSET Int, NEW m \in S, \A x \in S : x <= m
    PROVE  Max(S) = m
<1>1. \A x \in S : m >= x
  OBVIOUS
<1>2. Max(S) \in S /\ \A x \in S : Max(S) >= x
  BY <1>1 DEF Max
<1>3. PICK max : max = Max(S)
  OBVIOUS
<1>4. max \in Int /\ m \in Int /\ max >= m /\ m >= max
  BY <1>1, <1>2, <1>3
<1> QED
  BY <1>3, <1>4

(* Once no planned batch adds to a window, its fullest row is the one of the
   last committed batch. *)
LEMMA ShownIsCounted ==
    ASSUME ClicksInv, WindowsInv, NEW u \in Users, NEW s \in WindowStarts,
           Counted(Len(offsetLog), u, s) = Counted(commitLog, u, s)
    PROVE  Shown(u, s) = Cardinality(Counted(commitLog, u, s))
<1> DEFINE mine == {w \in table : w.user = u /\ w.start = s}
           counts == {0} \union {r.count : r \in mine}
<1>1. PICK c \in Nat : c = Cardinality(Counted(commitLog, u, s))
  BY CountedTypes
<1>2. Len(offsetLog) \in Nat
  BY CheckpointTypes DEF ClicksInv
<1>3. ASSUME NEW r \in mine PROVE r.count \in Nat /\ r.count <= c
  <2>1. PICK n \in 1..Len(offsetLog) : r = WindowRow(n, u, s)
    BY DEF WindowsInv, WindowRow
  <2>2. r.count = Cardinality(Counted(n, u, s)) /\ n \in 0..Len(offsetLog)
    BY <1>2, <2>1 DEF WindowRow
  <2>3. Cardinality(Counted(n, u, s)) <= Cardinality(Counted(Len(offsetLog), u, s))
    BY <1>2, <2>2, CountedGrows
  <2> QED
    BY <1>1, <2>2, <2>3, CountedTypes
<1>4. c \in counts
  <2>1. CASE Counted(commitLog, u, s) = {}
    BY <1>1, <2>1, FS_EmptySet
  <2>2. CASE Counted(commitLog, u, s) # {}
    <3>1. WindowRow(commitLog, u, s) \in mine
      BY <2>2 DEF WindowsInv, WindowRow
    <3>2. WindowRow(commitLog, u, s).count = c
      BY <1>1 DEF WindowRow
    <3> QED
      BY <3>1, <3>2
  <2> QED
    BY <2>1, <2>2
<1>5. counts \in SUBSET Int /\ \A x \in counts : x <= c
  BY <1>3
<1>6. Shown(u, s) = Max(counts)
  BY DEF Shown
<1> HIDE DEF counts
<1> QED
  BY <1>1, <1>4, <1>5, <1>6, MaxIs

(* The clicks of the committed batches are committed. *)
LEMMA CommittedHas ==
    ASSUME ClicksInv
    PROVE  /\ IsFiniteSet(Committed)
           /\ \A m \in 1..commitLog, p \in 1..produced :
                 BatchStart(m) < p /\ p <= offsetLog[m] => p \in Committed
<1>1. commitLog \in 0..Len(offsetLog) /\ Len(offsetLog) \in Nat
  BY CheckpointTypes DEF ClicksInv, CheckpointInv, LogsAgree
<1>2. ASSUME NEW m \in 1..commitLog, NEW p \in 1..produced, BatchStart(m) < p, p <= offsetLog[m]
      PROVE  p \in Committed
  <2>1. m \in 1..Len(offsetLog) /\ commitLog \in 1..Len(offsetLog) /\ m <= commitLog
        /\ commitLog # 0
    BY <1>1
  <2>2. /\ startPos \in Nat /\ BatchStart(m) \in Nat /\ startPos <= BatchStart(m)
        /\ offsetLog[m] \in Nat /\ produced \in Nat
    BY <2>1, LogPositions
  <2>3. offsetLog[commitLog] \in Nat
    BY <2>1, LogPositions
  <2>4. offsetLog[m] <= offsetLog[commitLog]
    BY <2>1 DEF ClicksInv, EndsOrdered
  <2>5. Committed = (startPos + 1)..offsetLog[commitLog]
    BY <2>1, <2>2 DEF Committed, CommittedEnd, NoPos
  <2> QED
    BY <1>2, <2>2, <2>3, <2>4, <2>5
<1>3. IsFiniteSet(Committed)
  <2>1. CASE startPos = NoPos
    BY <2>1, FS_EmptySet DEF Committed
  <2>2. CASE startPos # NoPos
    <3>1. startPos \in Int /\ CommittedEnd \in Int
      BY CommittedEndType, CheckpointTypes DEF ClicksInv, CheckpointInv, NoPos
    <3> QED
      BY <2>2, <3>1, FS_Interval DEF Committed
  <2> QED
    BY <2>1, <2>2
<1> QED
  BY <1>2, <1>3

(* What the committed batches have counted is committed. *)
LEMMA CountedIsCommitted ==
    ASSUME ClicksInv, NEW u, NEW s
    PROVE  Counted(commitLog, u, s) \subseteq Clicked(u, s) /\ IsFiniteSet(Clicked(u, s))
<1>1. ASSUME NEW p \in Counted(commitLog, u, s) PROVE p \in Clicked(u, s)
  <2>1. PICK m \in 1..commitLog : BatchStart(m) < p /\ p <= offsetLog[m]
    BY DEF Counted
  <2>2. p \in 1..produced /\ clicks[p].user = u /\ s \in WindowsOf(clicks[p].time)
    BY DEF Counted
  <2> QED
    BY <2>1, <2>2, CommittedHas DEF Clicked
<1>2. Clicked(u, s) \subseteq Committed
  BY DEF Clicked
<1> QED
  BY <1>1, <1>2, CommittedHas, FS_Subset

(* A click on time is not behind the watermark of its batch, nor behind the
   one that drops late clicks. *)
LEMMA OnTimeIsAhead ==
    ASSUME ClicksInv, NEW p, OnTime(p)
    PROVE  \E n \in 1..commitLog :
               /\ n \in 1..Len(offsetLog) /\ p \in 1..produced
               /\ BatchStart(n) < p /\ p <= offsetLog[n]
               /\ Watermark(n) \in Int /\ Watermark(n) <= clicks[p].time
               /\ Watermark(n - 1) \in Int /\ Watermark(n - 1) <= clicks[p].time
<1>1. commitLog \in 0..Len(offsetLog) /\ Len(offsetLog) \in Nat
  BY CheckpointTypes DEF ClicksInv, CheckpointInv, LogsAgree
<1>2. PICK n \in 1..commitLog :
          /\ p \in (BatchStart(n) + 1)..offsetLog[n]
          /\ \A q \in (startPos + 1)..BatchStart(n) : clicks[q].time - Delay <= clicks[p].time
  BY DEF OnTime
<1>3. n \in 1..Len(offsetLog)
  BY <1>1
<1>4. /\ BatchStart(n) \in Nat /\ offsetLog[n] \in Nat /\ startPos \in Nat
      /\ startPos <= BatchStart(n) /\ offsetLog[n] <= produced /\ produced \in Nat
  BY <1>3, LogPositions
<1>5. p \in 1..produced /\ BatchStart(n) < p /\ p <= offsetLog[n]
  BY <1>2, <1>4
<1>6. clicks[p].time \in Nat
  BY <1>5, ClickTypes
<1>7. NoWatermark \in Int /\ NoWatermark < 0
  BY WindowAssumption DEF NoWatermark
<1>8. Watermark(n) \in Int /\ Watermark(n) <= clicks[p].time
  <2>1. CASE n < 2
    BY <1>6, <1>7, <2>1, EarlyWatermark
  <2>2. CASE n >= 2
    <3>1. n \in 2..(Len(offsetLog) + 1) /\ BatchStart(n) = offsetLog[n - 1]
      BY <1>3, <2>2 DEF BatchStart
    <3>2. CASE Watermark(n) = NoWatermark
      BY <1>6, <1>7, <3>2
    <3>3. ASSUME NEW q \in 1..produced, startPos < q, q <= offsetLog[n - 1],
                 Watermark(n) = clicks[q].time - Delay
          PROVE  Watermark(n) \in Int /\ Watermark(n) <= clicks[p].time
      <4>1. q \in (startPos + 1)..BatchStart(n)
        BY <1>4, <3>1, <3>3
      <4> QED
        BY <1>2, <3>1, <3>3, <4>1, WatermarkBounds
    <3> QED
      BY <3>1, <3>2, <3>3, WatermarkBounds
  <2> QED
    BY <1>3, <2>1, <2>2
<1>9. Watermark(n - 1) \in Int /\ Watermark(n - 1) <= Watermark(n)
  <2>1. PICK m \in 0..(Len(offsetLog) + 1) : m = n - 1 /\ n \in m..(Len(offsetLog) + 1)
    BY <1>1, <1>3
  <2> QED
    BY <2>1, WatermarkGrows
<1>10. Watermark(n - 1) <= clicks[p].time
  BY <1>6, <1>8, <1>9
<1> QED
  BY <1>3, <1>5, <1>8, <1>9, <1>10

LEMMA OnTimeIsCounted ==
    ASSUME ClicksInv, NEW u \in Users, NEW s \in WindowStarts, NEW p \in Clicked(u, s), OnTime(p)
    PROVE  p \in Counted(commitLog, u, s)
<1>1. PICK n \in 1..commitLog :
          /\ p \in 1..produced /\ BatchStart(n) < p /\ p <= offsetLog[n]
          /\ Watermark(n - 1) \in Int /\ Watermark(n - 1) <= clicks[p].time
  BY OnTimeIsAhead
<1>2. clicks[p].user = u /\ s \in WindowsOf(clicks[p].time)
  BY DEF Clicked
<1>3. s + Duration > clicks[p].time /\ clicks[p].time \in Nat /\ s + Duration \in Int
  BY <1>1, <1>2, ClickTypes, WindowTypes, WindowAssumption DEF WindowsOf
<1>4. s + Duration > Watermark(n - 1)
  BY <1>1, <1>3
<1> QED
  BY <1>1, <1>2, <1>4 DEF Counted

LEMMA InvImpliesCounts ==
    ASSUME ClicksInv, query = "windows" => WindowsInv
    PROVE  WindowCountsWithinPromise
<1> SUFFICES ASSUME query = "windows", Settled, NEW u \in Users, NEW s \in WindowStarts
             PROVE  /\ Shown(u, s) <= Cardinality(Clicked(u, s))
                    /\ Cardinality({p \in Clicked(u, s) : OnTime(p)}) <= Shown(u, s)
  BY DEF WindowCountsWithinPromise
<1> DEFINE timely == {p \in Clicked(u, s) : OnTime(p)}
<1>1. Shown(u, s) = Cardinality(Counted(commitLog, u, s))
  BY ShownIsCounted DEF Settled
<1>2. Cardinality(Counted(commitLog, u, s)) <= Cardinality(Clicked(u, s))
  BY CountedIsCommitted, FS_Subset
<1>3. timely \subseteq Counted(commitLog, u, s)
  BY OnTimeIsCounted
<1>4. Cardinality(timely) <= Cardinality(Counted(commitLog, u, s))
  BY <1>3, CountedTypes, FS_Subset
<1> QED
  BY <1>1, <1>2, <1>4

(* A window behind the watermark has all it will ever count. *)
LEMMA ClosedIsCounted ==
    ASSUME ClicksInv, NEW u \in Users, NEW s \in WindowStarts,
           s + Duration <= Watermark(commitLog), NEW n \in commitLog..Len(offsetLog)
    PROVE  Counted(n, u, s) = Counted(commitLog, u, s)
<1>1. /\ commitLog \in 0..Len(offsetLog) /\ Len(offsetLog) \in Nat
      /\ Len(offsetLog) <= commitLog + 1
  BY CheckpointTypes DEF ClicksInv, CheckpointInv, LogsAgree
<1>2. CASE n = commitLog
  BY <1>2
<1>3. CASE n # commitLog
  <2>1. n \in 1..Len(offsetLog) /\ n - 1 = commitLog
    BY <1>1, <1>3
  <2>2. Watermark(n - 1) = Watermark(commitLog)
    BY <2>1
  <2>3. Watermark(commitLog) \in Int
    <3>1. PICK c \in 0..(Len(offsetLog) + 1) : c = commitLog /\ c \in c..(Len(offsetLog) + 1)
      BY <1>1
    <3> QED
      BY <3>1, WatermarkGrows
  <2>4. NewIn(n, u, s) = {}
    BY <2>2, <2>3, WindowTypes DEF NewIn
  <2>5. Counted(n, u, s) = Counted(n - 1, u, s) \union NewIn(n, u, s)
    BY <2>1, CountedAdds
  <2>6. Counted(n, u, s) = Counted(n - 1, u, s)
    BY <2>4, <2>5
  <2> QED
    BY <2>1, <2>6
<1> QED
  BY <1>2, <1>3

(* The table shows of a window behind the watermark what was committed. *)
ClosedShown ==
    \A u \in Users, s \in WindowStarts :
        s + Duration <= Watermark(commitLog) => Shown(u, s) = Cardinality(Counted(commitLog, u, s))

LEMMA ClosedIsShown == ClicksInv /\ WindowsInv => ClosedShown
<1> SUFFICES ASSUME ClicksInv, WindowsInv, NEW u \in Users, NEW s \in WindowStarts,
                    s + Duration <= Watermark(commitLog)
             PROVE  Shown(u, s) = Cardinality(Counted(commitLog, u, s))
  BY DEF ClosedShown
<1>1. Len(offsetLog) \in commitLog..Len(offsetLog)
  BY CheckpointTypes DEF ClicksInv, CheckpointInv, LogsAgree
<1> QED
  BY <1>1, ClosedIsCounted, ShownIsCounted

LEMMA ClosedStaysFinal ==
    ASSUME ToleranceNum < ToleranceDen, ClicksInv, query = "windows" => WindowsInv,
           [ClickNext]_clickVars, query = "windows",
           NEW u \in Users, NEW s \in WindowStarts, s + Duration <= Watermark(commitLog)
    PROVE  Shown(u, s)' = Shown(u, s)
<1>1. /\ commitLog \in 0..Len(offsetLog) /\ Len(offsetLog) \in Nat
      /\ Len(offsetLog) <= commitLog + 1
  BY CheckpointTypes DEF ClicksInv, CheckpointInv, LogsAgree
<1>2. ClicksInv' /\ WindowsInv' /\ query' = "windows"
  BY ClicksInvStep, WindowsInvStep, TopicOnlyGrows
<1>3. commitLog' \in commitLog..Len(offsetLog)
  <2>1. CASE CommitClicks
    <3>1. phase \in BatchPhases /\ commitLog' = batch
      BY <2>1 DEF CommitClicks, CommitBatch, BatchPhases
    <3> QED
      BY <1>1, <3>1, CurrentBatch
  <2>2. CASE ~CommitClicks
    <3>1. commitLog' = commitLog
      BY <2>2 DEF ClickNext, ProduceClick, StartQuery, PlanClicks, ReadClicks, WriteClicks,
                  CrashClicks, StoreClicksLate, clickVars, clickHouseVars, vars, checkpoint,
                  Produce, Start, PlanBatch, ResolveStart, ReadBatch, WriteRows, WriteEmpty,
                  InsertDone, InsertFailed, EndCallback, CrashInserting, Crash, InsertLate
    <3> QED
      BY <1>1, <3>1
  <2> QED
    BY <2>1, <2>2
<1>4. PICK c \in commitLog..Len(offsetLog) : c = commitLog'
  BY <1>3
<1>5. PICK d \in 0..Len(offsetLog) : d = commitLog
  BY <1>1
<1>6. c \in 0..Len(offsetLog) /\ c \in 0..(Len(offsetLog) + 1) /\ d \in 0..(Len(offsetLog) + 1)
      /\ c \in d..(Len(offsetLog) + 1)
  BY <1>1, <1>4, <1>5
<1>7. Shown(u, s) = Cardinality(Counted(commitLog, u, s))
  BY ClosedIsShown DEF ClosedShown
<1>8. /\ Counted(c, u, s) = Counted(commitLog, u, s)
      /\ Counted(c, u, s)' = Counted(c, u, s)
  BY <1>6, ClosedIsCounted, CountedStands
<1>9. (s + Duration <= Watermark(commitLog))'
  <2>1. /\ Watermark(c)' = Watermark(c) /\ Watermark(d) \in Int /\ Watermark(c) \in Int
        /\ Watermark(d) <= Watermark(c)
    BY <1>6, LogStands, WatermarkGrows
  <2>2. s + Duration <= Watermark(d)
    BY <1>5
  <2>3. s + Duration <= Watermark(c)
    BY <2>1, <2>2, WindowTypes
  <2>4. (s + Duration <= Watermark(c))'
    BY <2>1, <2>3
  <2> QED
    BY <1>4, <2>4
<1>10. (ClicksInv /\ WindowsInv => ClosedShown)'
  BY ClosedIsShown, PTL
<1>11. Shown(u, s)' = Cardinality(Counted(commitLog, u, s))'
  BY <1>2, <1>9, <1>10 DEF ClosedShown
<1>12. Counted(commitLog, u, s)' = Counted(c, u, s)'
  BY <1>4
<1> QED
  BY <1>7, <1>8, <1>11, <1>12

-----------------------------------------------------------------------------
(* The theorems about windows. *)

(* The checkpoint protocol, the topic and the watermark hold up in both
   queries, whatever their sink reports. *)
LEMMA ClicksInvariant == ClickSpec => []ClicksInv
<1>1. ClickInit => ClicksInv
  BY InitClicksInv
<1>2. ClicksInv /\ [ClickNext]_clickVars => ClicksInv'
  BY ClicksInvStep
<1> QED
  BY <1>1, <1>2, PTL DEF ClickSpec

LEMMA ClickInvariant ==
    ASSUME ToleranceNum < ToleranceDen
    PROVE  ClickSpec => []ClickInv
<1>1. ClickInit => ClickInv
  BY InitClicksInv, InitWindowsInv DEF ClickInv
<1>2. ClickInv /\ [ClickNext]_clickVars => ClickInv'
  BY ClicksInvStep, WindowsInvStep, TopicOnlyGrows DEF ClickInv
<1> QED
  BY <1>1, <1>2, PTL DEF ClickSpec

(* Once all that is planned is committed, every window of the table counts the
   clicks that kept within the delay, and none twice. *)
THEOREM CountsWithinPromise ==
    ASSUME ToleranceNum < ToleranceDen
    PROVE  ClickSpec => []WindowCountsWithinPromise
<1>1. ClickInv => WindowCountsWithinPromise
  BY InvImpliesCounts DEF ClickInv
<1> QED
  BY <1>1, ClickInvariant, PTL

(* The count of a window behind the watermark never changes again. *)
THEOREM ClosedStays ==
    ASSUME ToleranceNum < ToleranceDen
    PROVE  ClickSpec => ClosedWindowsFinal
<1> DEFINE Final ==
      query = "windows" =>
          \A u \in Users, s \in WindowStarts :
              s + Duration <= Watermark(commitLog) => Shown(u, s)' = Shown(u, s)
<1>1. ClickInv /\ [ClickNext]_clickVars => [Final]_clickVars
  BY ClosedStaysFinal DEF ClickInv
<1> QED
  BY <1>1, ClickInvariant, PTL DEF ClickSpec, ClosedWindowsFinal

-----------------------------------------------------------------------------
(* Sessions: what the batches have taken in. *)

(* Click p came with one of the first n batches and was not late. *)
Took(n, p) ==
    \E m \in 1..n : /\ BatchStart(m) < p
                    /\ p <= offsetLog[m]
                    /\ clicks[p].time + Gap > Watermark(m - 1)

(* The clicks of the user that batch n takes in. *)
Fresh(n, u) ==
    {p \in 1..produced : /\ clicks[p].user = u
                         /\ BatchStart(n) < p
                         /\ p <= offsetLog[n]
                         /\ clicks[p].time + Gap > Watermark(n - 1)}

(* The sessions after the batch behind the last committed one. *)
NextSessions ==
    UNION {Merged(u, Fresh(commitLog + 1, u), {s \in state : s.user = u}) : u \in Users}

(* The sessions that the committed batches have reported or left open. *)
Reported == {r \in table : r.end <= Watermark(commitLog)}
Kept == Reported \union state

(* M gives each session of K its clicks: those that the first n batches took
   in, each to one session. *)
Shares(n, K, M) ==
    /\ \A r \in K : M[r] \subseteq 1..produced /\ Cardinality(M[r]) = r.count
    /\ \A r \in K : \A p \in M[r] : /\ Took(n, p)
                                    /\ clicks[p].user = r.user
                                    /\ r.start <= clicks[p].time
                                    /\ clicks[p].time + Gap <= r.end
    /\ \A r, s \in K : \A p \in M[r] : p \in M[s] => r = s
    /\ \A p \in 1..produced : Took(n, p) => \E r \in K : p \in M[r]

(* No click of the user in the first n batches is behind the watermark. *)
Timely(n, u) ==
    \A m \in 1..n, p \in 1..produced :
        clicks[p].user = u /\ BatchStart(m) < p /\ p <= offsetLog[m]
            => Watermark(m) <= clicks[p].time

Session == [user : Users, start : Int, end : Int, count : Nat]

(* The open sessions are apart, the table has the reported ones and may have
   those the next batch reports, the clicks are shared out among them, and
   what is reported of a user who is on time lies behind the rest. *)
SessionsInv ==
    /\ IsFiniteSet(state)
    /\ \A r \in Kept : r \in Session /\ r.start <= r.end
    /\ \A r \in state : r.end > Watermark(commitLog)
    /\ \A r, s \in state : r.user = s.user /\ r # s => r.end < s.start \/ s.end < r.start
    /\ \A r \in table \union abandoned :
          \/ r \in Reported
          \/ /\ Len(offsetLog) = commitLog + 1
             /\ r \in NextSessions
             /\ r.end <= Watermark(commitLog + 1)
    /\ phase = "returned" =>
          \A r \in NextSessions : r.end <= Watermark(commitLog + 1) => r \in table
    /\ \E M \in [Kept -> SUBSET (1..produced)] : Shares(commitLog, Kept, M)
    /\ \A u \in Users : Timely(commitLog, u) =>
          /\ \A r \in Reported, s \in state : r.user = u /\ s.user = u => r.end <= s.start
          /\ \A r, s \in Reported : r.user = u /\ s.user = u /\ r # s =>
                r.end <= s.start \/ s.end <= r.start

-----------------------------------------------------------------------------
(* Sessions: counting and merging. *)

LEMMA FiniteMin ==
    ASSUME NEW S \in SUBSET Int, IsFiniteSet(S), S # {}
    PROVE  \E m \in S : \A x \in S : m <= x
<1> DEFINE T == {-x : x \in S}
           f == [x \in S |-> -x]
<1>1. f \in Surjection(S, T)
  BY DEF Surjection
<1>2. IsFiniteSet(T)
  BY <1>1, FS_Surjection
<1>3. T \in SUBSET Int /\ T # {} /\ \A x \in S : -x \in T
  OBVIOUS
<1>4. \A y \in T : \E x \in S : y = -x
  OBVIOUS
<1> HIDE DEF T
<1>5. PICK y \in T : \A z \in T : z <= y
  BY <1>2, <1>3, FiniteMax
<1>6. PICK m \in S : y = -m
  BY <1>4
<1>7. ASSUME NEW x \in S PROVE m <= x
  <2>1. -x <= -m /\ x \in Int /\ m \in Int
    BY <1>3, <1>5, <1>6
  <2> QED
    BY <2>1
<1> QED
  BY <1>7

PairsOf(T) == UNION {{r} \X (1..r.count) : r \in T}

LEMMA PairsAre ==
    ASSUME NEW T
    PROVE  /\ \A a : a \in PairsOf(T) <=> \E r \in T : \E i \in 1..r.count : a = <<r, i>>
           /\ Total(T) = Cardinality(PairsOf(T))
  BY DEF PairsOf, Total

(* Rows that have been given as many clicks as they count, none the same,
   count as many as they have been given. *)
LEMMA TotalIsShared ==
    ASSUME NEW T, NEW M, NEW N \in Nat,
           \A r \in T : M[r] \subseteq 1..N /\ Cardinality(M[r]) = r.count,
           \A r, s \in T : \A p \in M[r] : p \in M[s] => r = s,
           NEW all, \A p : p \in all <=> \E r \in T : p \in M[r]
    PROVE  Total(T) = Cardinality(all) /\ IsFiniteSet(all)
<1> DEFINE pairs == PairsOf(T)
           number(r) == CHOOSE g : g \in Bijection(1..r.count, M[r])
           F == [a \in pairs |-> number(a[1])[a[2]]]
<1>1. IsFiniteSet(all)
  <2>1. all \in SUBSET (1..N)
    OBVIOUS
  <2>2. IsFiniteSet(1..N)
    BY FS_Interval
  <2> QED
    BY <2>1, <2>2, FS_Subset
<1>2. \A r \in T : number(r) \in Bijection(1..r.count, M[r])
  <2> SUFFICES ASSUME NEW r \in T PROVE \E g : g \in Bijection(1..r.count, M[r])
    OBVIOUS
  <2>1. M[r] \in SUBSET (1..N) /\ IsFiniteSet(1..N)
    BY FS_Interval
  <2>2. IsFiniteSet(M[r])
    BY <2>1, FS_Subset
  <2>3. ExistsBijection(1..Cardinality(M[r]), M[r])
    BY <2>2, FS_CardinalityType
  <2> QED
    BY <2>3 DEF ExistsBijection
<1> HIDE DEF number
<1>3. \A r \in T : /\ number(r) \in [1..r.count -> M[r]]
                   /\ \A i, j \in 1..r.count : number(r)[i] = number(r)[j] => i = j
                   /\ \A p \in M[r] : \E i \in 1..r.count : number(r)[i] = p
  <2> SUFFICES ASSUME NEW r \in T
               PROVE  /\ number(r) \in [1..r.count -> M[r]]
                      /\ \A i, j \in 1..r.count : number(r)[i] = number(r)[j] => i = j
                      /\ \A p \in M[r] : \E i \in 1..r.count : number(r)[i] = p
    OBVIOUS
  <2>1. PICK g : g = number(r)
    OBVIOUS
  <2>2. g \in Bijection(1..r.count, M[r])
    BY <1>2, <2>1
  <2>3. PICK numbers : numbers = 1..r.count
    OBVIOUS
  <2>4. /\ g \in [numbers -> M[r]]
        /\ \A i, j \in numbers : g[i] = g[j] => i = j
        /\ \A p \in M[r] : \E i \in numbers : g[i] = p
    BY ONLY <2>2, <2>3 DEF Bijection, Injection, Surjection, IsInjective
  <2> QED
    BY <2>1, <2>3, <2>4
<1>4. \A a : a \in pairs <=> \E r \in T : \E i \in 1..r.count : a = <<r, i>>
  BY PairsAre
<1>5. \A p : p \in all <=> \E r \in T : p \in M[r]
  OBVIOUS
<1>6. ASSUME NEW a \in pairs
      PROVE  /\ a[1] \in T /\ a[2] \in 1..a[1].count /\ a = <<a[1], a[2]>>
             /\ F[a] \in M[a[1]] /\ F[a] = number(a[1])[a[2]]
  <2>1. a[1] \in T /\ a[2] \in 1..a[1].count /\ a = <<a[1], a[2]>>
    BY <1>4
  <2>2. F[a] = number(a[1])[a[2]]
    OBVIOUS
  <2>3. number(a[1]) \in [1..a[1].count -> M[a[1]]]
    BY <1>3, <2>1
  <2>4. number(a[1])[a[2]] \in M[a[1]]
    BY <2>1, <2>3
  <2> QED
    BY <2>1, <2>2, <2>4
<1>7. F \in [pairs -> all]
  BY <1>5, <1>6
<1>8. ASSUME NEW a \in pairs, NEW b \in pairs, F[a] = F[b] PROVE a = b
  <2>1. a[1] = b[1]
    BY <1>6, <1>8
  <2>2. a[2] = b[2]
    BY <1>3, <1>6, <1>8, <2>1
  <2> QED
    BY <1>6, <2>1, <2>2
<1>9. ASSUME NEW p \in all PROVE \E a \in pairs : F[a] = p
  <2>1. PICK r \in T : p \in M[r]
    BY <1>5
  <2>2. PICK i \in 1..r.count : number(r)[i] = p
    BY <1>3, <2>1
  <2>3. <<r, i>> \in pairs
    BY <1>4
  <2>4. F[<<r, i>>] = p
    BY <2>2, <2>3
  <2> QED
    BY <2>3, <2>4
<1>10. Total(T) = Cardinality(pairs)
  BY PairsAre
<1> HIDE DEF F, pairs
<1>11. F \in Bijection(pairs, all)
  BY <1>7, <1>8, <1>9 DEF Bijection, Injection, Surjection, IsInjective
<1>12. ExistsBijection(all, pairs)
  <2>1. ExistsBijection(pairs, all)
    BY <1>11 DEF ExistsBijection
  <2> QED
    BY <2>1, Fun_ExistsBijSymmetric
<1>13. Cardinality(pairs) = Cardinality(all)
  BY <1>1, <1>12, FS_Bijection
<1> QED
  BY <1>1, <1>10, <1>13

(* What is in the parts. *)
LEMMA PartsAre ==
    ASSUME ClicksInv, NEW new \in SUBSET (1..produced),
           NEW open, IsFiniteSet(open),
           \A s \in open : s \in Session /\ s.start <= s.end
    PROVE  /\ IsFiniteSet(Parts(new, open))
           /\ \A i \in Parts(new, open) : i.start \in Int /\ i.end \in Int /\ i.start <= i.end
           /\ \A i \in Parts(new, open) :
                 \/ \E p \in new : i.start = clicks[p].time /\ i.end = clicks[p].time + Gap
                 \/ \E s \in open : i.start = s.start /\ i.end = s.end
           /\ \A p \in new : \E i \in Parts(new, open) :
                 i.start = clicks[p].time /\ i.end = clicks[p].time + Gap
           /\ \A s \in open : \E i \in Parts(new, open) : i.start = s.start /\ i.end = s.end
<1> DEFINE part(p) == [start |-> clicks[p].time, end |-> clicks[p].time + Gap]
           span(s) == [start |-> s.start, end |-> s.end]
           P == {part(p) : p \in new}
           S == {span(s) : s \in open}
           f == [p \in new |-> part(p)]
           g == [s \in open |-> span(s)]
<1>1. Parts(new, open) = P \union S
  BY DEF Parts
<1>2. IsFiniteSet(new)
  <2>1. IsFiniteSet(1..produced)
    BY FS_Interval, CheckpointTypes DEF ClicksInv
  <2> QED
    BY <2>1, FS_Subset
<1>3. IsFiniteSet(P)
  <2>1. f \in Surjection(new, P)
    BY DEF Surjection
  <2> QED
    BY <1>2, <2>1, FS_Surjection
<1>4. IsFiniteSet(S)
  <2>1. g \in Surjection(open, S)
    BY DEF Surjection
  <2> QED
    BY <2>1, FS_Surjection
<1>5. \A p \in new : /\ part(p).start = clicks[p].time /\ part(p).end = clicks[p].time + Gap
                     /\ clicks[p].time \in Int /\ clicks[p].time + Gap \in Int
                     /\ clicks[p].time <= clicks[p].time + Gap
  BY ClickTypes, WindowAssumption
<1>6. \A s \in open : /\ span(s).start = s.start /\ span(s).end = s.end
                      /\ s.start \in Int /\ s.end \in Int /\ s.start <= s.end
  BY DEF Session
<1>7. \A i : i \in P \union S <=> (\E p \in new : i = part(p)) \/ (\E s \in open : i = span(s))
  OBVIOUS
<1> HIDE DEF P, S
<1>8. IsFiniteSet(P \union S)
  BY ONLY <1>3, <1>4, FS_Union
<1> HIDE DEF part, span
<1>9. ASSUME NEW i \in P \union S
      PROVE  /\ i.start \in Int /\ i.end \in Int /\ i.start <= i.end
             /\ \/ \E p \in new : i.start = clicks[p].time /\ i.end = clicks[p].time + Gap
                \/ \E s \in open : i.start = s.start /\ i.end = s.end
  BY <1>5, <1>6, <1>7
<1>10. \A p \in new : \E i \in P \union S :
           i.start = clicks[p].time /\ i.end = clicks[p].time + Gap
  BY <1>5, <1>7
<1>11. \A s \in open : \E i \in P \union S : i.start = s.start /\ i.end = s.end
  BY <1>6, <1>7
<1> QED
  BY <1>1, <1>8, <1>9, <1>10, <1>11

(* Every part is in one session: the last that begins before it. *)
LEMMA BeginsAre ==
    ASSUME NEW P, IsFiniteSet(P),
           \A i \in P : i.start \in Int /\ i.end \in Int /\ i.start <= i.end
    PROVE  /\ \A b \in Begins(P) : /\ b \in Int /\ \E i \in P : i.start = b
                                   /\ \A k \in P : k.start < b => k.end < b
                                   /\ Within(Begins(P), b, b)
           /\ \A b, c \in Begins(P), x \in Int :
                 Within(Begins(P), b, x) /\ Within(Begins(P), c, x) => b = c
           /\ \A i \in P : \E b \in Begins(P) : Within(Begins(P), b, i.start)
<1> DEFINE B == Begins(P)
           S == {k.start : k \in P}
           f == [k \in P |-> k.start]
<1>1. \A b : b \in B <=> \E i \in P : i.start = b /\ \A k \in P : k.start < b => k.end < b
  BY DEF Begins
<1>2. \A x : x \in S <=> \E k \in P : x = k.start
  OBVIOUS
<1>3. IsFiniteSet(S) /\ S \in SUBSET Int
  <2>1. f \in Surjection(P, S)
    BY DEF Surjection
  <2> QED
    BY <2>1, FS_Surjection
<1> HIDE DEF B, S
<1>4. B \subseteq S /\ B \in SUBSET Int
  BY <1>1, <1>2, <1>3
<1>5. \A b \in B : b \in Int /\ Within(B, b, b)
  BY <1>4 DEF Within
<1>6. ASSUME NEW b \in B, NEW c \in B, NEW x \in Int, Within(B, b, x), Within(B, c, x)
      PROVE  b = c
  <2>1. b \in Int /\ c \in Int
    BY <1>4
  <2>2. b <= x /\ c <= x /\ (c > b => x < c) /\ (b > c => x < b)
    BY <1>6 DEF Within
  <2> QED
    BY <2>1, <2>2
<1>7. ASSUME NEW i \in P PROVE \E b \in B : Within(B, b, i.start)
  <2> DEFINE C == {b \in B : b <= i.start}
  <2>1. S # {} /\ i.start \in S
    BY <1>2
  <2>2. PICK m \in S : \A x \in S : m <= x
    BY <1>3, <2>1, FiniteMin
  <2>3. m \in B
    <3>1. PICK j \in P : j.start = m
      BY <1>2, <2>2
    <3>2. ASSUME NEW k \in P PROVE ~(k.start < m)
      BY <1>2, <1>3, <2>2
    <3> QED
      BY <1>1, <3>1, <3>2
  <2>4. m \in C
    BY <2>1, <2>2, <2>3
  <2>5. C \in SUBSET Int /\ IsFiniteSet(C) /\ C # {}
    <3>1. C \in SUBSET S /\ C \in SUBSET Int
      BY <1>4
    <3> QED
      BY <1>3, <2>4, <3>1, FS_Subset
  <2> HIDE DEF C
  <2>6. PICK b \in C : \A c \in C : c <= b
    BY <2>5, FiniteMax
  <2> USE DEF C
  <2>7. ASSUME NEW c \in B, c > b PROVE i.start < c
    <3>1. c \in Int /\ b \in Int /\ i.start \in Int
      BY <1>4
    <3>2. c <= i.start => c <= b
      BY <2>6
    <3> QED
      BY <2>7, <3>1, <3>2
  <2> QED
    BY <2>6, <2>7 DEF Within
<1> QED
  BY <1>1, <1>5, <1>6, <1>7 DEF B

(* A session lasts as long as its parts and ends before the next begins. *)
LastEnd(P, b) == Max({i.end : i \in {j \in P : Within(Begins(P), b, j.start)}})

LEMMA EndsAre ==
    ASSUME NEW P, IsFiniteSet(P),
           \A i \in P : i.start \in Int /\ i.end \in Int /\ i.start <= i.end,
           NEW b \in Begins(P)
    PROVE  /\ LastEnd(P, b) \in Int /\ b <= LastEnd(P, b)
           /\ \A i \in P : Within(Begins(P), b, i.start) => i.end <= LastEnd(P, b)
           /\ \E i \in P : i.end = LastEnd(P, b)
           /\ \A c \in Begins(P) : b < c => LastEnd(P, b) < c
<1> DEFINE mine == {j \in P : Within(Begins(P), b, j.start)}
           ends == {i.end : i \in mine}
           f == [i \in mine |-> i.end]
<1>1. IsFiniteSet(ends)
  <2>1. IsFiniteSet(mine)
    BY FS_Subset
  <2>2. f \in Surjection(mine, ends)
    BY DEF Surjection
  <2> QED
    BY <2>1, <2>2, FS_Surjection
<1>2. \A x : x \in ends <=> \E i \in P : Within(Begins(P), b, i.start) /\ x = i.end
  OBVIOUS
<1>3. PICK j \in P : j.start = b /\ Within(Begins(P), b, j.start)
  BY BeginsAre
<1>4. LastEnd(P, b) = Max(ends)
  BY DEF LastEnd
<1> HIDE DEF ends
<1>5. ends \in SUBSET Int /\ j.end \in ends
  BY <1>2, <1>3
<1>6. PICK max : max = Max(ends)
  OBVIOUS
<1>7. max \in ends /\ \A x \in ends : x <= max
  BY <1>1, <1>5, <1>6, FiniteMax
<1>8. max \in Int /\ b <= max
  BY <1>3, <1>5, <1>7
<1>9. PICK i \in P : Within(Begins(P), b, i.start) /\ max = i.end
  BY <1>2, <1>7
<1>10. ASSUME NEW c \in Begins(P), b < c PROVE max < c
  <2>1. i.start < c
    BY <1>9, <1>10 DEF Within
  <2> QED
    BY <1>9, <2>1, BeginsAre
<1>11. \A k \in P : Within(Begins(P), b, k.start) => k.end <= max
  BY <1>2, <1>7
<1> QED
  BY <1>4, <1>6, <1>8, <1>9, <1>10, <1>11

(* The clicks and open sessions that the session from b has. *)
NewWithin(new, open, b) ==
    {p \in new : Within(Begins(Parts(new, open)), b, clicks[p].time)}
OpenWithin(new, open, b) ==
    {s \in open : Within(Begins(Parts(new, open)), b, s.start)}

LEMMA MergedRows ==
    ASSUME NEW u, NEW new, NEW open
    PROVE  \A r : r \in Merged(u, new, open) <=>
               \E b \in Begins(Parts(new, open)) :
                   r = [user |-> u, start |-> b, end |-> LastEnd(Parts(new, open), b),
                        count |-> Cardinality(NewWithin(new, open, b))
                                    + Total(OpenWithin(new, open, b))]
  BY DEF Merged, LastEnd, NewWithin, OpenWithin

(* The session r has its clicks and open sessions, and its ends from them. *)
IsMerged(u, new, open, r) ==
    /\ r.user = u /\ r.start \in Int /\ r.end \in Int /\ r.start <= r.end
    /\ r = [user |-> u, start |-> r.start, end |-> r.end, count |-> r.count]
    /\ r.count = Cardinality(NewWithin(new, open, r.start))
                   + Total(OpenWithin(new, open, r.start))
    /\ \/ \E p \in new : r.start = clicks[p].time
       \/ \E s \in open : r.start = s.start
    /\ \/ \E p \in new : r.end = clicks[p].time + Gap
       \/ \E s \in open : r.end = s.end
    /\ \A p \in NewWithin(new, open, r.start) :
          r.start <= clicks[p].time /\ clicks[p].time + Gap <= r.end
    /\ \A s \in OpenWithin(new, open, r.start) :
          r.start <= s.start /\ s.end <= r.end

LEMMA MergedAre ==
    ASSUME ClicksInv, NEW u \in Users, NEW new \in SUBSET (1..produced),
           NEW open, IsFiniteSet(open),
           \A s \in open : s \in Session /\ s.start <= s.end
    PROVE  /\ \A r \in Merged(u, new, open) : IsMerged(u, new, open, r)
           /\ \A r, s \in Merged(u, new, open) :
                 /\ r # s => r.end < s.start \/ s.end < r.start
                 /\ \A p \in NewWithin(new, open, r.start) :
                       p \in NewWithin(new, open, s.start) => r = s
                 /\ \A o \in OpenWithin(new, open, r.start) :
                       o \in OpenWithin(new, open, s.start) => r = s
           /\ \A p \in new : \E r \in Merged(u, new, open) : p \in NewWithin(new, open, r.start)
           /\ \A o \in open : \E r \in Merged(u, new, open) : o \in OpenWithin(new, open, r.start)
<1>1. PICK P : P = Parts(new, open)
  OBVIOUS
<1>2. /\ IsFiniteSet(P)
      /\ \A i \in P : i.start \in Int /\ i.end \in Int /\ i.start <= i.end
      /\ \A i \in P : \/ \E p \in new : i.start = clicks[p].time /\ i.end = clicks[p].time + Gap
                      \/ \E s \in open : i.start = s.start /\ i.end = s.end
      /\ \A p \in new : \E i \in P : i.start = clicks[p].time /\ i.end = clicks[p].time + Gap
      /\ \A s \in open : \E i \in P : i.start = s.start /\ i.end = s.end
  BY <1>1, PartsAre
<1>3. PICK B : B = Begins(P)
  OBVIOUS
<1>4. /\ \A b \in B : b \in Int /\ \E i \in P : i.start = b
      /\ \A b, c \in B, x \in Int : Within(B, b, x) /\ Within(B, c, x) => b = c
      /\ \A i \in P : \E b \in B : Within(B, b, i.start)
  BY <1>2, <1>3, BeginsAre
<1>5. \A b \in B : /\ LastEnd(P, b) \in Int /\ b <= LastEnd(P, b)
                   /\ \A i \in P : Within(B, b, i.start) => i.end <= LastEnd(P, b)
                   /\ \E i \in P : i.end = LastEnd(P, b)
                   /\ \A c \in B : b < c => LastEnd(P, b) < c
  BY <1>2, <1>3, EndsAre
<1>6. \A r : r \in Merged(u, new, open) <=>
               \E b \in B :
                   r = [user |-> u, start |-> b, end |-> LastEnd(P, b),
                        count |-> Cardinality(NewWithin(new, open, b))
                                    + Total(OpenWithin(new, open, b))]
  BY <1>1, <1>3, MergedRows
<1>7. /\ \A b, p : p \in NewWithin(new, open, b) <=> p \in new /\ Within(B, b, clicks[p].time)
      /\ \A b, s : s \in OpenWithin(new, open, b) <=> s \in open /\ Within(B, b, s.start)
  BY <1>1, <1>3 DEF NewWithin, OpenWithin
<1>8. \A b, x : Within(B, b, x) => b <= x
  BY DEF Within
<1>9. ASSUME NEW r \in Merged(u, new, open)
      PROVE  /\ r.start \in B /\ r.end = LastEnd(P, r.start) /\ r.user = u
             /\ r = [user |-> u, start |-> r.start, end |-> r.end, count |-> r.count]
             /\ r.count = Cardinality(NewWithin(new, open, r.start))
                            + Total(OpenWithin(new, open, r.start))
  BY <1>6
<1>10. ASSUME NEW r \in Merged(u, new, open)
       PROVE  /\ r.start \in Int /\ r.end \in Int /\ r.start <= r.end
              /\ \/ \E p \in new : r.start = clicks[p].time
                 \/ \E s \in open : r.start = s.start
              /\ \/ \E p \in new : r.end = clicks[p].time + Gap
                 \/ \E s \in open : r.end = s.end
              /\ \A p \in NewWithin(new, open, r.start) :
                    r.start <= clicks[p].time /\ clicks[p].time + Gap <= r.end
              /\ \A s \in OpenWithin(new, open, r.start) :
                    r.start <= s.start /\ s.end <= r.end
  <2>1. r.start \in B /\ r.end = LastEnd(P, r.start)
    BY <1>9
  <2>2. r.start \in Int /\ r.end \in Int /\ r.start <= r.end
    BY <1>4, <1>5, <2>1
  <2>3. \/ \E p \in new : r.start = clicks[p].time
        \/ \E s \in open : r.start = s.start
    <3>1. PICK i \in P : i.start = r.start
      BY <1>4, <2>1
    <3> QED
      BY <1>2, <3>1
  <2>4. \/ \E p \in new : r.end = clicks[p].time + Gap
        \/ \E s \in open : r.end = s.end
    <3>1. PICK i \in P : i.end = r.end
      BY <1>5, <2>1
    <3> QED
      BY <1>2, <3>1
  <2>5. ASSUME NEW p \in NewWithin(new, open, r.start)
        PROVE  r.start <= clicks[p].time /\ clicks[p].time + Gap <= r.end
    <3>1. p \in new /\ Within(B, r.start, clicks[p].time)
      BY <1>7
    <3>2. PICK i \in P : i.start = clicks[p].time /\ i.end = clicks[p].time + Gap
      BY <1>2, <3>1
    <3> QED
      BY <1>5, <1>8, <2>1, <3>1, <3>2
  <2>6. ASSUME NEW s \in OpenWithin(new, open, r.start)
        PROVE  r.start <= s.start /\ s.end <= r.end
    <3>1. s \in open /\ Within(B, r.start, s.start)
      BY <1>7
    <3>2. PICK i \in P : i.start = s.start /\ i.end = s.end
      BY <1>2, <3>1
    <3> QED
      BY <1>5, <1>8, <2>1, <3>1, <3>2
  <2> QED
    BY <2>2, <2>3, <2>4, <2>5, <2>6
<1>11. ASSUME NEW r \in Merged(u, new, open), NEW s \in Merged(u, new, open), r.start = s.start
       PROVE  r = s
  BY <1>6, <1>11
<1>12. ASSUME NEW r \in Merged(u, new, open), NEW s \in Merged(u, new, open)
       PROVE  /\ r # s => r.end < s.start \/ s.end < r.start
              /\ \A p \in NewWithin(new, open, r.start) :
                    p \in NewWithin(new, open, s.start) => r = s
              /\ \A o \in OpenWithin(new, open, r.start) :
                    o \in OpenWithin(new, open, s.start) => r = s
  <2>1. /\ r.start \in B /\ r.start \in Int /\ r.end = LastEnd(P, r.start)
        /\ s.start \in B /\ s.start \in Int /\ s.end = LastEnd(P, s.start)
    BY <1>9, <1>10
  <2>2. ASSUME r # s PROVE r.end < s.start \/ s.end < r.start
    <3>1. r.start < s.start \/ s.start < r.start
      BY <1>11, <2>1, <2>2
    <3> QED
      BY <1>5, <2>1, <3>1
  <2>3. ASSUME NEW p \in NewWithin(new, open, r.start), p \in NewWithin(new, open, s.start)
        PROVE  r = s
    <3>1. p \in 1..produced /\ Within(B, r.start, clicks[p].time) /\ Within(B, s.start, clicks[p].time)
      BY <1>7, <2>3
    <3>2. clicks[p].time \in Int
      BY <3>1, ClickTypes
    <3> QED
      BY <1>4, <1>11, <2>1, <3>1, <3>2
  <2>4. ASSUME NEW o \in OpenWithin(new, open, r.start), o \in OpenWithin(new, open, s.start)
        PROVE  r = s
    <3>1. o \in open /\ Within(B, r.start, o.start) /\ Within(B, s.start, o.start)
      BY <1>7, <2>4
    <3>2. o.start \in Int
      BY <3>1 DEF Session
    <3> QED
      BY <1>4, <1>11, <2>1, <3>1, <3>2
  <2> QED
    BY <2>2, <2>3, <2>4
<1>13. ASSUME NEW b \in B PROVE \E r \in Merged(u, new, open) : r.start = b
  <2>1. PICK r : r = [user |-> u, start |-> b, end |-> LastEnd(P, b),
                      count |-> Cardinality(NewWithin(new, open, b))
                                  + Total(OpenWithin(new, open, b))]
    OBVIOUS
  <2>2. r \in Merged(u, new, open)
    BY <1>6, <2>1
  <2>3. r.start = b
    BY <2>1
  <2> QED
    BY <2>2, <2>3
<1>14. ASSUME NEW p \in new
       PROVE  \E r \in Merged(u, new, open) : p \in NewWithin(new, open, r.start)
  <2>1. PICK i \in P : i.start = clicks[p].time
    BY <1>2
  <2>2. PICK b \in B : Within(B, b, i.start)
    BY <1>4
  <2> QED
    BY <1>7, <1>13, <2>1, <2>2
<1>15. ASSUME NEW o \in open
       PROVE  \E r \in Merged(u, new, open) : o \in OpenWithin(new, open, r.start)
  <2>1. PICK i \in P : i.start = o.start
    BY <1>2
  <2>2. PICK b \in B : Within(B, b, i.start)
    BY <1>4
  <2> QED
    BY <1>7, <1>13, <2>1, <2>2
<1>16. \A r \in Merged(u, new, open) : IsMerged(u, new, open, r)
  BY <1>9, <1>10 DEF IsMerged
<1> QED
  BY <1>12, <1>14, <1>15, <1>16

-----------------------------------------------------------------------------
(* Sessions: what a batch makes of them. *)

LEMMA CommittedMarks ==
    ASSUME ClicksInv
    PROVE  /\ commitLog \in 0..Len(offsetLog) /\ Len(offsetLog) \in Nat
           /\ Len(offsetLog) <= commitLog + 1
           /\ Watermark(commitLog) \in Int /\ Watermark(commitLog + 1) \in Int
           /\ Watermark(commitLog) <= Watermark(commitLog + 1)
<1>1. commitLog \in 0..Len(offsetLog) /\ Len(offsetLog) \in Nat /\ Len(offsetLog) <= commitLog + 1
  BY CheckpointTypes DEF ClicksInv, CheckpointInv, LogsAgree
<1>2. PICK c \in 0..(Len(offsetLog) + 1) : c = commitLog
  BY <1>1
<1>3. c + 1 \in c..(Len(offsetLog) + 1)
  BY <1>1, <1>2
<1>4. /\ Watermark(c) \in Int /\ Watermark(c + 1) \in Int
      /\ Watermark(c) <= Watermark(c + 1)
  BY <1>3, WatermarkGrows
<1> QED
  BY <1>1, <1>2, <1>4

LEMMA TookStands ==
    ASSUME ClicksInv, [ClickNext]_clickVars, NEW n \in 0..Len(offsetLog)
    PROVE  /\ \A p \in 1..produced : Took(n, p)' = Took(n, p)
           /\ \A p \in 1..produced' : Took(n, p)' => p \in 1..produced
<1>1. /\ Len(offsetLog) \in Nat
      /\ \A m \in 1..n : m \in 1..Len(offsetLog) /\ m - 1 \in 0..(Len(offsetLog) + 1)
  BY LogStands
<1>2. \A m \in 1..n : /\ BatchStart(m)' = BatchStart(m)
                      /\ offsetLog'[m] = offsetLog[m]
                      /\ Watermark(m - 1)' = Watermark(m - 1)
  BY <1>1, LogStands
<1>3. \A m \in 1..n, p \in 1..produced' : p <= offsetLog[m] => p \in 1..produced
  BY <1>1, LogPositions, TopicOnlyGrows
<1>4. \A p \in 1..produced : p \in 1..produced' /\ clicks'[p] = clicks[p]
  BY TopicOnlyGrows
<1>5. \A p : Took(n, p)' <=>
          \E m \in 1..n : /\ BatchStart(m) < p
                          /\ p <= offsetLog[m]
                          /\ clicks'[p].time + Gap > Watermark(m - 1)
  BY <1>2 DEF Took
<1>6. \A p : Took(n, p) <=>
          \E m \in 1..n : /\ BatchStart(m) < p
                          /\ p <= offsetLog[m]
                          /\ clicks[p].time + Gap > Watermark(m - 1)
  BY DEF Took
<1>7. ASSUME NEW p \in 1..produced' PROVE Took(n, p)' => p \in 1..produced
  BY <1>3, <1>5
<1>8. ASSUME NEW p \in 1..produced PROVE Took(n, p)' <=> Took(n, p)
  <2>1. clicks'[p].time = clicks[p].time
    BY <1>4
  <2> QED
    BY <1>5, <1>6, <2>1
<1>9. \A p \in 1..produced : Took(n, p)' \in BOOLEAN /\ Took(n, p) \in BOOLEAN
  BY DEF Took
<1> QED
  BY <1>7, <1>8, <1>9

LEMMA FreshStands ==
    ASSUME ClicksInv, [ClickNext]_clickVars, NEW n \in 1..Len(offsetLog), NEW u
    PROVE  Fresh(n, u)' = Fresh(n, u)
<1>1. n - 1 \in 0..(Len(offsetLog) + 1)
  BY LogStands
<1>2. /\ BatchStart(n)' = BatchStart(n) /\ offsetLog'[n] = offsetLog[n]
      /\ Watermark(n - 1)' = Watermark(n - 1)
  BY <1>1, LogStands
<1>3. \A p \in 1..produced' : p <= offsetLog[n] => p \in 1..produced
  BY LogPositions, TopicOnlyGrows
<1>4. \A p \in 1..produced : p \in 1..produced' /\ clicks'[p] = clicks[p]
  BY TopicOnlyGrows
<1>5. ASSUME NEW p PROVE p \in Fresh(n, u)' <=> p \in Fresh(n, u)
  <2>1. p \in Fresh(n, u)' <=> /\ p \in 1..produced'
                               /\ clicks'[p].user = u
                               /\ BatchStart(n) < p
                               /\ p <= offsetLog[n]
                               /\ clicks'[p].time + Gap > Watermark(n - 1)
    BY <1>2 DEF Fresh
  <2>2. p \in Fresh(n, u) <=> /\ p \in 1..produced
                              /\ clicks[p].user = u
                              /\ BatchStart(n) < p
                              /\ p <= offsetLog[n]
                              /\ clicks[p].time + Gap > Watermark(n - 1)
    BY DEF Fresh
  <2> QED
    BY <1>3, <1>4, <2>1, <2>2
<1> QED
  BY <1>5

(* A batch takes in its own clicks, which no batch before it has. *)
LEMMA TookAdds ==
    ASSUME ClicksInv, NEW n \in 1..Len(offsetLog), NEW p \in 1..produced
    PROVE  /\ Took(n, p) <=> Took(n - 1, p) \/ p \in Fresh(n, clicks[p].user)
           /\ \A u : p \in Fresh(n, u) => ~Took(n - 1, p)
<1>0. Len(offsetLog) \in Nat
  BY CheckpointTypes DEF ClicksInv
<1>1. \A m : m \in 1..n <=> m \in 1..(n - 1) \/ m = n
  BY <1>0
<1>2. Took(n, p) <=> Took(n - 1, p) \/ p \in Fresh(n, clicks[p].user)
  BY <1>1 DEF Took, Fresh
<1>3. ASSUME NEW u, p \in Fresh(n, u), Took(n - 1, p) PROVE FALSE
  <2>1. PICK m \in 1..(n - 1) : p <= offsetLog[m]
    BY <1>3 DEF Took
  <2>2. m \in 1..Len(offsetLog) /\ n - 1 \in 1..Len(offsetLog) /\ m <= n - 1 /\ n # 1
    BY <1>0, <2>1
  <2>3. BatchStart(n) = offsetLog[n - 1] /\ offsetLog[m] <= offsetLog[n - 1]
    BY <2>2 DEF BatchStart, ClicksInv, EndsOrdered
  <2>4. p \in Int /\ offsetLog[m] \in Int /\ offsetLog[n - 1] \in Int /\ BatchStart(n) < p
    BY <1>3, <2>2, LogPositions DEF Fresh
  <2> QED
    BY <2>1, <2>3, <2>4
<1> QED
  BY <1>2, <1>3

LEMMA SharesStands ==
    ASSUME ClicksInv, [ClickNext]_clickVars, NEW n \in 0..Len(offsetLog),
           NEW K, NEW M, Shares(n, K, M)
    PROVE  Shares(n, K, M)'
<1>1. \A p \in 1..produced : p \in 1..produced' /\ clicks'[p] = clicks[p]
  BY TopicOnlyGrows
<1>2. /\ \A p \in 1..produced : Took(n, p)' = Took(n, p)
      /\ \A p \in 1..produced' : Took(n, p)' => p \in 1..produced
  BY TookStands
<1>3. \A r \in K : M[r] \subseteq 1..produced' /\ Cardinality(M[r]) = r.count
  BY <1>1 DEF Shares
<1>4. \A r \in K : \A p \in M[r] : /\ Took(n, p)'
                                   /\ clicks'[p].user = r.user
                                   /\ r.start <= clicks'[p].time
                                   /\ clicks'[p].time + Gap <= r.end
  BY <1>1, <1>2 DEF Shares
<1>5. \A r, s \in K : \A p \in M[r] : p \in M[s] => r = s
  BY DEF Shares
<1>6. \A p \in 1..produced' : Took(n, p)' => \E r \in K : p \in M[r]
  BY <1>2 DEF Shares
<1> QED
  BY <1>3, <1>4, <1>5, <1>6 DEF Shares

OpenOf(u) == {s \in state : s.user = u}

(* The sessions of the batch at work are the next ones of the log, also when
   the batch runs again. *)
LEMMA NextIsUpdated ==
    ASSUME ClicksInv, phase \in BatchPhases
    PROVE  UpdatedSessions = NextSessions
<1>1. commitLog + 1 = batch /\ batch - 1 = commitLog
  BY CurrentBatch
<1>2. ASSUME NEW u \in Users
      PROVE  SessionsOf(u) = Merged(u, Fresh(commitLog + 1, u), {s \in state : s.user = u})
  <2> DEFINE new == {p \in BatchClicks : clicks[p].user = u /\ NotLate(clicks[p].time + Gap)}
  <2>1. ASSUME NEW p PROVE p \in new <=> p \in Fresh(batch, u)
    BY CurrentBatch DEF Fresh, NotLate
  <2>2. new = Fresh(batch, u)
    BY <2>1
  <2>3. SessionsOf(u) = Merged(u, new, {s \in state : s.user = u})
    BY DEF SessionsOf
  <2> HIDE DEF new
  <2> QED
    BY <1>1, <2>2, <2>3
<1> QED
  BY <1>2 DEF UpdatedSessions, NextSessions

LEMMA OpenAre ==
    ASSUME ClicksInv, SessionsInv, NEW u \in Users
    PROVE  /\ IsFiniteSet(OpenOf(u))
           /\ \A s \in OpenOf(u) : /\ s \in Session /\ s.start <= s.end /\ s.user = u
                                   /\ s \in state /\ s \in Kept /\ s.end > Watermark(commitLog)
           /\ \A n : Fresh(n, u) \in SUBSET (1..produced)
           /\ \A n : \A p \in Fresh(n, u) :
                 clicks[p].user = u /\ clicks[p].time \in Int /\ clicks[p].time + Gap \in Int
<1>1. OpenOf(u) \in SUBSET state
  BY DEF OpenOf
<1>2. IsFiniteSet(OpenOf(u))
  BY <1>1, FS_Subset DEF SessionsInv
<1>3. \A n : Fresh(n, u) \in SUBSET (1..produced)
  BY DEF Fresh
<1>4. \A n : \A p \in Fresh(n, u) :
          clicks[p].user = u /\ clicks[p].time \in Int /\ clicks[p].time + Gap \in Int
  BY <1>3, ClickTypes, WindowAssumption DEF Fresh
<1> QED
  BY <1>2, <1>3, <1>4 DEF OpenOf, SessionsInv, Kept

(* The next sessions are sessions, behind the watermark of the last commit. *)
LEMMA NextAre ==
    ASSUME ClicksInv, SessionsInv, Len(offsetLog) = commitLog + 1
    PROVE  /\ \A r \in NextSessions :
                 /\ r \in Session /\ r.start <= r.end /\ r.end > Watermark(commitLog)
                 /\ r \in Merged(r.user, Fresh(commitLog + 1, r.user), OpenOf(r.user))
           /\ \A u \in Users : \A r \in Merged(u, Fresh(commitLog + 1, u), OpenOf(u)) :
                 r \in NextSessions /\ r.user = u
<1>1. NextSessions = UNION {Merged(u, Fresh(commitLog + 1, u), OpenOf(u)) : u \in Users}
  BY DEF NextSessions, OpenOf
<1>2. ASSUME NEW u \in Users, NEW r \in Merged(u, Fresh(commitLog + 1, u), OpenOf(u))
      PROVE  /\ r \in Session /\ r.start <= r.end /\ r.end > Watermark(commitLog)
             /\ r.user = u
  <2>1. PICK new \in SUBSET (1..produced) : new = Fresh(commitLog + 1, u)
    BY OpenAre
  <2>2. PICK open : open = OpenOf(u)
    OBVIOUS
  <2>3. /\ IsFiniteSet(open) /\ \A s \in open : s \in Session /\ s.start <= s.end
        /\ \A s \in open : s.end > Watermark(commitLog) /\ s \in Kept
        /\ \A p \in new : clicks[p].time + Gap \in Int
    BY <2>1, <2>2, OpenAre
  <2>4. r \in Merged(u, new, open)
    BY <2>1, <2>2
  <2>5. /\ r.user = u /\ r.start \in Int /\ r.end \in Int /\ r.start <= r.end
        /\ r = [user |-> u, start |-> r.start, end |-> r.end, count |-> r.count]
        /\ r.count = Cardinality(NewWithin(new, open, r.start))
                       + Total(OpenWithin(new, open, r.start))
        /\ \/ \E p \in new : r.end = clicks[p].time + Gap
           \/ \E s \in open : r.end = s.end
    BY <2>3, <2>4, MergedAre DEF IsMerged
  <2>6. r.end > Watermark(commitLog)
    <3>1. \A p \in new : clicks[p].time + Gap > Watermark(commitLog)
      <4>1. PICK n : n = commitLog + 1
        OBVIOUS
      <4>2. n - 1 = commitLog
        BY <4>1, CommittedMarks
      <4>3. \A p \in new : clicks[p].time + Gap > Watermark(n - 1)
        BY <2>1, <4>1 DEF Fresh
      <4> QED
        BY <4>2, <4>3
    <3> QED
      BY <2>3, <2>5, <3>1
  <2>7. Cardinality(NewWithin(new, open, r.start)) \in Nat
    <3>1. NewWithin(new, open, r.start) \in SUBSET (1..produced)
      BY DEF NewWithin
    <3>2. IsFiniteSet(1..produced)
      BY FS_Interval, CheckpointTypes DEF ClicksInv
    <3> QED
      BY <3>1, <3>2, FS_Subset, FS_CardinalityType
  <2>8. Total(OpenWithin(new, open, r.start)) \in Nat
    <3>1. PICK T : T = OpenWithin(new, open, r.start)
      OBVIOUS
    <3>2. T \subseteq Kept
      BY <2>3, <3>1 DEF OpenWithin
    <3>3. PICK M : Shares(commitLog, Kept, M)
      BY DEF SessionsInv
    <3>4. /\ \A s \in T : M[s] \subseteq 1..produced /\ Cardinality(M[s]) = s.count
          /\ \A s, o \in T : \A p \in M[s] : p \in M[o] => s = o
      BY <3>2, <3>3 DEF Shares
    <3>5. produced \in Nat
      BY CheckpointTypes DEF ClicksInv
    <3>6. PICK all : \A p : p \in all <=> \E s \in T : p \in M[s]
      <4>1. \A p : p \in UNION {M[s] : s \in T} <=> \E s \in T : p \in M[s]
        OBVIOUS
      <4> QED
        BY <4>1
    <3>7. Total(T) = Cardinality(all) /\ IsFiniteSet(all)
      BY <3>4, <3>5, <3>6, TotalIsShared
    <3> QED
      BY <3>1, <3>7, FS_CardinalityType
  <2>9. r.count \in Nat
    BY <2>5, <2>7, <2>8
  <2>10. r \in Session
    BY <2>5, <2>9 DEF Session
  <2> QED
    BY <2>5, <2>6, <2>10
<1> QED
  BY <1>1, <1>2

(* The new clicks and the open sessions that make one of the next sessions. *)
FreshOf(r) == NewWithin(Fresh(commitLog + 1, r.user), OpenOf(r.user), r.start)
OldOf(r) == OpenWithin(Fresh(commitLog + 1, r.user), OpenOf(r.user), r.start)

LEMMA NextShape ==
    ASSUME ClicksInv, SessionsInv, Len(offsetLog) = commitLog + 1
    PROVE  /\ \A r \in NextSessions :
                 /\ r.count = Cardinality(FreshOf(r)) + Total(OldOf(r))
                 /\ \A p \in FreshOf(r) : /\ p \in Fresh(commitLog + 1, r.user)
                                          /\ r.start <= clicks[p].time
                                          /\ clicks[p].time + Gap <= r.end
                 /\ \A s \in OldOf(r) : /\ s \in state /\ s.user = r.user
                                        /\ r.start <= s.start /\ s.end <= r.end
                 /\ \/ \E p \in Fresh(commitLog + 1, r.user) : r.start = clicks[p].time
                    \/ \E s \in OpenOf(r.user) : r.start = s.start
           /\ \A r, s \in NextSessions :
                 /\ r.user = s.user /\ r # s => r.end < s.start \/ s.end < r.start
                 /\ \A p \in FreshOf(r) : p \in FreshOf(s) => r = s
                 /\ \A o \in OldOf(r) : o \in OldOf(s) => r = s
           /\ \A u \in Users : \A p \in Fresh(commitLog + 1, u) :
                 \E r \in NextSessions : p \in FreshOf(r)
           /\ \A o \in state : \E r \in NextSessions : o \in OldOf(r)
<1>1. ASSUME NEW u \in Users
      PROVE  /\ \A r \in Merged(u, Fresh(commitLog + 1, u), OpenOf(u)) :
                   /\ r.user = u
                   /\ r.count = Cardinality(FreshOf(r)) + Total(OldOf(r))
                   /\ \/ \E p \in Fresh(commitLog + 1, u) : r.start = clicks[p].time
                      \/ \E s \in OpenOf(u) : r.start = s.start
                   /\ \A p \in FreshOf(r) :
                         r.start <= clicks[p].time /\ clicks[p].time + Gap <= r.end
                   /\ \A s \in OldOf(r) : r.start <= s.start /\ s.end <= r.end
             /\ \A r, s \in Merged(u, Fresh(commitLog + 1, u), OpenOf(u)) :
                   /\ r # s => r.end < s.start \/ s.end < r.start
                   /\ \A p \in FreshOf(r) : p \in FreshOf(s) => r = s
                   /\ \A o \in OldOf(r) : o \in OldOf(s) => r = s
             /\ \A p \in Fresh(commitLog + 1, u) :
                   \E r \in Merged(u, Fresh(commitLog + 1, u), OpenOf(u)) : p \in FreshOf(r)
             /\ \A o \in OpenOf(u) :
                   \E r \in Merged(u, Fresh(commitLog + 1, u), OpenOf(u)) : o \in OldOf(r)
  <2>1. PICK new \in SUBSET (1..produced) : new = Fresh(commitLog + 1, u)
    BY OpenAre
  <2>2. PICK open : open = OpenOf(u)
    OBVIOUS
  <2>3. IsFiniteSet(open) /\ \A s \in open : s \in Session /\ s.start <= s.end
    BY <2>2, OpenAre
  <2>4. PICK rows : rows = Merged(u, new, open)
    OBVIOUS
  <2>5. ASSUME NEW r \in rows
        PROVE  /\ r.user = u
               /\ r.count = Cardinality(NewWithin(new, open, r.start))
                              + Total(OpenWithin(new, open, r.start))
               /\ \/ \E p \in new : r.start = clicks[p].time
                  \/ \E s \in open : r.start = s.start
               /\ \A p \in NewWithin(new, open, r.start) :
                     r.start <= clicks[p].time /\ clicks[p].time + Gap <= r.end
               /\ \A s \in OpenWithin(new, open, r.start) :
                     r.start <= s.start /\ s.end <= r.end
    <3>1. r \in Merged(u, new, open)
      BY <2>4
    <3>2. IsMerged(u, new, open, r)
      BY <2>3, <3>1, MergedAre
    <3> QED
      BY <3>2 DEF IsMerged
  <2>6. ASSUME NEW r \in rows, NEW s \in rows
        PROVE  /\ r # s => r.end < s.start \/ s.end < r.start
               /\ \A p \in NewWithin(new, open, r.start) :
                     p \in NewWithin(new, open, s.start) => r = s
               /\ \A o \in OpenWithin(new, open, r.start) :
                     o \in OpenWithin(new, open, s.start) => r = s
    <3>1. r \in Merged(u, new, open) /\ s \in Merged(u, new, open)
      BY <2>4
    <3> QED
      BY <2>3, <3>1, MergedAre
  <2>7. ASSUME NEW p \in new PROVE \E r \in rows : p \in NewWithin(new, open, r.start)
    <3>1. \E r \in Merged(u, new, open) : p \in NewWithin(new, open, r.start)
      BY <2>3, MergedAre
    <3> QED
      BY <2>4, <3>1
  <2>8. ASSUME NEW o \in open PROVE \E r \in rows : o \in OpenWithin(new, open, r.start)
    <3>1. \E r \in Merged(u, new, open) : o \in OpenWithin(new, open, r.start)
      BY <2>3, MergedAre
    <3> QED
      BY <2>4, <3>1
  <2>9. ASSUME NEW r \in rows
        PROVE  /\ FreshOf(r) = NewWithin(new, open, r.start)
               /\ OldOf(r) = OpenWithin(new, open, r.start)
    BY <2>1, <2>2, <2>5 DEF FreshOf, OldOf
  <2>10. /\ \A r \in rows :
               /\ r.user = u
               /\ r.count = Cardinality(FreshOf(r)) + Total(OldOf(r))
               /\ \/ \E p \in new : r.start = clicks[p].time
                  \/ \E s \in open : r.start = s.start
               /\ \A p \in FreshOf(r) :
                     r.start <= clicks[p].time /\ clicks[p].time + Gap <= r.end
               /\ \A s \in OldOf(r) : r.start <= s.start /\ s.end <= r.end
         /\ \A r, s \in rows :
               /\ r # s => r.end < s.start \/ s.end < r.start
               /\ \A p \in FreshOf(r) : p \in FreshOf(s) => r = s
               /\ \A o \in OldOf(r) : o \in OldOf(s) => r = s
         /\ \A p \in new : \E r \in rows : p \in FreshOf(r)
         /\ \A o \in open : \E r \in rows : o \in OldOf(r)
    <3>1. ASSUME NEW r \in rows
          PROVE  /\ r.user = u
                 /\ r.count = Cardinality(FreshOf(r)) + Total(OldOf(r))
                 /\ \/ \E p \in new : r.start = clicks[p].time
                    \/ \E s \in open : r.start = s.start
                 /\ \A p \in FreshOf(r) :
                       r.start <= clicks[p].time /\ clicks[p].time + Gap <= r.end
                 /\ \A s \in OldOf(r) : r.start <= s.start /\ s.end <= r.end
      BY <2>5, <2>9
    <3>2. ASSUME NEW r \in rows, NEW s \in rows
          PROVE  /\ r # s => r.end < s.start \/ s.end < r.start
                 /\ \A p \in FreshOf(r) : p \in FreshOf(s) => r = s
                 /\ \A o \in OldOf(r) : o \in OldOf(s) => r = s
      BY <2>6, <2>9
    <3>3. \A p \in new : \E r \in rows : p \in FreshOf(r)
      BY <2>7, <2>9
    <3>4. \A o \in open : \E r \in rows : o \in OldOf(r)
      BY <2>8, <2>9
    <3> QED
      BY <3>1, <3>2, <3>3, <3>4
  <2>11. rows = Merged(u, Fresh(commitLog + 1, u), OpenOf(u))
    BY <2>1, <2>2, <2>4
  <2> QED
    BY ONLY <2>1, <2>2, <2>10, <2>11
<1>2. /\ \A r \in NextSessions :
            /\ r.user \in Users
            /\ r \in Merged(r.user, Fresh(commitLog + 1, r.user), OpenOf(r.user))
      /\ \A u \in Users : \A r \in Merged(u, Fresh(commitLog + 1, u), OpenOf(u)) :
            r \in NextSessions /\ r.user = u
  BY NextAre DEF Session
<1>3. /\ \A r : \A p \in FreshOf(r) : p \in Fresh(commitLog + 1, r.user)
      /\ \A r : \A s \in OldOf(r) : s \in state /\ s.user = r.user
      /\ \A n, u : \A p \in Fresh(n, u) : clicks[p].user = u
  BY DEF FreshOf, OldOf, NewWithin, OpenWithin, OpenOf, Fresh
<1>4. ASSUME NEW r \in NextSessions
      PROVE  /\ r.count = Cardinality(FreshOf(r)) + Total(OldOf(r))
             /\ \A p \in FreshOf(r) : /\ p \in Fresh(commitLog + 1, r.user)
                                      /\ r.start <= clicks[p].time
                                      /\ clicks[p].time + Gap <= r.end
             /\ \A s \in OldOf(r) : /\ s \in state /\ s.user = r.user
                                    /\ r.start <= s.start /\ s.end <= r.end
             /\ \/ \E p \in Fresh(commitLog + 1, r.user) : r.start = clicks[p].time
                \/ \E s \in OpenOf(r.user) : r.start = s.start
  BY <1>1, <1>2, <1>3
<1>5. ASSUME NEW r \in NextSessions, NEW s \in NextSessions
      PROVE  /\ r.user = s.user /\ r # s => r.end < s.start \/ s.end < r.start
             /\ \A p \in FreshOf(r) : p \in FreshOf(s) => r = s
             /\ \A o \in OldOf(r) : o \in OldOf(s) => r = s
  <2>1. ASSUME r.user = s.user
        PROVE  /\ r # s => r.end < s.start \/ s.end < r.start
               /\ \A p \in FreshOf(r) : p \in FreshOf(s) => r = s
               /\ \A o \in OldOf(r) : o \in OldOf(s) => r = s
    BY <1>1, <1>2, <2>1
  <2>2. \A p \in FreshOf(r) : p \in FreshOf(s) => r.user = s.user
    BY <1>3
  <2>3. \A o \in OldOf(r) : o \in OldOf(s) => r.user = s.user
    BY <1>3
  <2> QED
    BY <2>1, <2>2, <2>3
<1>6. \A u \in Users : \A p \in Fresh(commitLog + 1, u) :
          \E r \in NextSessions : p \in FreshOf(r)
  BY <1>1, <1>2
<1>7. ASSUME NEW o \in state PROVE \E r \in NextSessions : o \in OldOf(r)
  <2>1. o.user \in Users /\ o \in OpenOf(o.user)
    BY DEF SessionsInv, Kept, Session, OpenOf
  <2> QED
    BY <1>1, <1>2, <2>1
<1> QED
  BY <1>4, <1>5, <1>6, <1>7

LEMMA NextFinite ==
    ASSUME ClicksInv, SessionsInv, Len(offsetLog) = commitLog + 1
    PROVE  IsFiniteSet(NextSessions)
<1> DEFINE X == {<<clicks[p].user, clicks[p].time>> : p \in 1..produced}
           Y == {<<s.user, s.start>> : s \in state}
           f == [p \in 1..produced |-> <<clicks[p].user, clicks[p].time>>]
           g == [s \in state |-> <<s.user, s.start>>]
           h == [r \in NextSessions |-> <<r.user, r.start>>]
<1>1. IsFiniteSet(X)
  <2>1. f \in Surjection(1..produced, X)
    BY DEF Surjection
  <2>2. IsFiniteSet(1..produced)
    BY FS_Interval, CheckpointTypes DEF ClicksInv
  <2> QED
    BY <2>1, <2>2, FS_Surjection
<1>2. IsFiniteSet(Y)
  <2>1. g \in Surjection(state, Y)
    BY DEF Surjection
  <2> QED
    BY <2>1, FS_Surjection DEF SessionsInv
<1>3. \A y : y \in X \union Y <=> \/ \E p \in 1..produced : y = <<clicks[p].user, clicks[p].time>>
                                 \/ \E s \in state : y = <<s.user, s.start>>
  OBVIOUS
<1> HIDE DEF X, Y
<1>4. IsFiniteSet(X \union Y)
  BY ONLY <1>1, <1>2, FS_Union
<1>5. ASSUME NEW r \in NextSessions PROVE h[r] \in X \union Y /\ h[r] = <<r.user, r.start>>
  <2>1. CASE \E p \in Fresh(commitLog + 1, r.user) : r.start = clicks[p].time
    BY <1>3, <2>1 DEF Fresh
  <2>2. CASE \E s \in OpenOf(r.user) : r.start = s.start
    BY <1>3, <2>2 DEF OpenOf
  <2> QED
    BY <2>1, <2>2, NextShape
<1>6. ASSUME NEW r \in NextSessions, NEW s \in NextSessions, h[r] = h[s] PROVE r = s
  <2>1. r.user = s.user /\ r.start = s.start
    BY <1>5, <1>6
  <2>2. /\ r.start \in Int /\ r.end \in Int /\ r.start <= r.end
        /\ s.start \in Int /\ s.end \in Int /\ s.start <= s.end
    BY NextAre DEF Session
  <2> QED
    BY <2>1, <2>2, NextShape
<1>7. h \in [NextSessions -> X \union Y]
  BY <1>5
<1> HIDE DEF h
<1>8. h \in Injection(NextSessions, X \union Y)
  BY <1>6, <1>7 DEF Injection, IsInjective
<1> QED
  BY <1>4, <1>8, FS_Injection

-----------------------------------------------------------------------------
(* Sessions: what the steps leave alone. *)

LEMMA MergedStands ==
    ASSUME ClicksInv, [ClickNext]_clickVars, NEW u, NEW new \in SUBSET (1..produced), NEW open
    PROVE  Merged(u, new, open)' = Merged(u, new, open)
<1>1. \A p \in new : clicks'[p] = clicks[p]
  BY TopicOnlyGrows
<1>2. Parts(new, open)' = Parts(new, open)
  BY <1>1 DEF Parts
<1>3. \A b : NewWithin(new, open, b)' = NewWithin(new, open, b)
  BY <1>1, <1>2 DEF NewWithin, Begins, Within
<1>4. \A b : OpenWithin(new, open, b)' = OpenWithin(new, open, b)
  BY <1>2 DEF OpenWithin, Begins, Within
<1>5. \A r : r \in Merged(u, new, open) <=>
          \E b \in Begins(Parts(new, open)) :
              r = [user |-> u, start |-> b, end |-> LastEnd(Parts(new, open), b),
                   count |-> Cardinality(NewWithin(new, open, b))
                               + Total(OpenWithin(new, open, b))]
  BY MergedRows
<1>6. \A r : r \in Merged(u, new, open)' <=>
          \E b \in Begins(Parts(new, open)) :
              r = [user |-> u, start |-> b, end |-> LastEnd(Parts(new, open), b),
                   count |-> Cardinality(NewWithin(new, open, b)')
                               + Total(OpenWithin(new, open, b))]
  BY <1>2 DEF Merged, LastEnd, NewWithin, OpenWithin
<1> QED
  BY <1>3, <1>5, <1>6

(* The next sessions stay as they are, also through a crash and a restart. *)
LEMMA NextStands ==
    ASSUME ClicksInv, [ClickNext]_clickVars, UNCHANGED <<state, commitLog>>,
           Len(offsetLog) = commitLog + 1
    PROVE  NextSessions' = NextSessions
<1>1. PICK c \in 0..Len(offsetLog) : c = commitLog /\ c = commitLog' /\ c + 1 \in 1..Len(offsetLog)
  BY CommittedMarks
<1>2. ASSUME NEW u \in Users
      PROVE  Merged(u, Fresh(c + 1, u), OpenOf(u))' = Merged(u, Fresh(c + 1, u), OpenOf(u))
  <2>1. PICK new \in SUBSET (1..produced) : new = Fresh(c + 1, u)
    BY DEF Fresh
  <2>2. new = Fresh(c + 1, u)'
    BY <1>1, <2>1, FreshStands
  <2>3. PICK open : open = OpenOf(u)
    OBVIOUS
  <2>4. open = OpenOf(u)'
    BY <2>3 DEF OpenOf
  <2>5. Merged(u, new, open)' = Merged(u, new, open)
    BY MergedStands
  <2> QED
    BY <2>1, <2>2, <2>3, <2>4, <2>5
<1>3. NextSessions = UNION {Merged(u, Fresh(c + 1, u), OpenOf(u)) : u \in Users}
  BY <1>1 DEF NextSessions, OpenOf
<1>4. NextSessions' = UNION {Merged(u, Fresh(c + 1, u), OpenOf(u))' : u \in Users}
  BY <1>1 DEF NextSessions, OpenOf
<1> QED
  BY <1>2, <1>3, <1>4

LEMMA TimelyStands ==
    ASSUME ClicksInv, [ClickNext]_clickVars, NEW n \in 0..Len(offsetLog), NEW u
    PROVE  Timely(n, u)' = Timely(n, u)
<1>1. Len(offsetLog) \in Nat /\ \A m \in 1..n : m \in 1..Len(offsetLog) /\ m \in 0..(Len(offsetLog) + 1)
  BY LogStands
<1>2. \A m \in 1..n : /\ BatchStart(m)' = BatchStart(m)
                      /\ offsetLog'[m] = offsetLog[m]
                      /\ Watermark(m)' = Watermark(m)
  BY <1>1, LogStands
<1>3. \A m \in 1..n, p \in 1..produced' : p <= offsetLog[m] => p \in 1..produced
  BY <1>1, LogPositions, TopicOnlyGrows
<1>4. \A p \in 1..produced : p \in 1..produced' /\ clicks'[p] = clicks[p]
  BY TopicOnlyGrows
<1>5. Timely(n, u)' <=>
          \A m \in 1..n, p \in 1..produced' :
              clicks'[p].user = u /\ BatchStart(m) < p /\ p <= offsetLog[m]
                  => Watermark(m) <= clicks'[p].time
  BY <1>2 DEF Timely
<1>6. Timely(n, u) <=>
          \A m \in 1..n, p \in 1..produced :
              clicks[p].user = u /\ BatchStart(m) < p /\ p <= offsetLog[m]
                  => Watermark(m) <= clicks[p].time
  BY DEF Timely
<1>7. Timely(n, u)' <=> Timely(n, u)
  BY <1>3, <1>4, <1>5, <1>6
<1> QED
  BY <1>7 DEF Timely

-----------------------------------------------------------------------------
(* Sessions: the clicks are shared out among the next sessions, too. *)

(* What r is given: its new clicks, and those of the open sessions it has. *)
Given(M, r) == FreshOf(r) \union UNION {M[s] : s \in OldOf(r)}

LEMMA GivenIs ==
    ASSUME ClicksInv, SessionsInv, Len(offsetLog) = commitLog + 1,
           NEW M, Shares(commitLog, Kept, M), NEW r \in NextSessions
    PROVE  /\ Given(M, r) \subseteq 1..produced /\ Cardinality(Given(M, r)) = r.count
           /\ \A p \in Given(M, r) : /\ Took(commitLog + 1, p)
                                     /\ clicks[p].user = r.user
                                     /\ r.start <= clicks[p].time
                                     /\ clicks[p].time + Gap <= r.end
           /\ \A p : p \in Given(M, r) <=>
                  p \in FreshOf(r) \/ \E s \in OldOf(r) : p \in M[s]
           /\ \A p \in FreshOf(r) : ~Took(commitLog, p)
<1>1. PICK n \in 1..Len(offsetLog) : n = commitLog + 1 /\ n - 1 = commitLog
  BY CommittedMarks
<1>2. produced \in Nat
  BY CheckpointTypes DEF ClicksInv
<1>3. /\ r \in Session /\ r.start \in Int /\ r.end \in Int /\ r.user \in Users
      /\ r.count = Cardinality(FreshOf(r)) + Total(OldOf(r))
  BY NextAre, NextShape DEF Session
<1>4. ASSUME NEW p \in FreshOf(r)
      PROVE  /\ p \in 1..produced /\ clicks[p].user = r.user
             /\ Took(n, p) /\ ~Took(n - 1, p)
             /\ r.start <= clicks[p].time /\ clicks[p].time + Gap <= r.end
  <2>1. /\ p \in Fresh(n, r.user)
        /\ r.start <= clicks[p].time /\ clicks[p].time + Gap <= r.end
    BY <1>1, NextShape
  <2>2. p \in 1..produced /\ clicks[p].user = r.user
    BY <2>1 DEF Fresh
  <2> QED
    BY <2>1, <2>2, TookAdds
<1>5. ASSUME NEW s \in OldOf(r)
      PROVE  /\ s \in Kept /\ s.user = r.user /\ s \in Session
             /\ r.start <= s.start /\ s.end <= r.end
             /\ M[s] \subseteq 1..produced /\ Cardinality(M[s]) = s.count
  <2>1. s \in state /\ s.user = r.user /\ r.start <= s.start /\ s.end <= r.end
    BY NextShape
  <2>2. s \in Kept
    BY <2>1 DEF Kept
  <2>3. s \in Session
    BY <2>2 DEF SessionsInv
  <2> QED
    BY <2>1, <2>2, <2>3 DEF Shares
<1>6. ASSUME NEW s \in OldOf(r), NEW p \in M[s]
      PROVE  /\ p \in 1..produced /\ clicks[p].user = r.user
             /\ Took(n, p) /\ Took(n - 1, p)
             /\ r.start <= clicks[p].time /\ clicks[p].time + Gap <= r.end
  <2>1. p \in 1..produced /\ s \in Kept
    BY <1>5
  <2>2. /\ Took(commitLog, p) /\ clicks[p].user = s.user
        /\ s.start <= clicks[p].time /\ clicks[p].time + Gap <= s.end
    BY <2>1 DEF Shares
  <2>3. Took(n - 1, p)
    BY <1>1, <2>2
  <2>4. Took(n, p)
    BY <2>1, <2>3, TookAdds
  <2>5. clicks[p].time \in Int /\ clicks[p].time + Gap \in Int
    BY <2>1, ClickTypes, WindowAssumption
  <2>6. s.start \in Int /\ s.end \in Int /\ s.user = r.user
        /\ r.start <= s.start /\ s.end <= r.end
    BY <1>5 DEF Session
  <2>7. r.start <= clicks[p].time /\ clicks[p].time + Gap <= r.end
    BY <1>3, <2>2, <2>5, <2>6
  <2> QED
    BY <2>1, <2>2, <2>3, <2>4, <2>6, <2>7
<1> DEFINE G == UNION {M[s] : s \in OldOf(r)}
<1>7. \A p : p \in G <=> \E s \in OldOf(r) : p \in M[s]
  OBVIOUS
<1>8. \A p : p \in Given(M, r) <=> p \in FreshOf(r) \/ p \in G
  BY DEF Given
<1> HIDE DEF G
<1>9. Total(OldOf(r)) = Cardinality(G) /\ IsFiniteSet(G)
  <2>1. PICK T : T = OldOf(r)
    OBVIOUS
  <2>2. \A s \in T : M[s] \subseteq 1..produced /\ Cardinality(M[s]) = s.count
    BY <1>5, <2>1
  <2>3. \A s, t \in T : \A p \in M[s] : p \in M[t] => s = t
    BY <1>5, <2>1 DEF Shares
  <2>4. PICK all : all = G
    OBVIOUS
  <2>5. \A p : p \in all <=> \E s \in T : p \in M[s]
    BY <1>7, <2>1, <2>4
  <2>6. Total(T) = Cardinality(all) /\ IsFiniteSet(all)
    BY <1>2, <2>2, <2>3, <2>5, TotalIsShared
  <2> QED
    BY <2>1, <2>4, <2>6
<1>10. PICK F : F = FreshOf(r)
  OBVIOUS
<1>11. PICK H : H = G
  OBVIOUS
<1>12. IsFiniteSet(F)
  <2>1. F \subseteq 1..produced
    BY <1>4, <1>10
  <2>2. IsFiniteSet(1..produced)
    BY <1>2, FS_Interval
  <2> QED
    BY <2>1, <2>2, FS_Subset
<1>13. F \cap H = {}
  BY <1>4, <1>6, <1>7, <1>10, <1>11
<1>14. IsFiniteSet(H)
  BY <1>9, <1>11
<1>15. Cardinality(F \union H) = Cardinality(F) + Cardinality(H) - Cardinality(F \cap H)
  BY ONLY <1>12, <1>14, FS_Union
<1>16. Cardinality(F) \in Nat /\ Cardinality(H) \in Nat /\ Cardinality(F \cap H) = 0
  BY <1>12, <1>13, <1>14, FS_CardinalityType, FS_EmptySet
<1>17. Given(M, r) = F \union H
  BY <1>8, <1>10, <1>11
<1>18. Cardinality(Given(M, r)) = r.count
  BY <1>3, <1>9, <1>10, <1>11, <1>15, <1>16, <1>17
<1>19. Given(M, r) \subseteq 1..produced
  BY <1>4, <1>6, <1>7, <1>8
<1>20. ASSUME NEW p \in Given(M, r)
       PROVE  /\ Took(n, p) /\ clicks[p].user = r.user
              /\ r.start <= clicks[p].time /\ clicks[p].time + Gap <= r.end
  BY <1>4, <1>6, <1>7, <1>8
<1>21. \A p : p \in Given(M, r) <=> p \in FreshOf(r) \/ \E s \in OldOf(r) : p \in M[s]
  BY <1>7, <1>8
<1>22. \A p \in FreshOf(r) : ~Took(commitLog, p)
  BY <1>1, <1>4
<1> QED
  BY <1>1, <1>18, <1>19, <1>20, <1>21, <1>22

LEMMA SharesOn ==
    ASSUME ClicksInv, SessionsInv, Len(offsetLog) = commitLog + 1
    PROVE  \E N \in [Reported \union NextSessions -> SUBSET (1..produced)] :
               Shares(commitLog + 1, Reported \union NextSessions, N)
<1>1. PICK n \in 1..Len(offsetLog) : n = commitLog + 1 /\ n - 1 = commitLog
  BY CommittedMarks
<1>2. PICK M \in [Kept -> SUBSET (1..produced)] : Shares(commitLog, Kept, M)
  BY DEF SessionsInv
<1> DEFINE N == [r \in Reported \union NextSessions |->
                    IF r \in Reported THEN M[r] ELSE Given(M, r)]
<1>3. ASSUME NEW r \in Reported
      PROVE  r \in Kept /\ r \notin NextSessions /\ N[r] = M[r]
             /\ r \in Reported \union NextSessions
  <2>1. r \in Kept
    BY DEF Kept
  <2>2. r.end \in Int /\ r.end <= Watermark(commitLog) /\ Watermark(commitLog) \in Int
    BY <2>1, CommittedMarks DEF SessionsInv, Session, Reported
  <2>3. r \notin NextSessions
    BY <2>2, NextAre
  <2> QED
    BY <2>1, <2>3
<1>4. ASSUME NEW r \in NextSessions
      PROVE  r \notin Reported /\ N[r] = Given(M, r) /\ r \in Reported \union NextSessions
  BY <1>3
<1> HIDE DEF N
<1>5. ASSUME NEW r \in Reported
      PROVE  /\ N[r] \subseteq 1..produced /\ Cardinality(N[r]) = r.count
             /\ \A p \in N[r] : /\ Took(n, p) /\ Took(n - 1, p)
                                /\ clicks[p].user = r.user
                                /\ r.start <= clicks[p].time
                                /\ clicks[p].time + Gap <= r.end
  <2>1. /\ M[r] \subseteq 1..produced /\ Cardinality(M[r]) = r.count
        /\ \A p \in M[r] : /\ Took(commitLog, p)
                           /\ clicks[p].user = r.user
                           /\ r.start <= clicks[p].time
                           /\ clicks[p].time + Gap <= r.end
    BY <1>2, <1>3 DEF Shares
  <2>2. \A p \in M[r] : Took(n - 1, p) /\ Took(n, p)
    BY <1>1, <2>1, TookAdds
  <2> QED
    BY <1>3, <2>1, <2>2
<1>6. ASSUME NEW r \in NextSessions
      PROVE  /\ N[r] \subseteq 1..produced /\ Cardinality(N[r]) = r.count
             /\ \A p \in N[r] : /\ Took(n, p)
                                /\ clicks[p].user = r.user
                                /\ r.start <= clicks[p].time
                                /\ clicks[p].time + Gap <= r.end
             /\ \A p : p \in N[r] <=> p \in FreshOf(r) \/ \E s \in OldOf(r) : p \in M[s]
             /\ \A p \in FreshOf(r) : ~Took(n - 1, p)
  BY <1>1, <1>2, <1>4, GivenIs
<1>7. \A r \in NextSessions : \A s \in OldOf(r) : s \in state /\ s \in Kept /\ s \notin Reported
  <2> SUFFICES ASSUME NEW r \in NextSessions, NEW s \in OldOf(r)
               PROVE  s \in state /\ s \in Kept /\ s \notin Reported
    OBVIOUS
  <2>1. s \in state /\ s \in Kept
    BY NextShape DEF Kept
  <2>2. s.end \in Int /\ s.end > Watermark(commitLog) /\ Watermark(commitLog) \in Int
    BY <2>1, CommittedMarks DEF SessionsInv, Session
  <2> QED
    BY <2>1, <2>2 DEF Reported
<1>8. ASSUME NEW r \in Reported, NEW s \in NextSessions, NEW p \in N[r], p \in N[s]
      PROVE  FALSE
  <2>1. Took(n - 1, p) /\ p \in M[r] /\ r \in Kept
    BY <1>3, <1>5
  <2>2. PICK o \in OldOf(s) : p \in M[o]
    BY <1>6, <1>8, <2>1
  <2>3. o \in Kept /\ o # r
    BY <1>7
  <2> QED
    BY <1>2, <2>1, <2>2, <2>3 DEF Shares
<1>9. ASSUME NEW r \in NextSessions, NEW s \in NextSessions, NEW p \in N[r], p \in N[s]
      PROVE  r = s
  <2>1. CASE p \in FreshOf(r)
    <3>1. ~Took(n - 1, p)
      BY <1>6, <2>1
    <3>2. p \in FreshOf(s)
      <4> SUFFICES ASSUME NEW o \in OldOf(s), p \in M[o] PROVE FALSE
        BY <1>6, <1>9
      <4>1. Took(commitLog, p)
        BY <1>2, <1>7 DEF Shares
      <4> QED
        BY <1>1, <3>1, <4>1
    <3> QED
      BY <2>1, <3>2, NextShape
  <2>2. CASE p \notin FreshOf(r)
    <3>1. PICK o \in OldOf(r) : p \in M[o]
      BY <1>6, <2>2
    <3>2. Took(n - 1, p)
      BY <1>1, <1>2, <1>7, <3>1 DEF Shares
    <3>3. PICK q \in OldOf(s) : p \in M[q]
      BY <1>6, <1>9, <3>2
    <3>4. o = q
      BY <1>2, <1>7, <3>1, <3>3 DEF Shares
    <3> QED
      BY <3>3, <3>4, NextShape
  <2> QED
    BY <2>1, <2>2
<1>10. ASSUME NEW r \in Reported, NEW s \in Reported, NEW p \in N[r], p \in N[s]
       PROVE  r = s
  BY <1>2, <1>3, <1>10 DEF Shares
<1>11. ASSUME NEW p \in 1..produced, Took(n, p)
       PROVE  \E r \in Reported \union NextSessions : p \in N[r]
  <2>1. CASE Took(n - 1, p)
    <3>1. PICK s \in Kept : p \in M[s]
      BY <1>1, <1>2, <2>1 DEF Shares
    <3>2. CASE s \in Reported
      BY <1>3, <3>1, <3>2
    <3>3. CASE s \in state
      <4>1. PICK r \in NextSessions : s \in OldOf(r)
        BY <3>3, NextShape
      <4> QED
        BY <1>4, <1>6, <3>1, <4>1
    <3> QED
      BY <3>2, <3>3 DEF Kept
  <2>2. CASE ~Took(n - 1, p)
    <3>1. p \in Fresh(n, clicks[p].user) /\ clicks[p].user \in Users
      BY <1>11, <2>2, TookAdds, ClickTypes
    <3>2. PICK r \in NextSessions : p \in FreshOf(r)
      BY <1>1, <3>1, NextShape
    <3> QED
      BY <1>4, <1>6, <3>2
  <2> QED
    BY <2>1, <2>2
<1>12. N \in [Reported \union NextSessions -> SUBSET (1..produced)]
  <2>1. \A r \in Reported \union NextSessions : N[r] \in SUBSET (1..produced)
    BY <1>5, <1>6
  <2> QED
    BY <2>1 DEF N
<1>13. Shares(n, Reported \union NextSessions, N)
  <2>1. \A r \in Reported \union NextSessions :
            N[r] \subseteq 1..produced /\ Cardinality(N[r]) = r.count
    BY <1>5, <1>6
  <2>2. \A r \in Reported \union NextSessions :
            \A p \in N[r] : /\ Took(n, p)
                            /\ clicks[p].user = r.user
                            /\ r.start <= clicks[p].time
                            /\ clicks[p].time + Gap <= r.end
    BY <1>5, <1>6
  <2>3. \A r, s \in Reported \union NextSessions : \A p \in N[r] : p \in N[s] => r = s
    BY <1>8, <1>9, <1>10
  <2> QED
    BY <1>11, <2>1, <2>2, <2>3 DEF Shares
<1> QED
  BY <1>1, <1>12, <1>13

-----------------------------------------------------------------------------
(* Sessions: the steps. *)

(* A step that leaves the state store and the commit log alone, and puts
   nothing in the table or on its way to it but what the batch at work reports. *)
LEMMA SessionsKept ==
    ASSUME ClicksInv, [ClickNext]_clickVars, SessionsInv,
           UNCHANGED <<state, commitLog>>, table \subseteq table',
           \A r \in table' \union abandoned' :
               \/ r \in table \union abandoned
               \/ phase \in BatchPhases /\ r \in UpdatedSessions /\ Ended(r),
           phase' = "returned" =>
               /\ phase \in BatchPhases
               /\ \/ phase = "returned"
                  \/ \A r \in UpdatedSessions : Ended(r) => r \in table'
    PROVE  SessionsInv'
<1>1. PICK c \in 0..Len(offsetLog) : c = commitLog /\ c = commitLog'
  BY CommittedMarks
<1>2. /\ Len(offsetLog) \in Nat /\ Len(offsetLog') \in Nat /\ Len(offsetLog) <= Len(offsetLog')
      /\ c \in 0..(Len(offsetLog) + 1) /\ c + 1 \in 0..(Len(offsetLog) + 1)
  BY <1>1, LogStands
<1>3. /\ Watermark(c)' = Watermark(c) /\ Watermark(c + 1)' = Watermark(c + 1)
      /\ Watermark(c) \in Int
  BY <1>1, <1>2, LogStands, CommittedMarks
<1>4. Watermark(commitLog)' = Watermark(c) /\ Watermark(commitLog + 1)' = Watermark(c + 1)
  BY <1>1, <1>3
<1>5. ASSUME phase \in BatchPhases
      PROVE  /\ Len(offsetLog) = commitLog + 1 /\ UpdatedSessions = NextSessions
             /\ \A r : Ended(r) <=> r.end <= Watermark(c + 1)
  <2>1. batch = c + 1 /\ batch = Len(offsetLog)
    BY <1>1, <1>5, CurrentBatch
  <2> QED
    BY <1>1, <1>5, <2>1, NextIsUpdated DEF Ended
<1>6. ASSUME NEW r \in table' \union abandoned'
      PROVE  \/ r \in Reported
             \/ /\ Len(offsetLog) = commitLog + 1
                /\ r \in NextSessions
                /\ r.end <= Watermark(c + 1)
  <2>1. CASE r \in table \union abandoned
    BY <1>1, <2>1 DEF SessionsInv
  <2>2. CASE phase \in BatchPhases /\ r \in UpdatedSessions /\ Ended(r)
    BY <1>5, <2>2
  <2> QED
    BY <2>1, <2>2
<1>7. Reported' = Reported
  <2>1. \A r : r \in Reported' <=> r \in table' /\ r.end <= Watermark(c)
    BY <1>4 DEF Reported
  <2>2. \A r : r \in Reported <=> r \in table /\ r.end <= Watermark(c)
    BY <1>1 DEF Reported
  <2>3. ASSUME NEW r \in Reported' PROVE r \in Reported
    <3>1. r \in table' /\ r.end <= Watermark(c)
      BY <2>1
    <3> SUFFICES ASSUME Len(offsetLog) = commitLog + 1, r \in NextSessions PROVE FALSE
      BY <1>6, <3>1
    <3>2. r.end > Watermark(c) /\ r.end \in Int
      BY <1>1, NextAre DEF Session
    <3> QED
      BY <1>3, <3>1, <3>2
  <2> QED
    BY <2>1, <2>2, <2>3
<1>8. Kept' = Kept
  BY <1>7 DEF Kept
<1>9. Len(offsetLog) = commitLog + 1 => NextSessions' = NextSessions
  BY NextStands
<1>10. IsFiniteSet(state')
  BY DEF SessionsInv
<1>11. \A r \in Kept' : r \in Session /\ r.start <= r.end
  BY <1>8 DEF SessionsInv
<1>12. \A r \in state' : r.end > Watermark(commitLog)'
  BY <1>1, <1>4 DEF SessionsInv
<1>13. \A r, s \in state' : r.user = s.user /\ r # s => r.end < s.start \/ s.end < r.start
  BY DEF SessionsInv
<1>14. ASSUME NEW r \in table' \union abandoned'
       PROVE  \/ r \in Reported'
              \/ /\ Len(offsetLog') = commitLog' + 1
                 /\ r \in NextSessions'
                 /\ r.end <= Watermark(commitLog + 1)'
  <2>1. ASSUME Len(offsetLog) = commitLog + 1 PROVE Len(offsetLog') = commitLog' + 1
    <3>1. Len(offsetLog') <= commitLog' + 1
      BY ClicksInvStep DEF ClicksInv, CheckpointInv, LogsAgree
    <3> QED
      BY <1>1, <1>2, <2>1, <3>1
  <2> QED
    BY <1>4, <1>6, <1>7, <1>9, <2>1
<1>15. ASSUME phase' = "returned", NEW r \in NextSessions', r.end <= Watermark(commitLog + 1)'
       PROVE  r \in table'
  <2>1. phase \in BatchPhases
    BY <1>15
  <2>2. r \in NextSessions /\ r.end <= Watermark(c + 1)
    BY <1>4, <1>5, <1>9, <1>15, <2>1
  <2>3. CASE phase = "returned"
    <3>1. r.end <= Watermark(commitLog + 1)
      BY <1>1, <2>2
    <3> QED
      BY <2>2, <2>3, <3>1 DEF SessionsInv
  <2>4. CASE \A x \in UpdatedSessions : Ended(x) => x \in table'
    BY <1>5, <2>1, <2>2, <2>4
  <2> QED
    BY <1>15, <2>3, <2>4
<1>16. \E M \in [Kept' -> SUBSET (1..produced')] : Shares(commitLog, Kept, M)'
  <2>1. PICK K : K = Kept
    OBVIOUS
  <2>2. PICK M \in [K -> SUBSET (1..produced)] : Shares(c, K, M)
    BY <1>1, <2>1 DEF SessionsInv
  <2>3. Shares(c, K, M)'
    BY <2>2, SharesStands
  <2>4. K = Kept' /\ c = commitLog'
    BY <1>1, <1>8, <2>1
  <2>5. Shares(commitLog, Kept, M)'
    BY <2>3, <2>4
  <2>6. M \in [K -> SUBSET (1..produced')]
    <3>1. \A p \in 1..produced : p \in 1..produced'
      BY TopicOnlyGrows
    <3> QED
      BY <3>1
  <2> QED
    BY <2>4, <2>5, <2>6
<1>17. ASSUME NEW u \in Users, Timely(commitLog, u)'
       PROVE  /\ \A r \in Reported', s \in state' :
                    r.user = u /\ s.user = u => r.end <= s.start
              /\ \A r, s \in Reported' : r.user = u /\ s.user = u /\ r # s =>
                    r.end <= s.start \/ s.end <= r.start
  <2>1. Timely(c, u)'
    BY <1>1, <1>17
  <2>2. Timely(c, u)
    BY <2>1, TimelyStands
  <2>3. Timely(commitLog, u)
    BY <1>1, <2>2
  <2> QED
    BY <1>7, <2>3 DEF SessionsInv
<1> QED
  BY <1>10, <1>11, <1>12, <1>13, <1>14, <1>15, <1>16, <1>17 DEF SessionsInv

(* The callback: an insert that fails raises, one that returns has stored the
   sessions that ended. *)
LEMMA WriteSessions ==
    ASSUME ToleranceNum < ToleranceDen, ClicksInv, query = "sessions", SessionsInv, WriteClicks
    PROVE  SessionsInv'
<1>1. phase = "writing" /\ phase \in BatchPhases
  BY DEF WriteClicks, WriteRows, WriteEmpty, InsertDone, InsertFailed, EndCallback, BatchPhases
<1>2. \A r : r \in BatchRows <=> r \in UpdatedSessions /\ Ended(r)
  BY DEF BatchRows
<1>3. UNCHANGED <<state, commitLog>>
  BY DEF WriteClicks, WriteRows, WriteEmpty, InsertDone, InsertFailed, EndCallback, checkpoint
<1>4. PICK rows : rows = BatchRows
  OBVIOUS
<1>5. WriteRows(rows)
  BY <1>4 DEF WriteClicks
<1>6. /\ table \subseteq table'
      /\ \A r \in table' \union abandoned' : r \in table \union abandoned \/ r \in rows
  BY <1>5 DEF WriteRows, WriteEmpty, InsertDone, InsertFailed, InsertBroken, store
<1>7. IsFiniteSet(rows)
  <2>1. Len(offsetLog) = commitLog + 1
    BY <1>1, CurrentBatch
  <2>2. IsFiniteSet(NextSessions)
    BY <2>1, NextFinite
  <2>3. rows \subseteq NextSessions
    BY <1>1, <1>2, <1>4, NextIsUpdated
  <2> QED
    BY <2>2, <2>3, FS_Subset
<1>8. ASSUME phase' = "returned" PROVE rows \subseteq table'
  <2>1. CASE WriteEmpty(rows)
    BY <2>1 DEF WriteEmpty
  <2>2. CASE InsertDone(rows)
    BY <2>2 DEF InsertDone
  <2>3. CASE InsertFailed(rows)
    <3>1. PICK c \in Nat : c = Cardinality(rows)
      BY <1>7, FS_CardinalityType
    <3>2. c # 0
      BY <1>7, <2>3, <3>1, FS_EmptySet DEF InsertFailed
    <3>3. ExceedsTolerance(0, c)
      BY <3>2, WholeFailureRaises
    <3>4. phase' = "down"
      BY <2>3, <3>1, <3>3 DEF InsertFailed, EndCallback
    <3> QED
      BY <1>8, <3>4
  <2> QED
    BY <1>5, <2>1, <2>2, <2>3 DEF WriteRows
<1>9. [ClickNext]_clickVars
  BY DEF ClickNext
<1> QED
  BY <1>1, <1>2, <1>3, <1>4, <1>6, <1>8, <1>9, SessionsKept

(* What has been reported of a user whose clicks are all on time ends before
   the sessions that the next batch makes begin. *)
LEMMA ReportedIsBehind ==
    ASSUME ClicksInv, SessionsInv, Len(offsetLog) = commitLog + 1,
           NEW u \in Users, Timely(commitLog + 1, u),
           NEW r \in Reported, r.user = u, NEW s \in NextSessions, s.user = u
    PROVE  r.end <= s.start
<1>1. PICK n \in 1..Len(offsetLog) : n = commitLog + 1 /\ n - 1 = commitLog
  BY CommittedMarks
<1>2. Timely(n, u) /\ Timely(n - 1, u)
  <2>1. \A m \in 1..(n - 1) : m \in 1..n
    OBVIOUS
  <2> QED
    BY <1>1, <2>1 DEF Timely
<1>3. r \in Session /\ r.end <= Watermark(commitLog)
  BY DEF Reported, SessionsInv, Kept
<1>4. /\ r.end \in Int /\ s.start \in Int
      /\ Watermark(commitLog) \in Int /\ Watermark(n) \in Int
      /\ Watermark(commitLog) <= Watermark(n)
  BY <1>1, <1>3, NextAre, CommittedMarks DEF Session
<1>5. CASE \E p \in Fresh(n, u) : s.start = clicks[p].time
  <2>1. PICK p \in Fresh(n, u) : s.start = clicks[p].time
    BY <1>5
  <2>2. p \in 1..produced /\ clicks[p].user = u /\ BatchStart(n) < p /\ p <= offsetLog[n]
    BY DEF Fresh
  <2>3. n \in 1..n
    BY <1>1
  <2>4. Watermark(n) <= s.start
    BY <1>2, <2>1, <2>2, <2>3 DEF Timely
  <2> QED
    BY <1>3, <1>4, <2>4
<1>6. CASE \E o \in OpenOf(u) : s.start = o.start
  <2>1. PICK o \in OpenOf(u) : s.start = o.start
    BY <1>6
  <2>2. o \in state /\ o.user = u
    BY DEF OpenOf
  <2>3. Timely(commitLog, u)
    BY <1>1, <1>2
  <2>4. r.end <= o.start
    BY <2>2, <2>3 DEF SessionsInv
  <2> QED
    BY <2>1, <2>4
<1> QED
  BY <1>1, <1>5, <1>6, NextShape

(* The commit keeps, of the sessions the batch makes, those still open: what
   ended has been reported, and no other row can have got to the table. *)
LEMMA CommitSessions ==
    ASSUME ClicksInv, query = "sessions", SessionsInv, CommitClicks
    PROVE  SessionsInv'
<1>1. phase = "returned" /\ phase \in BatchPhases /\ phase' = "idle"
  BY DEF CommitClicks, CommitBatch, BatchPhases
<1>2. /\ commitLog' = batch /\ UNCHANGED <<startPos, offsetLog, produced, clicks, table, abandoned>>
      /\ state' = StateAfter
  BY DEF CommitClicks, CommitBatch, topic, store
<1>3. PICK n \in 1..Len(offsetLog) :
          n = batch /\ n = commitLog + 1 /\ n = commitLog' /\ Len(offsetLog) = commitLog + 1
  BY <1>1, <1>2, CurrentBatch
<1>4. [ClickNext]_clickVars
  BY DEF ClickNext
<1>5. /\ Watermark(commitLog) \in Int /\ Watermark(n) \in Int
      /\ Watermark(commitLog) <= Watermark(n)
  BY <1>3, CommittedMarks
<1>6. Watermark(commitLog)' = Watermark(n)
  BY <1>2, <1>3 DEF Watermark, TimesBefore, NoWatermark
<1>7. \A r : r \in state' <=> r \in NextSessions /\ ~(r.end <= Watermark(n))
  <2>1. StateAfter = {r \in UpdatedSessions : ~Ended(r)}
    BY DEF StateAfter
  <2> QED
    BY <1>1, <1>2, <1>3, <2>1, NextIsUpdated DEF Ended
<1>8. \A r : r \in Reported' <=> r \in table /\ r.end <= Watermark(n)
  BY <1>2, <1>6 DEF Reported
<1>9. \A r : r \in Reported <=> r \in table /\ r.end <= Watermark(commitLog)
  BY DEF Reported
<1>10. \A r \in NextSessions : r.end <= Watermark(n) => r \in table
  BY <1>1, <1>3 DEF SessionsInv
<1>11. \A r \in table \union abandoned :
           r \in Reported \/ (r \in NextSessions /\ r.end <= Watermark(n))
  BY <1>3 DEF SessionsInv
<1>12. \A r \in Reported : r \in Session /\ r.start <= r.end /\ r.end \in Int
  BY DEF SessionsInv, Kept, Session
<1>13. \A r \in NextSessions : /\ r \in Session /\ r.start <= r.end
                               /\ r.start \in Int /\ r.end \in Int
  BY <1>3, NextAre DEF Session
<1>14. \A r \in Reported : r \in Reported'
  BY <1>5, <1>8, <1>9, <1>12
<1>15. \A r \in Reported' :
           \/ r \in Reported
           \/ r \in NextSessions /\ r.end <= Watermark(n)
  BY <1>8, <1>11
<1>16. \A r : r \in Kept' <=> r \in Reported \union NextSessions
  BY <1>7, <1>8, <1>10, <1>14, <1>15 DEF Kept
<1>17. IsFiniteSet(state')
  <2>1. state' \subseteq NextSessions
    BY <1>7
  <2> QED
    BY <1>3, <2>1, NextFinite, FS_Subset
<1>18. \A r \in Kept' : r \in Session /\ r.start <= r.end
  BY <1>12, <1>13, <1>16
<1>19. \A r \in state' : r.end > Watermark(commitLog)'
  BY <1>5, <1>6, <1>7, <1>13
<1>20. \A r, s \in NextSessions :
           r.user = s.user /\ r # s => r.end < s.start \/ s.end < r.start
  BY <1>3, NextShape
<1>21. \A r, s \in state' : r.user = s.user /\ r # s => r.end < s.start \/ s.end < r.start
  BY <1>7, <1>20
<1>22. \A r \in table' \union abandoned' : r \in Reported'
  BY <1>2, <1>8, <1>10, <1>11, <1>14
<1>23. \E M \in [Kept' -> SUBSET (1..produced')] : Shares(commitLog, Kept, M)'
  <2>1. PICK K : K = Reported \union NextSessions
    OBVIOUS
  <2>2. K = Kept'
    BY <1>16, <2>1
  <2>3. PICK M \in [K -> SUBSET (1..produced)] : Shares(n, K, M)
    BY <1>3, <2>1, SharesOn
  <2>4. n \in 0..Len(offsetLog)
    BY <1>3
  <2>5. Shares(n, K, M)'
    BY <1>4, <2>3, <2>4, SharesStands
  <2>6. Shares(commitLog, Kept, M)'
    BY <1>3, <2>2, <2>5
  <2> QED
    BY <1>2, <2>2, <2>6
<1>24. ASSUME NEW u \in Users, Timely(commitLog, u)'
       PROVE  /\ \A r \in Reported', s \in state' :
                    r.user = u /\ s.user = u => r.end <= s.start
              /\ \A r, s \in Reported' : r.user = u /\ s.user = u /\ r # s =>
                    r.end <= s.start \/ s.end <= r.start
  <2>1. Timely(n, u)
    <3>1. Timely(n, u)'
      BY <1>3, <1>24
    <3>2. n \in 0..Len(offsetLog)
      BY <1>3
    <3> QED
      BY <1>4, <3>1, <3>2, TimelyStands
  <2>2. \A r \in Reported, s \in NextSessions : r.user = u /\ s.user = u => r.end <= s.start
    BY <1>3, <2>1, ReportedIsBehind
  <2>3. Timely(commitLog, u)
    <3>1. \A m \in 1..(n - 1) : m \in 1..n
      BY <1>3
    <3>2. Timely(n - 1, u)
      BY <2>1, <3>1 DEF Timely
    <3>3. n - 1 = commitLog
      BY <1>3, CommittedMarks
    <3> QED
      BY <3>2, <3>3
  <2>4. \A r, s \in Reported : r.user = u /\ s.user = u /\ r # s =>
            r.end <= s.start \/ s.end <= r.start
    BY <2>3 DEF SessionsInv
  <2>5. ASSUME NEW r \in Reported', NEW s \in state', r.user = u, s.user = u
        PROVE  r.end <= s.start
    <3>1. s \in NextSessions /\ ~(s.end <= Watermark(n)) /\ r.end <= Watermark(n)
      BY <1>7, <1>8
    <3>2. CASE r \in Reported
      BY <2>2, <2>5, <3>1, <3>2
    <3>3. CASE r \in NextSessions
      <4>1. /\ r.start \in Int /\ r.end \in Int /\ s.start \in Int /\ s.end \in Int
            /\ r.start <= r.end /\ r # s
        BY <1>13, <3>1, <3>3
      <4>2. r.end < s.start \/ s.end < r.start
        BY <1>20, <2>5, <3>1, <3>3, <4>1
      <4> QED
        BY <1>5, <3>1, <4>1, <4>2
    <3> QED
      BY <1>15, <3>2, <3>3
  <2>6. ASSUME NEW r \in Reported', NEW s \in Reported', r.user = u, s.user = u, r # s
        PROVE  r.end <= s.start \/ s.end <= r.start
    <3>1. /\ r \in Reported \/ r \in NextSessions
          /\ s \in Reported \/ s \in NextSessions
      BY <1>15
    <3>2. CASE r \in NextSessions /\ s \in NextSessions
      <4>1. r.start \in Int /\ r.end \in Int /\ s.start \in Int /\ s.end \in Int
        BY <1>13, <3>2
      <4> QED
        BY <1>20, <2>6, <3>2, <4>1
    <3> QED
      BY <2>2, <2>4, <2>6, <3>1, <3>2
  <2> QED
    BY <2>5, <2>6
<1> QED
  BY <1>1, <1>17, <1>18, <1>19, <1>21, <1>22, <1>23, <1>24 DEF SessionsInv

LEMMA InitSessionsInv == ClickInit => SessionsInv
<1> SUFFICES ASSUME ClickInit PROVE SessionsInv
  OBVIOUS
<1>1. /\ commitLog = 0 /\ state = {} /\ table = {} /\ abandoned = {} /\ phase = "down"
      /\ produced \in Nat /\ 1..produced = {}
  BY DEF ClickInit, Init, NoRows
<1>2. Kept = {} /\ Reported = {}
  BY <1>1 DEF Kept, Reported
<1>3. \A p : ~Took(commitLog, p)
  <2>1. 1..commitLog = {}
    BY <1>1
  <2> QED
    BY <2>1 DEF Took
<1>4. \E M \in [Kept -> SUBSET (1..produced)] : Shares(commitLog, Kept, M)
  <2>1. [r \in {} |-> {}] \in [Kept -> SUBSET (1..produced)]
    BY <1>2
  <2>2. Shares(commitLog, Kept, [r \in {} |-> {}])
    BY <1>2, <1>3 DEF Shares
  <2> QED
    BY <2>1, <2>2
<1>5. IsFiniteSet(state)
  BY <1>1, FS_EmptySet
<1> QED
  BY <1>1, <1>2, <1>4, <1>5 DEF SessionsInv

LEMMA SessionsInvStep ==
    ASSUME ToleranceNum < ToleranceDen, ClicksInv, [ClickNext]_clickVars,
           query = "sessions", SessionsInv
    PROVE  SessionsInv'
<1>1. CASE WriteClicks
  BY <1>1, WriteSessions
<1>2. CASE CommitClicks
  BY <1>2, CommitSessions
<1>3. CASE CrashClicks
  <2>1. UNCHANGED <<state, commitLog>> /\ phase' = "down"
    BY <1>3 DEF CrashClicks, CrashInserting, Crash, checkpoint
  <2>2. \A r : r \in BatchRows <=> r \in UpdatedSessions /\ Ended(r)
    BY DEF BatchRows
  <2>3. /\ table \subseteq table'
        /\ \A r \in table' \union abandoned' :
               \/ r \in table \union abandoned
               \/ phase \in BatchPhases /\ r \in BatchRows
    BY <1>3 DEF CrashClicks, CrashInserting, InsertBroken, store, BatchPhases
  <2> QED
    BY <2>1, <2>2, <2>3, SessionsKept
<1>4. CASE StoreClicksLate
  <2>1. /\ UNCHANGED <<state, commitLog, phase, batch>> /\ table \subseteq table'
        /\ \A r \in table' \union abandoned' : r \in table \union abandoned
    BY <1>4 DEF StoreClicksLate, InsertLate, vars
  <2> QED
    BY <2>1, SessionsKept DEF BatchPhases
<1>5. CASE ~(WriteClicks \/ CommitClicks \/ CrashClicks \/ StoreClicksLate)
  <2>1. UNCHANGED <<state, commitLog, table, abandoned>>
    BY <1>5 DEF ClickNext, ProduceClick, StartQuery, PlanClicks, ReadClicks, clickVars,
                clickHouseVars, store, vars, checkpoint, topic, driver, Produce, Start, PlanBatch,
                ResolveStart, ReadBatch
  <2>2. phase' = "returned" => phase = "returned" /\ batch' = batch
    BY <1>5 DEF ClickNext, ProduceClick, StartQuery, PlanClicks, ReadClicks, clickVars,
                clickHouseVars, vars, driver, Produce, Start, PlanBatch, ResolveStart, ReadBatch
  <2> QED
    BY <2>1, <2>2, SessionsKept DEF BatchPhases
<1> QED
  BY <1>1, <1>2, <1>3, <1>4, <1>5

-----------------------------------------------------------------------------
(* Sessions: what the table and the state store hold together. *)

(* With nothing planned that is not committed, that is what was reported and
   what is open, and it has all clicks taken in. *)
LEMMA SettledIsKept ==
    ASSUME SessionsInv, Settled, commitLog \in Nat
    PROVE  table \union state = Kept
<1>1. ASSUME NEW r \in table PROVE r \in Reported
  <2>1. Len(offsetLog) # commitLog + 1
    BY DEF Settled
  <2> QED
    BY <2>1 DEF SessionsInv
<1> QED
  BY <1>1 DEF Kept, Reported

LEMMA InvImpliesCountOnce ==
    ASSUME ClicksInv, query = "sessions" => SessionsInv
    PROVE  SessionsCountOnce
<1> DEFINE rowsOf(u) == {s \in table \union state : s.user = u}
           clicksOf(u) == {p \in Committed : clicks[p].user = u}
<1>1. ASSUME query = "sessions", Settled, NEW u \in Users
      PROVE  /\ Total(rowsOf(u)) <= Cardinality(clicksOf(u))
             /\ Cardinality({p \in clicksOf(u) : OnTime(p)}) <= Total(rowsOf(u))
  <2>1. commitLog \in Nat /\ produced \in Nat
    BY CheckpointTypes DEF ClicksInv
  <2>2. PICK rows : rows = rowsOf(u)
    OBVIOUS
  <2>3. PICK mine : mine = clicksOf(u)
    OBVIOUS
  <2>4. PICK timely : timely = {p \in clicksOf(u) : OnTime(p)}
    OBVIOUS
  <2>5. \A r : r \in rows <=> r \in Kept /\ r.user = u
    BY <1>1, <2>1, <2>2, SettledIsKept
  <2>6. PICK M : Shares(commitLog, Kept, M)
    BY <1>1 DEF SessionsInv
  <2>7. PICK all : \A p : p \in all <=> \E r \in rows : p \in M[r]
    <3>1. \A p : p \in UNION {M[r] : r \in rows} <=> \E r \in rows : p \in M[r]
      OBVIOUS
    <3> QED
      BY <3>1
  <2>8. Total(rows) = Cardinality(all) /\ IsFiniteSet(all)
    <3>1. \A r \in rows : M[r] \subseteq 1..produced /\ Cardinality(M[r]) = r.count
      BY <2>5, <2>6 DEF Shares
    <3>2. \A r, s \in rows : \A p \in M[r] : p \in M[s] => r = s
      BY <2>5, <2>6 DEF Shares
    <3> QED
      BY <2>1, <2>7, <3>1, <3>2, TotalIsShared
  <2>9. ASSUME NEW p \in all PROVE p \in mine
    <3>1. PICK r \in rows : p \in M[r]
      BY <2>7
    <3>2. p \in 1..produced /\ Took(commitLog, p) /\ clicks[p].user = u
      BY <2>5, <2>6, <3>1 DEF Shares
    <3>3. p \in Committed
      BY <3>2, CommittedHas DEF Took
    <3> QED
      BY <2>3, <3>2, <3>3
  <2>10. ASSUME NEW p \in timely PROVE p \in all
    <3>1. OnTime(p) /\ clicks[p].user = u
      BY <2>4
    <3>2. PICK n \in 1..commitLog :
              /\ p \in 1..produced /\ BatchStart(n) < p /\ p <= offsetLog[n]
              /\ Watermark(n - 1) \in Int /\ Watermark(n - 1) <= clicks[p].time
      BY <3>1, OnTimeIsAhead
    <3>3. clicks[p].time \in Int /\ clicks[p].time + Gap > Watermark(n - 1)
      BY <3>2, ClickTypes, WindowAssumption
    <3>4. Took(commitLog, p)
      BY <3>2, <3>3 DEF Took
    <3>5. PICK r \in Kept : p \in M[r]
      BY <2>6, <3>2, <3>4 DEF Shares
    <3>6. r.user = u
      BY <2>6, <3>1, <3>5 DEF Shares
    <3> QED
      BY <2>5, <2>7, <3>5, <3>6
  <2>11. IsFiniteSet(mine)
    <3>1. mine \subseteq Committed
      BY <2>3
    <3> QED
      BY <3>1, CommittedHas, FS_Subset
  <2>12. Cardinality(all) <= Cardinality(mine)
    <3>1. all \subseteq mine
      BY <2>9
    <3> QED
      BY <2>11, <3>1, FS_Subset
  <2>13. Cardinality(timely) <= Cardinality(all)
    <3>1. timely \subseteq all
      BY <2>10
    <3> QED
      BY <2>8, <3>1, FS_Subset
  <2> QED
    BY <2>2, <2>3, <2>4, <2>8, <2>12, <2>13
<1> QED
  BY <1>1 DEF SessionsCountOnce

(* A click is in one batch. *)
LEMMA BatchIsOne ==
    ASSUME ClicksInv, NEW m \in 1..Len(offsetLog), NEW n \in 1..Len(offsetLog), NEW p \in Int,
           BatchStart(m) < p, p <= offsetLog[m], BatchStart(n) < p, p <= offsetLog[n]
    PROVE  m = n
<1>0. Len(offsetLog) \in Nat
  BY CheckpointTypes DEF ClicksInv
<1>1. ASSUME NEW i \in 1..Len(offsetLog), NEW j \in 1..Len(offsetLog), i < j,
             p <= offsetLog[i], BatchStart(j) < p
      PROVE  FALSE
  <2>1. j - 1 \in 1..Len(offsetLog) /\ i <= j - 1 /\ j # 1
    BY <1>0, <1>1
  <2>2. BatchStart(j) = offsetLog[j - 1] /\ offsetLog[i] <= offsetLog[j - 1]
    BY <2>1 DEF BatchStart, ClicksInv, EndsOrdered
  <2>3. offsetLog[i] \in Nat /\ offsetLog[j - 1] \in Nat
    BY <2>1, LogPositions
  <2> QED
    BY <1>1, <2>2, <2>3
<1>2. m < n \/ n < m \/ m = n
  BY <1>0
<1> QED
  BY <1>1, <1>2

LEMMA OnTimeIsTimely ==
    ASSUME ClicksInv, NEW u, \A p \in Committed : clicks[p].user = u => OnTime(p)
    PROVE  Timely(commitLog, u)
<1>1. commitLog \in 0..Len(offsetLog) /\ Len(offsetLog) \in Nat /\ produced \in Nat
  BY CheckpointTypes DEF ClicksInv, CheckpointInv, LogsAgree
<1>2. ASSUME NEW m \in 1..commitLog, NEW p \in 1..produced,
             clicks[p].user = u, BatchStart(m) < p, p <= offsetLog[m]
      PROVE  Watermark(m) <= clicks[p].time
  <2>1. p \in Committed
    BY <1>2, CommittedHas
  <2>2. OnTime(p)
    BY <1>2, <2>1
  <2>3. PICK n \in 1..commitLog :
            /\ n \in 1..Len(offsetLog) /\ BatchStart(n) < p /\ p <= offsetLog[n]
            /\ Watermark(n) <= clicks[p].time
    BY <2>2, OnTimeIsAhead
  <2>4. m \in 1..Len(offsetLog) /\ p \in Int
    BY <1>1
  <2>5. m = n
    BY <1>2, <2>3, <2>4, BatchIsOne
  <2> QED
    BY <2>3, <2>5
<1> QED
  BY <1>2 DEF Timely

LEMMA InvImpliesApart ==
    ASSUME ClicksInv, query = "sessions" => SessionsInv
    PROVE  SessionsApart
<1>1. ASSUME query = "sessions", Settled, NEW u \in Users,
             \A p \in Committed : clicks[p].user = u => OnTime(p),
             NEW r \in {x \in table \union state : x.user = u},
             NEW s \in {x \in table \union state : x.user = u}, r # s
      PROVE  r.end <= s.start \/ s.end <= r.start
  <2>1. commitLog \in Nat
    BY CheckpointTypes DEF ClicksInv
  <2>2. r \in Kept /\ s \in Kept /\ r.user = u /\ s.user = u
    BY <1>1, <2>1, SettledIsKept
  <2>3. Timely(commitLog, u)
    BY <1>1, OnTimeIsTimely
  <2>4. r.start \in Int /\ r.end \in Int /\ s.start \in Int /\ s.end \in Int
    BY <1>1, <2>2 DEF SessionsInv, Session
  <2>5. CASE r \in state /\ s \in state
    <3>1. r.end < s.start \/ s.end < r.start
      BY <1>1, <2>2, <2>5 DEF SessionsInv
    <3> QED
      BY <2>4, <3>1
  <2>6. CASE r \in Reported /\ s \in Reported
    BY <1>1, <2>2, <2>3, <2>6 DEF SessionsInv
  <2>7. CASE r \in Reported /\ s \in state
    BY <1>1, <2>2, <2>3, <2>7 DEF SessionsInv
  <2>8. CASE r \in state /\ s \in Reported
    BY <1>1, <2>2, <2>3, <2>8 DEF SessionsInv
  <2> QED
    BY <2>2, <2>5, <2>6, <2>7, <2>8 DEF Kept
<1> QED
  BY <1>1 DEF SessionsApart

-----------------------------------------------------------------------------
(* The theorems about sessions. *)

LEMMA SessionsInvariant ==
    ASSUME ToleranceNum < ToleranceDen
    PROVE  ClickSpec => [](ClicksInv /\ (query = "sessions" => SessionsInv))
<1> DEFINE Inv == ClicksInv /\ (query = "sessions" => SessionsInv)
<1>1. ClickInit => Inv
  BY InitClicksInv, InitSessionsInv
<1>2. Inv /\ [ClickNext]_clickVars => Inv'
  BY ClicksInvStep, SessionsInvStep, TopicOnlyGrows
<1> QED
  BY <1>1, <1>2, PTL DEF ClickSpec

(* Once all that is planned is committed, the sessions reported and those
   still open count the clicks that kept within the delay, and none twice. *)
THEOREM SessionsCount ==
    ASSUME ToleranceNum < ToleranceDen
    PROVE  ClickSpec => []SessionsCountOnce
<1>1. ClicksInv /\ (query = "sessions" => SessionsInv) => SessionsCountOnce
  BY InvImpliesCountOnce
<1> QED
  BY <1>1, SessionsInvariant, PTL

(* Sessions of a user who kept within the delay do not overlap. *)
THEOREM SessionsStayApart ==
    ASSUME ToleranceNum < ToleranceDen
    PROVE  ClickSpec => []SessionsApart
<1>1. ClicksInv /\ (query = "sessions" => SessionsInv) => SessionsApart
  BY InvImpliesApart
<1> QED
  BY <1>1, SessionsInvariant, PTL

=============================================================================
