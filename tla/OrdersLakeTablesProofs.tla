----------------------- MODULE OrdersLakeTablesProofs -----------------------
(***************************************************************************)
(* The native table sinks of OrdersLakeTables store every record exactly   *)
(* once, for any number of records and crashes.                            *)
(*                                                                         *)
(* The invariant is about one stage at a time, so it is stated, and shown  *)
(* to survive each step, for the plain values t, st, off, com and ph of a  *)
(* stage's table, start, offsets, commits and phase.                       *)
(***************************************************************************)
EXTENDS OrdersLakeTables, TLAPS

PhasesOfStage == {"down", "idle", "planned", "written"}
TableCommits == [epoch : Int, from : Int, until : Int]

(* Where the n-th batch ends and the next one begins. *)
EndOf(st, off, n) == IF n = 0 THEN st ELSE off[n]

StageTypes(t, st, off, com, ph) ==
    /\ t \in Seq(TableCommits)
    /\ st \in Int
    /\ off \in Seq(Int)
    /\ com \in Nat
    /\ ph \in PhasesOfStage

(* The table is at most one batch ahead of the checkpoint's commits, and the
   offset log at most one batch ahead of both. *)
LogsInStep(t, off, com, ph) ==
    /\ com <= Len(t)
    /\ Len(t) <= Len(off)
    /\ Len(off) <= com + 1
    /\ ph = "idle" => Len(off) = com
    /\ ph \in {"planned", "written"} => Len(off) = com + 1
    /\ ph = "written" => Len(t) = Len(off)

(* Batches follow one another from the start on. *)
EndsIncrease(st, off) ==
    /\ st = NoPos => off = <<>>
    /\ \A i \in 1..Len(off) : st < off[i]
    /\ \A i, j \in 1..Len(off) : i < j => off[i] < off[j]

(* The i-th commit of the table is the i-th batch. *)
CommitsAreBatches(t, st, off) ==
    \A i \in 1..Len(t) :
        t[i] = [epoch |-> i, from |-> EndOf(st, off, i - 1), until |-> off[i]]

(* No input is missing up to the table's last batch. *)
NoGap(t, st, off) ==
    \A n \in Int : st < n /\ n <= EndOf(st, off, Len(t)) =>
        \E i \in 1..Len(t) : t[i].from < n /\ n <= t[i].until

StageOK(t, st, off, com, ph) ==
    /\ StageTypes(t, st, off, com, ph)
    /\ LogsInStep(t, off, com, ph)
    /\ EndsIncrease(st, off)
    /\ CommitsAreBatches(t, st, off)
    /\ NoGap(t, st, off)

(* The inductive invariant. *)
LakeInv ==
    /\ topic \in Seq(Kinds)
    /\ table = [s \in Stages |-> table[s]]
    /\ start = [s \in Stages |-> start[s]]
    /\ offsets = [s \in Stages |-> offsets[s]]
    /\ commits = [s \in Stages |-> commits[s]]
    /\ phase = [s \in Stages |-> phase[s]]
    /\ \A s \in Stages : StageOK(table[s], start[s], offsets[s], commits[s], phase[s])

-----------------------------------------------------------------------------
(* One stage. *)

(* A query that starts looks only at its checkpoint, and one that dies keeps
   only it (StartStage and CrashStage). *)
LEMMA RestartKeeps ==
    ASSUME NEW t, NEW st, NEW off, NEW com, NEW ph, StageOK(t, st, off, com, ph)
    PROVE  /\ StageOK(t, st, off, com, "down")
           /\ StageOK(t, st, off, com, IF Len(off) > com THEN "planned" ELSE "idle")
  BY DEF StageOK, StageTypes, LogsInStep, PhasesOfStage

(* Before its input is opened a stage has planned nothing (OpenInput). *)
LEMMA OpenKeeps ==
    ASSUME NEW t, NEW off, NEW com, NEW ph, NEW p \in Int,
           StageOK(t, NoPos, off, com, ph)
    PROVE  StageOK(t, p, off, com, ph)
  <1>1. off = <<>> /\ t \in Seq(TableCommits)
    BY DEF StageOK, EndsIncrease, StageTypes
  <1>2. Len(off) = 0 /\ Len(t) \in Nat /\ Len(t) <= Len(off)
    BY <1>1 DEF StageOK, LogsInStep
  <1>3. 1..Len(t) = {} /\ 1..Len(off) = {} /\ Len(t) = 0
    BY <1>2
  <1>4. StageTypes(t, p, off, com, ph) /\ LogsInStep(t, off, com, ph)
    BY DEF StageOK, StageTypes
  <1>5. EndsIncrease(p, off) /\ CommitsAreBatches(t, p, off)
    BY <1>1, <1>3 DEF EndsIncrease, CommitsAreBatches
  <1>6. NoGap(t, p, off)
    BY <1>3 DEF NoGap, EndOf
  <1> QED
    BY <1>4, <1>5, <1>6 DEF StageOK

(* The offset log grows by an end past the last one (PlanStage). *)
LEMMA PlanKeeps ==
    ASSUME NEW t, NEW st, NEW off, NEW com, NEW e \in Int,
           StageOK(t, st, off, com, "idle"), st # NoPos, e > EndOf(st, off, com)
    PROVE  StageOK(t, st, Append(off, e), com, "planned")
  <1> DEFINE longer == Append(off, e)
  <1>1. /\ t \in Seq(TableCommits) /\ st \in Int /\ off \in Seq(Int) /\ com \in Nat
        /\ Len(off) = com /\ Len(t) = com
    BY DEF StageOK, StageTypes, LogsInStep
  <1>2. /\ longer \in Seq(Int)
        /\ Len(longer) = com + 1
        /\ longer[com + 1] = e
        /\ \A i \in 1..com : longer[i] = off[i] /\ off[i] \in Int
    BY <1>1
  <1> HIDE DEF longer
  <1>3. StageTypes(t, st, longer, com, "planned") /\ LogsInStep(t, longer, com, "planned")
    BY <1>1, <1>2 DEF StageTypes, LogsInStep, PhasesOfStage
  <1>4. EndsIncrease(st, longer)
    <2>1. /\ \A i \in 1..com : st < off[i]
          /\ \A i, j \in 1..com : i < j => off[i] < off[j]
      BY <1>1 DEF StageOK, EndsIncrease
    <2>2. st < e /\ \A i \in 1..com : off[i] < e
      <3>1. CASE com = 0
        BY <3>1, <1>1 DEF EndOf
      <3>2. CASE com # 0
        <4>1. com \in 1..com /\ off[com] < e
          BY <3>2, <1>1 DEF EndOf
        <4>2. st < e
          BY ONLY <1>1, <1>2, <2>1, <4>1, e \in Int
        <4>3. ASSUME NEW i \in 1..com PROVE off[i] < e
          <5>1. i = com \/ i < com
            BY ONLY <1>1, i \in 1..com
          <5>2. off[i] \in Int /\ off[com] \in Int /\ (i < com => off[i] < off[com])
            BY <1>2, <2>1, <4>1
          <5> QED
            BY ONLY <4>1, <5>1, <5>2, e \in Int
        <4> QED
          BY <4>2, <4>3
      <3> QED
        BY <3>1, <3>2
    <2>3. \A i \in 1..(com + 1) : i \in 1..com \/ i = com + 1
      BY <1>1
    <2>4. \A i \in 1..(com + 1) : st < longer[i]
      BY <2>1, <2>2, <2>3, <1>2
    <2>5. ASSUME NEW i \in 1..(com + 1), NEW j \in 1..(com + 1), i < j
          PROVE  longer[i] < longer[j]
      <3>1. i \in 1..com /\ longer[i] = off[i]
        BY <2>5, <1>1, <1>2
      <3>2. CASE j \in 1..com
        BY <3>1, <3>2, <2>1, <2>5, <1>2
      <3>3. CASE j = com + 1
        BY <3>1, <3>3, <2>2, <1>2
      <3> QED
        BY <3>2, <3>3, <2>3
    <2> QED
      BY <2>4, <2>5, <1>2 DEF EndsIncrease
  <1>5. CommitsAreBatches(t, st, longer)
    BY <1>1, <1>2 DEF StageOK, CommitsAreBatches, EndOf
  <1>6. NoGap(t, st, longer)
    <2>1. EndOf(st, longer, Len(t)) = EndOf(st, off, Len(t))
      BY <1>1, <1>2 DEF EndOf
    <2> QED
      BY <2>1 DEF StageOK, NoGap
  <1> QED
    BY <1>3, <1>4, <1>5, <1>6 DEF StageOK, longer

(* The table gains the planned batch, once (AppendBatch). *)
LEMMA AppendKeeps ==
    ASSUME NEW t, NEW st, NEW off, NEW com, StageOK(t, st, off, com, "planned"),
           NEW lastEpoch, lastEpoch = IF t = <<>> THEN 0 ELSE t[Len(t)].epoch,
           NEW commit,
           commit = [epoch |-> Len(off),
                     from  |-> IF Len(off) = 1 THEN st ELSE off[Len(off) - 1],
                     until |-> off[Len(off)]]
    PROVE  /\ lastEpoch < Len(off) => StageOK(Append(t, commit), st, off, com, "written")
           /\ ~(lastEpoch < Len(off)) => StageOK(t, st, off, com, "written")
  <1>1. /\ t \in Seq(TableCommits) /\ st \in Int /\ off \in Seq(Int) /\ com \in Nat
        /\ Len(off) = com + 1 /\ Len(t) \in Nat /\ com <= Len(t) /\ Len(t) <= com + 1
    BY DEF StageOK, StageTypes, LogsInStep
  <1>2. lastEpoch = Len(t)
    <2>1. CASE t = <<>>
      BY <2>1
    <2>2. CASE t # <<>>
      <3>1. Len(t) \in 1..Len(t)
        BY <2>2, <1>1
      <3>2. t[Len(t)] = [epoch |-> Len(t), from |-> EndOf(st, off, Len(t) - 1), until |-> off[Len(t)]]
        BY <3>1 DEF StageOK, CommitsAreBatches
      <3>3. t[Len(t)].epoch = Len(t)
        BY <3>2
      <3> QED
        BY <3>3, <2>2
    <2> QED
      BY <2>1, <2>2
  <1>3. ASSUME ~(lastEpoch < Len(off))
        PROVE  StageOK(t, st, off, com, "written")
    BY <1>1, <1>2, <1>3 DEF StageOK, StageTypes, LogsInStep, PhasesOfStage
  <1>4. ASSUME lastEpoch < Len(off)
        PROVE  StageOK(Append(t, commit), st, off, com, "written")
    <2> DEFINE longer == Append(t, commit)
    <2>1. Len(t) = com
      BY <1>1, <1>2, <1>4
    <2>2. /\ commit.epoch = com + 1
          /\ commit.from = EndOf(st, off, com)
          /\ commit.until = off[com + 1]
          /\ commit = [epoch |-> com + 1, from |-> EndOf(st, off, com), until |-> off[com + 1]]
      BY <1>1 DEF EndOf
    <2>3. commit \in TableCommits
      <3>1. EndOf(st, off, com) \in Int /\ off[com + 1] \in Int
        BY <1>1 DEF EndOf
      <3> QED
        BY <3>1, <2>2, <1>1 DEF TableCommits
    <2>4. /\ longer \in Seq(TableCommits)
          /\ Len(longer) = com + 1
          /\ longer[com + 1] = commit
          /\ \A i \in 1..com : longer[i] = t[i]
      BY <1>1, <2>1, <2>3
    <2> HIDE DEF longer
    <2>5. \A i \in 1..(com + 1) : i \in 1..com \/ i = com + 1
      BY <1>1
    <2>6. StageTypes(longer, st, off, com, "written") /\ LogsInStep(longer, off, com, "written")
      BY <1>1, <2>4 DEF StageTypes, LogsInStep, PhasesOfStage
    <2>7. CommitsAreBatches(longer, st, off)
      <3>1. \A i \in 1..com : t[i] = [epoch |-> i, from |-> EndOf(st, off, i - 1), until |-> off[i]]
        BY <2>1 DEF StageOK, CommitsAreBatches
      <3>2. (com + 1) - 1 = com
        BY <1>1
      <3> SUFFICES ASSUME NEW i \in 1..(com + 1)
                   PROVE  longer[i] = [epoch |-> i, from |-> EndOf(st, off, i - 1), until |-> off[i]]
        BY <2>4 DEF CommitsAreBatches
      <3>3. CASE i \in 1..com
        BY <3>1, <3>3, <2>4
      <3>4. CASE i = com + 1
        BY <3>2, <3>4, <2>2, <2>4
      <3> QED
        BY <3>3, <3>4, <2>5
    <2>8. NoGap(longer, st, off)
      <3> SUFFICES ASSUME NEW n \in Int, st < n, n <= EndOf(st, off, com + 1)
                   PROVE  \E i \in 1..(com + 1) : longer[i].from < n /\ n <= longer[i].until
        BY <2>4 DEF NoGap
      <3>1. CASE n <= EndOf(st, off, com)
        <4>1. PICK i \in 1..com : t[i].from < n /\ n <= t[i].until
          BY <3>1, <2>1 DEF StageOK, NoGap
        <4>2. i \in 1..(com + 1)
          BY <1>1
        <4>3. longer[i] = t[i]
          BY <2>4
        <4> QED
          BY <4>1, <4>2, <4>3
      <3>2. CASE ~(n <= EndOf(st, off, com))
        <4>1. EndOf(st, off, com) \in Int /\ EndOf(st, off, com + 1) = off[com + 1]
          BY <1>1 DEF EndOf
        <4>2. com + 1 \in 1..(com + 1) /\ EndOf(st, off, com) < n /\ n <= off[com + 1]
          BY <3>2, <4>1, <1>1
        <4> QED
          BY <4>2, <2>2, <2>4
      <3> QED
        BY <3>1, <3>2
    <2> QED
      BY <2>6, <2>7, <2>8 DEF StageOK, longer
  <1> QED
    BY <1>3, <1>4

(* The checkpoint catches up with the table (CommitStage). *)
LEMMA CommitKeeps ==
    ASSUME NEW t, NEW st, NEW off, NEW com, StageOK(t, st, off, com, "written")
    PROVE  StageOK(t, st, off, Len(off), "idle")
  BY DEF StageOK, StageTypes, LogsInStep, PhasesOfStage

-----------------------------------------------------------------------------
(* All stages. *)

LEMMA InitEstablishes == LakeInit => LakeInv
  <1> SUFFICES ASSUME LakeInit
               PROVE  LakeInv
    OBVIOUS
  <1>1. StageOK(<<>>, NoPos, <<>>, 0, "down")
    BY DEF StageOK, StageTypes, LogsInStep, EndsIncrease, CommitsAreBatches, NoGap,
           EndOf, PhasesOfStage, NoPos
  <1> QED
    BY <1>1 DEF LakeInit, LakeInv

(* A step of stage s leaves the other stages' values alone. *)
LEMMA OneStage ==
    ASSUME LakeInv, NEW s \in Stages, topic' = topic,
           table' = [table EXCEPT ![s] = table'[s]],
           start' = [start EXCEPT ![s] = start'[s]],
           offsets' = [offsets EXCEPT ![s] = offsets'[s]],
           commits' = [commits EXCEPT ![s] = commits'[s]],
           phase' = [phase EXCEPT ![s] = phase'[s]],
           StageOK(table'[s], start'[s], offsets'[s], commits'[s], phase'[s])
    PROVE  LakeInv'
  <1>1. ASSUME NEW r \in Stages
        PROVE  StageOK(table'[r], start'[r], offsets'[r], commits'[r], phase'[r])
    <2>1. CASE r = s
      BY <2>1
    <2>2. CASE r # s
      <3>1. /\ table'[r] = table[r] /\ start'[r] = start[r] /\ offsets'[r] = offsets[r]
            /\ commits'[r] = commits[r] /\ phase'[r] = phase[r]
        BY <2>2 DEF LakeInv
      <3>2. StageOK(table[r], start[r], offsets[r], commits[r], phase[r])
        BY DEF LakeInv
      <3> QED
        BY <3>1, <3>2
    <2> QED
      BY <2>1, <2>2
  <1>2. /\ table' = [r \in Stages |-> table'[r]]
        /\ start' = [r \in Stages |-> start'[r]]
        /\ offsets' = [r \in Stages |-> offsets'[r]]
        /\ commits' = [r \in Stages |-> commits'[r]]
        /\ phase' = [r \in Stages |-> phase'[r]]
    BY DEF LakeInv
  <1> QED
    BY <1>1, <1>2 DEF LakeInv

(* Writing one value of a function of the stages. *)
LEMMA OneValue ==
    ASSUME NEW f, NEW g, NEW s \in Stages, NEW v, f = [r \in Stages |-> f[r]],
           g = [f EXCEPT ![s] = v]
    PROVE  g[s] = v /\ g = [f EXCEPT ![s] = g[s]]
  OBVIOUS

(* Writing none. *)
LEMMA NoValue ==
    ASSUME NEW f, NEW g, NEW s \in Stages, f = [r \in Stages |-> f[r]], g = f
    PROVE  g[s] = f[s] /\ g = [f EXCEPT ![s] = g[s]]
  OBVIOUS

LEMMA StageStepKeeps ==
    ASSUME LakeInv, NEW s \in Stages, StageStep(s) \/ CrashStage(s)
    PROVE  LakeInv'
  <1> DEFINE t == table[s]
             st == start[s]
             off == offsets[s]
             com == commits[s]
             Unchanged(f, g) == g[s] = f[s] /\ g = [f EXCEPT ![s] = g[s]]
             Written(f, g, v) == g[s] = v /\ g = [f EXCEPT ![s] = g[s]]
  <1>1. StageOK(t, st, off, com, phase[s])
    BY DEF LakeInv
  <1>2. /\ table = [r \in Stages |-> table[r]]
        /\ start = [r \in Stages |-> start[r]]
        /\ offsets = [r \in Stages |-> offsets[r]]
        /\ commits = [r \in Stages |-> commits[r]]
        /\ phase = [r \in Stages |-> phase[r]]
    BY DEF LakeInv
  <1>3. /\ UNCHANGED table => Unchanged(table, table')
        /\ UNCHANGED start => Unchanged(start, start')
        /\ UNCHANGED offsets => Unchanged(offsets, offsets')
        /\ UNCHANGED commits => Unchanged(commits, commits')
        /\ UNCHANGED phase => Unchanged(phase, phase')
    BY <1>2, NoValue
  <1>4. CASE StartStage(s) \/ CrashStage(s)
    <2> DEFINE ph == IF StartStage(s) THEN IF Len(off) > com THEN "planned" ELSE "idle" ELSE "down"
    <2>1. UNCHANGED <<topic, table, start, offsets, commits>> /\ phase' = [phase EXCEPT ![s] = ph]
      BY <1>4 DEF StartStage, CrashStage, checkpoints
    <2>2. StageOK(t, st, off, com, ph)
      BY <1>1, RestartKeeps
    <2> HIDE DEF ph
    <2>3. Written(phase, phase', ph)
      BY <1>2, <2>1, OneValue
    <2> QED
      BY <1>3, <2>1, <2>2, <2>3, OneStage
  <1>5. InputEnd(s) \in Nat
    <2>1. \A r \in Stages : Len(table[r]) \in Nat
      BY DEF LakeInv, StageOK, StageTypes
    <2>2. Len(topic) \in Nat
      BY DEF LakeInv
    <2>3. ReadsTopic(s) \/ Upstream[s] \in Stages
      BY DEF ReadsTopic, Upstream, Stages, Pipeline
    <2> QED
      BY <2>1, <2>2, <2>3 DEF InputEnd
  <1>6. CASE OpenInput(s)
    <2> DEFINE p == IF ReadsTopic(s) THEN InputEnd(s) ELSE 0
    <2>1. /\ UNCHANGED <<topic, table, offsets, commits, phase>>
          /\ start' = [start EXCEPT ![s] = p]
          /\ st = NoPos
      BY <1>6 DEF OpenInput
    <2>2. p \in Int
      BY <1>5
    <2> HIDE DEF p
    <2>3. StageOK(t, p, off, com, phase[s])
      BY <1>1, <2>1, <2>2, OpenKeeps
    <2>4. Written(start, start', p)
      BY <1>2, <2>1, OneValue
    <2> QED
      BY <1>3, <2>1, <2>3, <2>4, OneStage
  <1>7. CASE PlanStage(s)
    <2>1. phase[s] = "idle" /\ st # NoPos /\ InputEnd(s) > EndOf(st, off, com)
      BY <1>7 DEF PlanStage, CommittedEnd, EndOf
    <2>2. StageOK(t, st, Append(off, InputEnd(s)), com, "planned")
      BY <1>1, <1>5, <2>1, PlanKeeps
    <2>3. /\ offsets' = [offsets EXCEPT ![s] = Append(off, InputEnd(s))]
          /\ phase' = [phase EXCEPT ![s] = "planned"]
          /\ UNCHANGED <<topic, table, start, commits>>
      BY <1>7 DEF PlanStage
    <2>4. Written(offsets, offsets', Append(off, InputEnd(s))) /\ Written(phase, phase', "planned")
      BY <1>2, <2>3, OneValue
    <2> QED
      BY <1>3, <2>2, <2>3, <2>4, OneStage
  <1>8. CASE AppendBatch(s)
    <2> DEFINE lastEpoch == IF t = <<>> THEN 0 ELSE t[Len(t)].epoch
               commit == [epoch |-> Len(off),
                          from  |-> IF Len(off) = 1 THEN st ELSE off[Len(off) - 1],
                          until |-> off[Len(off)]]
               longer == Append(t, commit)
    <2>1. /\ phase[s] = "planned"
          /\ table' = IF lastEpoch < Len(off) THEN [table EXCEPT ![s] = longer] ELSE table
          /\ phase' = [phase EXCEPT ![s] = "written"]
          /\ UNCHANGED <<topic, start, offsets, commits>>
      BY <1>8 DEF AppendBatch, BatchStart, checkpoints
    <2>2. /\ lastEpoch < Len(off) => StageOK(longer, st, off, com, "written")
          /\ ~(lastEpoch < Len(off)) => StageOK(t, st, off, com, "written")
      BY <1>1, <2>1, AppendKeeps
    <2> HIDE DEF lastEpoch, longer
    <2>3. Written(phase, phase', "written")
      BY <1>2, <2>1, OneValue
    <2>4. CASE lastEpoch < Len(off)
      <3>1. Written(table, table', longer)
        BY <1>2, <2>1, <2>4, OneValue
      <3> QED
        BY <1>3, <2>1, <2>2, <2>3, <2>4, <3>1, OneStage
    <2>5. CASE ~(lastEpoch < Len(off))
      BY <1>3, <2>1, <2>2, <2>3, <2>5, OneStage
    <2> QED
      BY <2>4, <2>5
  <1>9. CASE CommitStage(s)
    <2>1. StageOK(t, st, off, Len(off), "idle")
      BY <1>1, <1>9, CommitKeeps DEF CommitStage
    <2>2. /\ commits' = [commits EXCEPT ![s] = Len(off)]
          /\ phase' = [phase EXCEPT ![s] = "idle"]
          /\ UNCHANGED <<topic, table, start, offsets>>
      BY <1>9 DEF CommitStage
    <2>3. Written(commits, commits', Len(off)) /\ Written(phase, phase', "idle")
      BY <1>2, <2>2, OneValue
    <2> QED
      BY <1>3, <2>1, <2>2, <2>3, OneStage
  <1> QED
    BY <1>4, <1>6, <1>7, <1>8, <1>9 DEF StageStep, RunStage

LEMMA StepKeeps == LakeInv /\ [LakeNext]_lakeVars => LakeInv'
  <1> SUFFICES ASSUME LakeInv, [LakeNext]_lakeVars
               PROVE  LakeInv'
    OBVIOUS
  <1>1. ASSUME NEW kind \in Kinds, Publish(kind)
        PROVE  LakeInv'
    <2>1. topic' \in Seq(Kinds)
      BY <1>1 DEF Publish, LakeInv
    <2> QED
      BY <1>1, <2>1 DEF Publish, LakeInv, checkpoints
  <1>2. CASE UNCHANGED lakeVars
    BY <1>2 DEF lakeVars, LakeInv
  <1> QED
    BY <1>1, <1>2, StageStepKeeps DEF LakeNext

LEMMA LakeSafety == LakeSpec => []LakeInv
  BY InitEstablishes, StepKeeps, PTL DEF LakeSpec

-----------------------------------------------------------------------------
(* What the tables hold. *)

(* Two commits of a table do not overlap. *)
LEMMA HeldOnce ==
    ASSUME LakeInv, NEW s \in Stages, NEW n \in Int,
           NEW x \in Holding(s, n), NEW y \in Holding(s, n)
    PROVE  x = y
  <1> DEFINE t == table[s]
             st == start[s]
             off == offsets[s]
  <1>1. StageOK(t, st, off, commits[s], phase[s])
    BY DEF LakeInv
  <1>2. off \in Seq(Int) /\ st \in Int /\ Len(t) \in Nat /\ Len(t) <= Len(off)
    BY <1>1 DEF StageOK, StageTypes, LogsInStep
  <1>3. ASSUME NEW i \in Holding(s, n), NEW j \in Holding(s, n), i < j
        PROVE  FALSE
    <2>1. i \in 1..Len(t) /\ j \in 1..Len(t) /\ n <= t[i].until /\ t[j].from < n
      BY DEF Holding
    <2>2. t[i].until = off[i] /\ t[j].from = EndOf(st, off, j - 1)
      <3>1. /\ t[i] = [epoch |-> i, from |-> EndOf(st, off, i - 1), until |-> off[i]]
            /\ t[j] = [epoch |-> j, from |-> EndOf(st, off, j - 1), until |-> off[j]]
        BY <1>1, <2>1 DEF StageOK, CommitsAreBatches
      <3> QED
        BY <3>1
    <2>3. /\ i \in 1..Len(off) /\ j - 1 \in 1..Len(off) /\ i <= j - 1
          /\ EndOf(st, off, j - 1) = off[j - 1]
      <3>1. i \in Int /\ j \in Int /\ 1 <= i /\ i < j /\ j <= Len(t)
        BY <1>2, <1>3, <2>1
      <3>2. Len(off) \in Nat /\ Len(t) <= Len(off) /\ Len(t) \in Nat
        BY <1>2
      <3>3. i \in 1..Len(off) /\ j - 1 \in 1..Len(off) /\ i <= j - 1 /\ j - 1 # 0
        BY <3>1, <3>2
      <3> QED
        BY <3>3 DEF EndOf
    <2>4. off[i] \in Int /\ off[j - 1] \in Int
      <3>1. \A k \in 1..Len(off) : off[k] \in Int
        BY <1>2
      <3> QED
        BY ONLY <2>3, <3>1
    <2>5. off[i] <= off[j - 1]
      <3>1. \A k, l \in 1..Len(off) : k < l => off[k] < off[l]
        BY <1>1 DEF StageOK, EndsIncrease
      <3>2. i = j - 1 \/ i < j - 1
        BY <2>1, <2>3
      <3> QED
        BY <2>3, <2>4, <3>1, <3>2
    <2> QED
      BY <2>1, <2>2, <2>3, <2>4, <2>5
  <1>4. x \in Int /\ y \in Int
    BY DEF Holding
  <1>5. x < y \/ y < x \/ x = y
    BY <1>4
  <1> QED
    BY <1>3, <1>5

LEMMA StoredOnce == LakeInv => OneRowPerRecord
  <1> SUFFICES ASSUME LakeInv, NEW p \in 1..Len(topic)
               PROVE  /\ \A x, y \in IcebergRows(p) : x = y
                      /\ \A x, y \in GoldRows(p) : x = y
    BY DEF OneRowPerRecord
  <1>1. p \in Int /\ "databricks" \in Stages /\ "bronze" \in Stages
          /\ "silver" \in Stages /\ "gold" \in Stages
    BY DEF Stages, Pipeline
  <1>2. \A x, y \in IcebergRows(p) : x = y
    BY <1>1, HeldOnce DEF IcebergRows
  <1>3. ASSUME NEW x \in GoldRows(p), NEW y \in GoldRows(p)
        PROVE  x = y
    <2> DEFINE paths == Holding("bronze", p) \X (1..Len(table["silver"])) \X (1..Len(table["gold"]))
    <2>1. /\ x \in paths /\ x[2] \in Holding("silver", x[1]) /\ x[3] \in Holding("gold", x[2])
          /\ y \in paths /\ y[2] \in Holding("silver", y[1]) /\ y[3] \in Holding("gold", y[2])
      BY DEF GoldRows
    <2>2. /\ x = <<x[1], x[2], x[3]>> /\ x[1] \in Holding("bronze", p)
          /\ y = <<y[1], y[2], y[3]>> /\ y[1] \in Holding("bronze", p)
      BY <2>1
    <2>3. x[1] = y[1] /\ x[1] \in Int
      BY <2>2, <1>1, HeldOnce DEF Holding
    <2>4. x[2] = y[2]
      <3>1. x[2] \in Holding("silver", x[1]) /\ y[2] \in Holding("silver", x[1])
        BY <2>1, <2>3
      <3> QED
        BY <3>1, <2>3, <1>1, HeldOnce
    <2>5. x[2] \in Int
      BY <2>1 DEF Holding
    <2>6. x[3] = y[3]
      <3>1. x[3] \in Holding("gold", x[2]) /\ y[3] \in Holding("gold", x[2])
        BY <2>1, <2>4
      <3> QED
        BY <3>1, <2>5, <1>1, HeldOnce
    <2> QED
      BY <2>2, <2>3, <2>4, <2>6
  <1> QED
    BY <1>2, <1>3

(* The end of a batch is not before the end of an earlier one. *)
LEMMA EndsGrow ==
    ASSUME NEW st \in Int, NEW off \in Seq(Int), EndsIncrease(st, off),
           NEW m \in Nat, NEW n \in Nat, m <= n, n <= Len(off)
    PROVE  EndOf(st, off, m) <= EndOf(st, off, n)
  <1>1. CASE m = n
    <2>1. EndOf(st, off, n) \in Int
      <3>1. CASE n = 0
        BY <3>1 DEF EndOf
      <3>2. CASE n > 0
        <4>1. n \in 1..Len(off)
          BY <3>2
        <4> QED
          BY <4>1, <3>2 DEF EndOf
      <3> QED
        BY <3>1, <3>2
    <2> QED
      BY <1>1, <2>1
  <1>2. CASE m < n /\ m = 0
    <2>1. n \in 1..Len(off) /\ n # 0
      BY <1>2
    <2>2. st < off[n] /\ off[n] \in Int
      BY <2>1 DEF EndsIncrease
    <2>3. EndOf(st, off, m) = st /\ EndOf(st, off, n) = off[n]
      BY <1>2, <2>1 DEF EndOf
    <2> QED
      BY <2>2, <2>3
  <1>3. CASE m < n /\ m # 0
    <2>1. m \in 1..Len(off) /\ n \in 1..Len(off) /\ n # 0
      BY <1>3
    <2>2. off[m] < off[n] /\ off[m] \in Int /\ off[n] \in Int
      BY <1>3, <2>1 DEF EndsIncrease
    <2>3. EndOf(st, off, m) = off[m] /\ EndOf(st, off, n) = off[n]
      BY <1>3, <2>1 DEF EndOf
    <2> QED
      BY <2>2, <2>3
  <1> QED
    BY <1>1, <1>2, <1>3

LEMMA StoredAll == LakeInv => CommittedIsStored
  <1> SUFFICES ASSUME LakeInv, NEW s \in Stages, NEW n \in 1..InputEnd(s),
                      start[s] < n, n <= CommittedEnd(s)
               PROVE  Holding(s, n) # {}
    BY DEF CommittedIsStored, Behind
  <1> DEFINE t == table[s]
             st == start[s]
             off == offsets[s]
             com == commits[s]
  <1>1. StageOK(t, st, off, com, phase[s])
    BY DEF LakeInv
  <1>2. /\ st \in Int /\ off \in Seq(Int) /\ com \in Nat
        /\ Len(t) \in Nat /\ com <= Len(t) /\ Len(t) <= Len(off)
    BY <1>1 DEF StageOK, StageTypes, LogsInStep
  <1>3. n <= EndOf(st, off, com) /\ n \in Int
    BY DEF CommittedEnd, EndOf
  <1>4. EndOf(st, off, com) <= EndOf(st, off, Len(t))
    <2>1. EndsIncrease(st, off)
      BY <1>1 DEF StageOK
    <2> HIDE DEF t, st, off, com
    <2> QED
      BY <1>2, <2>1, EndsGrow
  <1>5. n <= EndOf(st, off, Len(t))
    <2>1. EndOf(st, off, com) \in Int /\ EndOf(st, off, Len(t)) \in Int
      BY <1>2 DEF EndOf
    <2> QED
      BY <1>3, <1>4, <2>1
  <1>6. PICK i \in 1..Len(t) : t[i].from < n /\ n <= t[i].until
    BY <1>1, <1>3, <1>5 DEF StageOK, NoGap
  <1> QED
    BY <1>6 DEF Holding

(* A table is read from its first commit on (OpenInput). *)
TablesOpened == \A s \in Stages : ReadsTopic(s) \/ start[s] \in {NoPos, 0}

LEMMA OpenedStep == LakeInv /\ TablesOpened /\ [LakeNext]_lakeVars => TablesOpened'
  <1> SUFFICES ASSUME LakeInv, TablesOpened, [LakeNext]_lakeVars
               PROVE  TablesOpened'
    OBVIOUS
  <1>1. CASE UNCHANGED start
    BY <1>1 DEF TablesOpened, ReadsTopic
  <1>2. ASSUME NEW s \in Stages, OpenInput(s) PROVE TablesOpened'
    <2>1. start = [r \in Stages |-> start[r]]
      BY DEF LakeInv
    <2>2. \A r \in Stages : start'[r] = IF r # s THEN start[r]
                                       ELSE IF ReadsTopic(s) THEN InputEnd(s) ELSE 0
      BY <1>2, <2>1 DEF OpenInput
    <2> QED
      BY <2>2 DEF TablesOpened, ReadsTopic
  <1>3. ASSUME NEW s \in Stages, StageStep(s) \/ CrashStage(s), ~OpenInput(s)
        PROVE  UNCHANGED start
    BY <1>3 DEF StageStep, RunStage, StartStage, PlanStage, AppendBatch, CommitStage, CrashStage,
       checkpoints
  <1>4. (\E kind \in Kinds : Publish(kind)) \/ UNCHANGED lakeVars => UNCHANGED start
    BY DEF Publish, checkpoints, lakeVars
  <1> QED
    BY <1>1, <1>2, <1>3, <1>4 DEF LakeNext

LEMMA OpenedSafety == LakeSpec => []TablesOpened
  <1>1. LakeInit => TablesOpened
    BY DEF LakeInit, TablesOpened, ReadsTopic
  <1> QED
    BY <1>1, LakeSafety, OpenedStep, PTL DEF LakeSpec

(* What a table reader has got to, it began before. *)
LEMMA ReaderIsBehind ==
    ASSUME LakeInv, TablesOpened, NEW s \in {"silver", "gold"},
           NEW n \in Nat \ {0}, n <= CommittedEnd(s)
    PROVE  Behind(s, n)
  <1>1. s \in Stages /\ start[s] \in {NoPos, 0}
    BY DEF TablesOpened, Stages, Pipeline, ReadsTopic
  <1>2. CASE start[s] = NoPos
    <2>1. StageOK(table[s], start[s], offsets[s], commits[s], phase[s])
      BY <1>1 DEF LakeInv
    <2>2. offsets[s] = <<>> /\ commits[s] \in Nat /\ commits[s] <= Len(table[s])
            /\ Len(table[s]) \in Nat /\ Len(table[s]) <= Len(offsets[s])
      BY <1>2, <2>1 DEF StageOK, EndsIncrease, LogsInStep, StageTypes
    <2>3. Len(offsets[s]) = 0
      BY <2>2
    <2>4. commits[s] = 0
      BY <2>2, <2>3
    <2> QED
      BY <1>2, <2>4 DEF CommittedEnd, NoPos
  <1>3. CASE start[s] = 0
    BY <1>3 DEF Behind, NoPos
  <1> QED
    BY <1>1, <1>2, <1>3

(* What is through gold has a commit in each of the three tables. *)
LEMMA ThroughGoldIsHeld ==
    ASSUME LakeInv, TablesOpened, NEW p \in 1..Len(topic), ThroughGold(p)
    PROVE  \E path \in Holding("bronze", p) \X (1..Len(table["silver"])) \X (1..Len(table["gold"])) :
               path[2] \in Holding("silver", path[1]) /\ path[3] \in Holding("gold", path[2])
  <1> USE StoredAll DEF CommittedIsStored
  <1>1. Holding("bronze", p) # {}
    BY DEF ThroughGold, Stages, Pipeline, InputEnd, ReadsTopic
  <1>2. PICK b \in Holding("bronze", p) : TRUE
    BY <1>1
  <1>3. b \in 1..InputEnd("silver") /\ "silver" \in Stages /\ b \in Nat \ {0}
    BY DEF Holding, InputEnd, ReadsTopic, Upstream, Stages, Pipeline
  <1>4. Behind("silver", b)
    BY <1>3, ReaderIsBehind DEF ThroughGold
  <1>5. PICK v \in Holding("silver", b) : TRUE
    BY <1>3, <1>4
  <1>6. v \in 1..InputEnd("gold") /\ "gold" \in Stages /\ v \in Nat \ {0}
    BY DEF Holding, InputEnd, ReadsTopic, Upstream, Stages, Pipeline
  <1>7. Behind("gold", v)
    BY <1>2, <1>6, ReaderIsBehind DEF ThroughGold
  <1>8. PICK w \in Holding("gold", v) : TRUE
    BY <1>6, <1>7
  <1>9. /\ v \in 1..Len(table["silver"]) /\ w \in 1..Len(table["gold"])
        /\ <<b, v, w>> \in Holding("bronze", p) \X (1..Len(table["silver"])) \X (1..Len(table["gold"]))
    BY DEF Holding
  <1> QED
    BY <1>9

(* On a record with an order_id the three filters are one, and nothing is lost
   on the way to either table. *)
LEMMA TracksHold == LakeInv /\ TablesOpened => TracksAgree
  <1> SUFFICES ASSUME LakeInv, TablesOpened, NEW p \in 1..Len(topic)
               PROVE  NotebookAgrees(p) /\ PipelineAgrees(p)
    BY DEF TracksAgree
  <1>1. NotebookAgrees(p)
    <2>1. "databricks" \in Stages /\ InputEnd("databricks") = Len(topic)
      BY DEF Stages, InputEnd, ReadsTopic
    <2>2. Behind("databricks", p) => Holding("databricks", p) # {}
      BY <2>1, StoredAll DEF CommittedIsStored
    <2>3. IcebergSelects(topic[p]) <=> JobSelects(topic[p])
      BY DEF IcebergSelects, JobSelects
    <2> QED
      BY <2>2, <2>3 DEF NotebookAgrees, IcebergRows
  <1>2. ASSUME ThroughGold(p)
        PROVE  GoldRows(p) # {} <=> JobSelects(topic[p]) /\ topic[p] # "noId"
    <2>1. SilverSelects(topic[p]) <=> JobSelects(topic[p]) /\ topic[p] # "noId"
      BY DEF SilverSelects, JobSelects
    <2>2. SilverSelects(topic[p]) => GoldRows(p) # {}
      BY <1>2, ThroughGoldIsHeld DEF GoldRows
    <2>3. ~SilverSelects(topic[p]) => GoldRows(p) = {}
      BY DEF GoldRows
    <2> QED
      BY <2>1, <2>2, <2>3
  <1> QED
    BY <1>1, <1>2 DEF PipelineAgrees

(* However many records are published and however often the queries of the
   chain die, no record is two rows of the Iceberg table or of gold. *)
THEOREM NoDuplicates == LakeSpec => []OneRowPerRecord
  BY LakeSafety, StoredOnce, PTL

(* And no table lacks an input that its checkpoint has gone past. *)
THEOREM NothingLost == LakeSpec => []CommittedIsStored
  BY LakeSafety, StoredAll, PTL

(* Both tracks show the orders the EMR job keeps, and no others, save for those
   without an order_id. *)
THEOREM TracksAgreed == LakeSpec => []TracksAgree
  BY LakeSafety, OpenedSafety, TracksHold, PTL

=============================================================================
