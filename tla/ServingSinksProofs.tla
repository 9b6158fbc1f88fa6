------------------------- MODULE ServingSinksProofs -------------------------
(***************************************************************************)
(* Proofs about the two stores in which the orders are looked up,          *)
(* OpenSearchSink and RedisSink, for every topic, mix of events, batch cap *)
(* and number of restarts.                                                 *)
(*                                                                         *)
(* OpenSearch, through item failures, retries and requests that are        *)
(* carried out late: documents never change, only planned events are       *)
(* found, what is committed is found, and the index implements             *)
(* AtLeastOnceDelivery. All of it needs events to have documents of their  *)
(* own (UniqueIds), which the rows of a snapshot have not; the last two    *)
(* need the default tolerance, 0, under which a failed item raises.        *)
(*                                                                         *)
(* Redis, through refused commands, repeated pipelines and crashes between *)
(* any two commands: what is committed was stored, a lookup finds the      *)
(* newest committed values, and every key expires. All of it needs a       *)
(* tolerance below 1: a pipeline that raised counts all its records as     *)
(* failed, which is a rate of 1.                                           *)
(***************************************************************************)
EXTENDS OpenSearchSink, RedisSink, StreamingQueryProofs, FiniteSetTheorems

-----------------------------------------------------------------------------
(* OpenSearch: the documents and what may still be indexed. *)

(* No two events that can be indexed have the same document. *)
UniqueIds == \A p, q \in Indexable : DocId(p) = DocId(q) => p = q

Found(p) == docs[DocId(p)] = p

(* The events the cluster may index in the next step. *)
Attempted == abandoned \union (IF phase = "writing" THEN BulkItems ELSE {})

(* The documents: each holds its own event or none, and only events of the
   offset log are, or can still be, indexed. *)
DocsInv ==
    /\ CheckpointInv
    /\ EndsOrdered
    /\ docs \in [DocIds -> 0..MaxEvents]
    /\ abandoned \subseteq Indexable
    /\ \A p \in Indexable : docs[DocId(p)] \in {0, p}
    /\ \A p \in Indexable : Found(p) \/ p \in abandoned => Logged(p)

(* When the callback returns all items are found: without it the commit could
   cover some that are not. *)
ReturnedIsFound == phase = "returned" => \A p \in BulkItems : Found(p)

IndexInv ==
    /\ DocsInv
    /\ SearchableAtLeastOnce
    /\ ReturnedIsFound

-----------------------------------------------------------------------------
(* Lemmas about the bulk requests. *)

LEMMA IndexableTypes ==
    /\ Indexable \subseteq 1..MaxEvents
    /\ \A p \in Indexable : p \in Nat /\ p # 0 /\ p \in 0..MaxEvents /\ DocId(p) \in DocIds
    /\ BulkItems \subseteq Indexable
  BY BoundsAssumption DEF Indexable, KeptEvents, DocIds, BulkItems

(* The items of a bulk request can be counted; the batch bounds their number. *)
LEMMA ItemsCount ==
    ASSUME NEW S \in SUBSET BulkItems
    PROVE  IsFiniteSet(S) /\ Cardinality(S) \in Nat /\ (Cardinality(S) = 0 <=> S = {})
<1>1. IsFiniteSet(1..MaxEvents)
  BY FS_Interval, BoundsAssumption
<1>2. S \subseteq 1..MaxEvents
  BY IndexableTypes
<1>3. IsFiniteSet(S)
  BY <1>1, <1>2, FS_Subset
<1> QED
  BY <1>3, FS_CardinalityType, FS_EmptySet

(* With ids of their own, at most one item is for a document. *)
LEMMA OwnItem ==
    ASSUME UniqueIds, NEW p \in Indexable, NEW S \in SUBSET Indexable
    PROVE  ItemsOf(S, DocId(p)) = S \intersect {p}
  BY DEF UniqueIds, ItemsOf

LEMMA MaxOfOne ==
    ASSUME NEW p \in Nat
    PROVE  Max({p}) = p
  BY DEF Max

(* A bulk request leaves every document as it was or gives it its event, and
   the accepted items are found. *)
LEMMA BulkDocs ==
    ASSUME UniqueIds, NEW accepted \in SUBSET BulkItems, docs' \in DocsAfter(accepted)
    PROVE  /\ docs' \in [DocIds -> 0..MaxEvents]
           /\ \A p \in Indexable :
                 /\ docs'[DocId(p)] # docs[DocId(p)] => p \in BulkItems /\ docs'[DocId(p)] = p
                 /\ p \in accepted => docs'[DocId(p)] = p
<1>1. docs' \in [DocIds -> 0..MaxEvents]
  BY DEF DocsAfter
<1>2. ASSUME NEW p \in Indexable
      PROVE  /\ docs'[DocId(p)] # docs[DocId(p)] => p \in BulkItems /\ docs'[DocId(p)] = p
             /\ p \in accepted => docs'[DocId(p)] = p
  <2>1. DocId(p) \in DocIds /\ p \in Nat
    BY IndexableTypes
  <2>2. /\ ItemsOf(accepted, DocId(p)) = accepted \intersect {p}
        /\ ItemsOf(BulkItems, DocId(p)) = BulkItems \intersect {p}
    BY OwnItem, IndexableTypes
  <2>3. CASE p \in accepted
    <3>1. ItemsOf(accepted, DocId(p)) = {p}
      BY <2>2, <2>3
    <3>2. docs'[DocId(p)] = Max({p})
      BY <2>1, <3>1 DEF DocsAfter
    <3> QED
      BY <2>1, <2>3, <3>2, MaxOfOne
  <2>4. CASE p \notin accepted
    <3>1. ItemsOf(accepted, DocId(p)) = {}
      BY <2>2, <2>4
    <3>2. docs'[DocId(p)] \in {docs[DocId(p)]} \union (BulkItems \intersect {p})
      BY <2>1, <2>2, <3>1 DEF DocsAfter
    <3> QED
      BY <2>4, <3>2
  <2> QED
    BY <2>3, <2>4
<1> QED
  BY <1>1, <1>2

(* Every step of the sink is a step of the query it extends. *)
LEMMA OpenSearchStepIsQueryStep ==
    ASSUME CheckpointInv, [OpenSearchNext]_openSearchVars
    PROVE  [Next]_vars
<1>1. CASE OpenSearchWrite
  <2>1. PICK w \in Nat, f \in Nat : RunBatch(w, f)
    <3>1. CASE WriteNothing
      BY <3>1 DEF WriteNothing
    <3>2. CASE BulkAnswered
      <4>1. PICK accepted \in SUBSET BulkItems :
                RunBatch(Cardinality(accepted), Cardinality(BulkItems \ accepted))
        BY <3>2 DEF BulkAnswered
      <4>2. Cardinality(accepted) \in Nat /\ Cardinality(BulkItems \ accepted) \in Nat
        BY ItemsCount
      <4> QED
        BY <4>1, <4>2
    <3>3. CASE BulkRaised
      BY <3>3, ItemsCount DEF BulkRaised
    <3> QED
      BY <1>1, <3>1, <3>2, <3>3 DEF OpenSearchWrite
  <2>2. until - from <= MaxOffsetsPerTrigger
    BY <2>1, CheckpointBoundsBatches DEF RunBatch, EndCallback, BatchesBounded, BatchPhases
  <2>3. w \in BatchSizes /\ f \in BatchSizes
    BY <2>1, <2>2, CheckpointTypes, TriggerAssumption DEF RunBatch, BatchSizes
  <2> QED
    BY <2>1, <2>3 DEF Next, WriteBatch
<1>2. CASE OpenSearchCrash
  BY <1>2 DEF OpenSearchCrash, Next
<1> QED
  BY <1>1, <1>2 DEF OpenSearchNext, Next, IndexLate, openSearchVars

-----------------------------------------------------------------------------
(* The documents. *)

(* A step that changes documents or abandons items is a callback's, the crash
   of a driver or a late request, and touches none but attempted items. *)
LEMMA DocsStep ==
    ASSUME UniqueIds, DocsInv, [OpenSearchNext]_openSearchVars
    PROVE  /\ docs' \in [DocIds -> 0..MaxEvents]
           /\ abandoned' \subseteq Attempted
           /\ \A p \in Indexable :
                 docs'[DocId(p)] # docs[DocId(p)] => p \in Attempted /\ docs'[DocId(p)] = p
<1>1. CASE UNCHANGED <<docs, abandoned>>
  BY <1>1 DEF DocsInv, Attempted
<1>2. CASE phase = "writing" /\ abandoned' \subseteq abandoned \union BulkItems
           /\ \E accepted \in SUBSET BulkItems : docs' \in DocsAfter(accepted)
  BY <1>2, BulkDocs DEF Attempted
<1>3. CASE IndexLate
  <2>1. PICK q \in abandoned :
            /\ docs' = [docs EXCEPT ![DocId(q)] = q]
            /\ abandoned' = abandoned \ {q}
    BY <1>3 DEF IndexLate
  <2>2. q \in Indexable /\ q \in 0..MaxEvents
    BY IndexableTypes DEF DocsInv
  <2>3. docs' \in [DocIds -> 0..MaxEvents]
    BY <2>1, <2>2 DEF DocsInv
  <2>4. ASSUME NEW p \in Indexable, docs'[DocId(p)] # docs[DocId(p)]
        PROVE  p \in Attempted /\ docs'[DocId(p)] = p
    <3>1. DocId(p) = DocId(q)
      BY <2>1, <2>4
    <3>2. p = q
      BY <2>2, <3>1 DEF UniqueIds
    <3> QED
      BY <2>1, <2>2, <3>2, IndexableTypes DEF Attempted, DocsInv
  <2> QED
    BY <2>1, <2>3, <2>4 DEF Attempted
<1>4. CASE BulkAnswered \/ BulkRaised
  <2>1. phase = "writing" /\ abandoned' \subseteq abandoned \union BulkItems
    BY <1>4 DEF BulkAnswered, BulkRaised, RunBatch, EndCallback
  <2>2. \E accepted \in SUBSET BulkItems : docs' \in DocsAfter(accepted)
    <3>1. {} \in SUBSET BulkItems
      OBVIOUS
    <3> QED
      BY <1>4, <3>1 DEF BulkAnswered, BulkRaised
  <2> QED
    BY <1>2, <2>1, <2>2
<1>5. CASE OpenSearchCrash
  <2>1. {} \in SUBSET BulkItems
    OBVIOUS
  <2> QED
    BY <1>1, <1>2, <1>5, <2>1 DEF OpenSearchCrash
<1> QED
  BY <1>1, <1>3, <1>4, <1>5
  DEF OpenSearchNext, OpenSearchWrite, WriteNothing, openSearchVars

(* What can be indexed is in the offset log. *)
LEMMA AttemptedIsLogged ==
    ASSUME DocsInv, NEW p \in Attempted
    PROVE  p \in Indexable /\ Logged(p)
<1>1. CASE p \in abandoned
  BY <1>1 DEF DocsInv
<1>2. CASE phase = "writing" /\ p \in BulkItems
  <2>1. /\ Len(offsetLog) \in 1..Len(offsetLog)
        /\ until = offsetLog[Len(offsetLog)]
        /\ startPos <= from
    BY <1>2, BatchIsLast DEF DocsInv, BatchPhases
  <2>2. p \in Indexable /\ p \in Nat /\ from < p /\ p <= until
    BY <1>2, IndexableTypes DEF BulkItems, BatchRows
  <2>3. offsetLog # <<>>
    BY <2>1
  <2> QED
    BY <2>1, <2>2, <2>3, CheckpointTypes DEF Logged, DocsInv
<1> QED
  BY <1>1, <1>2 DEF Attempted

LEMMA InitDocsInv == OpenSearchInit => DocsInv
<1> SUFFICES ASSUME OpenSearchInit PROVE DocsInv
  OBVIOUS
<1>1. CheckpointInv /\ offsetLog = <<>>
  BY InitCheckpointInv DEF OpenSearchInit, Init
<1>2. EndsOrdered
  <2>1. 1..Len(offsetLog) = {}
    BY <1>1
  <2> QED
    BY <2>1 DEF EndsOrdered
<1>3. docs \in [DocIds -> 0..MaxEvents] /\ abandoned = {}
  BY BoundsAssumption DEF OpenSearchInit
<1>4. ASSUME NEW p \in Indexable PROVE docs[DocId(p)] = 0 /\ p # 0
  BY IndexableTypes DEF OpenSearchInit
<1> QED
  BY <1>1, <1>2, <1>3, <1>4 DEF DocsInv, Found

LEMMA DocsInvStep ==
    ASSUME UniqueIds, DocsInv, [OpenSearchNext]_openSearchVars
    PROVE  DocsInv'
<1>1. CheckpointInv' /\ EndsOrdered' /\ [Next]_vars
  BY OpenSearchStepIsQueryStep, CheckpointInvStep, EndsOrderedStep DEF DocsInv
<1>2. docs' \in [DocIds -> 0..MaxEvents] /\ abandoned' \subseteq Indexable
  BY DocsStep, AttemptedIsLogged
<1>3. ASSUME NEW p \in Indexable
      PROVE  docs'[DocId(p)] \in {0, p}
  BY DocsStep DEF DocsInv
<1>4. ASSUME NEW p \in Indexable, Found(p)' \/ p \in abandoned'
      PROVE  Logged(p)'
  <2>1. Found(p) \/ p \in Attempted
    BY <1>4, DocsStep DEF Found
  <2>2. Logged(p)
    BY <2>1, AttemptedIsLogged DEF DocsInv
  <2> QED
    BY <1>1, <2>2, LoggedStays, IndexableTypes DEF DocsInv
<1> QED
  BY <1>1, <1>2, <1>3, <1>4 DEF DocsInv, Found

LEMMA DocsInvariant ==
    ASSUME UniqueIds
    PROVE  OpenSearchSpec => []DocsInv
<1>1. OpenSearchInit => DocsInv
  BY InitDocsInv
<1>2. DocsInv /\ [OpenSearchNext]_openSearchVars => DocsInv'
  BY DocsInvStep
<1> QED
  BY <1>1, <1>2, PTL DEF OpenSearchSpec

(* Only events some batch has planned can be found, through retries, crashes
   and requests that arrive late. *)
THEOREM OnlyPlannedFound ==
    ASSUME UniqueIds
    PROVE  OpenSearchSpec => []DocsArePlanned
<1>1. DocsInv => DocsArePlanned
  <2> SUFFICES ASSUME DocsInv, NEW d \in DocIds, docs[d] # 0
               PROVE  /\ offsetLog # <<>>
                      /\ startPos < docs[d]
                      /\ docs[d] <= offsetLog[Len(offsetLog)]
    BY DEF DocsArePlanned
  <2>1. PICK p \in Indexable : d = DocId(p)
    BY DEF DocIds
  <2>2. docs[d] = p /\ Found(p)
    BY <2>1 DEF DocsInv, Found
  <2> QED
    BY <2>2 DEF DocsInv, Logged
<1> QED
  BY <1>1, DocsInvariant, PTL

(* A document that is there never changes, whichever attempts are repeated or
   arrive late. *)
THEOREM ReplaysInvisible ==
    ASSUME UniqueIds
    PROVE  OpenSearchSpec => ReplayInvisible
<1> DEFINE Kept == \A d \in DocIds : docs[d] # 0 => docs'[d] = docs[d]
<1>1. DocsInv /\ [OpenSearchNext]_openSearchVars => [Kept]_openSearchVars
  <2> SUFFICES ASSUME DocsInv, [OpenSearchNext]_openSearchVars, NEW d \in DocIds, docs[d] # 0
               PROVE  docs'[d] = docs[d]
    OBVIOUS
  <2>1. PICK p \in Indexable : d = DocId(p)
    BY DEF DocIds
  <2>2. docs[d] = p
    BY <2>1 DEF DocsInv
  <2> QED
    BY <2>1, <2>2, DocsStep
<1> QED
  BY <1>1, DocsInvariant, PTL DEF OpenSearchSpec, ReplayInvisible

-----------------------------------------------------------------------------
(* The index is at-least-once. *)

(* With a tolerance of 0 one failed record raises. *)
LEMMA FailureRaises ==
    ASSUME ToleranceNum = 0, NEW w \in Nat, NEW f \in Nat, f # 0
    PROVE  ExceedsTolerance(w, f)
<1>1. f * ToleranceDen > 0
  BY ToleranceAssumption
<1>2. ToleranceNum * (w + f) = 0
  OBVIOUS
<1> QED
  BY <1>1, <1>2 DEF ExceedsTolerance

(* What is found stays found. *)
LEMMA FoundStays ==
    ASSUME UniqueIds, DocsInv, [OpenSearchNext]_openSearchVars, NEW p \in Indexable, Found(p)
    PROVE  Found(p)'
  BY DocsStep DEF Found

(* A callback returns only when all its items are found. *)
LEMMA WriteFinds ==
    ASSUME UniqueIds, ToleranceNum = 0, DocsInv, OpenSearchWrite
    PROVE  ReturnedIsFound'
<1>1. UNCHANGED BulkItems
  BY DEF OpenSearchWrite, WriteNothing, BulkAnswered, BulkRaised, RunBatch, EndCallback,
         BulkItems, BatchRows
<1>2. CASE WriteNothing
  BY <1>1, <1>2 DEF WriteNothing, ReturnedIsFound
<1>3. CASE BulkAnswered
  <2>1. PICK accepted \in SUBSET BulkItems :
            /\ RunBatch(Cardinality(accepted), Cardinality(BulkItems \ accepted))
            /\ docs' \in DocsAfter(accepted)
    BY <1>3 DEF BulkAnswered
  <2>2. /\ Cardinality(accepted) \in Nat
        /\ Cardinality(BulkItems \ accepted) \in Nat
        /\ Cardinality(BulkItems \ accepted) = 0 <=> BulkItems \ accepted = {}
    BY ItemsCount
  <2>3. CASE BulkItems \ accepted = {}
    BY <1>1, <2>1, <2>3, BulkDocs, IndexableTypes DEF ReturnedIsFound, Found
  <2>4. CASE BulkItems \ accepted # {}
    <3>1. phase' = "down"
      BY <2>1, <2>2, <2>4, FailureRaises DEF RunBatch, EndCallback
    <3> QED
      BY <3>1 DEF ReturnedIsFound
  <2> QED
    BY <2>3, <2>4
<1>4. CASE BulkRaised
  <2>1. Cardinality(BulkItems) \in Nat /\ Cardinality(BulkItems) # 0
    BY <1>4, ItemsCount DEF BulkRaised
  <2>2. phase' = "down"
    BY <1>4, <2>1, FailureRaises DEF BulkRaised, RunBatch, EndCallback
  <2> QED
    BY <2>2 DEF ReturnedIsFound
<1> QED
  BY <1>2, <1>3, <1>4 DEF OpenSearchWrite

LEMMA IndexInvStep ==
    ASSUME UniqueIds, ToleranceNum = 0, IndexInv, [OpenSearchNext]_openSearchVars
    PROVE  IndexInv'
<1>1. DocsInv /\ DocsInv' /\ [Next]_vars /\ CheckpointInv
  BY DocsInvStep, OpenSearchStepIsQueryStep DEF IndexInv, DocsInv
<1>2. SearchableAtLeastOnce'
  <2> SUFFICES ASSUME NEW p \in Indexable, startPos' < p, p <= CommittedEnd'
               PROVE  Found(p)'
    BY DEF SearchableAtLeastOnce, Found
  <2>1. CASE CommitBatch
    <3>1. /\ phase = "returned" /\ startPos' = startPos
          /\ CommittedEnd = from /\ CommittedEnd' = until
          /\ from \in Nat /\ p \in Nat
      BY <1>1, <2>1, CommitMoves, IndexableTypes
    <3>2. CASE p <= from
      BY <1>1, <3>1, <3>2, FoundStays DEF IndexInv, SearchableAtLeastOnce, Found
    <3>3. CASE from < p
      <4>1. p \in BulkItems
        BY <3>1, <3>3 DEF BulkItems, BatchRows, Indexable
      <4> QED
        BY <1>1, <3>1, <4>1, FoundStays DEF IndexInv, ReturnedIsFound
    <3> QED
      BY <3>1, <3>2, <3>3
  <2>2. CASE ResolveStart
    <3>1. startPos' = produced /\ CommittedEnd' = produced /\ produced \in Nat
      BY <1>1, <2>2, CheckpointTypes
      DEF ResolveStart, CommittedEnd, CheckpointInv, LogsAgree
    <3> QED
      BY <3>1, IndexableTypes
  <2>3. CASE ~CommitBatch /\ ~ResolveStart
    <3>1. UNCHANGED <<startPos, CommittedEnd>>
      BY <1>1, <2>3, EndStays
    <3> QED
      BY <1>1, <3>1, FoundStays DEF IndexInv, SearchableAtLeastOnce, Found
  <2> QED
    BY <2>1, <2>2, <2>3
<1>3. ReturnedIsFound'
  <2>1. CASE OpenSearchWrite
    BY <1>1, <2>1, WriteFinds
  <2>2. CASE ~OpenSearchWrite
    <3>1. phase' = "returned" => phase = "returned" /\ UNCHANGED BulkItems
      BY <2>2 DEF OpenSearchNext, QueryStep, Produce, Expire, Start, ResolveStart, PlanBatch,
                  ReadBatch, FailRead, CommitBatch, OpenSearchCrash, Crash, IndexLate,
                  openSearchVars, vars, driver, BulkItems, BatchRows
    <3> QED
      BY <1>1, <3>1, FoundStays, IndexableTypes DEF IndexInv, ReturnedIsFound
  <2> QED
    BY <2>1, <2>2
<1> QED
  BY <1>1, <1>2, <1>3 DEF IndexInv

LEMMA IndexInvariant ==
    ASSUME UniqueIds, ToleranceNum = 0
    PROVE  OpenSearchSpec => []IndexInv
<1>1. OpenSearchInit => IndexInv
  <2> SUFFICES ASSUME OpenSearchInit PROVE IndexInv
    OBVIOUS
  <2>1. CommittedEnd = -1 /\ phase = "down"
    BY DEF OpenSearchInit, Init, CommittedEnd, NoPos
  <2>2. SearchableAtLeastOnce
    BY <2>1, IndexableTypes DEF SearchableAtLeastOnce
  <2> QED
    BY <2>1, <2>2, InitDocsInv DEF IndexInv, ReturnedIsFound
<1>2. IndexInv /\ [OpenSearchNext]_openSearchVars => IndexInv'
  BY IndexInvStep
<1> QED
  BY <1>1, <1>2, PTL DEF OpenSearchSpec

(* Every indexable event behind the committed offsets is found in the document
   of its own id. *)
THEOREM IndexIsAtLeastOnce ==
    ASSUME UniqueIds, ToleranceNum = 0
    PROVE  OpenSearchSpec => []SearchableAtLeastOnce
<1>1. IndexInv => SearchableAtLeastOnce
  BY DEF IndexInv
<1> QED
  BY <1>1, IndexInvariant, PTL

-----------------------------------------------------------------------------
(* The index implements AtLeastOnceDelivery. *)

FoundEvents == {p \in Indexable : docs[DocId(p)] = p}

(* A step that moves no offsets stores events that are not yet acknowledged,
   or nothing: the others are found already. *)
LEMMA IndexIsStore ==
    ASSUME UniqueIds, IndexInv, [OpenSearchNext]_openSearchVars,
           UNCHANGED <<startPos, CommittedEnd>>
    PROVE  [Delivery!Next]_(Delivery!vars)
<1> DEFINE S == FoundEvents' \ FoundEvents
<1>1. FoundEvents \subseteq FoundEvents'
  BY FoundStays DEF FoundEvents, Found, IndexInv
<1>2. CASE S = {}
  <2>1. FoundEvents' = FoundEvents
    BY <1>1, <1>2
  <2> QED
    BY <2>1 DEF Delivery!vars, FoundEvents
<1>3. CASE S # {}
  <2>1. ASSUME NEW p \in S
        PROVE  p \in Indexable /\ p > CommittedEnd /\ startPos # -1
    <3>1. p \in Indexable /\ ~Found(p) /\ p \in Attempted
      BY DocsStep DEF FoundEvents, Found, IndexInv
    <3>2. Logged(p)
      BY <3>1, AttemptedIsLogged DEF IndexInv
    <3>3. startPos # -1
      BY <3>2 DEF Logged, IndexInv, DocsInv, CheckpointInv, LogsAgree, NoPos
    <3>4. ~(p <= CommittedEnd)
      BY <3>1, <3>2 DEF Logged, IndexInv, SearchableAtLeastOnce, Found
    <3>5. p \in Int /\ CommittedEnd \in Int
      <4>1. CommittedEnd \in 0..produced
        BY <3>3, CommittedEndType DEF IndexInv, DocsInv, CheckpointInv, NoPos
      <4> QED
        BY <3>1, <4>1, IndexableTypes
    <3> QED
      BY <3>1, <3>3, <3>4, <3>5
  <2>2. S \in SUBSET (1..MaxEvents)
    BY <2>1, IndexableTypes
  <2>3. FoundEvents' = FoundEvents \union S
    BY <1>1
  <2>4. startPos # -1 /\ \A p \in S : p \in Indexable /\ p > CommittedEnd
    BY <1>3, <2>1
  <2>5. PICK T \in SUBSET (1..MaxEvents) : T = S
    BY <2>2
  <2>6. Delivery!Store(T)
    BY <2>3, <2>4, <2>5 DEF Delivery!Store, FoundEvents
  <2> QED
    BY <2>5, <2>6 DEF Delivery!Next
<1> QED
  BY <1>2, <1>3

LEMMA IndexDeliveryStep ==
    ASSUME UniqueIds, IndexInv, [OpenSearchNext]_openSearchVars
    PROVE  [Delivery!Next]_(Delivery!vars)
<1>1. CheckpointInv /\ [Next]_vars
  BY OpenSearchStepIsQueryStep DEF IndexInv, DocsInv
<1>2. CASE CommitBatch
  <2>1. /\ phase = "returned" /\ startPos' = startPos /\ phase' = "idle"
        /\ CommittedEnd = from /\ CommittedEnd' = until
        /\ from \in Nat /\ until \in 0..MaxEvents /\ from <= until /\ startPos # -1
    BY <1>1, <1>2, CommitMoves DEF NoPos
  <2>2. UNCHANGED docs
    BY <1>2, <2>1 DEF OpenSearchNext, OpenSearchWrite, WriteNothing, BulkAnswered, BulkRaised,
                      RunBatch, EndCallback, OpenSearchCrash, Crash, IndexLate,
                      openSearchVars, vars
  <2>3. ASSUME NEW p \in Indexable, CommittedEnd < p, p <= until
        PROVE  p \in FoundEvents
    <3>1. p \in BulkItems
      BY <2>1, <2>3 DEF BulkItems, BatchRows, Indexable
    <3> QED
      BY <2>1, <3>1 DEF IndexInv, ReturnedIsFound, Found, FoundEvents
  <2>4. UNCHANGED FoundEvents
    BY <2>2 DEF FoundEvents
  <2>5. Delivery!Ack(until)
    BY <2>1, <2>3, <2>4 DEF Delivery!Ack, FoundEvents
  <2>6. until \in (1..MaxEvents) \union {0}
    BY <2>1, BoundsAssumption
  <2> QED
    BY <2>5, <2>6 DEF Delivery!Next
<1>3. CASE ResolveStart
  <2>1. /\ startPos = -1 /\ startPos' = produced
        /\ phase = "idle" /\ phase' = "idle"
        /\ CommittedEnd' = produced
    BY <1>1, <1>3, CheckpointTypes
    DEF ResolveStart, CommittedEnd, CheckpointInv, LogsAgree, NoPos
  <2>2. produced \in 0..MaxEvents
    BY <1>1 DEF CheckpointInv, LogTypes
  <2>3. UNCHANGED docs
    BY <1>3, <2>1, <2>2 DEF OpenSearchNext, OpenSearchWrite, WriteNothing, BulkAnswered,
                      BulkRaised, RunBatch, EndCallback, OpenSearchCrash, Crash, IndexLate,
                      openSearchVars, vars
  <2>4. Delivery!Open(produced)
    BY <2>1, <2>3 DEF Delivery!Open
  <2>5. produced \in (1..MaxEvents) \union {0}
    BY <2>2, BoundsAssumption
  <2> QED
    BY <2>4, <2>5 DEF Delivery!Next
<1>4. CASE ~CommitBatch /\ ~ResolveStart
  BY <1>1, <1>4, EndStays, IndexIsStore
<1> QED
  BY <1>2, <1>3, <1>4

(* The index implements the promise of at-least-once delivery. *)
THEOREM IndexImplementsDelivery ==
    ASSUME UniqueIds, ToleranceNum = 0
    PROVE  OpenSearchSpec => ImplementsDelivery
<1>1. OpenSearchInit => Delivery!Init
  <2> SUFFICES ASSUME OpenSearchInit PROVE Delivery!Init
    OBVIOUS
  <2>1. startPos = -1 /\ CommittedEnd = -1
    BY DEF OpenSearchInit, Init, CommittedEnd, NoPos
  <2>2. FoundEvents = {}
    BY IndexableTypes DEF OpenSearchInit, FoundEvents
  <2> QED
    BY <2>1, <2>2 DEF Delivery!Init, FoundEvents
<1>2. IndexInv /\ [OpenSearchNext]_openSearchVars => [Delivery!Next]_(Delivery!vars)
  BY IndexDeliveryStep
<1> QED
  BY <1>1, <1>2, IndexInvariant, PTL
  DEF OpenSearchSpec, ImplementsDelivery, Delivery!Spec

-----------------------------------------------------------------------------
(* Redis: the commands, what they have stored and what a lookup may find. *)

Commands == [cmd : {"hset", "expire"}, event : KeptEvents]

(* The events of the batch that is planned and not committed. *)
Uncommitted == {p \in KeptEvents : Logged(p) /\ CommittedEnd < p}

(* The records whose command cmd was executed by this attempt at the batch,
   as long as no command of it was refused: all of them once it returns. *)
Done(cmd) ==
    IF phase = "returned" THEN BatchRows
    ELSE {p \in BatchRows : ~pipe.refused /\ [cmd |-> cmd, event |-> p] \in pipe.sent}

(* The client sends its commands in the order they were queued in, and has
   nothing under way between two batches. *)
PipeInv ==
    /\ pipe \in [sent : SUBSET Pipeline, repeated : BOOLEAN, refused : BOOLEAN]
    /\ \A c \in pipe.sent, d \in Pipeline \ pipe.sent : ~Queued(d, c)
    /\ phase # "writing" => pipe = IdlePipe
    /\ pipe.repeated \/ pipe.refused => BatchRows # {}

(* Commands are of planned events, also those that arrive late, and what the
   callback reports as written was stored. *)
LandedInv ==
    /\ CheckpointInv
    /\ EndsOrdered
    /\ PipeInv
    /\ late \subseteq Commands
    /\ landed \subseteq KeptEvents
    /\ \A c \in late : Logged(c.event)
    /\ \A p \in landed : Logged(p)
    /\ Done("hset") \subseteq landed
    /\ \A p \in KeptEvents : startPos < p /\ p <= CommittedEnd => p \in landed

Writes(p, k, f) == Key(p) = k /\ f \in Fields[p]

NewestCommitted(p, k, f) ==
    /\ p \in CommittedWriters(k, f)
    /\ \A q \in CommittedWriters(k, f) : q <= p

(* A field has the newest committed value, or one of the batch at work, which
   is not older than those this attempt has stored. *)
FieldInv(k, f) ==
    LET p == hash[k][f] IN
    /\ p = 0 \/ NewestCommitted(p, k, f) \/ (p \in Uncommitted /\ Writes(p, k, f))
    /\ \A q \in Done("hset") : Writes(q, k, f) => p = 0 \/ q <= p

(* A key without a time to live is one of the batch at work, whose EXPIRE this
   attempt has yet to send. *)
KeyInv(k) ==
    Present(k) /\ k \notin expiring =>
        \E p \in Uncommitted : Key(p) = k /\ p \notin Done("expire")

HotInv ==
    /\ LandedInv
    /\ hash \in [Keys -> [FieldNames -> 0..MaxEvents]]
    /\ ~lateRan => \A k \in Keys : KeyInv(k) /\ \A f \in FieldNames : FieldInv(k, f)

-----------------------------------------------------------------------------
(* Lemmas about the rows and the steps. *)

LEMMA RowsTypes ==
    /\ KeptEvents \subseteq 1..MaxEvents
    /\ BatchRows \subseteq KeptEvents
    /\ \A p \in KeptEvents : /\ p \in Nat /\ p # 0 /\ p \in 0..MaxEvents
                            /\ Key(p) \in Keys /\ Fields[p] \subseteq FieldNames
    /\ Pipeline \subseteq Commands
  BY BoundsAssumption DEF KeptEvents, BatchRows, Keys, FieldNames, Pipeline, Commands

LEMMA RecordsCount == Records \in Nat /\ (Records = 0 <=> BatchRows = {})
<1>1. IsFiniteSet(1..MaxEvents)
  BY FS_Interval, BoundsAssumption
<1>2. IsFiniteSet(BatchRows)
  BY <1>1, FS_Subset, RowsTypes
<1> QED
  BY <1>2, FS_CardinalityType, FS_EmptySet DEF Records

(* The rows of a batch at work are the uncommitted events. *)
LEMMA BatchIsUncommitted ==
    ASSUME CheckpointInv, EndsOrdered, phase \in BatchPhases
    PROVE  BatchRows = Uncommitted
<1>1. /\ Len(offsetLog) \in 1..Len(offsetLog)
      /\ until = offsetLog[Len(offsetLog)]
      /\ startPos <= from
  BY BatchIsLast
<1>2. from = CommittedEnd
  BY DEF CheckpointInv, DriverFollowsCheckpoint
<1>3. startPos \in Int /\ from \in Int
  BY CheckpointTypes
<1>4. offsetLog # <<>>
  BY <1>1
<1>5. ASSUME NEW p \in KeptEvents PROVE from < p => startPos < p
  BY <1>1, <1>3, RowsTypes
<1> QED
  BY <1>1, <1>2, <1>4, <1>5 DEF BatchRows, Uncommitted, Logged

(* Every step of the sink is a step of the query it extends. *)
LEMMA RedisStepIsQueryStep ==
    ASSUME CheckpointInv, [RedisNext]_redisVars
    PROVE  [Next]_vars
<1>1. CASE PipelineAnswered \/ PipelineBroken
  <2>1. PICK w \in Nat, f \in Nat : RunBatch(w, f)
    BY <1>1, RecordsCount DEF PipelineAnswered, PipelineBroken
  <2>2. until - from <= MaxOffsetsPerTrigger
    BY <2>1, CheckpointBoundsBatches DEF RunBatch, EndCallback, BatchesBounded, BatchPhases
  <2>3. w \in BatchSizes /\ f \in BatchSizes
    BY <2>1, <2>2, CheckpointTypes, TriggerAssumption DEF RunBatch, BatchSizes
  <2> QED
    BY <2>1, <2>3 DEF Next, WriteBatch
<1>2. CASE RedisCrash
  BY <1>2 DEF RedisCrash, Next
<1> QED
  BY <1>1, <1>2
  DEF RedisNext, RedisWrite, SendCommand, RepeatPipeline, Evict, LateCommand, LateDropped,
      Next, redisVars

-----------------------------------------------------------------------------
(* The pipeline. *)

LEMMA CommandOf ==
    ASSUME NEW c \in Commands
    PROVE  c.event \in KeptEvents /\ c = [cmd |-> c.cmd, event |-> c.event]
  BY DEF Commands

(* A callback that ends with a refused command or a broken connection raises. *)
LEMMA FailedPipelineRaises ==
    ASSUME ToleranceNum < ToleranceDen, BatchRows # {}, RunBatch(0, Records)
    PROVE  phase' = "down"
<1>1. Records \in Nat /\ Records > 0
  BY RecordsCount
<1>2. ExceedsTolerance(0, Records)
  BY <1>1, WholeFailureRaises
<1> QED
  BY <1>2 DEF RunBatch, EndCallback

(* The batch's rows, and so its commands, change with its offsets only. *)
LEMMA RowsStay ==
    ASSUME UNCHANGED <<from, until>>
    PROVE  UNCHANGED <<BatchRows, Pipeline>>
  BY DEF BatchRows, Pipeline

LEMMA PipeInvStep ==
    ASSUME PipeInv, [RedisNext]_redisVars
    PROVE  PipeInv'
<1>1. CASE SendCommand
  <2>1. /\ phase = "writing" /\ phase' = phase /\ UNCHANGED <<from, until>>
        /\ \E c \in FirstOf(Pipeline \ pipe.sent) :
              \/ pipe' = [pipe EXCEPT !.sent = @ \union {c}]
              \/ pipe' = [pipe EXCEPT !.sent = @ \union {c}, !.refused = TRUE]
    BY <1>1 DEF SendCommand, vars
  <2>2. PICK c \in FirstOf(Pipeline \ pipe.sent) :
              \/ pipe' = [pipe EXCEPT !.sent = @ \union {c}]
              \/ pipe' = [pipe EXCEPT !.sent = @ \union {c}, !.refused = TRUE]
    BY <2>1
  <2>3. /\ c \in Pipeline /\ c \notin pipe.sent
        /\ \A d \in Pipeline \ pipe.sent : ~Queued(d, c)
    BY <2>2 DEF FirstOf
  <2>4. UNCHANGED <<BatchRows, Pipeline>>
    BY <2>1, RowsStay
  <2>5. /\ pipe' \in [sent : SUBSET Pipeline, repeated : BOOLEAN, refused : BOOLEAN]
        /\ pipe'.sent = pipe.sent \union {c}
    BY <2>2, <2>3 DEF PipeInv
  <2>6. BatchRows # {}
    BY <2>3 DEF Pipeline
  <2>7. ASSUME NEW a \in pipe'.sent, NEW d \in Pipeline \ pipe'.sent
        PROVE  ~Queued(d, a)
    BY <2>3, <2>5 DEF PipeInv
  <2> QED
    BY <2>1, <2>4, <2>5, <2>6, <2>7 DEF PipeInv
<1>2. CASE RepeatPipeline
  <2>1. /\ phase = "writing" /\ phase' = phase /\ UNCHANGED <<from, until>>
        /\ pipe' = [sent |-> {}, repeated |-> TRUE, refused |-> FALSE]
        /\ Pipeline # {}
    BY <1>2 DEF RepeatPipeline, IdlePipe, vars
  <2>2. UNCHANGED <<BatchRows, Pipeline>>
    BY <2>1, RowsStay
  <2>3. BatchRows # {}
    BY <2>1 DEF Pipeline
  <2> QED
    BY <2>1, <2>2, <2>3 DEF PipeInv
<1>3. CASE pipe' = IdlePipe
  BY <1>3 DEF PipeInv, IdlePipe
<1>4. CASE UNCHANGED pipe /\ phase = "writing"
  <2>1. CASE UNCHANGED <<from, until, phase>>
    BY <1>4, <2>1, RowsStay DEF PipeInv
  <2>2. CASE ~UNCHANGED <<from, until, phase>>
    BY <1>1, <1>2, <1>3, <1>4, <2>2
    DEF RedisNext, RedisWrite, QueryStep, Produce, Expire, Start, ResolveStart, PlanBatch,
        ReadBatch, FailRead, CommitBatch, PipelineAnswered, PipelineBroken, RedisCrash,
        Evict, LateCommand, LateDropped, redisVars, vars, driver
  <2> QED
    BY <2>1, <2>2
<1>5. CASE UNCHANGED pipe /\ phase # "writing"
  BY <1>3, <1>5 DEF PipeInv
<1> QED
  BY <1>1, <1>2, <1>3, <1>4, <1>5
  DEF RedisNext, RedisWrite, PipelineAnswered, PipelineBroken, RedisCrash, Evict,
      LateCommand, LateDropped, redisVars

-----------------------------------------------------------------------------
(* What each step does to the events whose commands were executed. *)

(* Commands of this attempt and late ones are of planned events. *)
LEMMA ExecutedIsLogged ==
    ASSUME LandedInv, NEW c \in late \union (IF phase = "writing" THEN Pipeline ELSE {})
    PROVE  c \in Commands /\ c.event \in KeptEvents /\ Logged(c.event)
<1>1. CASE c \in late
  BY <1>1, CommandOf DEF LandedInv
<1>2. CASE phase = "writing" /\ c \in Pipeline
  <2>1. c.event \in Uncommitted
    BY <1>2, BatchIsUncommitted DEF LandedInv, BatchPhases, Pipeline
  <2> QED
    BY <1>2, <2>1, RowsTypes, CommandOf DEF Uncommitted
<1> QED
  BY <1>1, <1>2

(* A step executes a command of the pipeline or a late one, or none. *)
LEMMA LandedStep ==
    ASSUME LandedInv, [RedisNext]_redisVars
    PROVE  /\ landed \subseteq landed'
           /\ \A p \in landed' \ landed : p \in KeptEvents /\ Logged(p)
           /\ \A c \in late' : c \in Commands /\ Logged(c.event)
<1>1. CASE SendCommand
  <2>1. PICK c \in Pipeline : \/ Execute(c)
                              \/ UNCHANGED landed
    BY <1>1 DEF SendCommand, FirstOf
  <2>2. phase = "writing" /\ late' = late
    BY <1>1 DEF SendCommand
  <2>3. c.event \in KeptEvents /\ Logged(c.event)
    BY <2>2, ExecutedIsLogged
  <2> QED
    BY <2>1, <2>2, <2>3, ExecutedIsLogged DEF Execute, HSet, ExpireKey
<1>2. CASE LateCommand
  <2>1. PICK c \in late : Execute(c) /\ late' = late \ {c}
    BY <1>2 DEF LateCommand, FirstOf
  <2>2. c.event \in KeptEvents /\ Logged(c.event)
    BY ExecutedIsLogged
  <2> QED
    BY <2>1, <2>2, ExecutedIsLogged DEF Execute, HSet, ExpireKey
<1> DEFINE Left == \/ late' = late
                   \/ late' = {}
                   \/ phase = "writing" /\ late' \in LeftBehind
<1>3. CASE UNCHANGED landed /\ Left
  <2>1. late' \subseteq late \union (IF phase = "writing" THEN Pipeline ELSE {})
    BY <1>3 DEF LeftBehind
  <2> QED
    BY <1>3, <2>1, ExecutedIsLogged
<1>4. ASSUME RedisWrite, ~SendCommand PROVE UNCHANGED landed /\ Left
  BY <1>4 DEF RedisWrite, RepeatPipeline, PipelineAnswered, PipelineBroken, RunBatch, EndCallback
<1> QED
  BY <1>1, <1>2, <1>3, <1>4
  DEF RedisNext, RedisCrash, Evict, LateDropped, redisVars

(* What this attempt has done grows by the commands it sends only; when it
   returns, it has sent them all. *)
LEMMA DoneStep ==
    ASSUME ToleranceNum < ToleranceDen, PipeInv, [RedisNext]_redisVars, ~SendCommand,
           NEW cmd \in {"hset", "expire"}
    PROVE  Done(cmd)' \subseteq Done(cmd)
<1>1. CASE PipelineAnswered
  <2>1. phase = "writing" /\ UNCHANGED <<from, until>> /\ pipe.sent = Pipeline
    BY <1>1 DEF PipelineAnswered, RunBatch, EndCallback
  <2>2. UNCHANGED BatchRows
    BY <2>1, RowsStay
  <2>3. pipe' = IdlePipe
    BY <1>1 DEF PipelineAnswered
  <2>4. CASE pipe.refused
    <3>1. phase' = "down"
      BY <1>1, <2>4, FailedPipelineRaises DEF PipelineAnswered, PipeInv
    <3> QED
      BY <2>3, <3>1 DEF Done, IdlePipe
  <2>5. CASE ~pipe.refused
    <3>1. Done(cmd) = BatchRows
      BY <2>1, <2>5 DEF Done, Pipeline
    <3> QED
      BY <2>2, <3>1 DEF Done
  <2> QED
    BY <2>4, <2>5
<1>2. CASE PipelineBroken
  <2>1. phase' = "down" /\ pipe' = IdlePipe
    BY <1>2, FailedPipelineRaises DEF PipelineBroken, PipeInv
  <2> QED
    BY <2>1 DEF Done, IdlePipe
<1>3. CASE RepeatPipeline \/ RedisCrash
  <2>1. pipe'.sent = {} /\ phase' # "returned"
    BY <1>3 DEF RepeatPipeline, RedisCrash, Crash, IdlePipe, vars
  <2> QED
    BY <2>1 DEF Done
<1>4. CASE UNCHANGED <<pipe, phase, from, until>>
  BY <1>4, RowsStay DEF Done
<1>5. CASE QueryStep /\ ~UNCHANGED <<phase, from, until>> /\ UNCHANGED pipe
  <2>1. phase # "writing" /\ phase' # "returned"
    BY <1>5 DEF QueryStep, Produce, Expire, Start, ResolveStart, PlanBatch, ReadBatch,
                FailRead, CommitBatch, driver
  <2>2. pipe'.sent = {}
    BY <1>5, <2>1 DEF PipeInv, IdlePipe
  <2> QED
    BY <2>1, <2>2 DEF Done
<1> QED
  BY <1>1, <1>2, <1>3, <1>4, <1>5
  DEF RedisNext, RedisWrite, Evict, LateCommand, LateDropped, redisVars, vars

(* A command that is sent is the next of the queue: it adds its event, unless
   it is refused. *)
LEMMA SendStep ==
    ASSUME PipeInv, SendCommand
    PROVE  \E c \in Pipeline \ pipe.sent :
              /\ phase = "writing" /\ UNCHANGED vars /\ UNCHANGED <<BatchRows, late, lateRan>>
              /\ \A d \in Pipeline \ pipe.sent : ~Queued(d, c)
              /\ \A a \in pipe.sent : ~Queued(c, a)
              /\ \/ /\ Execute(c) /\ ~pipe.refused
                    /\ \A cmd \in {"hset", "expire"} :
                          Done(cmd)' = IF c.cmd = cmd THEN Done(cmd) \union {c.event}
                                                      ELSE Done(cmd)
                 \/ /\ Execute(c) /\ pipe.refused
                    /\ \A cmd \in {"hset", "expire"} : Done(cmd)' = {}
                 \/ /\ UNCHANGED <<hash, expiring, landed>>
                    /\ \A cmd \in {"hset", "expire"} : Done(cmd)' = {}
<1>1. PICK c \in FirstOf(Pipeline \ pipe.sent) :
          \/ /\ Execute(c)
             /\ pipe' = [pipe EXCEPT !.sent = @ \union {c}]
          \/ /\ pipe' = [pipe EXCEPT !.sent = @ \union {c}, !.refused = TRUE]
             /\ UNCHANGED <<hash, expiring, landed>>
  BY DEF SendCommand
<1>2. /\ c \in Pipeline \ pipe.sent
      /\ \A d \in Pipeline \ pipe.sent : ~Queued(d, c)
      /\ \A a \in pipe.sent : ~Queued(c, a)
  BY <1>1 DEF FirstOf, PipeInv
<1>3. /\ phase = "writing" /\ phase' = "writing"
      /\ UNCHANGED vars /\ UNCHANGED <<BatchRows, late, lateRan>>
  BY RowsStay DEF SendCommand, vars
<1>4. c.event \in BatchRows /\ c = [cmd |-> c.cmd, event |-> c.event]
  BY <1>2, RowsTypes, CommandOf DEF Pipeline
<1>5. CASE /\ Execute(c)
           /\ pipe' = [pipe EXCEPT !.sent = @ \union {c}]
  <2>1. pipe'.sent = pipe.sent \union {c} /\ pipe'.refused = pipe.refused
    BY <1>5 DEF PipeInv
  <2>2. CASE ~pipe.refused
    <3>1. ASSUME NEW cmd \in {"hset", "expire"}
          PROVE  Done(cmd)' = IF c.cmd = cmd THEN Done(cmd) \union {c.event} ELSE Done(cmd)
      BY <1>3, <1>4, <2>1, <2>2 DEF Done
    <3> QED
      BY <1>2, <1>3, <1>5, <2>2, <3>1
  <2>3. CASE pipe.refused
    <3>1. \A cmd \in {"hset", "expire"} : Done(cmd)' = {}
      BY <1>3, <2>1, <2>3 DEF Done
    <3> QED
      BY <1>2, <1>3, <1>5, <2>3, <3>1
  <2> QED
    BY <2>2, <2>3
<1>6. CASE /\ pipe' = [pipe EXCEPT !.sent = @ \union {c}, !.refused = TRUE]
           /\ UNCHANGED <<hash, expiring, landed>>
  <2>1. pipe'.refused = TRUE
    BY <1>6 DEF PipeInv
  <2>2. \A cmd \in {"hset", "expire"} : Done(cmd)' = {}
    BY <1>3, <2>1 DEF Done
  <2> QED
    BY <1>2, <1>3, <1>6, <2>2
<1> QED
  BY <1>1, <1>5, <1>6

-----------------------------------------------------------------------------
(* What is committed was stored. *)

LEMMA InitLandedInv == RedisInit => LandedInv
<1> SUFFICES ASSUME RedisInit PROVE LandedInv
  OBVIOUS
<1>1. CheckpointInv /\ offsetLog = <<>> /\ phase = "down" /\ CommittedEnd = -1
  BY InitCheckpointInv DEF RedisInit, Init, CommittedEnd, NoPos
<1>2. EndsOrdered
  <2>1. 1..Len(offsetLog) = {}
    BY <1>1
  <2> QED
    BY <2>1 DEF EndsOrdered
<1>3. PipeInv /\ Done("hset") = {}
  BY <1>1 DEF PipeInv, RedisInit, IdlePipe, Done
<1>4. late = {} /\ landed = {}
  BY DEF RedisInit
<1>5. ASSUME NEW p \in KeptEvents PROVE ~(startPos < p /\ p <= CommittedEnd)
  BY <1>1, RowsTypes DEF RedisInit, Init, NoPos
<1> QED
  BY <1>1, <1>2, <1>3, <1>4, <1>5 DEF LandedInv

LEMMA LandedInvStep ==
    ASSUME ToleranceNum < ToleranceDen, LandedInv, [RedisNext]_redisVars
    PROVE  LandedInv'
<1>1. CheckpointInv /\ EndsOrdered /\ PipeInv /\ [Next]_vars
  BY RedisStepIsQueryStep DEF LandedInv
<1>2. CheckpointInv' /\ EndsOrdered' /\ PipeInv'
  BY <1>1, CheckpointInvStep, EndsOrderedStep, PipeInvStep
<1>3. /\ landed' \subseteq KeptEvents
      /\ late' \subseteq Commands
      /\ \A p \in landed' : Logged(p)'
      /\ \A c \in late' : Logged(c.event)'
  <2>1. ASSUME NEW p \in landed' PROVE p \in KeptEvents /\ Logged(p)'
    <3>1. p \in KeptEvents /\ Logged(p)
      BY LandedStep DEF LandedInv
    <3> QED
      BY <1>1, <3>1, LoggedStays, RowsTypes
  <2>2. ASSUME NEW c \in late' PROVE c \in Commands /\ Logged(c.event)'
    <3>1. c \in Commands /\ Logged(c.event) /\ c.event \in Nat
      BY LandedStep, CommandOf, RowsTypes
    <3> QED
      BY <1>1, <3>1, LoggedStays
  <2> QED
    BY <2>1, <2>2
<1>4. Done("hset")' \subseteq landed'
  <2>1. CASE SendCommand
    <3>1. PICK c \in Pipeline \ pipe.sent :
              \/ /\ Execute(c)
                 /\ Done("hset")' = IF c.cmd = "hset" THEN Done("hset") \union {c.event}
                                                      ELSE Done("hset")
              \/ Done("hset")' = {}
      BY <1>1, <2>1, SendStep
    <3>2. CASE Execute(c) /\ Done("hset")' # {}
      BY <3>1, <3>2 DEF Execute, HSet, ExpireKey, LandedInv
    <3> QED
      BY <3>1, <3>2
  <2>2. CASE ~SendCommand
    BY <1>1, <2>2, DoneStep, LandedStep DEF LandedInv
  <2> QED
    BY <2>1, <2>2
<1>5. ASSUME NEW p \in KeptEvents, startPos' < p, p <= CommittedEnd'
      PROVE  p \in landed'
  <2>1. CASE CommitBatch
    <3>1. /\ phase = "returned" /\ startPos' = startPos
          /\ CommittedEnd = from /\ CommittedEnd' = until
          /\ from \in Nat /\ p \in Nat
      BY <1>1, <2>1, CommitMoves, RowsTypes
    <3>2. CASE p <= from
      BY <1>5, <3>1, <3>2, LandedStep DEF LandedInv
    <3>3. CASE from < p
      <4>1. p \in Done("hset")
        BY <1>5, <3>1, <3>3 DEF Done, BatchRows
      <4> QED
        BY <4>1, LandedStep DEF LandedInv
    <3> QED
      BY <3>1, <3>2, <3>3
  <2>2. CASE ResolveStart
    <3>1. startPos' = produced /\ CommittedEnd' = produced /\ produced \in Nat
      BY <1>1, <2>2, CheckpointTypes
      DEF ResolveStart, CommittedEnd, CheckpointInv, LogsAgree
    <3> QED
      BY <1>5, <3>1, RowsTypes
  <2>3. CASE ~CommitBatch /\ ~ResolveStart
    <3>1. UNCHANGED <<startPos, CommittedEnd>>
      BY <1>1, <2>3, EndStays
    <3> QED
      BY <1>5, <3>1, LandedStep DEF LandedInv
  <2> QED
    BY <2>1, <2>2, <2>3
<1> QED
  BY <1>2, <1>3, <1>4, <1>5 DEF LandedInv

LEMMA LandedInvariant ==
    ASSUME ToleranceNum < ToleranceDen
    PROVE  RedisSpec => []LandedInv
<1>1. LandedInv /\ [RedisNext]_redisVars => LandedInv'
  BY LandedInvStep
<1> QED
  BY <1>1, InitLandedInv, PTL DEF RedisSpec

-----------------------------------------------------------------------------
(* The hot store implements AtLeastOnceDelivery. *)

LEMMA RedisDeliveryStep ==
    ASSUME ToleranceNum < ToleranceDen, LandedInv, [RedisNext]_redisVars
    PROVE  [HotDelivery!Next]_(HotDelivery!vars)
<1>1. CheckpointInv /\ [Next]_vars
  BY RedisStepIsQueryStep DEF LandedInv
<1>2. CASE CommitBatch
  <2>1. /\ phase = "returned" /\ startPos' = startPos /\ phase' = "idle"
        /\ CommittedEnd = from /\ CommittedEnd' = until
        /\ from \in Nat /\ until \in 0..MaxEvents /\ from <= until /\ startPos # -1
    BY <1>1, <1>2, CommitMoves DEF NoPos
  <2>2. UNCHANGED landed
    BY <2>1 DEF RedisNext, RedisWrite, SendCommand, RepeatPipeline, PipelineAnswered,
                PipelineBroken, RunBatch, EndCallback, RedisCrash, Crash, Evict,
                LateCommand, LateDropped, redisVars, vars
  <2>3. \A p \in KeptEvents : CommittedEnd < p /\ p <= until => p \in landed
    BY <2>1 DEF LandedInv, Done, BatchRows
  <2>4. HotDelivery!Ack(until)
    BY <2>1, <2>2, <2>3 DEF HotDelivery!Ack
  <2>5. until \in (1..MaxEvents) \union {0}
    BY <2>1, BoundsAssumption
  <2> QED
    BY <2>4, <2>5 DEF HotDelivery!Next
<1>3. CASE ResolveStart
  <2>1. /\ startPos = -1 /\ startPos' = produced
        /\ phase = "idle" /\ phase' = "idle"
        /\ CommittedEnd' = produced
    BY <1>1, <1>3, CheckpointTypes
    DEF ResolveStart, CommittedEnd, CheckpointInv, LogsAgree, NoPos
  <2>2. produced \in 0..MaxEvents
    BY <1>1 DEF CheckpointInv, LogTypes
  <2>3. UNCHANGED landed
    BY <2>1, <2>2 DEF RedisNext, RedisWrite, SendCommand, RepeatPipeline, PipelineAnswered,
                PipelineBroken, RunBatch, EndCallback, RedisCrash, Crash, Evict,
                LateCommand, LateDropped, redisVars, vars
  <2>4. HotDelivery!Open(produced)
    BY <2>1, <2>3 DEF HotDelivery!Open
  <2>5. produced \in (1..MaxEvents) \union {0}
    BY <2>2, BoundsAssumption
  <2> QED
    BY <2>4, <2>5 DEF HotDelivery!Next
<1>4. CASE ~CommitBatch /\ ~ResolveStart
  <2>1. UNCHANGED <<startPos, CommittedEnd>>
    BY <1>1, <1>4, EndStays
  <2>2. CASE UNCHANGED landed
    BY <2>1, <2>2 DEF HotDelivery!vars
  <2>3. CASE landed' # landed
    <3> DEFINE S == landed' \ landed
    <3>1. ASSUME NEW p \in S
          PROVE  p \in KeptEvents /\ p > CommittedEnd /\ startPos # -1
      <4>1. p \in KeptEvents /\ Logged(p) /\ p \notin landed
        BY LandedStep
      <4>2. startPos # -1
        BY <4>1 DEF Logged, LandedInv, CheckpointInv, LogsAgree, NoPos
      <4>3. ~(p <= CommittedEnd)
        BY <4>1 DEF Logged, LandedInv
      <4>4. CommittedEnd \in 0..produced
        BY <1>1, <4>2, CommittedEndType DEF CheckpointInv, NoPos
      <4> QED
        BY <4>1, <4>2, <4>3, <4>4, RowsTypes
    <3>2. landed' = landed \union S /\ S # {}
      BY <2>3, LandedStep
    <3>3. S \in SUBSET (1..MaxEvents)
      BY <3>1, RowsTypes
    <3>4. startPos # -1 /\ \A p \in S : p \in KeptEvents /\ p > CommittedEnd
      BY <3>1, <3>2
    <3>5. PICK T \in SUBSET (1..MaxEvents) : T = S
      BY <3>3
    <3>6. HotDelivery!Store(T)
      BY <2>1, <3>2, <3>4, <3>5 DEF HotDelivery!Store
    <3> QED
      BY <3>5, <3>6 DEF HotDelivery!Next
  <2> QED
    BY <2>2, <2>3
<1> QED
  BY <1>2, <1>3, <1>4

(* The hot store implements the promise of at-least-once delivery, also when
   commands of a broken connection are executed late. *)
THEOREM HotStateImplementsDelivery ==
    ASSUME ToleranceNum < ToleranceDen
    PROVE  RedisSpec => ImplementsHotDelivery
<1>1. RedisInit => HotDelivery!Init
  BY DEF RedisInit, Init, CommittedEnd, NoPos, HotDelivery!Init
<1>2. LandedInv /\ [RedisNext]_redisVars => [HotDelivery!Next]_(HotDelivery!vars)
  BY RedisDeliveryStep
<1> QED
  BY <1>1, <1>2, LandedInvariant, PTL
  DEF RedisSpec, ImplementsHotDelivery, HotDelivery!Spec

-----------------------------------------------------------------------------
(* Hashes and times to live. *)

LEMMA HSetEffect ==
    ASSUME hash \in [Keys -> [FieldNames -> 0..MaxEvents]], NEW p \in KeptEvents, HSet(p)
    PROVE  /\ hash' \in [Keys -> [FieldNames -> 0..MaxEvents]]
           /\ \A k \in Keys, f \in FieldNames :
                 hash'[k][f] = IF Writes(p, k, f) THEN p ELSE hash[k][f]
           /\ expiring' = expiring
<1>1. Key(p) \in Keys /\ p \in 0..MaxEvents /\ Fields[p] \subseteq FieldNames
  BY RowsTypes
<1> DEFINE new == [f \in FieldNames |-> IF f \in Fields[p] THEN p ELSE hash[Key(p)][f]]
<1>2. new \in [FieldNames -> 0..MaxEvents]
  BY <1>1
<1>3. hash' = [hash EXCEPT ![Key(p)] = new] /\ expiring' = expiring
  BY DEF HSet
<1>4. hash' \in [Keys -> [FieldNames -> 0..MaxEvents]]
  BY <1>2, <1>3
<1>5. ASSUME NEW k \in Keys, NEW f \in FieldNames
      PROVE  hash'[k][f] = IF Writes(p, k, f) THEN p ELSE hash[k][f]
  BY <1>1, <1>3 DEF Writes
<1> QED
  BY <1>3, <1>4, <1>5

(* No committed value of a field changes before a commit, and the events at
   work stay at work. *)
LEMMA UncommittedStep ==
    ASSUME CheckpointInv, EndsOrdered, [Next]_vars, ~CommitBatch
    PROVE  /\ Uncommitted \subseteq Uncommitted'
           /\ \A p, k, f : NewestCommitted(p, k, f) => NewestCommitted(p, k, f)'
<1>1. CASE ResolveStart
  <2>1. offsetLog = <<>> /\ startPos = -1 /\ CommittedEnd = -1
    BY <1>1 DEF ResolveStart, CheckpointInv, LogsAgree, CommittedEnd, LogTypes, NoPos
  <2>2. Uncommitted = {}
    BY <2>1 DEF Uncommitted, Logged
  <2>3. ASSUME NEW k, NEW f PROVE CommittedWriters(k, f) = {}
    <3>1. ASSUME NEW p \in KeptEvents PROVE ~(-1 < p /\ p <= -1)
      BY RowsTypes
    <3> QED
      BY <2>1, <3>1 DEF CommittedWriters
  <2> QED
    BY <2>2, <2>3 DEF NewestCommitted
<1>2. CASE ~ResolveStart
  <2>1. UNCHANGED <<startPos, CommittedEnd>>
    BY <1>2, EndStays
  <2>2. ASSUME NEW p \in Uncommitted PROVE p \in Uncommitted'
    BY <2>1, <2>2, LoggedStays, RowsTypes DEF Uncommitted
  <2>3. \A k, f : CommittedWriters(k, f)' = CommittedWriters(k, f)
    BY <2>1 DEF CommittedWriters
  <2> QED
    BY <2>2, <2>3 DEF NewestCommitted
<1> QED
  BY <1>1, <1>2

(* A step that leaves the hashes and the times to live alone. *)
LEMMA QuietStep ==
    ASSUME ToleranceNum < ToleranceDen, LandedInv, [RedisNext]_redisVars,
           ~CommitBatch, UNCHANGED <<hash, expiring>>,
           \A cmd \in {"hset", "expire"} : Done(cmd)' \subseteq Done(cmd),
           NEW k \in Keys, KeyInv(k), \A f \in FieldNames : FieldInv(k, f)
    PROVE  KeyInv(k)' /\ \A f \in FieldNames : FieldInv(k, f)'
<1>1. /\ Uncommitted \subseteq Uncommitted'
      /\ \A p, j, f : NewestCommitted(p, j, f) => NewestCommitted(p, j, f)'
  BY RedisStepIsQueryStep, UncommittedStep DEF LandedInv
<1>2. KeyInv(k)'
  BY <1>1 DEF KeyInv, Present
<1>3. ASSUME NEW f \in FieldNames PROVE FieldInv(k, f)'
  <2>1. FieldInv(k, f)
    OBVIOUS
  <2> QED
    BY <1>1, <2>1 DEF FieldInv, Writes
<1> QED
  BY <1>2, <1>3

(* A commit: what the attempt stored is the newest of what is committed. *)
LEMMA CommitSettles ==
    ASSUME LandedInv, CommitBatch, UNCHANGED <<hash, expiring, pipe>>,
           hash \in [Keys -> [FieldNames -> 0..MaxEvents]],
           NEW k \in Keys, KeyInv(k), \A f \in FieldNames : FieldInv(k, f)
    PROVE  KeyInv(k)' /\ \A f \in FieldNames : FieldInv(k, f)'
<1>1. /\ phase = "returned" /\ phase' = "idle"
      /\ UNCHANGED <<startPos, offsetLog>>
      /\ CommittedEnd = from /\ CommittedEnd' = until
      /\ from \in 0..MaxEvents /\ until \in 0..MaxEvents /\ from <= until
  BY CommitMoves DEF LandedInv
<1>2. /\ BatchRows = Uncommitted
      /\ \A cmd \in {"hset", "expire"} : Done(cmd) = BatchRows
      /\ startPos <= from /\ startPos \in Int
  BY <1>1, BatchIsUncommitted, BatchIsLast, CheckpointTypes DEF Done, LandedInv, BatchPhases
<1>3. \A cmd : Done(cmd)' = {}
  <2>1. pipe'.sent = {}
    BY <1>1 DEF LandedInv, PipeInv, IdlePipe
  <2> QED
    BY <1>1, <2>1 DEF Done
<1>4. KeyInv(k)'
  BY <1>2 DEF KeyInv, Present
<1>5. ASSUME NEW f \in FieldNames PROVE FieldInv(k, f)'
  <2>1. PICK p \in Nat : p = hash[k][f] /\ p = hash'[k][f]
    OBVIOUS
  <2>2. /\ p = 0 \/ NewestCommitted(p, k, f) \/ (p \in BatchRows /\ Writes(p, k, f))
        /\ \A q \in BatchRows : Writes(q, k, f) => p = 0 \/ q <= p
    BY <1>2, <2>1 DEF FieldInv
  <2>3. \A q : q \in CommittedWriters(k, f)' <=>
                  \/ q \in CommittedWriters(k, f)
                  \/ q \in BatchRows /\ Writes(q, k, f)
    <3>1. ASSUME NEW q \in KeptEvents
          PROVE  startPos < q /\ q <= until <=> (startPos < q /\ q <= from) \/ (from < q /\ q <= until)
      BY <1>1, <1>2, RowsTypes
    <3>2. CommittedWriters(k, f)' =
              {q \in KeptEvents : startPos < q /\ q <= until /\ Key(q) = k /\ f \in Fields[q]}
      BY <1>1 DEF CommittedWriters
    <3> QED
      BY <1>1, <3>1, <3>2 DEF CommittedWriters, BatchRows, Writes
  <2>4. \A q \in CommittedWriters(k, f) : q <= from /\ q \in Nat
    BY <1>1, RowsTypes DEF CommittedWriters
  <2>5. \A q \in BatchRows : q > from /\ q \in Nat
    BY RowsTypes DEF BatchRows
  <2>6. p = 0 \/ NewestCommitted(p, k, f)'
    <3>1. CASE NewestCommitted(p, k, f)
      <4>1. \A q \in BatchRows : ~Writes(q, k, f) \/ p = 0
        BY <1>1, <2>1, <2>2, <2>4, <2>5, <3>1 DEF NewestCommitted
      <4>2. CASE p # 0
        <5>1. /\ p \in CommittedWriters(k, f)'
              /\ \A q \in CommittedWriters(k, f)' : q <= p
          BY <2>3, <3>1, <4>1, <4>2 DEF NewestCommitted
        <5> QED
          BY <5>1, <2>1 DEF NewestCommitted
      <4> QED
        BY <4>2
    <3>2. CASE p # 0 /\ p \in BatchRows /\ Writes(p, k, f)
      <4>1. p \in CommittedWriters(k, f)'
        BY <2>3, <3>2
      <4>2. ASSUME NEW q \in CommittedWriters(k, f)' PROVE q <= p
        <5>1. CASE q \in CommittedWriters(k, f)
          <6>1. q <= from /\ q \in Nat /\ p > from /\ p \in Nat
            BY <2>4, <2>5, <3>2, <5>1
          <6> QED
            BY <1>1, <6>1
        <5>2. CASE q \in BatchRows /\ Writes(q, k, f)
          BY <2>2, <3>2, <5>2
        <5> QED
          BY <2>3, <4>2, <5>1, <5>2
      <4> QED
        BY <4>1, <4>2 DEF NewestCommitted
    <3> QED
      BY <2>2, <3>1, <3>2
  <2> QED
    BY <1>3, <2>1, <2>6 DEF FieldInv
<1> QED
  BY <1>4, <1>5

(* The server executes one command of this attempt, or of a late connection,
   after which nothing is claimed any more. *)
LEMMA SendKeeps ==
    ASSUME LandedInv, SendCommand, [Next]_vars,
           hash \in [Keys -> [FieldNames -> 0..MaxEvents]],
           NEW k \in Keys, KeyInv(k), \A f \in FieldNames : FieldInv(k, f)
    PROVE  KeyInv(k)' /\ \A f \in FieldNames : FieldInv(k, f)'
<1>1. PICK c \in Pipeline \ pipe.sent :
          /\ phase = "writing" /\ UNCHANGED vars /\ UNCHANGED <<BatchRows, late, lateRan>>
          /\ \A d \in Pipeline \ pipe.sent : ~Queued(d, c)
          /\ \A a \in pipe.sent : ~Queued(c, a)
          /\ \/ /\ Execute(c) /\ ~pipe.refused
                /\ \A cmd \in {"hset", "expire"} :
                      Done(cmd)' = IF c.cmd = cmd THEN Done(cmd) \union {c.event}
                                                  ELSE Done(cmd)
             \/ /\ Execute(c) /\ pipe.refused
                /\ \A cmd \in {"hset", "expire"} : Done(cmd)' = {}
             \/ /\ UNCHANGED <<hash, expiring, landed>>
                /\ \A cmd \in {"hset", "expire"} : Done(cmd)' = {}
  BY SendStep DEF LandedInv
<1> DEFINE p == c.event
<1>2. /\ p \in BatchRows /\ p \in Uncommitted /\ p \in KeptEvents /\ p \in Nat
      /\ c = [cmd |-> c.cmd, event |-> p]
  BY <1>1, BatchIsUncommitted, RowsTypes, CommandOf DEF Pipeline, LandedInv, BatchPhases
<1>3. /\ Uncommitted' = Uncommitted
      /\ \A q, j, f : NewestCommitted(q, j, f)' <=> NewestCommitted(q, j, f)
  BY <1>1 DEF Uncommitted, Logged, NewestCommitted, CommittedWriters, CommittedEnd, vars
<1>4. CASE UNCHANGED <<hash, expiring>> /\ \A cmd \in {"hset", "expire"} : Done(cmd)' = {}
  <2>1. KeyInv(k)'
    BY <1>3, <1>4 DEF KeyInv, Present
  <2>2. ASSUME NEW f \in FieldNames PROVE FieldInv(k, f)'
    <3>1. FieldInv(k, f)
      OBVIOUS
    <3> QED
      BY <1>3, <1>4, <3>1 DEF FieldInv
  <2> QED
    BY <2>1, <2>2
<1>5. CASE HSet(p) /\ c.cmd = "hset"
  <2>1. /\ expiring' = expiring
        /\ \A f \in FieldNames : hash'[k][f] = IF Writes(p, k, f) THEN p ELSE hash[k][f]
    BY <1>2, <1>5, HSetEffect
  <2>2. Done("expire")' \subseteq Done("expire")
    BY <1>1, <1>5
  <2>3. p \notin Done("expire")
    <3>1. Queued(c, [cmd |-> "expire", event |-> p])
      BY <1>5 DEF Queued
    <3> QED
      BY <1>1, <3>1 DEF Done
  <2>4. KeyInv(k)'
    <3> SUFFICES ASSUME Present(k)', k \notin expiring'
                 PROVE  \E q \in Uncommitted' : Key(q) = k /\ q \notin Done("expire")'
      BY DEF KeyInv
    <3>1. CASE Key(p) = k
      BY <1>2, <1>3, <2>2, <2>3, <3>1
    <3>2. CASE Key(p) # k
      <4>1. Present(k)
        BY <2>1, <3>2 DEF Present, Writes
      <4> QED
        BY <1>3, <2>1, <2>2, <4>1 DEF KeyInv
    <3> QED
      BY <3>1, <3>2
  <2>5. ASSUME NEW f \in FieldNames PROVE FieldInv(k, f)'
    <3>1. FieldInv(k, f) /\ Done("hset")' \subseteq Done("hset") \union {p}
      BY <1>1, <1>5
    <3>2. CASE Writes(p, k, f)
      <4>1. hash'[k][f] = p
        BY <2>1, <3>2
      <4>2. ASSUME NEW q \in Done("hset")' PROVE q <= p
        <5>1. CASE q = p
          BY <1>2, <5>1
        <5>2. CASE q \in Done("hset")
          <6>1. q \in Nat /\ [cmd |-> "hset", event |-> q] \in pipe.sent
            BY <1>1, <5>2, RowsTypes DEF Done
          <6>2. ~(p < q)
            BY <1>1, <6>1 DEF Queued
          <6> QED
            BY <1>2, <6>1, <6>2
        <5> QED
          BY <3>1, <4>2, <5>1, <5>2
      <4> QED
        BY <1>2, <1>3, <3>2, <4>1, <4>2 DEF FieldInv, Writes
    <3>3. CASE ~Writes(p, k, f)
      <4>1. hash'[k][f] = hash[k][f]
        BY <2>1, <3>3
      <4> QED
        BY <1>3, <3>1, <3>3, <4>1 DEF FieldInv, Writes
    <3> QED
      BY <3>2, <3>3
  <2> QED
    BY <2>4, <2>5
<1>6. CASE ExpireKey(p) /\ c.cmd = "expire"
  <2>1. /\ UNCHANGED hash
        /\ expiring' = IF Present(Key(p)) THEN expiring \union {Key(p)} ELSE expiring
    BY <1>6 DEF ExpireKey
  <2>2. /\ Done("expire")' \subseteq Done("expire") \union {p}
        /\ Done("hset")' \subseteq Done("hset")
    BY <1>1, <1>6
  <2>3. KeyInv(k)'
    <3> SUFFICES ASSUME Present(k)', k \notin expiring'
                 PROVE  \E q \in Uncommitted' : Key(q) = k /\ q \notin Done("expire")'
      BY DEF KeyInv
    <3>1. Present(k) /\ k \notin expiring /\ Key(p) # k
      BY <2>1 DEF Present
    <3>2. PICK q \in Uncommitted : Key(q) = k /\ q \notin Done("expire")
      BY <3>1 DEF KeyInv
    <3> QED
      BY <1>3, <2>2, <3>1, <3>2
  <2>4. ASSUME NEW f \in FieldNames PROVE FieldInv(k, f)'
    <3>1. FieldInv(k, f)
      OBVIOUS
    <3> QED
      BY <1>3, <2>1, <2>2, <3>1 DEF FieldInv, Writes
  <2> QED
    BY <2>3, <2>4
<1> QED
  BY <1>1, <1>4, <1>5, <1>6 DEF Execute

(* A key's time to live is over: its fields are gone. *)
LEMMA EvictKeeps ==
    ASSUME Evict, hash \in [Keys -> [FieldNames -> 0..MaxEvents]],
           NEW k \in Keys, KeyInv(k), \A f \in FieldNames : FieldInv(k, f)
    PROVE  KeyInv(k)' /\ \A f \in FieldNames : FieldInv(k, f)'
<1>1. PICK e \in expiring : /\ hash' = [hash EXCEPT ![e] = [f \in FieldNames |-> 0]]
                            /\ expiring' = expiring \ {e}
  BY DEF Evict
<1>2. /\ UNCHANGED <<Uncommitted, landed>>
      /\ \A q, j, f : NewestCommitted(q, j, f)' <=> NewestCommitted(q, j, f)
      /\ \A cmd \in {"hset", "expire"} : Done(cmd)' = Done(cmd)
  BY DEF Evict, Uncommitted, Logged, NewestCommitted, CommittedWriters, CommittedEnd, Done,
         BatchRows, vars
<1>3. CASE k = e
  <2>1. \A f \in FieldNames : hash'[k][f] = 0
    BY <1>1, <1>3
  <2> QED
    BY <2>1 DEF KeyInv, Present, FieldInv
<1>4. CASE k # e
  <2>1. hash'[k] = hash[k] /\ (k \in expiring' <=> k \in expiring)
    BY <1>1, <1>4
  <2>2. KeyInv(k)'
    BY <1>2, <2>1 DEF KeyInv, Present
  <2>3. ASSUME NEW f \in FieldNames PROVE FieldInv(k, f)'
    <3>1. FieldInv(k, f)
      OBVIOUS
    <3> QED
      BY <1>2, <2>1, <3>1 DEF FieldInv
  <2> QED
    BY <2>2, <2>3
<1> QED
  BY <1>3, <1>4

(* Every field is empty or has an event, whatever is executed or evicted. *)
LEMMA HashStep ==
    ASSUME LandedInv, hash \in [Keys -> [FieldNames -> 0..MaxEvents]], [RedisNext]_redisVars
    PROVE  hash' \in [Keys -> [FieldNames -> 0..MaxEvents]]
<1>1. ASSUME NEW c \in Commands, Execute(c)
      PROVE  hash' \in [Keys -> [FieldNames -> 0..MaxEvents]]
  <2>1. c.event \in KeptEvents
    BY CommandOf
  <2> QED
    BY <1>1, <2>1, HSetEffect DEF Execute, ExpireKey
<1>2. CASE SendCommand
  BY <1>1, <1>2, RowsTypes DEF SendCommand, FirstOf
<1>3. CASE LateCommand
  BY <1>1, <1>3 DEF LateCommand, FirstOf, LandedInv
<1>4. CASE Evict
  <2>1. PICK e \in expiring : hash' = [hash EXCEPT ![e] = [f \in FieldNames |-> 0]]
    BY <1>4 DEF Evict
  <2>2. [f \in FieldNames |-> 0] \in [FieldNames -> 0..MaxEvents]
    BY BoundsAssumption
  <2> QED
    BY <2>1, <2>2
<1>5. CASE UNCHANGED hash
  BY <1>5
<1> QED
  BY <1>2, <1>3, <1>4, <1>5
  DEF RedisNext, RedisWrite, RepeatPipeline, PipelineAnswered, PipelineBroken, RedisCrash,
      LateDropped, redisVars

LEMMA InitHotInv == RedisInit => HotInv
<1> SUFFICES ASSUME RedisInit PROVE HotInv
  OBVIOUS
<1>1. LandedInv
  BY InitLandedInv
<1>2. \A k \in Keys, f \in FieldNames : hash[k][f] = 0
  BY DEF RedisInit
<1>3. hash \in [Keys -> [FieldNames -> 0..MaxEvents]]
  BY BoundsAssumption DEF RedisInit
<1> QED
  BY <1>1, <1>2, <1>3 DEF HotInv, KeyInv, FieldInv, Present

LEMMA HotInvStep ==
    ASSUME ToleranceNum < ToleranceDen, HotInv, [RedisNext]_redisVars
    PROVE  HotInv'
<1>1. LandedInv /\ LandedInv' /\ [Next]_vars
  BY LandedInvStep, RedisStepIsQueryStep DEF HotInv, LandedInv
<1>2. hash' \in [Keys -> [FieldNames -> 0..MaxEvents]]
  BY HashStep DEF HotInv
<1>3. ASSUME ~lateRan', NEW k \in Keys
      PROVE  KeyInv(k)' /\ \A f \in FieldNames : FieldInv(k, f)'
  <2>1. ~lateRan
    BY <1>3 DEF RedisNext, RedisWrite, SendCommand, RepeatPipeline, PipelineAnswered,
                PipelineBroken, RedisCrash, Evict, LateCommand, LateDropped, redisVars
  <2>2. /\ hash \in [Keys -> [FieldNames -> 0..MaxEvents]]
        /\ KeyInv(k) /\ \A f \in FieldNames : FieldInv(k, f)
    BY <2>1 DEF HotInv
  <2>3. CASE SendCommand
    BY <1>1, <2>2, <2>3, SendKeeps
  <2>4. CASE Evict
    BY <2>2, <2>4, EvictKeeps
  <2>5. CASE CommitBatch
    <3>1. phase = "returned"
      BY <2>5 DEF CommitBatch
    <3>2. UNCHANGED <<hash, expiring, pipe>>
      <4>1. phase' = "idle"
        BY <2>5 DEF CommitBatch, driver
      <4> QED
        BY <1>3, <3>1, <4>1
        DEF RedisNext, RedisWrite, SendCommand, RepeatPipeline, PipelineAnswered, PipelineBroken,
            RunBatch, EndCallback, RedisCrash, Crash, Evict, LateCommand, LateDropped,
            redisVars, vars
    <3> QED
      BY <1>1, <2>2, <2>5, <3>2, CommitSettles
  <2>6. CASE ~SendCommand /\ ~Evict /\ ~CommitBatch
    <3>1. UNCHANGED <<hash, expiring>>
      BY <1>3, <2>6
      DEF RedisNext, RedisWrite, RepeatPipeline, PipelineAnswered, PipelineBroken, RedisCrash,
          LateCommand, LateDropped, redisVars
    <3>2. \A cmd \in {"hset", "expire"} : Done(cmd)' \subseteq Done(cmd)
      BY <1>1, <2>6, DoneStep DEF LandedInv
    <3> QED
      BY <1>1, <2>2, <2>6, <3>1, <3>2, QuietStep
  <2> QED
    BY <2>3, <2>4, <2>5, <2>6
<1>4. Keys' = Keys /\ FieldNames' = FieldNames
  BY DEF Keys, FieldNames
<1> QED
  BY <1>1, <1>2, <1>3, <1>4 DEF HotInv

LEMMA HotInvariant ==
    ASSUME ToleranceNum < ToleranceDen
    PROVE  RedisSpec => []HotInv
<1>1. HotInv /\ [RedisNext]_redisVars => HotInv'
  BY HotInvStep
<1> QED
  BY <1>1, InitHotInv, PTL DEF RedisSpec

(* With every planned batch committed, no event is at work. *)
LEMMA SettledIsCommitted ==
    ASSUME CheckpointInv, Settled
    PROVE  Uncommitted = {}
<1>1. ASSUME NEW p \in KeptEvents, Logged(p) PROVE ~(CommittedEnd < p)
  <2>1. offsetLog # <<>> /\ p <= offsetLog[Len(offsetLog)]
    BY <1>1 DEF Logged
  <2>2. CommittedEnd = offsetLog[Len(offsetLog)]
    BY <2>1 DEF Settled, CommittedEnd, CheckpointInv, LogTypes
  <2>3. offsetLog[Len(offsetLog)] \in Int /\ p \in Int
    BY <2>1, RowsTypes DEF CheckpointInv, LogTypes
  <2> QED
    BY <2>1, <2>2, <2>3
<1> QED
  BY <1>1 DEF Uncommitted

(* A lookup finds the newest committed value of every field, as long as no
   bytes of a connection left behind arrive late. *)
THEOREM LookupsFindTheLatest ==
    ASSUME ToleranceNum < ToleranceDen
    PROVE  RedisSpec => []HotStateIsLatest
<1>1. ASSUME HotInv PROVE HotStateIsLatest
  <2> SUFFICES ASSUME Settled, ~lateRan, NEW k \in Keys, NEW f \in FieldNames
               PROVE  \/ hash[k][f] = 0
                      \/ /\ hash[k][f] \in CommittedWriters(k, f)
                         /\ \A p \in CommittedWriters(k, f) : p <= hash[k][f]
    BY DEF HotStateIsLatest
  <2>1. Uncommitted = {}
    BY <1>1, SettledIsCommitted DEF HotInv, LandedInv
  <2>2. FieldInv(k, f)
    BY <1>1 DEF HotInv
  <2> QED
    BY <2>1, <2>2 DEF FieldInv, NewestCommitted
<1> QED
  BY <1>1, HotInvariant, PTL

(* Every key has a time to live when the batch that wrote it is committed, so
   nothing stays in the hot store for ever. *)
THEOREM CommittedKeysExpire ==
    ASSUME ToleranceNum < ToleranceDen
    PROVE  RedisSpec => []NoImmortalKeys
<1>1. ASSUME HotInv PROVE NoImmortalKeys
  <2> SUFFICES ASSUME Settled, ~lateRan, NEW k \in Keys, Present(k)
               PROVE  k \in expiring
    BY DEF NoImmortalKeys
  <2>1. Uncommitted = {}
    BY <1>1, SettledIsCommitted DEF HotInv, LandedInv
  <2>2. KeyInv(k)
    BY <1>1 DEF HotInv
  <2> QED
    BY <2>1, <2>2 DEF KeyInv
<1> QED
  BY <1>1, HotInvariant, PTL

=============================================================================
