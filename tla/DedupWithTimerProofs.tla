------------------------ MODULE DedupWithTimerProofs ------------------------
(***************************************************************************)
(* Proofs about DedupWithTimer. A restart makes an old state the current   *)
(* one, so the invariant says the same of the state and of its snapshot,   *)
(* each with the topic as it is now.                                       *)
(***************************************************************************)
EXTENDS DedupWithTimer, TLAPS

Elements == [txn : Txns, time : Times]
Marks == Watermarks \union {NoWatermark}

Kinds(log, s) ==
    /\ s.position \in 0..Len(log)
    /\ s.seen \in [Txns -> BOOLEAN]
    /\ s.timers \in [Txns -> SUBSET Nat]
    /\ s.main \subseteq [pos : 1..s.position, reached : Marks]
    /\ s.late \subseteq 1..s.position
    /\ s.reached \in Marks

Flagged(s) ==
    \A x \in Txns :
        IF s.seen[x] THEN \E t \in s.timers[x] : s.timers[x] = {t}
                     ELSE s.timers[x] = {}

(* A flagged key has been yielded. *)
Held(log, s) ==
    \A x \in Txns : s.seen[x] => \E y \in s.main : log[y.pos].txn = x

(* A yielded element's timer waits still, or the watermark has been there. *)
Timed(log, s) ==
    \A y \in s.main :
        \/ log[y.pos].time + Window \in s.timers[log[y.pos].txn]
        \/ log[y.pos].time + Window <= s.reached

Kept(log, s) ==
    \A p \in 1..s.position :
        \/ p \in s.late /\ log[p].time + Window < s.reached
        \/ \E y \in s.main : y.pos <= p /\ log[y.pos].txn = log[p].txn

Spaced(log, s) ==
    \A a, b \in s.main :
        a.pos < b.pos /\ log[a.pos].txn = log[b.pos].txn
            => log[a.pos].time + Window <= b.reached

Sound(log, s) ==
    /\ Kinds(log, s)
    /\ Flagged(s)
    /\ Held(log, s)
    /\ Timed(log, s)
    /\ Kept(log, s)
    /\ Spaced(log, s)

(* Until the first restart the watermark has not gone back, and nothing was
   yielded that was late. *)
Unbroken ==
    restarts = 0 =>
        /\ watermark = reached
        /\ \A y \in main : y.reached <= topic[y.pos].time + Window

DedupInv ==
    /\ topic \in Seq(Elements)
    /\ watermark \in Marks
    /\ watermark <= reached
    /\ restarts \in Nat
    /\ Sound(topic, State)
    /\ Sound(topic, snapshot)
    /\ Unbroken

USE TimeAssumption, DedupBounds DEF NoWatermark

-----------------------------------------------------------------------------
(* A longer topic changes nothing for a state that is about its beginning. *)

LEMMA SoundStays ==
    ASSUME NEW log \in Seq(Elements), NEW e \in Elements, NEW s, Sound(log, s)
    PROVE  Sound(Append(log, e), s)
  <1> DEFINE more == Append(log, e)
  <1>1. Len(more) = Len(log) + 1 /\ \A p \in 1..Len(log) : more[p] = log[p]
    OBVIOUS
  <1>2. s.position \in 0..Len(log) /\ Kinds(more, s)
    BY <1>1 DEF Sound, Kinds
  <1>3. \A p \in 1..s.position : more[p] = log[p] BY <1>1, <1>2
  <1>4. \A y \in s.main : y.pos \in 1..s.position /\ more[y.pos] = log[y.pos]
    BY <1>3 DEF Sound, Kinds
  <1> HIDE DEF more
  <1>8. Held(more, s) BY <1>4 DEF Sound, Held
  <1>5. Timed(more, s) BY <1>4 DEF Sound, Timed
  <1>6. Kept(more, s) BY <1>3, <1>4 DEF Sound, Kept
  <1>7. Spaced(more, s) BY <1>4 DEF Sound, Spaced
  <1> QED BY <1>2, <1>5, <1>6, <1>7, <1>8 DEF Sound, more

(* The invariant of the state, conjunct by conjunct. *)
LEMMA Current ==
    ASSUME DedupInv
    PROVE  /\ position \in 0..Len(topic)
           /\ seen \in [Txns -> BOOLEAN]
           /\ timers \in [Txns -> SUBSET Nat]
           /\ main \subseteq [pos : 1..position, reached : Marks]
           /\ late \subseteq 1..position
           /\ reached \in Marks
           /\ reached \in Int /\ watermark \in Int
           /\ \A x \in Txns : IF seen[x] THEN \E t \in timers[x] : timers[x] = {t}
                                         ELSE timers[x] = {}
           /\ \A x \in Txns : seen[x] => \E y \in main : topic[y.pos].txn = x
           /\ \A y \in main :
                 \/ topic[y.pos].time + Window \in timers[topic[y.pos].txn]
                 \/ topic[y.pos].time + Window <= reached
           /\ \A p \in 1..position :
                 \/ p \in late /\ topic[p].time + Window < reached
                 \/ \E y \in main : y.pos <= p /\ topic[y.pos].txn = topic[p].txn
           /\ \A a, b \in main :
                 a.pos < b.pos /\ topic[a.pos].txn = topic[b.pos].txn
                     => topic[a.pos].time + Window <= b.reached
  <1>1. Kinds(topic, State) /\ Flagged(State) /\ Held(topic, State)
    BY DEF DedupInv, Sound
  <1>2. Timed(topic, State) /\ Kept(topic, State) /\ Spaced(topic, State)
    BY DEF DedupInv, Sound
  <1>3. reached \in Marks /\ watermark \in Marks
    BY <1>1 DEF Kinds, State, DedupInv
  <1>4. reached \in Int /\ watermark \in Int BY <1>3 DEF Marks
  <1>5. \A x \in Txns : IF seen[x] THEN \E t \in timers[x] : timers[x] = {t}
                                   ELSE timers[x] = {}
    BY <1>1 DEF Flagged, State
  <1>6. /\ position \in 0..Len(topic)
        /\ seen \in [Txns -> BOOLEAN]
        /\ timers \in [Txns -> SUBSET Nat]
        /\ main \subseteq [pos : 1..position, reached : Marks]
        /\ late \subseteq 1..position
    BY <1>1 DEF Kinds, State
  <1>7. \A x \in Txns : seen[x] => \E y \in main : topic[y.pos].txn = x
    BY <1>1 DEF Held, State
  <1>8. \A y \in main :
                 \/ topic[y.pos].time + Window \in timers[topic[y.pos].txn]
                 \/ topic[y.pos].time + Window <= reached
    BY <1>2 DEF Timed, State
  <1>9. \A p \in 1..position :
                 \/ p \in late /\ topic[p].time + Window < reached
                 \/ \E y \in main : y.pos <= p /\ topic[y.pos].txn = topic[p].txn
    BY <1>2 DEF Kept, State
  <1>10. \A a, b \in main :
                 a.pos < b.pos /\ topic[a.pos].txn = topic[b.pos].txn
                     => topic[a.pos].time + Window <= b.reached
    BY <1>2 DEF Spaced, State
  <1> QED BY <1>3, <1>4, <1>5, <1>6, <1>7, <1>8, <1>9, <1>10

(* What a yielded element of the past is now. *)
LEMMA YieldIs ==
    ASSUME DedupInv, NEW y \in main
    PROVE  /\ y.pos \in 1..position
           /\ y.reached \in Int
           /\ topic[y.pos] \in Elements
           /\ topic[y.pos].time \in Nat
           /\ topic[y.pos].txn \in Txns
  <1>1. y \in [pos : 1..position, reached : Marks] BY Current
  <1>5. y.pos \in 1..position BY <1>1
  <1>2. y.reached \in Int
    <2>1. \A m \in Marks : m \in Int BY DEF Marks
    <2> QED BY <1>1, <2>1
  <1>3. topic[y.pos] \in Elements BY <1>5, Current DEF DedupInv
  <1>4. topic[y.pos].time \in Times /\ topic[y.pos].txn \in Txns
    BY <1>3 DEF Elements
  <1> QED BY <1>2, <1>4, <1>3, <1>5

(* The element process_element is called with. *)
LEMMA ElementIs ==
    ASSUME DedupInv, position < Len(topic)
    PROVE  /\ position \in Nat
           /\ position + 1 \in 1..Len(topic)
           /\ Element = topic[position + 1]
           /\ Element.time \in Nat
           /\ Element.txn \in Txns
  <1>5. position \in 0..Len(topic) /\ Len(topic) \in Nat BY Current DEF DedupInv
  <1>1. position + 1 \in 1..Len(topic) /\ position \in Nat BY <1>5
  <1>2. topic[position + 1] \in Elements BY <1>1 DEF DedupInv
  <1>3. Element = topic[position + 1] BY DEF Element
  <1>4. Element.time \in Times /\ Element.txn \in Txns BY <1>2, <1>3 DEF Elements
  <1> QED BY <1>1, <1>3, <1>4

-----------------------------------------------------------------------------
(* The steps, one lemma for each that changes the operator. *)

LEMMA LateStep ==
    ASSUME DedupInv, position < Len(topic), position' = position + 1,
           PutLate(Element),
           UNCHANGED <<topic, watermark, snapshot, restarts>>
    PROVE  DedupInv'
  <1> USE Current, ElementIs
  <1>1. /\ seen' = seen /\ timers' = timers /\ main' = main /\ reached' = reached
        /\ late' = late \union {position + 1}
    BY DEF PutLate, operator
  <1>2. Kinds(topic', State') BY <1>1 DEF Kinds, State
  <1>3. Flagged(State') /\ Held(topic', State') /\ Timed(topic', State')
    BY <1>1 DEF Flagged, Held, Timed, State
  <1>4. Element.time + Window < reached
    BY DEF DedupInv, PutLate, IsLate
  <1>5. Kept(topic', State')
    <2> SUFFICES ASSUME NEW p \in 1..(position + 1)
                 PROVE  \/ p \in late' /\ topic[p].time + Window < reached
                        \/ \E y \in main : y.pos <= p /\ topic[y.pos].txn = topic[p].txn
      BY <1>1 DEF Kept, State
    <2>1. CASE p = position + 1 BY <2>1, <1>1, <1>4
    <2>2. CASE p \in 1..position BY <2>2, <1>1
    <2> QED BY <2>1, <2>2
  <1>6. Spaced(topic', State') BY <1>1 DEF Spaced, State
  <1> QED BY <1>1, <1>2, <1>3, <1>5, <1>6 DEF DedupInv, Sound, Unbroken

LEMMA DropStep ==
    ASSUME DedupInv, position < Len(topic), position' = position + 1,
           DropDuplicate(Element),
           UNCHANGED <<topic, watermark, snapshot, restarts>>
    PROVE  DedupInv'
  <1> USE Current, ElementIs
  <1>1. /\ seen' = seen /\ timers' = timers /\ main' = main /\ reached' = reached
        /\ late' = late
    BY DEF DropDuplicate, operator, histories
  <1>2. Kinds(topic', State') BY <1>1 DEF Kinds, State
  <1>3. Flagged(State') /\ Held(topic', State') /\ Timed(topic', State')
    BY <1>1 DEF Flagged, Held, Timed, State
  <1>4. PICK y \in main : topic[y.pos].txn = Element.txn BY DEF DropDuplicate
  <1>5. Kept(topic', State')
    <2> SUFFICES ASSUME NEW p \in 1..(position + 1)
                 PROVE  \/ p \in late /\ topic[p].time + Window < reached
                        \/ \E z \in main : z.pos <= p /\ topic[z.pos].txn = topic[p].txn
      BY <1>1 DEF Kept, State
    <2>1. CASE p = position + 1 BY <2>1, <1>4, YieldIs
    <2>2. CASE p \in 1..position BY <2>2
    <2> QED BY <2>1, <2>2
  <1>6. Spaced(topic', State') BY <1>1 DEF Spaced, State
  <1> QED BY <1>1, <1>2, <1>3, <1>5, <1>6 DEF DedupInv, Sound, Unbroken

LEMMA YieldStep ==
    ASSUME DedupInv, position < Len(topic), position' = position + 1,
           YieldFirst(Element),
           UNCHANGED <<topic, watermark, snapshot, restarts>>
    PROVE  DedupInv'
  <1> DEFINE x == Element.txn
             due == Element.time + Window
             new == [pos |-> position + 1, reached |-> reached]
  <1> USE Current, ElementIs
  <1>1. /\ seen' = [seen EXCEPT ![x] = TRUE]
        /\ timers' = [timers EXCEPT ![x] = @ \union {due}]
        /\ main' = main \union {new}
        /\ reached' = reached /\ late' = late
    BY DEF YieldFirst
  <1>2. due \in Nat /\ timers[x] = {} /\ timers'[x] = {due} /\ seen'[x]
    BY <1>1 DEF YieldFirst
  <1>3. \A z \in Txns \ {x} : timers'[z] = timers[z] /\ seen'[z] = seen[z]
    <2>1. timers \in [Txns -> SUBSET Nat] /\ seen \in [Txns -> BOOLEAN] BY Current
    <2> SUFFICES ASSUME NEW z \in Txns, z # x
                 PROVE  timers'[z] = timers[z] /\ seen'[z] = seen[z]
      OBVIOUS
    <2>2. timers'[z] = timers[z] BY <1>1, <2>1
    <2>3. seen'[z] = seen[z] BY <1>1, <2>1
    <2> QED BY <2>2, <2>3
  <1>4. new.pos = position + 1 /\ new.reached = reached /\ topic[new.pos] = Element
    OBVIOUS
  <1>5. \A y \in main : y.pos \in 1..position /\ topic[y.pos].txn \in Txns
    BY YieldIs
  <1>6. Kinds(topic', State')
    <2>1. main' \subseteq [pos : 1..position', reached : Marks]
      BY <1>1
    <2>2. timers' \in [Txns -> SUBSET Nat] /\ seen' \in [Txns -> BOOLEAN]
      BY <1>1, <1>2
    <2> QED BY <1>1, <2>1, <2>2 DEF Kinds, State
  <1>7. Flagged(State')
    <2> SUFFICES ASSUME NEW z \in Txns
                 PROVE  IF seen'[z] THEN \E t \in timers'[z] : timers'[z] = {t}
                                    ELSE timers'[z] = {}
      BY DEF Flagged, State
    <2>1. CASE z = x BY <2>1, <1>2
    <2>2. CASE z # x
      <3>1. IF seen[z] THEN \E t \in timers[z] : timers[z] = {t} ELSE timers[z] = {}
        BY Current
      <3>2. timers'[z] = timers[z] /\ seen'[z] = seen[z]
        BY ONLY <2>2, <1>3, z \in Txns
      <3> QED BY ONLY <3>1, <3>2
    <2> QED BY <2>1, <2>2
  <1>8. Held(topic', State')
    <2> SUFFICES ASSUME NEW z \in Txns, seen'[z]
                 PROVE  \E y \in main' : topic[y.pos].txn = z
      BY DEF Held, State
    <2>1. CASE z = x BY <2>1, <1>1, <1>4
    <2>2. CASE z # x BY <2>2, <1>1, <1>3
    <2> QED BY <2>1, <2>2
  <1>9. Timed(topic', State')
    <2> SUFFICES ASSUME NEW y \in main'
                 PROVE  \/ topic[y.pos].time + Window \in timers'[topic[y.pos].txn]
                        \/ topic[y.pos].time + Window <= reached
      BY <1>1 DEF Timed, State
    <2>1. CASE y = new BY <2>1, <1>2, <1>4
    <2>2. CASE y \in main /\ topic[y.pos].txn = x BY <2>2, <1>2
    <2>3. CASE y \in main /\ topic[y.pos].txn # x BY <2>3, <1>3, <1>5
    <2> QED BY <2>1, <2>2, <2>3, <1>1
  <1>10. Kept(topic', State')
    <2> SUFFICES ASSUME NEW p \in 1..(position + 1)
                 PROVE  \/ p \in late /\ topic[p].time + Window < reached
                        \/ \E y \in main' : y.pos <= p /\ topic[y.pos].txn = topic[p].txn
      BY <1>1 DEF Kept, State
    <2>1. CASE p = position + 1
      <3>1. new \in main' /\ new.pos <= p /\ topic[new.pos].txn = topic[p].txn
        BY <2>1, <1>1, <1>4
      <3> QED BY <3>1
    <2>2. CASE p \in 1..position BY <2>2, <1>1
    <2> QED BY <2>1, <2>2
  <1>11. Spaced(topic', State')
    <2> SUFFICES ASSUME NEW a \in main', NEW b \in main', a.pos < b.pos,
                        topic[a.pos].txn = topic[b.pos].txn
                 PROVE  topic[a.pos].time + Window <= b.reached
      BY DEF Spaced, State
    <2>1. CASE a \in main /\ b \in main BY <2>1
    <2>2. CASE a \in main /\ b = new BY <2>2, <1>2, <1>4
    <2>3. CASE a = new /\ b \in main BY <2>3, <1>4, <1>5
    <2>4. CASE a = new /\ b = new BY <2>4
    <2> QED BY <2>1, <2>2, <2>3, <2>4, <1>1
  <1>12. Unbroken'
    <2> SUFFICES ASSUME restarts = 0, NEW y \in main'
                 PROVE  /\ watermark = reached
                        /\ y.reached <= topic[y.pos].time + Window
      BY <1>1, <1>4 DEF Unbroken, DedupInv
    <2>1. CASE y \in main BY <2>1 DEF Unbroken, DedupInv
    <2>2. CASE y = new
      BY <2>2, <1>4 DEF Unbroken, DedupInv, YieldFirst, IsLate
    <2> QED BY <2>1, <2>2, <1>1
  <1> QED BY <1>1, <1>6, <1>7, <1>8, <1>9, <1>10, <1>11, <1>12 DEF DedupInv, Sound

LEMMA WatermarkStep ==
    ASSUME DedupInv, NEW w \in Watermarks, AdvanceWatermark(w)
    PROVE  DedupInv'
  <1>1. /\ w > watermark /\ watermark' = w
        /\ reached' = IF w > reached THEN w ELSE reached
        /\ timers' = [x \in Txns |-> timers[x] \ Fired(x, w)]
        /\ seen' = [x \in Txns |-> seen[x] /\ Fired(x, w) = {}]
        /\ UNCHANGED <<topic, position, main, late, snapshot, restarts>>
    BY DEF AdvanceWatermark, OnTimers
  <1>2. /\ reached \in Int /\ watermark \in Int /\ w \in Nat /\ reached \in Marks
        /\ timers \in [Txns -> SUBSET Nat] /\ seen \in [Txns -> BOOLEAN]
    BY Current
  <1>3. /\ reached' \in Marks /\ watermark' \in Marks
        /\ w <= reached' /\ reached <= reached' /\ reached' \in Int
    BY <1>1, <1>2 DEF Marks
  <1>4. Kinds(topic', State')
    <2>1. timers' \in [Txns -> SUBSET Nat] /\ seen' \in [Txns -> BOOLEAN]
      BY <1>1, <1>2
    <2>2. /\ position \in 0..Len(topic) /\ late \subseteq 1..position
          /\ main \subseteq [pos : 1..position, reached : Marks]
      BY Current
    <2> QED BY <1>1, <1>3, <2>1, <2>2 DEF Kinds, State
  <1>5. Flagged(State')
    <2> SUFFICES ASSUME NEW x \in Txns
                 PROVE  IF seen'[x] THEN \E t \in timers'[x] : timers'[x] = {t}
                                    ELSE timers'[x] = {}
      BY DEF Flagged, State
    <2>1. IF seen[x] THEN \E t \in timers[x] : timers[x] = {t} ELSE timers[x] = {}
      BY Current
    <2>2. timers'[x] = timers[x] \ Fired(x, w) /\ seen'[x] = (seen[x] /\ Fired(x, w) = {})
      BY <1>1
    <2>3. Fired(x, w) \subseteq timers[x] BY DEF Fired
    <2>4. CASE Fired(x, w) = {} BY <2>1, <2>2, <2>4, <1>2
    <2>5. CASE Fired(x, w) # {} BY <2>1, <2>2, <2>3, <2>5
    <2> QED BY <2>4, <2>5
  <1>6. Held(topic', State')
    <2>1. \A x \in Txns : seen'[x] => seen[x] BY <1>1
    <2>2. \A x \in Txns : seen[x] => \E y \in main : topic[y.pos].txn = x BY Current
    <2> QED BY <2>1, <2>2, <1>1 DEF Held, State
  <1>7. Timed(topic', State')
    <2> SUFFICES ASSUME NEW y \in main
                 PROVE  \/ topic[y.pos].time + Window \in timers'[topic[y.pos].txn]
                        \/ topic[y.pos].time + Window <= reached'
      BY <1>1 DEF Timed, State
    <2> DEFINE x == topic[y.pos].txn
               due == topic[y.pos].time + Window
    <2>1. x \in Txns /\ due \in Nat BY YieldIs
    <2>2. due \in timers[x] \/ due <= reached BY Current
    <2>3. CASE due <= reached
      <3>1. due <= reached' BY <2>1, <2>3, <1>2, <1>3
      <3> QED BY <3>1
    <2>4. CASE due \in timers[x] /\ due <= w BY <2>1, <2>4, <1>2, <1>3
    <2>5. CASE due \in timers[x] /\ ~(due <= w)
      BY <2>1, <2>5, <1>1 DEF Fired
    <2> QED BY <2>2, <2>3, <2>4, <2>5
  <1>8. Kept(topic', State')
    <2>1. \A p \in 1..position :
                 \/ p \in late /\ topic[p].time + Window < reached
                 \/ \E y \in main : y.pos <= p /\ topic[y.pos].txn = topic[p].txn
      BY Current
    <2>2. \A p \in 1..position : topic[p].time \in Nat
      <3> TAKE p \in 1..position
      <3>1. position \in 0..Len(topic) BY Current
      <3>2. topic[p] \in Elements BY <3>1 DEF DedupInv
      <3> QED BY <3>2 DEF Elements
    <2>3. \A p \in 1..position : topic[p].time + Window < reached
                                    => topic[p].time + Window < reached'
      BY <2>2, <1>2, <1>3
    <2> QED BY <2>1, <2>3, <1>1 DEF Kept, State
  <1>9. Spaced(topic', State')
    BY <1>1 DEF DedupInv, Sound, Spaced, State
  <1>10. Unbroken' BY <1>1, <1>2 DEF Unbroken, DedupInv
  <1> QED BY <1>1, <1>3, <1>4, <1>5, <1>6, <1>7, <1>8, <1>9, <1>10 DEF DedupInv, Sound

LEMMA ProduceStep ==
    ASSUME DedupInv, NEW x \in Txns, NEW t \in Times, Produce(x, t)
    PROVE  DedupInv'
  <1> DEFINE e == [txn |-> x, time |-> t]
  <1>1. e \in Elements BY DEF Elements
  <1>2. /\ topic' = Append(topic, e)
        /\ State' = State
        /\ UNCHANGED <<position, watermark, seen, timers, main, late, reached,
                       snapshot, restarts>>
    BY DEF Produce, State, operator, histories
  <1>3. topic \in Seq(Elements) BY DEF DedupInv
  <1>4. Sound(topic', State') /\ Sound(topic', snapshot')
    BY <1>1, <1>2, <1>3, SoundStays DEF DedupInv
  <1>5. Unbroken'
    <2>1. \A y \in main : topic'[y.pos] = topic[y.pos]
      <3> TAKE y \in main
      <3>1. y.pos \in 1..position /\ position \in 0..Len(topic) BY YieldIs, Current
      <3> QED BY <3>1, <1>2, <1>3
    <2>2. /\ restarts' = restarts /\ watermark' = watermark
          /\ reached' = reached /\ main' = main
      BY <1>2
    <2>3. Unbroken BY DEF DedupInv
    <2> QED BY <2>1, <2>2, <2>3 DEF Unbroken
  <1>6. topic' \in Seq(Elements) BY <1>1, <1>2, <1>3
  <1> QED BY <1>2, <1>4, <1>5, <1>6 DEF DedupInv

LEMMA RestartStep ==
    ASSUME DedupInv, Restart
    PROVE  DedupInv'
  <1>1. /\ restarts' = restarts + 1 /\ watermark' = NoWatermark
        /\ UNCHANGED <<topic, snapshot>>
    BY DEF Restart
  <1>2. /\ position' = snapshot.position /\ seen' = snapshot.seen
        /\ timers' = snapshot.timers /\ main' = snapshot.main
        /\ late' = snapshot.late /\ reached' = snapshot.reached
    BY DEF Restart
  <1>3. Sound(topic, snapshot) BY DEF DedupInv
  <1>4. Kinds(topic, State') BY <1>2, <1>3 DEF Sound, Kinds, State
  <1>5. Flagged(State') /\ Held(topic, State')
    BY <1>2, <1>3 DEF Sound, Flagged, Held, State
  <1>6. Timed(topic, State') /\ Kept(topic, State') /\ Spaced(topic, State')
    BY <1>2, <1>3 DEF Sound, Timed, Kept, Spaced, State
  <1>7. watermark' \in Marks /\ watermark' <= reached'
    <2>1. reached' \in Marks BY <1>2, <1>3 DEF Sound, Kinds
    <2>2. \A m \in Marks : NoWatermark <= m BY DEF Marks
    <2> QED BY <2>1, <2>2, <1>1 DEF Marks
  <1>8. restarts' \in Nat /\ restarts' # 0 BY <1>1 DEF DedupInv
  <1> QED BY <1>1, <1>3, <1>4, <1>5, <1>6, <1>7, <1>8 DEF DedupInv, Sound, Unbroken

LEMMA DedupInvInit == DedupInit => DedupInv
  <1> SUFFICES ASSUME DedupInit PROVE DedupInv OBVIOUS
  <1>1. Len(topic) = 0 /\ topic \in Seq(Elements) BY DEF DedupInit
  <1>2. NoWatermark \in Marks BY DEF Marks
  <1>3. Kinds(topic, State) BY <1>1, <1>2 DEF DedupInit, Kinds, State
  <1>4. Flagged(State) /\ Held(topic, State) BY DEF DedupInit, Flagged, Held, State
  <1>5. Timed(topic, State) /\ Spaced(topic, State)
    BY DEF DedupInit, Timed, Spaced, State
  <1>6. Kept(topic, State) BY DEF DedupInit, Kept, State
  <1>7. Unbroken BY DEF DedupInit, Unbroken
  <1>8. snapshot = State BY DEF DedupInit
  <1> QED BY <1>1, <1>2, <1>3, <1>4, <1>5, <1>6, <1>7, <1>8 DEF DedupInit, DedupInv, Sound

LEMMA DedupInvStep == DedupInv /\ [DedupNext]_dedupVars => DedupInv'
  <1> SUFFICES ASSUME DedupInv, [DedupNext]_dedupVars PROVE DedupInv' OBVIOUS
  <1>1. CASE ProcessElement
    BY <1>1, LateStep, YieldStep, DropStep DEF ProcessElement
  <1>2. CASE \E w \in Watermarks : AdvanceWatermark(w) BY <1>2, WatermarkStep
  <1>3. CASE \E x \in Txns, t \in Times : Produce(x, t) BY <1>3, ProduceStep
  <1>4. CASE Checkpoint
    <2>1. /\ snapshot' = State /\ State' = State
          /\ UNCHANGED <<topic, watermark, reached, main, restarts>>
      BY <1>4 DEF Checkpoint, State, operator, histories
    <2> QED BY <2>1 DEF DedupInv, Unbroken
  <1>5. CASE Restart BY <1>5, RestartStep
  <1>6. CASE UNCHANGED dedupVars
    <2>1. State' = State BY <1>6 DEF dedupVars, State
    <2> QED BY <1>6, <2>1 DEF dedupVars, DedupInv, Unbroken
  <1> QED BY <1>1, <1>2, <1>3, <1>4, <1>5, <1>6 DEF DedupNext

LEMMA DedupInvariant == DedupSpec => []DedupInv
  <1> QED BY DedupInvInit, DedupInvStep, PTL DEF DedupSpec

-----------------------------------------------------------------------------
(* The theorems. *)

(* DedupTypeOK for every window, set of watermarks and set of keys. *)
THEOREM DedupTypeCorrect == DedupSpec => []DedupTypeOK
  <1>1. DedupInv => DedupTypeOK
    BY Current DEF DedupInv, DedupTypeOK, Elements, Marks, Yields
  <1> QED BY <1>1, DedupInvariant, PTL

(* SeenHasTimer: no key stays flagged without the timer that clears it, and no
   timer is left behind by restarts. *)
THEOREM StateIsTimed == DedupSpec => []SeenHasTimer
  <1>1. DedupInv => SeenHasTimer BY Current DEF SeenHasTimer
  <1> QED BY <1>1, DedupInvariant, PTL

(* NothingDropped: late ones apart, every transaction taken is yielded. *)
THEOREM EveryTxnYielded == DedupSpec => []NothingDropped
  <1>1. DedupInv => NothingDropped BY Current DEF NothingDropped
  <1> QED BY <1>1, DedupInvariant, PTL

(* RepeatsOnlyAfterWindow: a transaction is not yielded again before the
   watermark has reached the end of its window, restarts or not. *)
THEOREM YieldsAreSpaced == DedupSpec => []RepeatsOnlyAfterWindow
  <1>1. DedupInv => RepeatsOnlyAfterWindow BY Current DEF RepeatsOnlyAfterWindow
  <1> QED BY <1>1, DedupInvariant, PTL

(* CopiesOnlyAtBoundary: without a restart, an exact copy gets through only
   while the watermark stands at event time + window. *)
THEOREM CopiesAtBoundary == DedupSpec => []CopiesOnlyAtBoundary
  <1>1. ASSUME DedupInv PROVE CopiesOnlyAtBoundary
    <2> SUFFICES ASSUME restarts = 0, NEW a \in main, NEW b \in main,
                        a.pos < b.pos, topic[a.pos] = topic[b.pos]
                 PROVE  b.reached = topic[a.pos].time + Window
      BY DEF CopiesOnlyAtBoundary
    <2>1. topic[a.pos].time + Window <= b.reached BY <1>1, Current
    <2>2. b.reached <= topic[b.pos].time + Window BY <1>1 DEF DedupInv, Unbroken
    <2>3. topic[a.pos].time \in Nat /\ b.reached \in Int BY <1>1, YieldIs
    <2> QED BY <2>1, <2>2, <2>3
  <1> QED BY <1>1, DedupInvariant, PTL

=============================================================================
