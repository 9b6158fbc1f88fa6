--------------------------- MODULE DedupWithTimer ---------------------------
(***************************************************************************)
(* The keyed process function of flink/dedup_stream.py in the job the file *)
(* sketches: one source partition, one operator subtask, a flag and timers *)
(* per transaction, a watermark, checkpoints.                              *)
(*                                                                         *)
(* Flink's side of it: timers at or below a new watermark fire when it     *)
(* arrives, before the next element; a checkpoint holds the position, the  *)
(* flags and the timers, but not the watermark, which begins anew.         *)
(***************************************************************************)
EXTENDS Integers, Sequences

CONSTANTS
    Txns,         \* transaction ids (the keys)
    Times,        \* event times
    Watermarks,   \* the watermarks the source's strategy can emit; {} under
                  \*   the WatermarkStrategy.no_watermarks() of run_job
    Window,       \* DEDUP_WINDOW_MS
    MaxElements,  \* bound: records of the topic
    MaxRestarts   \* bound: restarts from a checkpoint

ASSUME TimeAssumption == Times \subseteq Nat /\ Watermarks \subseteq Nat /\ Window \in Nat
ASSUME DedupBounds == MaxElements \in Nat /\ MaxRestarts \in Nat

VARIABLES
    topic,      \* the records: their transaction and event time
    position,   \* records the operator has taken
    watermark,  \* current_watermark()
    seen,       \* seen_state of every key
    timers,     \* event-time timers registered for every key
    main,       \* history: what was yielded, and the highest watermark by then
    late,       \* history: positions sent to the side output
    reached,    \* history: the highest watermark
    snapshot,   \* the last checkpoint
    restarts

operator == <<seen, timers>>
histories == <<main, late, reached>>
dedupVars == <<topic, position, watermark, seen, timers, main, late, reached,
               snapshot, restarts>>

(* The watermark before there is one: below every event time. *)
NoWatermark == -1

(* What a checkpoint holds. The histories go with it, so that they tell what
   the surviving attempt at every element put out. *)
State == [position |-> position, seen |-> seen, timers |-> timers,
          main |-> main, late |-> late, reached |-> reached]

-----------------------------------------------------------------------------
(* process_element *)

(* The next element of the topic. *)
Element == topic[position + 1]

(* Mutation: events are late only after twice the window. *)
IsLateTwice(e) == e.time < watermark - 2 * Window

IsLate(e) == e.time < watermark - Window

(* Mutation: the flag is set before the test for lateness. *)
PutLateSeen(e) ==
    /\ IsLate(e)
    /\ late' = late \union {position + 1}
    /\ seen' = [seen EXCEPT ![e.txn] = TRUE]
    /\ UNCHANGED <<timers, main, reached>>

(* Late: to the side output, and no more. *)
PutLate(e) ==
    /\ IsLate(e)
    /\ late' = late \union {position + 1}
    /\ UNCHANGED <<operator, main, reached>>

(* Mutation: the timer is registered only for elements ahead of the watermark. *)
YieldFirstUntimed(e) ==
    /\ ~IsLate(e)
    /\ ~seen[e.txn]
    /\ seen' = [seen EXCEPT ![e.txn] = TRUE]
    /\ timers' = IF e.time > watermark
                 THEN [timers EXCEPT ![e.txn] = @ \union {e.time + Window}]
                 ELSE timers
    /\ main' = main \union {[pos |-> position + 1, reached |-> reached]}
    /\ UNCHANGED <<late, reached>>

(* First of its transaction: flagged, timed and yielded. *)
YieldFirst(e) ==
    /\ ~IsLate(e)
    /\ ~seen[e.txn]
    /\ seen' = [seen EXCEPT ![e.txn] = TRUE]
    /\ timers' = [timers EXCEPT ![e.txn] = @ \union {e.time + Window}]
    /\ main' = main \union {[pos |-> position + 1, reached |-> reached]}
    /\ UNCHANGED <<late, reached>>

(* Seen before: dropped. *)
DropDuplicate(e) ==
    /\ ~IsLate(e)
    /\ seen[e.txn]
    /\ UNCHANGED <<operator, histories>>

ProcessElement ==
    /\ position < Len(topic)
    /\ position' = position + 1
    /\ \/ PutLate(Element)
       \/ YieldFirst(Element)
       \/ DropDuplicate(Element)
    /\ UNCHANGED <<topic, watermark, snapshot, restarts>>

-----------------------------------------------------------------------------
(* on_timer *)

Fired(x, w) == {t \in timers[x] : t <= w}

(* on_timer clears the flag of every key with a timer that fires. *)
OnTimers(w) ==
    /\ timers' = [x \in Txns |-> timers[x] \ Fired(x, w)]
    /\ seen' = [x \in Txns |-> seen[x] /\ Fired(x, w) = {}]

AdvanceWatermark(w) ==
    /\ w > watermark
    /\ watermark' = w
    /\ OnTimers(w)
    /\ reached' = IF w > reached THEN w ELSE reached
    /\ UNCHANGED <<topic, position, main, late, snapshot, restarts>>

-----------------------------------------------------------------------------
(* The job around the function. *)

Produce(x, t) ==
    /\ Len(topic) < MaxElements
    /\ topic' = Append(topic, [txn |-> x, time |-> t])
    /\ UNCHANGED <<position, watermark, operator, histories, snapshot, restarts>>

Checkpoint ==
    /\ snapshot' = State
    /\ UNCHANGED <<topic, position, watermark, operator, histories, restarts>>

(* Mutation: the keyed state is not restored, so only the position is. *)
RestartStateless ==
    /\ restarts < MaxRestarts
    /\ restarts' = restarts + 1
    /\ position' = snapshot.position
    /\ watermark' = NoWatermark
    /\ seen' = [x \in Txns |-> FALSE]
    /\ timers' = [x \in Txns |-> {}]
    /\ main' = snapshot.main
    /\ late' = snapshot.late
    /\ reached' = snapshot.reached
    /\ UNCHANGED <<topic, snapshot>>

(* The job fails and restarts from its last checkpoint. *)
Restart ==
    /\ restarts < MaxRestarts
    /\ restarts' = restarts + 1
    /\ position' = snapshot.position
    /\ watermark' = NoWatermark
    /\ seen' = snapshot.seen
    /\ timers' = snapshot.timers
    /\ main' = snapshot.main
    /\ late' = snapshot.late
    /\ reached' = snapshot.reached
    /\ UNCHANGED <<topic, snapshot>>

DedupInit ==
    /\ topic = <<>>
    /\ position = 0
    /\ watermark = NoWatermark
    /\ seen = [x \in Txns |-> FALSE]
    /\ timers = [x \in Txns |-> {}]
    /\ main = {}
    /\ late = {}
    /\ reached = NoWatermark
    /\ snapshot = State
    /\ restarts = 0

DedupNext ==
    \/ ProcessElement
    \/ \E w \in Watermarks : AdvanceWatermark(w)
    \/ \E x \in Txns, t \in Times : Produce(x, t)
    \/ Checkpoint
    \/ Restart

DedupSpec == DedupInit /\ [][DedupNext]_dedupVars

-----------------------------------------------------------------------------
(* Properties. *)

Yields == [pos : 1..position, reached : Watermarks \union {NoWatermark}]

(* Every variable holds a value of its kind. *)
DedupTypeOK ==
    /\ topic \in Seq([txn : Txns, time : Times])
    /\ position \in 0..Len(topic)
    /\ watermark \in Watermarks \union {NoWatermark}
    /\ seen \in [Txns -> BOOLEAN]
    /\ timers \in [Txns -> SUBSET Nat]
    /\ main \subseteq Yields
    /\ late \subseteq 1..position
    /\ reached \in Watermarks \union {NoWatermark}
    /\ watermark <= reached
    /\ restarts \in Nat

(* No state is left behind and none is lost, through timers registered behind
   the watermark and restarts: a key is flagged as long as, and only as long
   as, exactly one timer waits to clear it. *)
SeenHasTimer ==
    \A x \in Txns :
        IF seen[x] THEN \E t \in timers[x] : timers[x] = {t} ELSE timers[x] = {}

(* No element disappears: each one taken is in the side output, and then the
   watermark has passed its window, or its transaction was yielded. *)
NothingDropped ==
    \A p \in 1..position :
        \/ p \in late /\ topic[p].time + Window < reached
        \/ \E y \in main : y.pos <= p /\ topic[y.pos].txn = topic[p].txn

(* dedup_stream.py:29, "emits each txn_id once per 1-hour window": however the
   events of a transaction are ordered in time, it is yielded a second time
   only after the watermark has reached the end of the first one's window;
   restarts, which forget the watermark, do not change that. *)
RepeatsOnlyAfterWindow ==
    \A a, b \in main :
        a.pos < b.pos /\ topic[a.pos].txn = topic[b.pos].txn
            => topic[a.pos].time + Window <= b.reached

(* An exact copy (same transaction, same event time) is either a duplicate or
   late, except where the two tests do not meet: the timer fires at
   event time + window, and only beyond it is the copy late. Unless there was
   a restart, that one instant is the only one that lets a copy through. *)
CopiesOnlyAtBoundary ==
    restarts = 0 =>
        \A a, b \in main :
            a.pos < b.pos /\ topic[a.pos] = topic[b.pos]
                => b.reached = topic[a.pos].time + Window

=============================================================================
