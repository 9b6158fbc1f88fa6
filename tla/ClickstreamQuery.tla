-------------------------- MODULE ClickstreamQuery --------------------------
(***************************************************************************)
(* The two queries of jobs/clickstream_aggregation.py, each a stateful     *)
(* aggregate of transforms/windowing.py over the same clicks, with its own *)
(* checkpoint, output mode and ClickHouse table: page views in sliding     *)
(* windows (update mode) and sessions (append mode). They share nothing    *)
(* but the driver, so a behaviour is about one of them.                    *)
(*                                                                         *)
(* Time is counted in slides. Spark 3.5 drops the clicks that were late    *)
(* before the batch, by the watermark of the batch before it, and evicts   *)
(* state by the watermark of the batch itself; both follow from the        *)
(* checkpoint, so a replayed batch uses the same.                          *)
(***************************************************************************)
EXTENDS ClickHouseSink, FiniteSetsExt

CONSTANTS
    Users,      \* the grouping columns: country and device, or user_id
    ClickTimes, \* event times of the clicks
    Duration,   \* window_duration of sliding_window
    Gap,        \* session_gap of session_window
    Delay       \* watermark_delay

ASSUME WindowAssumption ==
    /\ ClickTimes \subseteq Nat
    /\ Duration \in Nat \ {0}
    /\ Gap \in Nat \ {0}
    /\ Delay \in Nat

VARIABLES
    query,    \* which of the two queries: "windows" or "sessions"
    clicks,   \* the records of the topic
    state,    \* the state store, in the version of the last committed batch
    executed  \* this run of the driver has executed a batch

clickVars == <<clickHouseVars, query, clicks, state, executed>>

(* Before there is a watermark: below every window's end. *)
NoWatermark == -(Delay + 1)

(* The event times of the batches before batch n. *)
TimesBefore(n) == {clicks[p].time : p \in (startPos + 1)..offsetLog[n - 1]}

(* The watermark batch n runs with: the largest event time of the batches
   before it, less the delay. *)
Watermark(n) ==
    IF n < 2 \/ TimesBefore(n) = {} THEN NoWatermark ELSE Max(TimesBefore(n)) - Delay

(* The sum of their counts: row by row, numbered from 1. *)
Total(rows) == Cardinality(UNION {{row} \X (1..row.count) : row \in rows})

-----------------------------------------------------------------------------
(* What the batch does to the state store and what it sends to the sink. *)

BatchClicks == (from + 1)..until

(* Mutation: a late click still opens a new window or session. *)
NotLateIgnored(end) == TRUE

(* A click or window that had not ended before the batch is not late. *)
NotLate(end) == end > Watermark(batch - 1)

(* F.window: the starts of the windows that an event time is in. *)
WindowsOf(time) == (time - Duration + 1)..time

(* sliding_window: the windows the batch has added clicks to. *)
UpdatedWindows ==
    {[user |-> key[1], start |-> key[2], end |-> key[2] + Duration,
      count |-> Cardinality({p \in BatchClicks :
                                clicks[p].user = key[1] /\ key[2] \in WindowsOf(clicks[p].time)})
                  + Total({w \in state : w.user = key[1] /\ w.start = key[2]})] :
        key \in {k \in UNION {{clicks[p].user} \X WindowsOf(clicks[p].time) : p \in BatchClicks} :
                    NotLate(k[2] + Duration)}}

(* session_window: a click opens a session that lasts Gap. *)
Parts(new, open) ==
    {[start |-> clicks[p].time, end |-> clicks[p].time + Gap] : p \in new}
        \union {[start |-> s.start, end |-> s.end] : s \in open}

(* Those that meet are one: a session begins where no other one reaches ... *)
Begins(parts) ==
    {i.start : i \in {j \in parts : \A k \in parts : k.start < j.start => k.end < j.start}}

(* ... and has what starts before the next one begins. *)
Within(begins, begin, start) ==
    begin <= start /\ \A b \in begins : b > begin => start < b

(* The sessions a user's new clicks and open sessions make. *)
Merged(user, new, open) ==
    LET parts == Parts(new, open)
        begins == Begins(parts)
    IN {[user |-> user, start |-> b,
         end |-> Max({i.end : i \in {j \in parts : Within(begins, b, j.start)}}),
         count |-> Cardinality({p \in new : Within(begins, b, clicks[p].time)})
                     + Total({s \in open : Within(begins, b, s.start)})] : b \in begins}

SessionsOf(user) ==
    Merged(user,
           {p \in BatchClicks : clicks[p].user = user /\ NotLate(clicks[p].time + Gap)},
           {s \in state : s.user = user})

UpdatedSessions == UNION {SessionsOf(u) : u \in Users}

(* Mutation: a session ends with its last click. *)
EndedWithoutGap(row) == row.end - Gap <= Watermark(batch)

Ended(row) == row.end <= Watermark(batch)

(* Update mode sends what changed, append mode what the watermark closed. *)
BatchRows ==
    IF query = "windows" THEN UpdatedWindows
    ELSE {s \in UpdatedSessions : Ended(s)}

(* Mutation: append mode reports the sessions and does not evict them. *)
StateAfterKeepingEnded ==
    IF query = "windows"
    THEN {w \in state : \A u \in UpdatedWindows : u.user # w.user \/ u.start # w.start}
            \union UpdatedWindows
    ELSE UpdatedSessions

(* The version of the state store the batch leaves. *)
StateAfter ==
    LET kept == {w \in state : \A u \in UpdatedWindows : u.user # w.user \/ u.start # w.start}
        rows == IF query = "windows" THEN kept \union UpdatedWindows ELSE UpdatedSessions
    IN {row \in rows : ~Ended(row)}

-----------------------------------------------------------------------------
(* The query: the steps of StreamingQuery, with the clicks, the state store
   and the no-data batches. Retention is left to StreamingQuery. *)

ProduceClick ==
    /\ Produce
    /\ \E u \in Users, t \in ClickTimes : clicks' = Append(clicks, [user |-> u, time |-> t])
    /\ UNCHANGED <<store, query, state, executed>>

StartQuery ==
    /\ Start
    /\ executed' = FALSE
    /\ UNCHANGED <<store, query, clicks, state>>

(* Mutation: no no-data batches. *)
WatermarkIgnored == FALSE

(* The watermark moved past the one of the last batch: that alone is a batch,
   if this run of the driver executed the last one. *)
WatermarkMoved == executed /\ Watermark(batch) > Watermark(batch - 1)

PlanClicks ==
    /\ \/ PlanBatch
       \/ /\ phase = "idle"
          /\ startPos # NoPos
          /\ BatchEnd(from) = from
          /\ WatermarkMoved
          /\ until' = from
          /\ offsetLog' = Append(offsetLog, from)
          /\ phase' = "planned"
          /\ UNCHANGED <<topic, startPos, commitLog, batch, from, result, starts>>
    /\ UNCHANGED <<store, query, clicks, state, executed>>

ReadClicks == (ResolveStart \/ ReadBatch) /\ UNCHANGED <<store, query, clicks, state, executed>>

WriteClicks == WriteRows(BatchRows) /\ UNCHANGED <<query, clicks, state, executed>>

CommitClicks ==
    /\ CommitBatch
    /\ state' = StateAfter
    /\ executed' = TRUE
    /\ UNCHANGED <<store, query, clicks>>

CrashClicks == CrashInserting(BatchRows) /\ UNCHANGED <<query, clicks, state, executed>>

StoreClicksLate == InsertLate /\ UNCHANGED <<query, clicks, state, executed>>

ClickInit ==
    /\ Init
    /\ NoRows
    /\ query \in {"windows", "sessions"}
    /\ clicks = <<>>
    /\ state = {}
    /\ executed = FALSE

ClickNext ==
    \/ ProduceClick
    \/ StartQuery
    \/ PlanClicks
    \/ ReadClicks
    \/ WriteClicks
    \/ CommitClicks
    \/ CrashClicks
    \/ StoreClicksLate

(* The fairness of StreamingQuery: a driver that is up keeps triggering. *)
ClickFairness ==
    /\ WF_clickVars(PlanClicks)
    /\ WF_clickVars(ReadClicks)
    /\ WF_clickVars(WriteClicks)
    /\ WF_clickVars(CommitClicks)

ClickSpec == ClickInit /\ [][ClickNext]_clickVars /\ ClickFairness

-----------------------------------------------------------------------------
(* Properties. *)

(* Everything planned has been committed. *)
Settled == Len(offsetLog) = commitLog

Committed == IF startPos = NoPos THEN {} ELSE (startPos + 1)..CommittedEnd

(* A click is on time if it is at most the delay behind every click of the
   batches before its own: watermark_delay promises to wait that long. *)
OnTime(p) ==
    \E n \in 1..commitLog :
        /\ p \in (BatchStart(n) + 1)..offsetLog[n]
        /\ \A q \in (startPos + 1)..BatchStart(n) : clicks[q].time - Delay <= clicks[p].time

Clicked(user, start) == {p \in Committed : clicks[p].user = user
                                              /\ start \in WindowsOf(clicks[p].time)}

(* The fullest row of a window. *)
Shown(user, start) ==
    Max({0} \union {r.count : r \in {w \in table : w.user = user /\ w.start = start}})

WindowStarts == UNION {WindowsOf(t) : t \in ClickTimes}

(* Each window of the OLAP table counts every click that was not later than
   watermark_delay and no click twice, whatever batches failed half-way, were
   replayed or arrived after they had been given up. *)
WindowCountsWithinPromise ==
    query = "windows" /\ Settled =>
        \A u \in Users, s \in WindowStarts :
            /\ Shown(u, s) <= Cardinality(Clicked(u, s))
            /\ Cardinality({p \in Clicked(u, s) : OnTime(p)}) <= Shown(u, s)

(* A window the watermark had passed by the end of the last committed batch
   is final: no later batch, replay or late insert changes the shown count. *)
ClosedWindowsFinal ==
    [][query = "windows" =>
          \A u \in Users, s \in WindowStarts :
              s + Duration <= Watermark(commitLog) => Shown(u, s)' = Shown(u, s)]_clickVars

(* The sessions reported and those still open count, for each user, every
   click that was on time and no click twice, through crashes between the
   insert, the state store and the commit. *)
SessionsCountOnce ==
    query = "sessions" /\ Settled =>
        \A u \in Users :
            LET counted == Total({s \in table \union state : s.user = u})
                mine == {p \in Committed : clicks[p].user = u}
            IN /\ counted <= Cardinality(mine)
               /\ Cardinality({p \in mine : OnTime(p)}) <= counted

(* A user whose clicks were all on time never has two sessions that overlap:
   no report closes a session that a click on time could still extend. *)
SessionsApart ==
    query = "sessions" /\ Settled =>
        \A u \in Users :
            (\A p \in Committed : clicks[p].user = u => OnTime(p)) =>
                \A r, s \in {x \in table \union state : x.user = u} :
                    r = s \/ r.end <= s.start \/ s.end <= r.start

(* Sessions the watermark has passed are reported without waiting for another
   click, by a driver that stays up and has executed a batch since it started:
   the no-data batch. *)
ClosedSessionsReported ==
    <>[](phase # "down" /\ executed) =>
        []<>(\A s \in state : query = "sessions" => s.end > Watermark(commitLog + 1))

=============================================================================
