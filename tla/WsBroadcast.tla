---------------------------- MODULE WsBroadcast ----------------------------
(***************************************************************************)
(* The way of a broadcast record to the clients: the lambdas $connect and  *)
(* $disconnect (lambdas/ws_connect.py, lambdas/ws_disconnect.py) keep a    *)
(* registry of connections, the broadcast lambda (lambdas/ws_broadcast.py) *)
(* is invoked with the records of ws-broadcast, looks up the connections   *)
(* a record is for and posts it to each of them.                           *)
(*                                                                         *)
(* API Gateway answers a post to a connection that is not open with        *)
(* GoneException; while $connect runs the connection is not open yet.      *)
(* DynamoDB answers scans and queries of an index from copies that follow  *)
(* the table, after any time. The topic has one partition; what the sink   *)
(* writes to it is WebSocketSink's.                                        *)
(***************************************************************************)
EXTENDS Integers, FiniteSets

CONSTANTS
    MaxRecords, \* bound: records the WebSocket sink writes to ws-broadcast
    Conns,      \* connection ids; API Gateway never uses one twice
    User,       \* the user of every connection
    Targets,    \* user_targets of every record: a set of users, or All
    All,        \* "*"
    MaxDeaths,  \* bound: invocations that fail
    PageSize    \* how many items one answer of DynamoDB holds

ASSUME ClientAssumption ==
    /\ {MaxRecords, MaxDeaths} \subseteq Nat
    /\ DOMAIN User = Conns
    /\ DOMAIN Targets = 1..MaxRecords
    /\ PageSize \in Nat \ {0}
    /\ IsFiniteSet(Conns)

VARIABLES
    sent,     \* the length of ws-broadcast; a record is known by its place
    socket,   \* API Gateway: new, connecting, open, closed
    registry, \* DynamoDB: the connections registered
    lagging,  \* connections whose last write not every copy of the registry has
    offset,   \* the consumer group: records of ws-broadcast done with
    call,     \* the lambda: its stage, its record, its last record, whom to post to
    got,      \* the records every client has received
    missed,   \* history: <<client, record>> given up in its last attempt
    owed,     \* history: <<client, record>> sent while the client was connected
    evicted,  \* history: connections removed from the registry as gone
    cut,      \* history: records whose last lookup did not fit into a page
    deaths    \* invocations that have failed

table == <<registry, lagging, evicted>>
lambda == <<offset, call, got, missed, cut, deaths>>
broadcastVars == <<sent, socket, table, owed, lambda>>

Sockets == {"new", "connecting", "open", "closed"}
IdleCall == [stage |-> "idle", at |-> 0, last |-> 0, todo |-> {}]

IsFor(c, r) == Targets[r] = All \/ User[c] \in Targets[r]

(* One answer of DynamoDB: as many items as fit, whichever they are. *)
Pages(S) ==
    IF Cardinality(S) <= PageSize
    THEN {S}
    ELSE {T \in SUBSET S : Cardinality(T) = PageSize}

(* A client is connected for good when its connection is open and every copy
   of the registry knows it. *)
Connected(c) == socket[c] = "open" /\ c \notin lagging

(* The WebSocket sink's producer. *)
Send ==
    /\ sent < MaxRecords
    /\ sent' = sent + 1
    /\ owed' = owed \union {<<c, sent + 1>> : c \in {d \in Conns : Connected(d) /\ IsFor(d, sent + 1)}}
    /\ UNCHANGED <<socket, table, lambda>>

-----------------------------------------------------------------------------
(* Clients and the registry. *)

(* $connect stores the item; the client's handshake is still under way. *)
Connect(c) ==
    /\ socket[c] = "new"
    /\ socket' = [socket EXCEPT ![c] = "connecting"]
    /\ registry' = registry \union {c}
    /\ lagging' = lagging \union {c}
    /\ UNCHANGED <<sent, evicted, owed, lambda>>

(* $connect has answered 200: the connection is open. *)
Open(c) ==
    /\ socket[c] = "connecting"
    /\ socket' = [socket EXCEPT ![c] = "open"]
    /\ UNCHANGED <<sent, table, owed, lambda>>

(* The client leaves, or gives up during the handshake. *)
Close(c) ==
    /\ socket[c] \in {"connecting", "open"}
    /\ socket' = [socket EXCEPT ![c] = "closed"]
    /\ UNCHANGED <<sent, table, owed, lambda>>

(* delete_item; an item that is not there is left alone. *)
Delete(c) ==
    /\ registry' = registry \ {c}
    /\ lagging' = lagging \union ({c} \intersect registry)

(* $disconnect, or the item's time to live, removes the item: or neither does
   for long, since $disconnect ignores its failures. *)
Disconnect(c) ==
    /\ socket[c] = "closed"
    /\ c \in registry
    /\ Delete(c)
    /\ UNCHANGED <<sent, socket, evicted, owed, lambda>>

(* The last write of an item has reached all copies and the index. *)
Replicate(c) ==
    /\ c \in lagging
    /\ lagging' = lagging \ {c}
    /\ UNCHANGED <<sent, socket, registry, evicted, owed, lambda>>

-----------------------------------------------------------------------------
(* The broadcast lambda. *)

(* The event source mapping hands it all records that are new. *)
Invoke ==
    /\ call.stage = "idle"
    /\ offset < sent
    /\ call' = [stage |-> "find", at |-> offset + 1, last |-> sent, todo |-> {}]
    /\ UNCHANGED <<sent, socket, table, owed, offset, got, missed, cut, deaths>>

(* The connections of the record's users that a read shows: those registered,
   but for items that lag behind their last write, which may show or not. *)
Readable(shown) == {c \in (registry \ lagging) \union shown : IsFor(c, call.at)}

(* The items asked for: one scan for everybody, one query for each user. *)
Queries ==
    IF Targets[call.at] = All
    THEN {Conns}
    ELSE {{c \in Conns : User[c] = u} : u \in Targets[call.at]}

(* What the lambda goes on with: the first page of every answer. *)
FirstPages(readable) ==
    {found \in SUBSET readable :
        \A q \in Queries : found \intersect q \in Pages(readable \intersect q)}

CutAfter(readable) ==
    IF \E q \in Queries : Cardinality(readable \intersect q) > PageSize
    THEN cut \union {call.at}
    ELSE cut \ {call.at}

(* Mutation: user_targets is not looked at. *)
FindEveryone ==
    /\ call.stage = "find"
    /\ \E found \in Pages(registry) :
          call' = [call EXCEPT !.stage = "push", !.todo = found]
    /\ missed' = missed \ (Conns \X {call.at})
    /\ UNCHANGED <<sent, socket, table, owed, offset, got, cut, deaths>>

(* _find_connection_ids. *)
Find ==
    /\ call.stage = "find"
    /\ \E shown \in SUBSET lagging :
          /\ \E found \in FirstPages(Readable(shown)) :
                call' = [call EXCEPT !.stage = "push", !.todo = found]
          /\ cut' = CutAfter(Readable(shown))
    /\ missed' = missed \ (Conns \X {call.at})
    /\ UNCHANGED <<sent, socket, table, owed, offset, got, deaths>>

(* Mutation: an error of DynamoDB ends the invocation. *)
FindFailedRaised ==
    /\ call.stage = "find"
    /\ call' = IdleCall
    /\ missed' = missed \union (Conns \X {call.at})
    /\ UNCHANGED <<sent, socket, table, owed, offset, got, cut, deaths>>

(* DynamoDB fails: the record counts as failed, the next one follows. *)
FindFailed ==
    /\ call.stage = "find"
    /\ call' = [call EXCEPT !.stage = "push", !.todo = {}]
    /\ missed' = missed \union (Conns \X {call.at})
    /\ UNCHANGED <<sent, socket, table, owed, offset, got, cut, deaths>>

Pushed(c) == call' = [call EXCEPT !.todo = @ \ {c}]

Push(c) ==
    /\ socket[c] = "open"
    /\ got' = [got EXCEPT ![c] = @ \union {call.at}]
    /\ Pushed(c)
    /\ UNCHANGED <<table, missed>>

(* Mutation: whatever the error, the connection is taken for stale. *)
PushFailedEvicts(c) ==
    /\ missed' = missed \union {<<c, call.at>>}
    /\ Delete(c)
    /\ Pushed(c)
    /\ UNCHANGED <<evicted, got>>

(* Any other error than GoneException is logged and counted. *)
PushFailed(c) ==
    /\ missed' = missed \union {<<c, call.at>>}
    /\ Pushed(c)
    /\ UNCHANGED <<table, got>>

(* A connection that is gone, or not open yet, is removed. *)
Evict(c) ==
    /\ Delete(c)
    /\ evicted' = evicted \union {c}

PushGone(c) ==
    /\ socket[c] # "open"
    /\ Evict(c)
    /\ Pushed(c)
    /\ UNCHANGED <<got, missed>>

(* delete_item raises out of the loop, done or not: nobody else gets the record. *)
PushGoneRaised(c) ==
    /\ socket[c] # "open"
    /\ Evict(c) \/ UNCHANGED table
    /\ missed' = missed \union (call.todo \X {call.at})
    /\ call' = [call EXCEPT !.todo = {}]
    /\ UNCHANGED got

PostToConnection ==
    /\ call.stage = "push"
    /\ \E c \in call.todo :
          Push(c) \/ PushFailed(c) \/ PushGone(c) \/ PushGoneRaised(c)
    /\ UNCHANGED <<sent, socket, owed, offset, cut, deaths>>

NextRecord ==
    /\ call.stage = "push"
    /\ call.todo = {}
    /\ call.at < call.last
    /\ call' = [call EXCEPT !.stage = "find", !.at = @ + 1]
    /\ UNCHANGED <<sent, socket, table, owed, offset, got, missed, cut, deaths>>

(* The handler answers 200, whatever failed, and the offsets are committed. *)
Answer ==
    /\ call.stage = "push"
    /\ call.todo = {}
    /\ call.at = call.last
    /\ offset' = call.last
    /\ call' = IdleCall
    /\ UNCHANGED <<sent, socket, table, owed, got, missed, cut, deaths>>

(* The invocation fails or takes longer than its 60 seconds: the same records
   are handed out again. *)
LambdaDies ==
    /\ call.stage # "idle"
    /\ deaths < MaxDeaths
    /\ deaths' = deaths + 1
    /\ call' = IdleCall
    /\ UNCHANGED <<sent, socket, table, owed, offset, got, missed, cut>>

-----------------------------------------------------------------------------
(* The specification. *)

BroadcastInit ==
    /\ sent = 0
    /\ socket = [c \in Conns |-> "new"]
    /\ registry = {}
    /\ lagging = {}
    /\ offset = 0
    /\ call = IdleCall
    /\ got = [c \in Conns |-> {}]
    /\ missed = {}
    /\ owed = {}
    /\ evicted = {}
    /\ cut = {}
    /\ deaths = 0

Lambda == Invoke \/ Find \/ FindFailed \/ PostToConnection \/ NextRecord \/ Answer

BroadcastNext ==
    \/ Send
    \/ \E c \in Conns : Connect(c) \/ Open(c) \/ Close(c) \/ Disconnect(c) \/ Replicate(c)
    \/ Lambda
    \/ LambdaDies

BroadcastSpec == BroadcastInit /\ [][BroadcastNext]_broadcastVars

(* Lambda invokes the handler as long as there are records, and the handler's
   calls end. *)
BroadcastFairness == WF_broadcastVars(Lambda)

-----------------------------------------------------------------------------
(* Properties. *)

BroadcastTypeOK ==
    /\ sent \in 0..MaxRecords
    /\ socket \in [Conns -> Sockets]
    /\ registry \subseteq {c \in Conns : socket[c] # "new"}
    /\ lagging \subseteq {c \in Conns : socket[c] # "new"}
    /\ offset \in 0..sent
    /\ call \in [stage : {"idle", "find", "push"}, at : 0..sent,
                 last : 0..sent, todo : SUBSET Conns]
    /\ got \in [Conns -> SUBSET (1..sent)]
    /\ missed \subseteq Conns \X (1..sent)
    /\ owed \subseteq Conns \X (1..sent)
    /\ evicted \subseteq Conns
    /\ cut \subseteq 1..sent
    /\ deaths \in 0..MaxDeaths

(* A record is shown to its own users only, whatever is looked up, evicted or
   repeated in between. *)
TargetedOnly == \A c \in Conns : \A r \in got[c] : IsFor(c, r)

(* What a client that has not left was owed, and the lambda is done with, it
   has received, or the post failed in the record's last attempt. *)
Served(c, i) ==
    <<c, i>> \in owed /\ socket[c] = "open" => i \in got[c] \/ <<c, i>> \in missed

(* docs/ARCHITECTURE.md:76, "calls postToConnection for each active connection":
   no client that was connected when a record was sent, and still is, is passed
   over. Not so: a post during the handshake removes the client's item for good
   (ws_broadcast.py:61), and a second page is never asked for (line 84). *)
EveryActiveConnectionServed == \A c \in Conns, i \in 1..offset : Served(c, i)

(* Nothing else passes a client over. Whoever has not been taken for gone is
   served with every record whose lookup fitted into its pages: stale reads,
   failing invocations and their repetition, posts that fail, and other clients
   that come, go and are removed take it from no one. *)
ConnectedClientsServed ==
    \A c \in Conns, i \in 1..offset :
        c \notin evicted /\ i \notin cut => Served(c, i)

(* A record that cannot be broadcast does not hold up those behind it: since
   invocations do not fail for ever, the lambda gets done with every record. *)
BroadcastDrains ==
    \A n \in 1..MaxRecords : sent >= n ~> offset >= n

=============================================================================
