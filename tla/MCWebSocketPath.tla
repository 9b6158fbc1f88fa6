-------------------------- MODULE MCWebSocketPath --------------------------
(* Model checking of the WebSocket path. Its two halves share nothing but   *)
(* the topic ws-broadcast, to which WsBroadcast lets a record be added at   *)
(* any time, so a behaviour follows one half and lets the other stand: an   *)
(* alert from the job to the topic, or records of the topic to two clients  *)
(* of two users, one record for one of them and one for everybody.          *)
EXTENDS WebSocketSink, WsBroadcast

VARIABLE half  \* the half that is followed: "sink" or "lambdas"

MCUser == [c \in Conns |-> IF c = "c1" THEN "ana" ELSE "bob"]
MCTargets == <<{"ana"}, All>>

SinkHalf == half = "sink" /\ SinkNext /\ UNCHANGED <<broadcastVars, half>>
LambdaHalf == half = "lambdas" /\ BroadcastNext /\ UNCHANGED <<sinkVars, half>>

PathInit == SinkInit /\ BroadcastInit /\ half \in {"sink", "lambdas"}
PathNext == SinkHalf \/ LambdaHalf
PathSpec == PathInit /\ [][PathNext]_<<sinkVars, broadcastVars, half>>

(* Where the sink is followed no record is sent to the lambda, and nothing is
   asked of it. *)
FairPathSpec == PathSpec /\ BroadcastFairness
=============================================================================
