--------------------------- MODULE MCWsBroadcast ---------------------------
(* Model checking of WsBroadcast alone: two clients of two users, a record  *)
(* for one of them and one for everybody.                                   *)
EXTENDS WsBroadcast

MCUser == [c \in Conns |-> IF c = "c1" THEN "ana" ELSE "bob"]
MCTargets == <<{"ana"}, All>>
=============================================================================
