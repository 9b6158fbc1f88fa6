---------------------------- MODULE MCRedisSink ----------------------------
(* Model checking of RedisSink: two changes of one order, the second with a  *)
(* product the catalog does not know (so without a name), and an event       *)
(* without an order_id, which is stored under its token.                     *)
EXTENDS RedisSink

MCOp == <<"c", "u", "c">>
MCLsn == <<10, 11, NoLsn>>
MCOrderId == <<"o1", "o1", NoOrder>>
MCFields == <<{"product_id", "product_name"}, {"product_id"}, {"product_id"}>>
=============================================================================
