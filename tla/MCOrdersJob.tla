---------------------------- MODULE MCOrdersJob ----------------------------
(* Model checking of OrdersJob with two of its sinks, the first of which may *)
(* hang.                                                                     *)
EXTENDS OrdersJob

MCSinkSeq == <<"redis", "s3-iceberg">>
=============================================================================
