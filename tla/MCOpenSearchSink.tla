-------------------------- MODULE MCOpenSearchSink --------------------------
(* Model checking of OpenSearchSink on two topics. In the first every change *)
(* has its own LSN, but for one event whose envelope has none; one order has *)
(* no order_ts and one has a text that is no date. In the second, two rows   *)
(* of an initial snapshot share the LSN the snapshot was taken at.           *)
EXTENDS OpenSearchSink

MCOp == <<"c", "u", "c", "c">>
MCLsn == <<10, NoLsn, 12, NoLsn>>
MCOrderDay == <<20240501, NoDay, BadDay, NoDay>>

MCSnapshotOp == <<"r", "r", "u">>
MCSnapshotLsn == <<10, 10, 11>>
MCSnapshotOrderDay == <<20240501, 20240501, 20240501>>
=============================================================================
