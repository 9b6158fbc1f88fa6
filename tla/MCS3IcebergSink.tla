-------------------------- MODULE MCS3IcebergSink --------------------------
(* Model checking of S3IcebergSink: the second of five events is a delete,  *)
(* which the job drops, so that there are empty and partly filtered batches. *)
EXTENDS S3IcebergSink

MCOp == <<"c", "d", "u", "c", "u">>
MCLsn == <<10, 11, 12, 13, 14>>
=============================================================================
