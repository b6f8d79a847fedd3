----------------------------- MODULE MCRetryTime -----------------------------
(* A small instance of RetryTime, with times around the millisecond. *)
EXTENDS RetryTime

MCDelays == {0, 1200000, 5000000}
MCSamples == {999999}
MCPauses == {999999, 2000002}
MCWallTimes == {0, 4999999}
=============================================================================
