--------------------------- MODULE MCUsageWriter ---------------------------
(***************************************************************************)
(* Instances of UsageWriter: three requests, a channel and a semaphore of  *)
(* one slot.                                                               *)
(***************************************************************************)
EXTENDS UsageWriter

CONSTANTS q1, q2, q3

MCHandlers == {q1, q2, q3}
=============================================================================
