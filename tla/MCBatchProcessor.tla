-------------------------- MODULE MCBatchProcessor --------------------------
(***************************************************************************)
(* Instances of BatchProcessor for TLC: more requests than the queue and   *)
(* the direct path have room for.                                          *)
(***************************************************************************)
EXTENDS BatchProcessor

CONSTANTS q1, q2, d1, d2

Submitters == {q1, q2}
Directs == {d1, d2}
=============================================================================
