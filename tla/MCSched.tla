------------------------------- MODULE MCSched -------------------------------
(***************************************************************************)
(* A small instance of Sched.                                              *)
(***************************************************************************)
EXTENDS Sched

CONSTANTS t1, t2, t3, t4

FourTasks == {t1, t2, t3, t4}
RaxUnknown == BOOLEAN     \* rax as the calling convention leaves it
==============================================================================
