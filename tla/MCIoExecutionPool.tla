------------------------- MODULE MCIoExecutionPool -------------------------
(***************************************************************************)
(* The instance of IoExecutionPool for TLC: two cleanups among four calls, *)
(* so that with two ordinary workers and a queue of one, one is refused.   *)
(***************************************************************************)
EXTENDS IoExecutionPool

CONSTANTS c1, c2, o1, o2

MCCleanup == {c1, c2}
MCTasks == MCCleanup \cup {o1, o2}
=============================================================================
