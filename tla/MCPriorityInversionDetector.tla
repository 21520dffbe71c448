-------------------- MODULE MCPriorityInversionDetector --------------------
(* PriorityInversionDetector with three tasks, the idle task among them. *)
EXTENDS PriorityInversionDetector

TaskSet == {[pid |-> p, prio |-> p] : p \in 0 .. 2}
=============================================================================
