--------------------------- MODULE MCPollTaskQueue ---------------------------
(***************************************************************************)
(* PollTaskQueue with two workers and two SNMP tasks that may share a      *)
(* batch.  The ICMP half of a run is served in MCPollPipeline.             *)
(***************************************************************************)
EXTENDS PollTaskQueue, TLC

CONSTANTS s1, s2, w1, w2

MCWorkers == {w1, w2}
MCTasks == {s1, s2}
MCNone == {}
=============================================================================
