---------------------------- MODULE MCPollPipeline ----------------------------
(***************************************************************************)
(* PollPipeline with one ICMP task, one worker and one writer, with the    *)
(* two kinds of producer status.                                           *)
(***************************************************************************)
EXTENDS PollPipeline, TLC

CONSTANTS t1, w1, v1

MCTasks == {t1}
MCWorkers == {w1}
MCWriters == {v1}
MCPoints == {"check", "dups", "persist", "retry_samples", "events",
             "retry_events", "complete"}

\* result_to_queue_row: the row gets the polling status of the envelope.
EnvelopeStatus == [o \in Results |-> o]
\* The default of enqueue_results.
DefaultStatus == [o \in Results |-> "ready"]
=============================================================================
