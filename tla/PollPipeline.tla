---------------------------- MODULE PollPipeline ----------------------------
(***************************************************************************)
(* The task queue with its workers and the result queue with its writers,  *)
(* put together: the row that enqueue_results inserts for a task's outcome *)
(* is the row that claim_results is to find.                               *)
(*                                                                         *)
(* A result row is named by its task and its outcome, which is what the    *)
(* idempotency key tells apart within one cycle.  ProducerStatus says which *)
(* status value the producer gives to the row of an outcome:               *)
(* result_to_queue_row passes the polling status of the envelope itself,   *)
(* enqueue_results by default would insert "ready".                        *)
(***************************************************************************)
EXTENDS PollTaskQueue

CONSTANTS
  Writers,           \* writer processes
  ProducerStatus,    \* [Results -> status column of the inserted row]
  ResultBatch,       \* result_batch_size
  CrashPoints,       \* control points at which a writer may die
  MaxFailures        \* how many store failures may occur

ASSUME ProducerAssumption ==
  \A o \in Results : ProducerStatus[o] \notin {"absent", "leased", "retry_wait", "written"}

ResultRows == Tasks \X Results

VARIABLES
  rstatus, errorCode, lapsed, receipts, updated, wpc, wbatch, flagged, todo, fresh,
  pending, dups, wopen, wcrashes, failures, stranded

R == INSTANCE ResultWriter WITH
       Rows <- ResultRows,
       SampleRows <- Tasks \X FinalResults,
       SilentRows <- {},
       PublishStatuses <- {ProducerStatus[o] : o \in Results},
       BatchSize <- ResultBatch,
       pc <- wpc, batch <- wbatch, open <- wopen, crashes <- wcrashes

resultVars == <<rstatus, errorCode, lapsed, receipts, updated, wpc, wbatch, flagged, todo, fresh,
                pending, dups, wopen, wcrashes, failures, stranded>>
pipelineVars == <<vars, resultVars>>

PipelineInit == Init /\ R!Init

(* Faulty variant of Deliver: the key does not tell the outcomes apart.     *)
DeliverPerTask(w) ==
  IF \A o \in Results : rstatus[<<current[w], o>>] = "absent"
  THEN R!Publish(<<current[w], outcome[w]>>, ProducerStatus[outcome[w]])
  ELSE UNCHANGED resultVars

(* enqueue_results: the insert of a key that is there already does nothing. *)
Deliver(w) ==
  LET row == <<current[w], outcome[w]>> IN
  IF rstatus[row] = "absent"
  THEN R!Publish(row, ProducerStatus[outcome[w]])
  ELSE UNCHANGED resultVars

WorkerMove(w) ==
  /\ WorkerStep(w)
  /\ IF pc[w] = "enqueue" THEN Deliver(w) ELSE UNCHANGED resultVars

QueueMove ==
  /\ \/ \E t \in Tasks : EnqueueTask(t)
     \/ \E w \in Workers : Crash(w)
     \/ ExpireTaskLeases
     \/ Tick
  /\ UNCHANGED resultVars

ResultMove == R!RunStep /\ UNCHANGED vars

PipelineNext ==
  \/ \E w \in Workers : WorkerMove(w)
  \/ QueueMove
  \/ ResultMove

PipelineSpec == PipelineInit /\ [][PipelineNext]_pipelineVars

(* Workers and writers are scheduled for ever and time passes, as in the   *)
(* two parts.                                                              *)
FairPipelineSpec ==
  /\ PipelineSpec
  /\ \A w \in Workers : WF_pipelineVars(WorkerMove(w))
  /\ WF_pipelineVars(Tick /\ UNCHANGED resultVars)
  /\ \A w \in Writers : WF_pipelineVars(R!WriterStep(w) /\ UNCHANGED vars)
  /\ \A r \in ResultRows : WF_pipelineVars(R!LeaseLapses(r) /\ UNCHANGED vars)

-----------------------------------------------------------------------------
(* The task queue's record of what was published and the rows of the       *)
(* result queue agree, whatever workers, writers and leases do to either;  *)
(* and no task is completed before its final row is there for the writers. *)
CompletedIsQueued ==
  \A t \in Tasks :
    /\ status[t] = "completed" => \E o \in FinalResults : rstatus[<<t, o>>] # "absent"
    /\ \A o \in Results : rstatus[<<t, o>>] # "absent" <=> o \in results[t]

(* docs/snmp-scalable-engine.md, steps 6 and 7: what a worker delivers to  *)
(* poll_result_queue is persisted by the writer; a completed task has a    *)
(* final result in that queue, which is written in the end.                *)
CompletedIsWritten ==
  \A t \in Tasks :
    status[t] = "completed" ~> \E o \in FinalResults : rstatus[<<t, o>>] = "written"
=============================================================================
