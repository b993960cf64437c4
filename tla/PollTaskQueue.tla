---------------------------- MODULE PollTaskQueue ----------------------------
(***************************************************************************)
(* The table poll_task_queue and the leased workers that serve it          *)
(* (polling/pg_queue.py, polling/snmp_worker.py).                          *)
(*                                                                         *)
(* A worker run claims a batch of rows with FOR UPDATE SKIP LOCKED but does *)
(* not commit: the first commit of the run, which is the one of the first  *)
(* enqueue_results or defer_task, makes the whole claim durable.  Until    *)
(* then the rows are row-locked, and a crash rolls the claim back.         *)
(*                                                                         *)
(* Time is kept as what is left of each deadline: leaseLeft[t] is          *)
(* lease_expires_at - now(), eligibleIn[t] is next_eligible_at - now(), and *)
(* Tick takes one unit from all of them.  lease_owner is not modelled: the *)
(* engine runs every worker under the same default worker_id, and no       *)
(* statement the workers execute reads the column.  Neither is             *)
(* execute_attempts, which retry_task counts and nothing reads.            *)
(***************************************************************************)
EXTENDS Naturals, FiniteSets

CONSTANTS
  Tasks,             \* rows that a polling cycle may enqueue
  Workers,           \* worker processes
  NoTask,            \* "no task in hand"
  IcmpTasks,         \* the tasks whose protocol is ICMP; the others are SNMP
  FinalResults,      \* PollingResultStatus OK and CRITICAL
  FailedResults,     \* TIMEOUT, NO_DATA and ERROR
  BatchSize,         \* task_batch_size
  LeaseTTL,          \* lease_ttl_seconds
  RetryDelay,        \* the 60 s of _next_retry
  DeferDelay,        \* the 30 s a denied task is deferred for
  MaxDue,            \* how far in the future due_at may lie
  MaxCrashes,        \* how many worker runs may die or fail
  LeaseCoversBatch   \* TRUE: a live worker ends its batch within the lease TTL

Results == FinalResults \cup FailedResults
Waiting == {"available", "retry_wait", "deferred"}

ASSUME TaskAssumption ==
  /\ NoTask \notin Tasks
  /\ IcmpTasks \subseteq Tasks
ASSUME ResultAssumption == FinalResults \cap FailedResults = {}
ASSUME TimeAssumption ==
  /\ BatchSize \in Nat \ {0}
  /\ LeaseTTL \in Nat \ {0}
  /\ RetryDelay \in Nat
  /\ DeferDelay \in Nat
  /\ MaxDue \in Nat
  /\ MaxCrashes \in Nat
  /\ LeaseCoversBatch \in BOOLEAN

VARIABLES
  status,      \* [Tasks -> status column], "absent" before the row exists
  leaseLeft,   \* [Tasks -> Nat], 0 once the lease has expired or is NULL
  eligibleIn,  \* [Tasks -> Nat], 0 once the row is eligible
  results,     \* [Tasks -> SUBSET Results], rows of poll_result_queue
  pc,          \* [Workers -> control point of run_leased_snmp_worker_once]
  proto,       \* [Workers -> protocol the run is serving]
  age,         \* [Workers -> Nat], time since the run fixed observed_at
  batch,       \* [Workers -> SUBSET Tasks], claimed and not yet settled
  open,        \* the workers whose claim is not committed yet
  claimLeft,   \* [Workers -> Nat], what is left of the lease of the claim
  current,     \* [Workers -> task being executed]
  outcome,     \* [Workers -> result of the task being executed]
  crashes      \* runs that died so far

rowVars == <<status, leaseLeft, eligibleIn>>
runVars == <<proto, age, claimLeft>>
vars == <<rowVars, results, runVars, pc, batch, open, current, outcome, crashes>>

-----------------------------------------------------------------------------
TypeOK ==
  /\ status \in [Tasks -> Waiting \cup {"absent", "leased", "completed"}]
  /\ leaseLeft \in [Tasks -> 0..LeaseTTL]
  /\ eligibleIn \in [Tasks -> Nat]
  /\ results \in [Tasks -> SUBSET Results]
  /\ pc \in [Workers -> {"idle", "claim", "pick", "enqueue", "settle"}]
  /\ proto \in [Workers -> {"ICMP", "SNMP"}]
  /\ age \in [Workers -> Nat]
  /\ batch \in [Workers -> SUBSET Tasks]
  /\ open \in SUBSET Workers
  /\ claimLeft \in [Workers -> 0..LeaseTTL]
  /\ current \in [Workers -> Tasks \cup {NoTask}]
  /\ outcome \in [Workers -> Results \cup {NoTask}]
  /\ crashes \in 0..MaxCrashes

Init ==
  /\ status = [t \in Tasks |-> "absent"]
  /\ leaseLeft = [t \in Tasks |-> 0]
  /\ eligibleIn = [t \in Tasks |-> 0]
  /\ results = [t \in Tasks |-> {}]
  /\ pc = [w \in Workers |-> "idle"]
  /\ proto = [w \in Workers |-> "ICMP"]
  /\ age = [w \in Workers |-> 0]
  /\ batch = [w \in Workers |-> {}]
  /\ open = {}
  /\ claimLeft = [w \in Workers |-> 0]
  /\ current = [w \in Workers |-> NoTask]
  /\ outcome = [w \in Workers |-> NoTask]
  /\ crashes = 0

-----------------------------------------------------------------------------
(* Clock arithmetic and row predicates.                                    *)

Minus(a, b) == IF a >= b THEN a - b ELSE 0

\* Longest time a run has to be told apart from: beyond it every next_eligible_at
\* the run computes lies in the past.
MaxAge == IF RetryDelay >= DeferDelay THEN RetryDelay ELSE DeferDelay

\* Rows another transaction may not touch: the uncommitted claims.
Locked(t) == \E w \in Workers : w \in open /\ t \in batch[w]

\* A statement of w on the row of t waits while another open claim locks it.
MayUpdate(w, t) == \A v \in Workers \ {w} : ~(v \in open /\ t \in batch[v])

\* Faulty variant of Eligible, for the mutation runs: expired leases are left out.
EligibleWaitingOnly(t) == status[t] \in Waiting /\ eligibleIn[t] = 0

Eligible(t) ==
  \/ status[t] \in Waiting /\ eligibleIn[t] = 0
  \/ status[t] = "leased" /\ leaseLeft[t] = 0

ProtocolTasks(p) == IF p = "ICMP" THEN IcmpTasks ELSE Tasks \ IcmpTasks

\* Faulty variant of Claimable: FOR UPDATE without SKIP LOCKED, re-reading nothing.
ClaimableWithLocked(p) == {t \in ProtocolTasks(p) : Eligible(t)}

Claimable(p) == {t \in ProtocolTasks(p) : Eligible(t) /\ ~Locked(t)}

\* Faulty variant of CommittedStatus: the claim is rolled back, not committed.
ClaimNotCommitted(w) == status

\* The rows after the first commit of w's run: its claim becomes visible.
CommittedStatus(w) ==
  [t \in Tasks |-> IF w \in open /\ t \in batch[w] THEN "leased" ELSE status[t]]
CommittedLease(w) ==
  [t \in Tasks |-> IF w \in open /\ t \in batch[w] THEN claimLeft[w] ELSE leaseLeft[t]]

-----------------------------------------------------------------------------
(* The control plane enqueues a task of the cycle once.                    *)

EnqueueTask(t) ==
  /\ status[t] = "absent"
  /\ \E due \in 0..MaxDue : eligibleIn' = [eligibleIn EXCEPT ![t] = due]
  /\ status' = [status EXCEPT ![t] = "available"]
  /\ UNCHANGED <<leaseLeft, results, runVars, pc, batch, open, current, outcome, crashes>>

(* The scheduled job starts a run: ICMP first, then SNMP.                  *)
StartRun(w) ==
  /\ pc[w] = "idle"
  /\ pc' = [pc EXCEPT ![w] = "claim"]
  /\ proto' = [proto EXCEPT ![w] = "ICMP"]
  /\ age' = [age EXCEPT ![w] = 0]
  /\ UNCHANGED <<rowVars, results, claimLeft, batch, open, current, outcome, crashes>>

ClaimTasks(w) ==
  /\ pc[w] = "claim"
  /\ \E claim \in SUBSET Claimable(proto[w]) :
       /\ \/ Cardinality(claim) = BatchSize
          \/ Cardinality(claim) < BatchSize /\ claim = Claimable(proto[w])
       /\ batch' = [batch EXCEPT ![w] = claim]
       /\ open' = IF claim # {} THEN open \cup {w} ELSE open
  /\ claimLeft' = [claimLeft EXCEPT ![w] = LeaseTTL]
  /\ pc' = [pc EXCEPT ![w] = "pick"]
  /\ UNCHANGED <<rowVars, results, proto, age, current, outcome, crashes>>

(* The safety limiter denies the task: defer_task and its commit.          *)
DeferTask(w, t) ==
  /\ pc[w] = "pick"
  /\ t \in batch[w]
  /\ MayUpdate(w, t)
  /\ status' = [CommittedStatus(w) EXCEPT ![t] = "deferred"]
  /\ leaseLeft' = [CommittedLease(w) EXCEPT ![t] = 0]
  /\ eligibleIn' = [eligibleIn EXCEPT ![t] = Minus(DeferDelay, age[w])]
  /\ open' = open \ {w}
  /\ batch' = [batch EXCEPT ![w] = @ \ {t}]
  /\ UNCHANGED <<results, runVars, pc, current, outcome, crashes>>

(* Faulty variant of ExecuteTask: the task is settled before its result is published. *)
ExecuteWithoutPublishing(w, t, r) ==
  /\ pc[w] = "pick"
  /\ t \in batch[w]
  /\ pc' = [pc EXCEPT ![w] = "settle"]
  /\ current' = [current EXCEPT ![w] = t]
  /\ outcome' = [outcome EXCEPT ![w] = r]
  /\ UNCHANGED <<rowVars, results, runVars, batch, open, crashes>>

(* execute_poll_task: every failure of the fetcher becomes a result.       *)
ExecuteTask(w, t, r) ==
  /\ pc[w] = "pick"
  /\ t \in batch[w]
  /\ pc' = [pc EXCEPT ![w] = "enqueue"]
  /\ current' = [current EXCEPT ![w] = t]
  /\ outcome' = [outcome EXCEPT ![w] = r]
  /\ UNCHANGED <<rowVars, results, runVars, batch, open, crashes>>

(* enqueue_results inserts the result unless its key is there, and commits. *)
EnqueueResult(w) ==
  /\ pc[w] = "enqueue"
  /\ results' = [results EXCEPT ![current[w]] = @ \cup {outcome[w]}]
  /\ status' = CommittedStatus(w)
  /\ leaseLeft' = CommittedLease(w)
  /\ open' = open \ {w}
  /\ pc' = [pc EXCEPT ![w] = "settle"]
  /\ UNCHANGED <<eligibleIn, runVars, batch, current, outcome, crashes>>

CompleteTask(w) ==
  LET t == current[w] IN
  /\ pc[w] = "settle"
  /\ outcome[w] \in FinalResults
  /\ MayUpdate(w, t)
  /\ status' = [status EXCEPT ![t] = "completed"]
  /\ leaseLeft' = [leaseLeft EXCEPT ![t] = 0]
  /\ batch' = [batch EXCEPT ![w] = @ \ {t}]
  /\ pc' = [pc EXCEPT ![w] = "pick"]
  /\ current' = [current EXCEPT ![w] = NoTask]
  /\ outcome' = [outcome EXCEPT ![w] = NoTask]
  /\ UNCHANGED <<eligibleIn, results, runVars, open, crashes>>

RetryTask(w) ==
  LET t == current[w] IN
  /\ pc[w] = "settle"
  /\ outcome[w] \notin FinalResults
  /\ MayUpdate(w, t)
  /\ status' = [status EXCEPT ![t] = "retry_wait"]
  /\ leaseLeft' = [leaseLeft EXCEPT ![t] = 0]
  /\ eligibleIn' = [eligibleIn EXCEPT ![t] = Minus(RetryDelay, age[w])]
  /\ batch' = [batch EXCEPT ![w] = @ \ {t}]
  /\ pc' = [pc EXCEPT ![w] = "pick"]
  /\ current' = [current EXCEPT ![w] = NoTask]
  /\ outcome' = [outcome EXCEPT ![w] = NoTask]
  /\ UNCHANGED <<results, runVars, open, crashes>>

(* The batch is done: the SNMP rows are next, or the run ends.             *)
NextProtocol(w) ==
  /\ pc[w] = "pick"
  /\ batch[w] = {}
  /\ \/ /\ proto[w] = "ICMP"
        /\ proto' = [proto EXCEPT ![w] = "SNMP"]
        /\ pc' = [pc EXCEPT ![w] = "claim"]
     \/ /\ proto[w] = "SNMP"
        /\ pc' = [pc EXCEPT ![w] = "idle"]
        /\ UNCHANGED proto
  /\ UNCHANGED <<rowVars, results, age, claimLeft, batch, open, current, outcome, crashes>>

(* The process dies, or a statement raises and job() closes the session:   *)
(* what was not committed is rolled back, what was stays leased.           *)
Crash(w) ==
  /\ pc[w] # "idle"
  /\ crashes < MaxCrashes
  /\ crashes' = crashes + 1
  /\ pc' = [pc EXCEPT ![w] = "idle"]
  /\ batch' = [batch EXCEPT ![w] = {}]
  /\ open' = open \ {w}
  /\ current' = [current EXCEPT ![w] = NoTask]
  /\ outcome' = [outcome EXCEPT ![w] = NoTask]
  /\ UNCHANGED <<rowVars, results, runVars>>

Expired == {t \in Tasks : status[t] = "leased" /\ leaseLeft[t] = 0}

(* Maintenance: expire_task_leases waits for the rows a claim has locked.  *)
ExpireTaskLeases ==
  /\ Expired # {}
  /\ \A t \in Expired : ~Locked(t)
  /\ status' = [t \in Tasks |-> IF t \in Expired THEN "retry_wait" ELSE status[t]]
  /\ UNCHANGED <<leaseLeft, eligibleIn, results, runVars,
                 pc, batch, open, current, outcome, crashes>>

(* One unit of time.  With LeaseCoversBatch the lease TTL is sized as      *)
(* docs/polling-pipeline-tuning.md asks: no live batch outlives its lease. *)
Tick ==
  /\ LeaseCoversBatch => \A w \in Workers : batch[w] # {} => claimLeft[w] > 1
  /\ leaseLeft' = [t \in Tasks |-> Minus(leaseLeft[t], 1)]
  /\ eligibleIn' = [t \in Tasks |-> Minus(eligibleIn[t], 1)]
  /\ claimLeft' = [w \in Workers |-> Minus(claimLeft[w], 1)]
  /\ age' = [w \in Workers |-> IF age[w] < MaxAge THEN age[w] + 1 ELSE age[w]]
  /\ UNCHANGED <<status, results, proto, pc, batch, open, current, outcome, crashes>>

Settle(w) == CompleteTask(w) \/ RetryTask(w)

WorkerStep(w) ==
  \/ StartRun(w)
  \/ ClaimTasks(w)
  \/ \E t \in Tasks : DeferTask(w, t)
  \/ \E t \in Tasks, r \in Results : ExecuteTask(w, t, r)
  \/ EnqueueResult(w)
  \/ Settle(w)
  \/ NextProtocol(w)

Next ==
  \/ \E t \in Tasks : EnqueueTask(t)
  \/ \E w \in Workers : WorkerStep(w)
  \/ \E w \in Workers : Crash(w)
  \/ ExpireTaskLeases
  \/ Tick

Spec == Init /\ [][Next]_vars

(* The job is scheduled every 10 s, every poll has a timeout and the clock *)
(* runs: workers and time make progress.  Crashes, enqueues and            *)
(* maintenance are never required to happen.                               *)
FairSpec ==
  /\ Spec
  /\ WF_vars(Tick)
  /\ \A w \in Workers : WF_vars(WorkerStep(w))

-----------------------------------------------------------------------------
(* Properties.                                                             *)

(* A completed task has left a final (OK or CRITICAL) result in            *)
(* poll_result_queue, however its workers crashed, lost their lease or     *)
(* raced: run_leased_snmp_worker_once publishes before it completes.       *)
CompletedHasResult ==
  \A t \in Tasks : status[t] = "completed" => results[t] \cap FinalResults # {}

(* Two uncommitted claims never hold the same row: claim_tasks skips the   *)
(* rows that FOR UPDATE has locked for another worker.                     *)
OpenClaimsDisjoint ==
  \A v, w \in Workers :
    v # w /\ v \in open /\ w \in open => batch[v] \cap batch[w] = {}

(* While every batch fits in its lease, no task is in the hands of two     *)
(* workers: neither the uncommitted claim nor the lease can be claimed.    *)
OneWorkerPerTask ==
  \A v, w \in Workers : v # w => batch[v] \cap batch[w] = {}

(* While every batch fits in its lease, a task in a live worker's hands is *)
(* protected by the row's lease from the first commit on.                  *)
BatchIsLeased ==
  \A w \in Workers : \A t \in batch[w] :
    w \notin open => status[t] = "leased" /\ leaseLeft[t] >= 1

(* While every batch fits in its lease, a completed task never goes back   *)
(* to the queue: no late retry or defer of another worker reaches it.      *)
CompletedIsFinal ==
  [][\A t \in Tasks : status[t] = "completed" => status'[t] = "completed"]_vars

(* Leases, row locks and the two commits between a result and the end of   *)
(* its task are invisible from outside, while every batch fits in its      *)
(* lease: the table is a work queue whose items are finished only by the   *)
(* worker that holds them and only behind a final result.                  *)
Work == INSTANCE WorkQueue WITH
          Items <- Tasks,
          queued <- {t \in Tasks : status[t] # "absent"},
          held <- batch,
          served <- {t \in Tasks : results[t] \cap FinalResults # {}},
          lost <- {},
          finished <- {t \in Tasks : status[t] = "completed"}
TasksAreWork == Work!Spec

(* Every row that is not completed gets a worker again, even after its     *)
(* worker died with the lease: expired leases are claimable.               *)
EveryTaskIsAttended ==
  \A t \in Tasks :
    status[t] \notin {"absent", "completed"}
      ~> (status[t] = "completed" \/ \E w \in Workers : t \in batch[w])
=============================================================================
