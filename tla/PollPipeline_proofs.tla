------------------------ MODULE PollPipeline_proofs ------------------------
(***************************************************************************)
(* Proofs about PollTaskQueue for every set of tasks and workers and every *)
(* value of the delays, and from there about PollPipeline, where the rows  *)
(* that the workers publish have writers.                                  *)
(***************************************************************************)
EXTENDS PollPipeline, TLAPS

(* What the control points of a worker say of its variables.               *)
ControlShape ==
  \A w \in Workers :
    /\ pc[w] \in {"idle", "claim"} => batch[w] = {}
    /\ pc[w] \in {"enqueue", "settle"} => /\ current[w] \in batch[w]
                                          /\ outcome[w] \in Results
    /\ w \in open => pc[w] \in {"pick", "enqueue"} /\ batch[w] # {}

(* A worker that is about to settle a task has published its result.       *)
SettlesPublished ==
  \A w \in Workers : pc[w] = "settle" => outcome[w] \in results[current[w]]

(* What keeps a claimed row away from other workers: the row lock of an    *)
(* uncommitted claim, then a lease that is as long as the claim's.         *)
ClaimBacked ==
  \A w \in Workers : \A t \in batch[w] :
    /\ claimLeft[w] >= 1
    /\ w \in open => status[t] \in Waiting \cup {"leased"}
    /\ w \notin open => status[t] = "leased" /\ leaseLeft[t] = claimLeft[w]

Inv1 == TypeOK /\ ControlShape
ResultInv == CompletedHasResult /\ SettlesPublished
LeaseInv == OneWorkerPerTask /\ ClaimBacked

-----------------------------------------------------------------------------
(* Taking one number from another, and not below zero, gives a number.     *)
LEMMA MinusType == \A a, b \in Nat : Minus(a, b) \in Nat /\ Minus(a, b) <= a
  BY DEF Minus

(* The commit of a claim leaves the columns within their types.            *)
LEMMA CommitType ==
  ASSUME TypeOK, NEW w \in Workers
  PROVE  /\ CommittedStatus(w) \in [Tasks -> Waiting \cup {"absent", "leased", "completed"}]
         /\ CommittedLease(w) \in [Tasks -> 0..LeaseTTL]
  BY DEF TypeOK, CommittedStatus, CommittedLease

(* Type correctness is inductive.                                          *)
LEMMA TypeStep ==
  ASSUME Inv1, [Next]_vars
  PROVE  TypeOK'
<1> USE TaskAssumption, TimeAssumption DEF Inv1, TypeOK
<1>1. ASSUME NEW t \in Tasks, EnqueueTask(t) PROVE TypeOK'
  <2>1. PICK due \in 0..MaxDue : eligibleIn' = [eligibleIn EXCEPT ![t] = due]
    BY <1>1 DEF EnqueueTask
  <2> QED
    BY <1>1, <2>1 DEF EnqueueTask, runVars, Waiting
<1>2. ASSUME NEW w \in Workers, StartRun(w) PROVE TypeOK'
  BY <1>2 DEF StartRun, rowVars
<1>3. ASSUME NEW w \in Workers, ClaimTasks(w) PROVE TypeOK'
  <2>1. PICK claim \in SUBSET Claimable(proto[w]) :
          /\ batch' = [batch EXCEPT ![w] = claim]
          /\ open' = IF claim # {} THEN open \cup {w} ELSE open
    BY <1>3 DEF ClaimTasks
  <2>2. claim \in SUBSET Tasks
    BY DEF Claimable, ProtocolTasks
  <2> QED
    BY <1>3, <2>1, <2>2 DEF ClaimTasks, rowVars
<1>4. ASSUME NEW w \in Workers, NEW t \in Tasks, DeferTask(w, t) PROVE TypeOK'
  <2>1. Minus(DeferDelay, age[w]) \in Nat
    BY MinusType
  <2> QED
    BY <1>4, <2>1, CommitType DEF DeferTask, runVars, Waiting
<1>5. ASSUME NEW w \in Workers, NEW t \in Tasks, NEW r \in Results, ExecuteTask(w, t, r)
      PROVE TypeOK'
  BY <1>5 DEF ExecuteTask, rowVars, runVars
<1>6. ASSUME NEW w \in Workers, EnqueueResult(w) PROVE TypeOK'
  <2>1. current[w] \in Tasks /\ outcome[w] \in Results
    BY <1>6 DEF EnqueueResult, ControlShape
  <2> QED
    BY <1>6, <2>1, CommitType DEF EnqueueResult, runVars
<1>7. ASSUME NEW w \in Workers, CompleteTask(w) PROVE TypeOK'
  <2>1. current[w] \in Tasks
    BY <1>7 DEF CompleteTask, ControlShape
  <2> QED
    BY <1>7, <2>1 DEF CompleteTask, runVars
<1>8. ASSUME NEW w \in Workers, RetryTask(w) PROVE TypeOK'
  <2>1. Minus(RetryDelay, age[w]) \in Nat
    BY MinusType
  <2>2. eligibleIn' \in [Tasks -> Nat]
    BY <1>8, <2>1 DEF RetryTask
  <2>3. status' \in [Tasks -> Waiting \cup {"absent", "leased", "completed"}]
    BY <1>8 DEF RetryTask, Waiting
  <2> QED
    BY <1>8, <2>2, <2>3 DEF RetryTask, runVars
<1>9. ASSUME NEW w \in Workers, NextProtocol(w) PROVE TypeOK'
  BY <1>9 DEF NextProtocol, rowVars
<1>10. ASSUME NEW w \in Workers, Crash(w) PROVE TypeOK'
  <2>1. crashes' \in 0..MaxCrashes
    BY <1>10 DEF Crash
  <2> QED
    BY <1>10, <2>1 DEF Crash, rowVars, runVars
<1>11. CASE ExpireTaskLeases
  BY <1>11 DEF ExpireTaskLeases, runVars, Waiting
<1>12. CASE Tick
  <2>1. /\ \A t \in Tasks : Minus(leaseLeft[t], 1) \in 0..LeaseTTL
        /\ \A w \in Workers : Minus(claimLeft[w], 1) \in 0..LeaseTTL
        /\ \A t \in Tasks : Minus(eligibleIn[t], 1) \in Nat
    BY DEF Minus
  <2>2. age' \in [Workers -> Nat]
    BY <1>12 DEF Tick
  <2> QED
    BY <1>12, <2>1, <2>2 DEF Tick
<1>13. CASE UNCHANGED vars
  BY <1>13 DEF vars, rowVars, runVars
<1> QED
  BY <1>1, <1>2, <1>3, <1>4, <1>5, <1>6, <1>7, <1>8, <1>9, <1>10, <1>11, <1>12, <1>13
  DEF Next, WorkerStep, Settle

(* The shape of a worker's run is inductive.                               *)
LEMMA ShapeStep ==
  ASSUME Inv1, [Next]_vars
  PROVE  ControlShape'
<1> USE DEF Inv1, TypeOK, ControlShape
<1>1. ASSUME NEW t \in Tasks, EnqueueTask(t) PROVE ControlShape'
  BY <1>1 DEF EnqueueTask
<1>2. ASSUME NEW w \in Workers, StartRun(w) PROVE ControlShape'
  BY <1>2 DEF StartRun
<1>3. ASSUME NEW w \in Workers, ClaimTasks(w) PROVE ControlShape'
  BY <1>3 DEF ClaimTasks
<1>4. ASSUME NEW w \in Workers, NEW t \in Tasks, DeferTask(w, t) PROVE ControlShape'
  BY <1>4 DEF DeferTask
<1>5. ASSUME NEW w \in Workers, NEW t \in Tasks, NEW r \in Results, ExecuteTask(w, t, r)
      PROVE ControlShape'
  BY <1>5 DEF ExecuteTask
<1>6. ASSUME NEW w \in Workers, EnqueueResult(w) PROVE ControlShape'
  BY <1>6 DEF EnqueueResult
<1>7. ASSUME NEW w \in Workers, CompleteTask(w) PROVE ControlShape'
  BY <1>7 DEF CompleteTask
<1>8. ASSUME NEW w \in Workers, RetryTask(w) PROVE ControlShape'
  <2>1. /\ pc[w] = "settle"
        /\ pc' = [pc EXCEPT ![w] = "pick"]
        /\ batch' = [batch EXCEPT ![w] = @ \ {current[w]}]
        /\ current' = [current EXCEPT ![w] = NoTask]
        /\ outcome' = [outcome EXCEPT ![w] = NoTask]
        /\ open' = open
    BY <1>8 DEF RetryTask
  <2> QED
    BY <2>1
<1>9. ASSUME NEW w \in Workers, NextProtocol(w) PROVE ControlShape'
  BY <1>9 DEF NextProtocol
<1>10. ASSUME NEW w \in Workers, Crash(w) PROVE ControlShape'
  BY <1>10 DEF Crash
<1>11. CASE ExpireTaskLeases
  BY <1>11 DEF ExpireTaskLeases
<1>12. CASE Tick
  BY <1>12 DEF Tick
<1>13. CASE UNCHANGED vars
  BY <1>13 DEF vars
<1> QED
  BY <1>1, <1>2, <1>3, <1>4, <1>5, <1>6, <1>7, <1>8, <1>9, <1>10, <1>11, <1>12, <1>13
  DEF Next, WorkerStep, Settle

LEMMA Inv1Step == Inv1 /\ [Next]_vars => Inv1'
  BY TypeStep, ShapeStep DEF Inv1

LEMMA Inv1Init == Init => Inv1
  BY TimeAssumption DEF Init, Inv1, TypeOK, ControlShape, Waiting

(* The columns of poll_task_queue and the state of every run keep their    *)
(* types whatever the workers do.                                          *)
THEOREM TypeCorrect == Spec => []TypeOK
<1>1. Inv1 => TypeOK
  BY DEF Inv1
<1> QED
  BY Inv1Init, Inv1Step, <1>1, PTL DEF Spec

(* The invariant of the earlier theorem, for the proofs below.             *)
LEMMA Inv1Always == Spec => []Inv1
  BY Inv1Init, Inv1Step, PTL DEF Spec

-----------------------------------------------------------------------------
(* Results only accumulate and a row becomes completed only in             *)
(* CompleteTask, so publishing before completing is inductive.             *)
LEMMA ResultStep ==
  ASSUME Inv1, ResultInv, [Next]_vars
  PROVE  ResultInv'
<1> USE DEF ResultInv, CompletedHasResult, SettlesPublished, Inv1, TypeOK
<1>1. ASSUME NEW t \in Tasks, EnqueueTask(t) PROVE ResultInv'
  BY <1>1 DEF EnqueueTask
<1>2. ASSUME NEW w \in Workers, StartRun(w) PROVE ResultInv'
  BY <1>2 DEF StartRun, rowVars
<1>3. ASSUME NEW w \in Workers, ClaimTasks(w) PROVE ResultInv'
  BY <1>3 DEF ClaimTasks, rowVars
<1>4. ASSUME NEW w \in Workers, NEW t \in Tasks, DeferTask(w, t) PROVE ResultInv'
  BY <1>4 DEF DeferTask, CommittedStatus
<1>5. ASSUME NEW w \in Workers, NEW t \in Tasks, NEW r \in Results, ExecuteTask(w, t, r)
      PROVE ResultInv'
  BY <1>5 DEF ExecuteTask, rowVars
<1>6. ASSUME NEW w \in Workers, EnqueueResult(w) PROVE ResultInv'
  <2>1. \A t \in Tasks : results[t] \subseteq results'[t]
    BY <1>6 DEF EnqueueResult
  <2>2. CompletedHasResult'
    BY <1>6, <2>1 DEF EnqueueResult, CommittedStatus
  <2>3. current[w] \in Tasks /\ outcome[w] \in results'[current[w]]
    BY <1>6 DEF EnqueueResult, ControlShape
  <2>4. SettlesPublished'
    <3> SUFFICES ASSUME NEW v \in Workers, pc'[v] = "settle"
                 PROVE outcome'[v] \in results'[current'[v]]
      OBVIOUS
    <3>1. CASE v = w
      BY <1>6, <2>3, <3>1 DEF EnqueueResult
    <3>2. CASE v # w
      <4>1. pc[v] = "settle" /\ current[v] \in Tasks
        BY <1>6, <3>2 DEF EnqueueResult, ControlShape
      <4> QED
        BY <1>6, <2>1, <4>1 DEF EnqueueResult
    <3> QED
      BY <3>1, <3>2
  <2> QED
    BY <2>2, <2>4
<1>7. ASSUME NEW w \in Workers, CompleteTask(w) PROVE ResultInv'
  <2>1. results[current[w]] \cap FinalResults # {}
    BY <1>7 DEF CompleteTask
  <2> QED
    BY <1>7, <2>1 DEF CompleteTask
<1>8. ASSUME NEW w \in Workers, RetryTask(w) PROVE ResultInv'
  BY <1>8 DEF RetryTask
<1>9. ASSUME NEW w \in Workers, NextProtocol(w) PROVE ResultInv'
  BY <1>9 DEF NextProtocol, rowVars
<1>10. ASSUME NEW w \in Workers, Crash(w) PROVE ResultInv'
  BY <1>10 DEF Crash, rowVars
<1>11. CASE ExpireTaskLeases
  BY <1>11 DEF ExpireTaskLeases
<1>12. CASE Tick
  BY <1>12 DEF Tick
<1>13. CASE UNCHANGED vars
  BY <1>13 DEF vars, rowVars
<1> QED
  BY <1>1, <1>2, <1>3, <1>4, <1>5, <1>6, <1>7, <1>8, <1>9, <1>10, <1>11, <1>12, <1>13
  DEF Next, WorkerStep, Settle

(* No crash, lost lease or race completes a task whose final result is not *)
(* in poll_result_queue.                                                   *)
THEOREM CompletedTasksHaveResults == Spec => []CompletedHasResult
<1>1. Init => ResultInv
  BY DEF Init, ResultInv, CompletedHasResult, SettlesPublished
<1>2. Inv1 /\ ResultInv /\ [Next]_vars => ResultInv'
  BY ResultStep
<1>3. ResultInv => CompletedHasResult
  BY DEF ResultInv
<1> QED
  BY Inv1Always, <1>1, <1>2, <1>3, PTL DEF Spec

-----------------------------------------------------------------------------
(* Only ClaimTasks opens a claim, and it takes no locked row.              *)
LEMMA OpenStep ==
  ASSUME Inv1, OpenClaimsDisjoint, [Next]_vars
  PROVE  OpenClaimsDisjoint'
<1> USE DEF OpenClaimsDisjoint, Inv1, TypeOK
<1>1. ASSUME NEW w \in Workers, ClaimTasks(w) PROVE OpenClaimsDisjoint'
  <2>1. PICK claim \in SUBSET Claimable(proto[w]) :
          /\ batch' = [batch EXCEPT ![w] = claim]
          /\ open' = IF claim # {} THEN open \cup {w} ELSE open
    BY <1>1 DEF ClaimTasks
  <2>2. batch[w] = {}
    BY <1>1 DEF ClaimTasks, ControlShape
  <2>3. \A v \in Workers : v \in open => batch[v] \cap claim = {}
    BY DEF Claimable, Locked
  <2> QED
    BY <2>1, <2>2, <2>3
<1>2. ASSUME NEW w \in Workers,
             open' \subseteq open,
             batch' = [batch EXCEPT ![w] = batch'[w]], batch'[w] \subseteq batch[w]
      PROVE OpenClaimsDisjoint'
  BY <1>2
<1>3. ASSUME open' = open, batch' = batch PROVE OpenClaimsDisjoint'
  BY <1>3
<1> QED
  BY <1>1, <1>2, <1>3
  DEF Next, WorkerStep, Settle, vars, EnqueueTask, StartRun, DeferTask, ExecuteTask,
      EnqueueResult, CompleteTask, RetryTask, NextProtocol, Crash, ExpireTaskLeases, Tick

(* SKIP LOCKED keeps the uncommitted claims of all workers apart, whatever *)
(* the leases do.                                                          *)
THEOREM OpenClaimsAreDisjoint == Spec => []OpenClaimsDisjoint
<1>1. Init => OpenClaimsDisjoint
  BY DEF Init, OpenClaimsDisjoint
<1>2. Inv1 /\ OpenClaimsDisjoint /\ [Next]_vars => OpenClaimsDisjoint'
  BY OpenStep
<1> QED
  BY Inv1Always, <1>1, <1>2, PTL DEF Spec

-----------------------------------------------------------------------------
(* What holds of the rows of one worker's batch; ClaimBacked is its        *)
(* conjunction over the workers.                                           *)
Backed(w) ==
  \A t \in batch[w] :
    /\ claimLeft[w] >= 1
    /\ w \in open => status[t] \in Waiting \cup {"leased"}
    /\ w \notin open => status[t] = "leased" /\ leaseLeft[t] = claimLeft[w]

(* A step that gives no worker a new row and changes no row of another     *)
(* worker's batch keeps the lease invariant of the other workers.          *)
LEMMA OthersStayBacked ==
  ASSUME Inv1, LeaseInv, NEW w \in Workers, NEW v \in Workers, v # w,
         batch'[v] = batch[v], claimLeft'[v] = claimLeft[v],
         v \in open' <=> v \in open,
         \A t \in Tasks : t \notin batch[w] =>
            status'[t] = status[t] /\ leaseLeft'[t] = leaseLeft[t]
  PROVE  Backed(v)'
  BY DEF Inv1, TypeOK, LeaseInv, OneWorkerPerTask, ClaimBacked, Backed

(* The batches only shrink except in ClaimTasks.                           *)
LEMMA ShrinkingBatches ==
  ASSUME LeaseInv, \A v \in Workers : batch'[v] \subseteq batch[v]
  PROVE  OneWorkerPerTask'
  BY DEF LeaseInv, OneWorkerPerTask

(* No live batch outlives its lease, so each claimed row is out of reach   *)
(* of every other claim until its worker settles it.                       *)
LEMMA LeaseStep ==
  ASSUME LeaseCoversBatch, Inv1, LeaseInv, [Next]_vars
  PROVE  LeaseInv'
<1> USE DEF Inv1, TypeOK
<1>0. ASSUME \A v \in Workers : Backed(v)', OneWorkerPerTask' PROVE LeaseInv'
  BY <1>0 DEF LeaseInv, ClaimBacked, Backed
<1>1. ASSUME NEW t \in Tasks, EnqueueTask(t) PROVE LeaseInv'
  <2>1. OneWorkerPerTask'
    BY <1>1, ShrinkingBatches DEF EnqueueTask
  <2>2. \A v \in Workers : t \notin batch[v]
    BY <1>1 DEF EnqueueTask, LeaseInv, ClaimBacked, Waiting
  <2>3. ASSUME NEW v \in Workers PROVE Backed(v)'
    BY <1>1, <2>2 DEF EnqueueTask, runVars, Backed, LeaseInv, ClaimBacked
  <2> QED
    BY <1>0, <2>1, <2>3
<1>2. ASSUME NEW w \in Workers, StartRun(w) PROVE LeaseInv'
  BY <1>2 DEF StartRun, rowVars, LeaseInv, OneWorkerPerTask, ClaimBacked
<1>3. ASSUME NEW w \in Workers, ClaimTasks(w) PROVE LeaseInv'
  <2>1. PICK claim \in SUBSET Claimable(proto[w]) :
          /\ batch' = [batch EXCEPT ![w] = claim]
          /\ open' = IF claim # {} THEN open \cup {w} ELSE open
    BY <1>3 DEF ClaimTasks
  <2>2. ASSUME NEW v \in Workers, v # w PROVE batch[v] \cap claim = {}
    BY <2>2 DEF Claimable, Locked, Eligible, LeaseInv, ClaimBacked, Waiting
  <2>3. OneWorkerPerTask'
    BY <2>1, <2>2 DEF LeaseInv, OneWorkerPerTask
  <2>4. Backed(w)'
    BY <1>3, <2>1, TimeAssumption DEF ClaimTasks, rowVars, Backed, Claimable, Eligible
  <2>5. ASSUME NEW v \in Workers, v # w PROVE Backed(v)'
    BY <1>3, <2>1, <2>5 DEF ClaimTasks, rowVars, Backed, LeaseInv, ClaimBacked
  <2> QED
    BY <1>0, <2>3, <2>4, <2>5
<1>4. ASSUME NEW w \in Workers, NEW t \in Tasks, DeferTask(w, t) PROVE LeaseInv'
  <2>1. OneWorkerPerTask'
    BY <1>4, ShrinkingBatches DEF DeferTask
  <2>2. Backed(w)'
    BY <1>4 DEF DeferTask, runVars, Backed, CommittedStatus, CommittedLease, LeaseInv, ClaimBacked
  <2>3. ASSUME NEW v \in Workers, v # w PROVE Backed(v)'
    BY <1>4, <2>3, OthersStayBacked DEF DeferTask, runVars, CommittedStatus, CommittedLease
  <2> QED
    BY <1>0, <2>1, <2>2, <2>3
<1>5. ASSUME NEW w \in Workers, NEW t \in Tasks, NEW r \in Results, ExecuteTask(w, t, r)
      PROVE LeaseInv'
  BY <1>5 DEF ExecuteTask, rowVars, runVars, LeaseInv, OneWorkerPerTask, ClaimBacked
<1>6. ASSUME NEW w \in Workers, EnqueueResult(w) PROVE LeaseInv'
  <2>1. OneWorkerPerTask'
    BY <1>6, ShrinkingBatches DEF EnqueueResult
  <2>2. Backed(w)'
    BY <1>6 DEF EnqueueResult, runVars, Backed, CommittedStatus, CommittedLease, LeaseInv, ClaimBacked
  <2>3. ASSUME NEW v \in Workers, v # w PROVE Backed(v)'
    BY <1>6, <2>3, OthersStayBacked DEF EnqueueResult, runVars, CommittedStatus, CommittedLease
  <2> QED
    BY <1>0, <2>1, <2>2, <2>3
<1>7. ASSUME NEW w \in Workers, Settle(w) PROVE LeaseInv'
  <2>1. /\ current[w] \in batch[w]
        /\ batch' = [batch EXCEPT ![w] = batch[w] \ {current[w]}]
        /\ open' = open /\ claimLeft' = claimLeft
        /\ \A t \in Tasks \ {current[w]} :
              status'[t] = status[t] /\ leaseLeft'[t] = leaseLeft[t]
    BY <1>7 DEF Settle, CompleteTask, RetryTask, runVars, ControlShape
  <2>2. OneWorkerPerTask'
    BY <2>1, ShrinkingBatches
  <2>3. Backed(w)'
    BY <2>1 DEF Backed, LeaseInv, ClaimBacked
  <2>4. ASSUME NEW v \in Workers, v # w PROVE Backed(v)'
    BY <2>1, <2>4, OthersStayBacked
  <2> QED
    BY <1>0, <2>2, <2>3, <2>4
<1>8. ASSUME NEW w \in Workers, NextProtocol(w) PROVE LeaseInv'
  BY <1>8 DEF NextProtocol, rowVars, LeaseInv, OneWorkerPerTask, ClaimBacked
<1>9. ASSUME NEW w \in Workers, Crash(w) PROVE LeaseInv'
  <2>1. OneWorkerPerTask'
    BY <1>9, ShrinkingBatches DEF Crash
  <2>2. ASSUME NEW v \in Workers PROVE Backed(v)'
    BY <1>9 DEF Crash, rowVars, runVars, Backed, LeaseInv, ClaimBacked
  <2> QED
    BY <1>0, <2>1, <2>2
<1>10. CASE ExpireTaskLeases
  <2>1. OneWorkerPerTask'
    BY <1>10, ShrinkingBatches DEF ExpireTaskLeases
  <2>2. ASSUME NEW v \in Workers PROVE Backed(v)'
    BY <1>10 DEF ExpireTaskLeases, Expired, Locked, runVars, Backed, LeaseInv, ClaimBacked
  <2> QED
    BY <1>0, <2>1, <2>2
<1>11. CASE Tick
  <2>1. OneWorkerPerTask'
    BY <1>11, ShrinkingBatches DEF Tick
  <2>2. ASSUME NEW v \in Workers PROVE Backed(v)'
    BY <1>11, LeaseCoversBatch DEF Tick, Minus, Backed, LeaseInv, ClaimBacked
  <2> QED
    BY <1>0, <2>1, <2>2
<1>12. CASE UNCHANGED vars
  BY <1>12 DEF vars, rowVars, runVars, LeaseInv, OneWorkerPerTask, ClaimBacked
<1> QED
  BY <1>1, <1>2, <1>3, <1>4, <1>5, <1>6, <1>7, <1>8, <1>9, <1>10, <1>11, <1>12
  DEF Next, WorkerStep

(* The lease invariant holds from the start when the lease covers a batch. *)
LEMMA LeaseAlways == ASSUME LeaseCoversBatch PROVE Spec => [](Inv1 /\ LeaseInv)
<1>1. Init => LeaseInv
  BY DEF Init, LeaseInv, OneWorkerPerTask, ClaimBacked
<1>2. Inv1 /\ LeaseInv /\ [Next]_vars => LeaseInv'
  BY LeaseCoversBatch, LeaseStep
<1> QED
  BY Inv1Always, <1>1, <1>2, PTL DEF Spec

(* With the lease TTL sized as the tuning guide asks, no task is ever in   *)
(* the hands of two workers.                                               *)
THEOREM LeaseExclusion == ASSUME LeaseCoversBatch PROVE Spec => []OneWorkerPerTask
<1>1. LeaseInv => OneWorkerPerTask
  BY DEF LeaseInv
<1> QED
  BY LeaseAlways, <1>1, PTL

(* With the lease TTL sized as the tuning guide asks, every row of a       *)
(* committed batch carries a lease that still runs.                        *)
THEOREM BatchesAreLeased == ASSUME LeaseCoversBatch PROVE Spec => []BatchIsLeased
<1>1. Inv1 /\ LeaseInv => BatchIsLeased
  BY DEF Inv1, TypeOK, LeaseInv, ClaimBacked, BatchIsLeased
<1> QED
  BY LeaseAlways, <1>1, PTL

(* With the lease TTL sized as the tuning guide asks, a completed row is   *)
(* final: it is in no batch, so no worker settles or claims it again.      *)
THEOREM CompletedRowsAreFinal ==
  ASSUME LeaseCoversBatch
  PROVE  Spec => CompletedIsFinal
<1>1. ASSUME Inv1, LeaseInv, [Next]_vars, NEW t \in Tasks, status[t] = "completed"
      PROVE  status'[t] = "completed"
  <2> USE DEF Inv1, TypeOK
  <2>1. \A w \in Workers : t \notin batch[w]
    BY <1>1 DEF LeaseInv, ClaimBacked, Waiting
  <2>2. \A w \in Workers : pc[w] = "settle" => current[w] # t
    BY <1>1, <2>1 DEF ControlShape
  <2>3. ASSUME NEW w \in Workers, WorkerStep(w) PROVE status'[t] = "completed"
    <3>1. ASSUME NEW u \in Tasks, DeferTask(w, u) PROVE status'[t] = "completed"
      BY <1>1, <2>1, <3>1 DEF DeferTask, CommittedStatus
    <3>2. CASE EnqueueResult(w)
      BY <1>1, <2>1, <3>2 DEF EnqueueResult, CommittedStatus
    <3>3. CASE Settle(w)
      BY <1>1, <2>2, <3>3 DEF Settle, CompleteTask, RetryTask
    <3> QED
      BY <1>1, <2>3, <3>1, <3>2, <3>3
      DEF WorkerStep, StartRun, ClaimTasks, ExecuteTask, NextProtocol, rowVars
  <2>4. ASSUME NEW u \in Tasks, EnqueueTask(u) PROVE status'[t] = "completed"
    BY <1>1, <2>4 DEF EnqueueTask
  <2>5. CASE ExpireTaskLeases
    BY <1>1, <2>5 DEF ExpireTaskLeases, Expired
  <2> QED
    BY <1>1, <2>3, <2>4, <2>5 DEF Next, vars, rowVars, Crash, Tick
<1>2. Inv1 /\ LeaseInv /\ [Next]_vars
        => [\A t \in Tasks : status[t] = "completed" => status'[t] = "completed"]_vars
  BY <1>1
<1> QED
  BY LeaseAlways, <1>2, PTL DEF Spec, CompletedIsFinal
-----------------------------------------------------------------------------
(* A step that changes no row but those of w's own claim from waiting to   *)
(* leased leaves the queue of work as it is.                               *)
LEMMA CommitIsHidden ==
  ASSUME Inv1, LeaseInv, NEW w \in Workers, NEW t \in Tasks
  PROVE  /\ CommittedStatus(w)[t] = "absent" <=> status[t] = "absent"
         /\ CommittedStatus(w)[t] = "completed" <=> status[t] = "completed"
  BY DEF Inv1, TypeOK, LeaseInv, ClaimBacked, CommittedStatus, Waiting

(* A claim takes rows that are there, not completed and in no batch.       *)
LEMMA ClaimIsFree ==
  ASSUME Inv1, LeaseInv, NEW p, NEW t \in Claimable(p)
  PROVE  /\ t \in Tasks /\ status[t] # "absent" /\ status[t] # "completed"
         /\ \A w \in Workers : t \notin batch[w]
<1>1. t \in Tasks /\ Eligible(t) /\ ~Locked(t)
  BY TaskAssumption DEF Claimable, ProtocolTasks
<1>2. \A w \in Workers : t \notin batch[w]
  BY <1>1 DEF Eligible, Locked, LeaseInv, ClaimBacked, Waiting
<1> QED
  BY <1>1, <1>2 DEF Eligible, Waiting

(* The worker that defers, completes or retries a task.                    *)
LEMMA WorkerWorks ==
  ASSUME LeaseCoversBatch, Inv1, ResultInv, LeaseInv, NEW w \in Workers, WorkerStep(w)
  PROVE  [Work!Next]_(Work!vars)
<1> USE DEF Inv1, TypeOK
<1> DEFINE Queued == {x \in Tasks : status[x] # "absent"}
           Served == {x \in Tasks : results[x] \cap FinalResults # {}}
           Done == {x \in Tasks : status[x] = "completed"}
<1>1. ASSUME Queued' = Queued, batch' = batch, Served' = Served, Done' = Done
      PROVE  UNCHANGED Work!vars
  BY <1>1 DEF Work!vars
<1>2. ASSUME NEW S \in SUBSET Tasks, Work!Claim(w, S) \/ Work!Serve(w, S) \/ Work!PutBack(w, S)
      PROVE  Work!Next
  BY <1>2 DEF Work!Next
<1>3. CASE StartRun(w) \/ NextProtocol(w) \/ \E t \in Tasks, r \in Results : ExecuteTask(w, t, r)
  BY <1>1, <1>3 DEF StartRun, NextProtocol, ExecuteTask, rowVars
<1>4. CASE ClaimTasks(w)
  <2>1. PICK claim \in SUBSET Claimable(proto[w]) : batch' = [batch EXCEPT ![w] = claim]
    BY <1>4 DEF ClaimTasks
  <2>2. batch[w] = {} /\ Queued' = Queued /\ Served' = Served /\ Done' = Done
    BY <1>4 DEF ClaimTasks, ControlShape, rowVars
  <2>3. claim \subseteq Work!Free
    BY ClaimIsFree DEF Work!Free
  <2>4. claim \in SUBSET Tasks
    BY ClaimIsFree
  <2>5. Work!Claim(w, claim)
    BY <2>1, <2>2, <2>3 DEF Work!Claim
  <2> QED
    BY <1>2, <2>4, <2>5
<1>5. ASSUME NEW t \in Tasks, DeferTask(w, t) PROVE Work!Next
  <2>1. ASSUME NEW u \in Tasks
        PROVE  /\ status'[u] = "absent" <=> status[u] = "absent"
               /\ status'[u] = "completed" <=> status[u] = "completed"
    BY <1>5, CommitIsHidden DEF DeferTask, LeaseInv, ClaimBacked, Waiting, CommittedStatus
  <2>2. Queued' = Queued /\ Done' = Done
    BY <2>1
  <2>3. Served' = Served /\ t \in batch[w] /\ batch' = [batch EXCEPT ![w] = @ \ {t}]
    BY <1>5 DEF DeferTask
  <2>4. Work!PutBack(w, {t}) /\ {t} \in SUBSET Tasks
    BY <2>2, <2>3 DEF Work!PutBack
  <2> QED
    BY <1>2, <2>4
<1>6. CASE EnqueueResult(w)
  <2>1. current[w] \in batch[w]
    BY <1>6 DEF EnqueueResult, ControlShape
  <2>2. Queued' = Queued /\ Done' = Done /\ batch' = batch
    BY <1>6, CommitIsHidden DEF EnqueueResult
  <2>3. Served' = Served \/ Served' = Served \cup {current[w]}
    BY <1>6, <2>1 DEF EnqueueResult
  <2>4. CASE Served' = Served
    BY <1>1, <2>2, <2>4
  <2>5. CASE Served' = Served \cup {current[w]}
    <3>1. PICK S \in SUBSET Tasks : S = {current[w]}
      BY <2>1
    <3>2. Work!Serve(w, S)
      BY <2>1, <2>2, <2>5, <3>1 DEF Work!Serve
    <3> QED
      BY <1>2, <3>2
  <2> QED
    BY <2>3, <2>4, <2>5
<1>7. CASE CompleteTask(w)
  <2>1. current[w] \in batch[w] /\ current[w] \in Tasks
    BY <1>7 DEF CompleteTask, ControlShape
  <2>2. status[current[w]] # "absent"
    BY <2>1 DEF LeaseInv, ClaimBacked, Waiting
  <2>3. current[w] \in Served
    BY <1>7, <2>1 DEF CompleteTask, ResultInv, SettlesPublished
  <2>4. /\ Queued' = Queued /\ Served' = Served /\ Done' = Done \cup {current[w]}
        /\ batch' = [batch EXCEPT ![w] = @ \ {current[w]}]
    BY <1>7, <2>1, <2>2 DEF CompleteTask
  <2>5. Work!Finish(w, current[w])
    BY <2>1, <2>3, <2>4 DEF Work!Finish
  <2> QED
    BY <2>1, <2>5 DEF Work!Next, Work!Finish
<1>8. CASE RetryTask(w)
  <2>1. current[w] \in batch[w] /\ current[w] \in Tasks
    BY <1>8 DEF RetryTask, ControlShape
  <2>2. status[current[w]] # "absent" /\ status[current[w]] # "completed"
    BY <2>1 DEF LeaseInv, ClaimBacked, Waiting
  <2>3. /\ Queued' = Queued /\ Served' = Served /\ Done' = Done
        /\ batch' = [batch EXCEPT ![w] = @ \ {current[w]}]
    BY <1>8, <2>1, <2>2 DEF RetryTask
  <2>4. Work!PutBack(w, {current[w]})
    BY <2>1, <2>3 DEF Work!PutBack
  <2> QED
    BY <1>2, <2>1, <2>4
<1> QED
  BY <1>3, <1>4, <1>5, <1>6, <1>7, <1>8 DEF WorkerStep, Settle

(* Every step of the table is a step of the work queue, or hidden in it.   *)
LEMMA QueueWorks ==
  ASSUME LeaseCoversBatch, Inv1, ResultInv, LeaseInv, [Next]_vars
  PROVE  [Work!Next]_(Work!vars)
<1> USE DEF Inv1, TypeOK
<1>1. ASSUME NEW t \in Tasks, EnqueueTask(t) PROVE Work!Next
  BY <1>1 DEF EnqueueTask, Work!Next, Work!Enqueue
<1>2. ASSUME NEW w \in Workers, Crash(w) PROVE Work!Next
  <2>1. Work!PutBack(w, batch[w])
    BY <1>2 DEF Crash, Work!PutBack, rowVars
  <2>2. batch[w] \in SUBSET Tasks
    OBVIOUS
  <2> QED
    BY <2>1, <2>2 DEF Work!Next
<1>3. CASE ExpireTaskLeases
  BY <1>3 DEF ExpireTaskLeases, Expired, Work!vars
<1>4. CASE Tick \/ UNCHANGED vars
  BY <1>4 DEF Tick, vars, rowVars, Work!vars
<1> QED
  BY <1>1, <1>2, <1>3, <1>4, WorkerWorks DEF Next

(* With the lease TTL sized as the tuning guide asks, the task table under *)
(* any number of workers, their deaths, retries and the maintenance is a   *)
(* work queue: one holder, and no end but behind a final result.           *)
THEOREM TasksAreAWorkQueue == ASSUME LeaseCoversBatch PROVE Spec => TasksAreWork
<1>1. Init => Work!Init
  BY DEF Init, Work!Init
<1>2. Inv1 /\ ResultInv /\ LeaseInv /\ [Next]_vars => [Work!Next]_(Work!vars)
  BY LeaseCoversBatch, QueueWorks
<1>3. Init => ResultInv
  BY DEF Init, ResultInv, CompletedHasResult, SettlesPublished
<1>4. Inv1 /\ ResultInv /\ [Next]_vars => ResultInv'
  BY ResultStep
<1> QED
  BY LeaseAlways, <1>1, <1>2, <1>3, <1>4, LeaseCoversBatch, PTL DEF Spec, TasksAreWork, Work!Spec

-----------------------------------------------------------------------------
(* PollPipeline.  The rows of the result queue that are there.             *)
Present == {r \in ResultRows : rstatus[r] # "absent"}

RowTypes ==
  /\ rstatus \in [ResultRows -> R!RowStatuses]
  /\ wbatch \in [Writers -> SUBSET ResultRows]
  /\ todo \in [Writers -> SUBSET ResultRows]
  /\ fresh \in [Writers -> SUBSET ResultRows]
  /\ pending \in [Writers -> SUBSET ResultRows]
  /\ dups \in [Writers -> SUBSET ResultRows]

(* No writer has a row in its hands, and no lease is over, that is not     *)
(* there.                                                                  *)
WriterRows(w) == wbatch[w] \cup todo[w] \cup fresh[w] \cup pending[w] \cup dups[w]
HeldIsPresent ==
  /\ lapsed \subseteq Present
  /\ \A w \in Writers : WriterRows(w) \subseteq Present
RowsInv == RowTypes /\ HeldIsPresent

RowsMatch == \A t \in Tasks, o \in Results : <<t, o>> \in Present <=> o \in results[t]

(* The statement that settles a row of a writer neither makes nor removes  *)
(* rows.                                                                   *)
LEMMA SettleKeepsRows ==
  ASSUME RowsInv, NEW w \in Writers, NEW r \in todo[w], NEW s \in {"written", "retry_wait"},
         R!SettleRow(w, r, s)
  PROVE  /\ rstatus' \in [ResultRows -> R!RowStatuses]
         /\ Present' = Present
         /\ lapsed' \subseteq lapsed
         /\ wbatch' \in [Writers -> SUBSET ResultRows]
         /\ \A v \in Writers : wbatch'[v] \subseteq wbatch[v]
<1> USE DEF RowsInv, RowTypes, HeldIsPresent, WriterRows
<1>1. r \in Present /\ wbatch[w] \subseteq Present
  OBVIOUS
<1>2. rstatus' = [q \in ResultRows |-> IF q = r THEN s
                    ELSE IF w \in wopen /\ q \in wbatch[w] THEN "leased" ELSE rstatus[q]]
  BY DEF R!SettleRow
<1>3. rstatus' \in [ResultRows -> R!RowStatuses]
  BY <1>2 DEF R!RowStatuses
<1>4. \A q \in ResultRows : rstatus'[q] # "absent" <=> rstatus[q] # "absent"
  BY <1>1, <1>2 DEF Present
<1>5. Present' = Present
  BY <1>4 DEF Present
<1> QED
  BY <1>3, <1>5 DEF R!SettleRow

(* A run that ends lets go of all its rows.                                *)
LEMMA ReturnKeepsRows ==
  ASSUME RowsInv, NEW w \in Writers, R!Return(w), UNCHANGED <<rstatus, lapsed>>
  PROVE  RowsInv' /\ Present' = Present
<1>1. Present' = Present
  BY DEF Present
<1> QED
  BY <1>1 DEF RowsInv, RowTypes, HeldIsPresent, WriterRows, R!Return

(* A step of the writers neither makes nor removes rows, and what they     *)
(* hold is there.                                                          *)
LEMMA WriterKeepsRows ==
  ASSUME RowsInv, NEW w \in Writers, R!WriterStep(w) \/ R!Crash(w)
  PROVE  RowsInv' /\ Present' = Present
<1> USE DEF RowsInv, RowTypes, HeldIsPresent, WriterRows
<1> DEFINE Stays == UNCHANGED <<rstatus, lapsed>>
<1>0. Stays => Present' = Present
  BY DEF Present
<1>1. CASE R!ClaimResults(w)
  <2>1. PICK claim \in SUBSET R!Claimable :
          /\ wbatch' = [wbatch EXCEPT ![w] = claim]
          /\ todo' = [todo EXCEPT ![w] = claim]
    BY <1>1 DEF R!ClaimResults
  <2>2. claim \subseteq Present
    BY DEF R!Claimable, Present
  <2>3. Stays /\ UNCHANGED <<fresh, pending, dups>>
    BY <1>1 DEF R!ClaimResults, R!queueVars
  <2> QED
    BY <1>0, <2>1, <2>2, <2>3 DEF Present
<1>2. CASE R!CheckStep(w)
  <2>1. CASE R!CheckDone(w)
    BY <1>0, <2>1 DEF R!CheckDone, R!queueVars, R!classVars
  <2>2. ASSUME NEW r \in ResultRows, R!CheckReceipt(w, r) PROVE RowsInv' /\ Present' = Present
    BY <1>0, <2>2 DEF R!CheckReceipt, R!queueVars
  <2> QED
    BY <1>2, <2>1, <2>2 DEF R!CheckStep
<1>3. ASSUME NEW r \in ResultRows,
             R!CompleteDuplicate(w, r) \/ R!RetryRow(w, r) \/ R!CompleteRow(w, r)
      PROVE  RowsInv' /\ Present' = Present
  <2>1. /\ r \in todo[w] /\ todo' = [todo EXCEPT ![w] = @ \ {r}]
        /\ UNCHANGED <<fresh, pending, dups>>
        /\ \E s \in {"written", "retry_wait"} : R!SettleRow(w, r, s)
    BY <1>3 DEF R!CompleteDuplicate, R!RetryRow, R!CompleteRow, R!classVars
  <2>2. /\ rstatus' \in [ResultRows -> R!RowStatuses]
        /\ Present' = Present
        /\ lapsed' \subseteq lapsed
        /\ wbatch' \in [Writers -> SUBSET ResultRows]
        /\ \A v \in Writers : wbatch'[v] \subseteq wbatch[v]
    BY <2>1, SettleKeepsRows
  <2>3. /\ todo' \in [Writers -> SUBSET ResultRows]
        /\ \A v \in Writers : todo'[v] \subseteq todo[v]
    BY <2>1
  <2>4. RowTypes'
    BY <2>1, <2>2, <2>3
  <2>5. ASSUME NEW v \in Writers PROVE WriterRows(v)' \subseteq Present
    <3>1. WriterRows(v) \subseteq Present
      OBVIOUS
    <3>2. /\ wbatch'[v] \subseteq wbatch[v] /\ todo'[v] \subseteq todo[v]
          /\ fresh' = fresh /\ pending' = pending /\ dups' = dups
      BY <2>1, <2>2, <2>3
    <3> QED
      BY <3>1, <3>2
  <2>6. HeldIsPresent'
    BY <2>2, <2>5
  <2> QED
    BY <2>2, <2>4, <2>6
<1>4. CASE R!DuplicatesDone(w)
  BY <1>0, <1>4 DEF R!DuplicatesDone, R!queueVars, R!classVars
<1>5. CASE R!PersistSamples(w)
  BY <1>0, <1>5 DEF R!PersistSamples, R!queueVars, R!classVars
<1>6. CASE R!PersistFails(w)
  BY <1>0, <1>6 DEF R!PersistFails, R!queueVars, R!classVars
<1>7. CASE R!UpdateEvents(w)
  BY <1>0, <1>7 DEF R!UpdateEvents, R!queueVars, R!classVars
<1>8. CASE R!UpdateEventsFails(w)
  BY <1>0, <1>8 DEF R!UpdateEventsFails, R!EventRows, R!queueVars, R!classVars
<1>9. CASE R!EndRun(w) \/ R!Crash(w)
  BY <1>9, ReturnKeepsRows DEF R!EndRun, R!Crash, R!queueVars
<1> QED
  BY <1>1, <1>2, <1>3, <1>4, <1>5, <1>6, <1>7, <1>8, <1>9 DEF R!WriterStep

LEMMA RunKeepsRows ==
  ASSUME RowsInv, R!RunStep
  PROVE  RowsInv' /\ Present' = Present
<1> USE DEF RowsInv, RowTypes, HeldIsPresent, WriterRows
<1>1. ASSUME NEW r \in ResultRows, R!LeaseLapses(r) PROVE RowsInv' /\ Present' = Present
  <2>1. r \in Present /\ UNCHANGED rstatus /\ lapsed' = lapsed \cup {r}
    BY <1>1 DEF R!LeaseLapses, Present
  <2>2. Present' = Present
    BY <2>1 DEF Present
  <2> QED
    BY <1>1, <2>1, <2>2 DEF R!LeaseLapses, R!classVars
<1>2. CASE R!ExpireResultLeases
  <2>1. /\ rstatus' = [r \in ResultRows |-> IF r \in lapsed THEN "retry_wait" ELSE rstatus[r]]
        /\ lapsed' = {} /\ UNCHANGED <<wbatch, todo, fresh, pending, dups>>
    BY <1>2 DEF R!ExpireResultLeases, R!classVars
  <2>2. rstatus' \in [ResultRows -> R!RowStatuses]
    BY <2>1 DEF R!RowStatuses
  <2>3. Present' = Present
    BY <2>1 DEF Present
  <2> QED
    BY <2>1, <2>2, <2>3
<1> QED
  BY <1>1, <1>2, WriterKeepsRows DEF R!RunStep

(* A publication adds its row, and nothing else.                           *)
LEMMA PublishAddsRow ==
  ASSUME RowsInv, NEW r \in ResultRows, NEW o \in Results, R!Publish(r, ProducerStatus[o])
  PROVE  RowsInv' /\ Present' = Present \cup {r}
<1> USE DEF RowsInv, RowTypes, HeldIsPresent, WriterRows
<1>1. /\ rstatus' = [rstatus EXCEPT ![r] = ProducerStatus[o]]
      /\ UNCHANGED <<lapsed, wbatch, todo, fresh, pending, dups>>
  BY DEF R!Publish, R!classVars
<1>2. ProducerStatus[o] # "absent" /\ ProducerStatus[o] \in R!RowStatuses
  BY ProducerAssumption DEF R!RowStatuses
<1>3. Present' = Present \cup {r}
  BY <1>1, <1>2 DEF Present
<1> QED
  BY <1>1, <1>2, <1>3

(* The two queues keep agreeing.                                           *)
LEMMA MatchStep ==
  ASSUME Inv1, RowsInv, RowsMatch, [PipelineNext]_pipelineVars
  PROVE  RowsInv' /\ RowsMatch'
<1>1. ASSUME UNCHANGED resultVars PROVE RowsInv' /\ Present' = Present
  BY <1>1 DEF resultVars, RowsInv, RowTypes, HeldIsPresent, WriterRows, Present
<1>2. ASSUME NEW w \in Workers, WorkerMove(w), pc[w] = "enqueue" PROVE RowsInv' /\ RowsMatch'
  <2> DEFINE row == <<current[w], outcome[w]>>
  <2>1. current[w] \in Tasks /\ outcome[w] \in Results /\ row \in ResultRows
    BY <1>2 DEF Inv1, TypeOK, ControlShape, ResultRows
  <2>2. EnqueueResult(w)
    BY <1>2 DEF WorkerMove, WorkerStep, StartRun, ClaimTasks, DeferTask, ExecuteTask, Settle,
                CompleteTask, RetryTask, NextProtocol
  <2>3. Deliver(w)
    BY <1>2 DEF WorkerMove
  <2>4. RowsInv' /\ Present' = Present \cup {row}
    <3>1. CASE rstatus[row] = "absent"
      <4>1. R!Publish(row, ProducerStatus[outcome[w]])
        BY <2>3, <3>1 DEF Deliver
      <4> QED
        BY <2>1, <4>1, PublishAddsRow
    <3>2. CASE rstatus[row] # "absent"
      <4>1. UNCHANGED resultVars
        BY <2>3, <3>2 DEF Deliver
      <4>2. row \in Present
        BY <2>1, <3>2 DEF Present
      <4> QED
        BY <1>1, <4>1, <4>2
    <3> QED
      BY <3>1, <3>2
  <2>5. results' = [results EXCEPT ![current[w]] = @ \cup {outcome[w]}]
    BY <2>2 DEF EnqueueResult
  <2>6. ASSUME NEW t \in Tasks, NEW o \in Results
        PROVE  <<t, o>> \in Present' <=> o \in results'[t]
    <3>1. <<t, o>> = row <=> t = current[w] /\ o = outcome[w]
      OBVIOUS
    <3>2. o \in results'[t] <=> o \in results[t] \/ (t = current[w] /\ o = outcome[w])
      BY <2>1, <2>5 DEF Inv1, TypeOK
    <3> QED
      BY <2>4, <3>1, <3>2 DEF RowsMatch
  <2> QED
    BY <2>4, <2>6 DEF RowsMatch
<1>3. ASSUME UNCHANGED resultVars, UNCHANGED results PROVE RowsInv' /\ RowsMatch'
  BY <1>1, <1>3 DEF RowsMatch
<1>4. ASSUME NEW w \in Workers, WorkerMove(w), pc[w] # "enqueue" PROVE RowsInv' /\ RowsMatch'
  <2>1. UNCHANGED resultVars
    BY <1>4 DEF WorkerMove
  <2>2. UNCHANGED results
    BY <1>4 DEF WorkerMove, WorkerStep, StartRun, ClaimTasks, DeferTask, ExecuteTask, Settle,
                CompleteTask, RetryTask, NextProtocol, EnqueueResult
  <2> QED
    BY <1>3, <2>1, <2>2
<1>5. CASE QueueMove
  <2>1. UNCHANGED results
    BY <1>5 DEF QueueMove, EnqueueTask, Crash, ExpireTaskLeases, Tick
  <2> QED
    BY <1>3, <1>5, <2>1 DEF QueueMove
<1>6. CASE ResultMove
  <2>1. UNCHANGED results
    BY <1>6 DEF ResultMove, vars
  <2>2. RowsInv' /\ Present' = Present
    BY <1>6, RunKeepsRows DEF ResultMove
  <2> QED
    BY <2>1, <2>2 DEF RowsMatch
<1>7. CASE UNCHANGED pipelineVars
  BY <1>3, <1>7 DEF pipelineVars, vars
<1> QED
  BY <1>2, <1>4, <1>5, <1>6, <1>7 DEF PipelineNext

(* In the composition the task queue behaves as it does alone: the writers *)
(* do not touch it, so that all that is proved above holds of the pipeline. *)
THEOREM PipelineServesTasks == PipelineSpec => Spec
<1>1. PipelineInit => Init
  BY DEF PipelineInit
<1>2. [PipelineNext]_pipelineVars => [Next]_vars
  BY DEF PipelineNext, pipelineVars, WorkerMove, QueueMove, ResultMove, Next
<1> QED
  BY <1>1, <1>2, PTL DEF PipelineSpec, Spec

(* And the workers publish what ResultWriter expects its producers to, so  *)
(* that what is proved of the writers with any producers holds here too.   *)
THEOREM PipelineFeedsWriters == PipelineSpec => R!Spec
<1>1. PipelineInit => R!Init
  BY DEF PipelineInit
<1>2. ASSUME Inv1, PipelineNext PROVE R!Next \/ UNCHANGED resultVars
  <2>1. ASSUME NEW w \in Workers, WorkerMove(w), pc[w] = "enqueue"
        PROVE  R!Next \/ UNCHANGED resultVars
    <3>1. outcome[w] \in Results /\ <<current[w], outcome[w]>> \in ResultRows
      BY <1>2, <2>1 DEF Inv1, TypeOK, ControlShape, ResultRows
    <3>2. R!Publish(<<current[w], outcome[w]>>, ProducerStatus[outcome[w]])
            \/ UNCHANGED resultVars
      BY <2>1 DEF WorkerMove, Deliver
    <3> QED
      BY <3>1, <3>2 DEF R!Next
  <2> QED
    BY <1>2, <2>1 DEF PipelineNext, WorkerMove, QueueMove, ResultMove, R!Next
<1>3. UNCHANGED resultVars <=> UNCHANGED R!vars
  BY DEF resultVars, R!vars, R!queueVars, R!storeVars, R!classVars, R!boundVars
<1>4. Inv1 /\ [PipelineNext]_pipelineVars => [R!Next]_(R!vars)
  BY <1>2, <1>3 DEF pipelineVars
<1> QED
  BY <1>1, <1>4, PipelineServesTasks, Inv1Always, PTL DEF PipelineSpec, R!Spec

(* The result queue holds just the rows that the workers published, and no *)
(* task is completed before its final row is there for the writers,        *)
(* whatever crashes, lapsed leases and races happen on either side.        *)
THEOREM PublishedRowsAreThere == PipelineSpec => []CompletedIsQueued
<1>1. PipelineInit => RowsInv /\ RowsMatch
  BY DEF PipelineInit, Init, R!Init, R!None, RowsInv, RowTypes, HeldIsPresent, WriterRows,
         RowsMatch, Present, R!RowStatuses, ResultRows
<1>2. Inv1 /\ RowsInv /\ RowsMatch /\ [PipelineNext]_pipelineVars => RowsInv' /\ RowsMatch'
  BY MatchStep
<1>3. CompletedHasResult /\ RowsMatch => CompletedIsQueued
  <2> SUFFICES ASSUME CompletedHasResult, RowsMatch, NEW t \in Tasks
      PROVE  /\ status[t] = "completed" => \E o \in FinalResults : rstatus[<<t, o>>] # "absent"
             /\ \A o \in Results : rstatus[<<t, o>>] # "absent" <=> o \in results[t]
    BY DEF CompletedIsQueued
  <2>1. \A o \in Results : rstatus[<<t, o>>] # "absent" <=> o \in results[t]
    BY DEF RowsMatch, Present, ResultRows
  <2>2. status[t] = "completed" => \E o \in FinalResults : o \in results[t]
    BY DEF CompletedHasResult
  <2> QED
    BY <2>1, <2>2 DEF Results
<1> QED
  BY <1>1, <1>2, <1>3, PipelineServesTasks, Inv1Always, CompletedTasksHaveResults, PTL
  DEF PipelineSpec
=============================================================================
