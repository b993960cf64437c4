------------------------------- MODULE PollFeed -------------------------------
(***************************************************************************)
(* How the poll task queue is fed (scripts/polling_enqueue_cycle.py and     *)
(* polling/scheduler.py): an operator's script turns a file of records into *)
(* the tasks of one cycle, with two commits, and may die, be run again or   *)
(* run beside another; the executor then reads what the queue's columns     *)
(* kept of a task and measures it or skips it.                              *)
(*                                                                         *)
(* The script runs with the queue and the metadata cache enabled and with   *)
(* its default for --current-metadata-version.  Of a task only what tells   *)
(* tasks apart, whether it was measured, and its version are kept.          *)
(***************************************************************************)
EXTENDS Naturals, FiniteSets

CONSTANTS
  Files,        \* the sets of records that operators pass
  Slots,        \* values of --scheduled-for
  Versions,     \* values of --config-version
  Scripts,
  MaxDepth,     \* backpressure_max_task_queue_depth
  MaxRuns

None == "none"
Sidecars == {"icmp_latency_ms", "icmp_jitter_ms", "packet_loss_pct"}
Pings == {"icmp_availability", "PING-CHECK", "PING-1"}

VARIABLES
  script,     \* script[s]: the run that s is in
  cycles,     \* poll_cycles: the cycles that have a row
  queue,      \* poll_task_queue: task id -> status, version, measured
  finished,   \* the runs that returned 0: file and cycle
  runs

vars == <<script, cycles, queue, finished, runs>>

Idle == [pc |-> "idle"]

Init ==
  /\ script = [s \in Scripts |-> Idle] /\ cycles = {} /\ queue = <<>>
  /\ finished = {} /\ runs = 0

-----------------------------------------------------------------------------
(* What the names of metrics mean (polling/icmp_measurements.py).           *)

Telemetry(metric, kind) == metric \in Sidecars \/ kind = "telemetry"
Availability(metric, kind) == ~Telemetry(metric, kind) /\ (kind = "availability" \/ metric \in Pings)

-----------------------------------------------------------------------------
(* build_tasks_from_records.                                                *)

(* build_cycle: the same slot and version make the same id.                 *)
CycleOf(slot, version) == <<slot, version>>

Source(r) == <<r.ci, r.addr>>
Sidecar(r) == r.protocol = "ICMP" /\ Telemetry(r.metric, r.kind)
Direct(F) == {r \in F : ~Sidecar(r)}

(* A telemetry record is not polled; it asks for pings of its source, which *)
(* an explicit availability record of the same source gives already.        *)
Wanted(F) == {Source(r) : r \in {q \in F : Sidecar(q) /\ q.addr # None}}
ExplicitByCI(F) ==
  {w \in Wanted(F) : \E r \in Direct(F) : r.protocol = "ICMP" /\ Availability(r.metric, r.kind) /\ r.ci = w[1]}
Explicit(F) ==
  {Source(r) : r \in {q \in Direct(F) : q.protocol = "ICMP" /\ Availability(q.metric, q.kind)}}

(* The synthetic record is made from the first telemetry record of the      *)
(* source; all of them have the version of the run.                         *)
Synthetic(F) ==
  {[ci |-> w[1], metric |-> "icmp_availability", protocol |-> "ICMP", addr |-> w[2]] :
     w \in Wanted(F) \ Explicit(F)}

(* build_protocol_payload raises for a record whose address is in           *)
(* ip_address instead of ip, and takes the whole build with it; telemetry   *)
(* records have their address moved.                                        *)
Raises(F) == \E r \in Direct(F) : r.field # "ip"

TaskId(r, cycle) ==
  [cycle |-> cycle, ci |-> r.ci, metric |-> r.metric, protocol |-> r.protocol, addr |-> r.addr]
Tasks(F, cycle) == {TaskId(r, cycle) : r \in Direct(F) \cup Synthetic(F)}

(* has_stale_metadata, for the current version of the run.                  *)
Stale(F, version) == \E r \in F : r.version \notin {None, version}

-----------------------------------------------------------------------------
(* The script.                                                              *)

(* main: a file with stale records, with a record that raises or with too   *)
(* many tasks is refused before anything is written.                        *)
StartScript(s, F, slot, version) ==
  /\ script[s] = Idle /\ runs < MaxRuns /\ runs' = runs + 1
  /\ ~Stale(F, version) /\ ~Raises(F) /\ Cardinality(Direct(F)) + Cardinality(Synthetic(F)) <= MaxDepth
  /\ script' = [script EXCEPT ![s] =
       [pc |-> "cycle", file |-> F, cycle |-> CycleOf(slot, version), version |-> version]]
  /\ UNCHANGED <<cycles, queue, finished>>

(* create_cycle: a commit of its own; a cycle that is there is opened again. *)
CreateCycle(s) ==
  /\ script[s].pc = "cycle"
  /\ cycles' = cycles \cup {script[s].cycle}
  /\ script' = [script EXCEPT ![s].pc = "tasks"]
  /\ UNCHANGED <<queue, finished, runs>>

Fresh(version) == [status |-> "available", version |-> version, measured |-> FALSE]

(* enqueue_tasks: ON CONFLICT (task_id) DO NOTHING, and the script returns. *)
EnqueueTasks(s) ==
  /\ script[s].pc = "tasks"
  /\ LET new == Tasks(script[s].file, script[s].cycle)
     IN queue' = [t \in DOMAIN queue \cup new |->
                    IF t \in DOMAIN queue THEN queue[t] ELSE Fresh(script[s].version)]
  /\ finished' = finished \cup {[file |-> script[s].file, cycle |-> script[s].cycle]}
  /\ script' = [script EXCEPT ![s] = Idle]
  /\ UNCHANGED <<cycles, runs>>

Dies(s) ==
  /\ script[s] # Idle
  /\ script' = [script EXCEPT ![s] = Idle]
  /\ UNCHANGED <<cycles, queue, finished, runs>>

-----------------------------------------------------------------------------
(* execute_poll_task: the row has no metric_kind, so that only the metric's *)
(* name says whether a task is a ping; any other ICMP task is skipped as    *)
(* OK.  A task without an answer waits for a retry and stays as it is.      *)
Execute(t) ==
  /\ queue[t].status = "available"
  /\ queue' = [queue EXCEPT ![t].status = "completed",
                            ![t].measured = t.protocol # "ICMP" \/ Availability(t.metric, None)]
  /\ UNCHANGED <<script, cycles, finished, runs>>

-----------------------------------------------------------------------------
Next ==
  \/ \E s \in Scripts :
       \/ \E F \in Files, slot \in Slots, v \in Versions : StartScript(s, F, slot, v)
       \/ CreateCycle(s) \/ EnqueueTasks(s) \/ Dies(s)
  \/ \E t \in DOMAIN queue : Execute(t)

Spec == Init /\ [][Next]_vars

TypeOK ==
  /\ \A s \in Scripts : script[s] # Idle => script[s].pc \in {"cycle", "tasks"} /\ script[s].file \in Files
  /\ cycles \subseteq {CycleOf(s, v) : s \in Slots, v \in Versions}
  /\ \A t \in DOMAIN queue : queue[t] \in
       [status : {"available", "completed"}, version : Versions, measured : BOOLEAN]
  /\ runs \in 0..MaxRuns

(* A source whose availability record the scheduler knows by its kind and   *)
(* the executor, which does not get the kind, does not know by its name.    *)
Misnamed(F) == {Source(r) : r \in {q \in Direct(F) : q.kind = "availability" /\ q.metric \notin Pings}}

(* When a script has returned 0, every source that its file wants pinged    *)
(* has a task in the cycle that is measured when it is executed, whichever  *)
(* runs died, overlapped or were repeated (scheduler.py:88-95).             *)
WantedIsPolled ==
  \A f \in finished : \A w \in (Wanted(f.file) \cup Explicit(f.file)) \ Misnamed(f.file) :
    \E t \in DOMAIN queue :
      /\ t.cycle = f.cycle /\ t.protocol = "ICMP" /\ <<t.ci, t.addr>> = w
      /\ Availability(t.metric, None) /\ (queue[t].status = "completed" => queue[t].measured)

(* The rows of one cycle were built from metadata of one version.           *)
OneVersionPerCycle ==
  \A t, u \in DOMAIN queue : t.cycle = u.cycle => queue[t].version = queue[u].version

(* Tasks belong to a cycle that has its row.                                *)
FeedInvariant ==
  TypeOK /\ WantedIsPolled /\ OneVersionPerCycle /\ \A t \in DOMAIN queue : t.cycle \in cycles

(* A task that was polled is not polled again in its cycle, however often   *)
(* the script is run for it.                                                *)
PolledOnce ==
  \A t \in DOMAIN queue : t \in DOMAIN queue' /\ (queue[t].status = "completed" => queue'[t] = queue[t])
=============================================================================
