---------------------------- MODULE ResultWriter ----------------------------
(***************************************************************************)
(* The table poll_result_queue and the writers that drain it into          *)
(* Timescale and Neo4j (polling/writer_pool.py, polling/pg_queue.py).      *)
(*                                                                         *)
(* One run of run_writer_once touches three stores that share no           *)
(* transaction: the result queue, Timescale (samples and receipts, one     *)
(* transaction) and Neo4j.  The claim of the batch is committed by the     *)
(* first complete_result or retry_result of the run; until then FOR UPDATE *)
(* locks its rows.  The receipt of a row says that its samples are stored; *)
(* the row's last_error_code says whether Neo4j still waits for it.        *)
(*                                                                         *)
(* Time is the set of leases that have run out: LeaseLapses lets one run   *)
(* out.  claim_results does not look at any eligibility time.  One receipt *)
(* stands for one row: idempotency_key is UNIQUE in the queue.             *)
(***************************************************************************)
EXTENDS Naturals, FiniteSets

CONSTANTS
  Rows,              \* results the workers may publish
  Writers,           \* writer processes
  SampleRows,        \* rows that carry at least one metric sample
  SilentRows,        \* internal availability rows that derive no event payload
  PublishStatuses,   \* the status values the producers insert rows with
  BatchSize,         \* result_batch_size
  CrashPoints,       \* control points at which a run may die
  MaxCrashes,        \* how many runs may die
  MaxFailures,       \* how many store failures (Timescale, Neo4j) may occur
  LeaseCoversBatch   \* TRUE: a live run ends within its lease TTL

ASSUME RowAssumption ==
  /\ SampleRows \subseteq Rows
  /\ SilentRows \subseteq Rows
ASSUME StatusAssumption ==
  PublishStatuses \cap {"absent", "leased", "retry_wait", "written"} = {}
ASSUME BoundAssumption ==
  /\ BatchSize \in Nat \ {0}
  /\ MaxCrashes \in Nat
  /\ MaxFailures \in Nat
  /\ LeaseCoversBatch \in BOOLEAN

VARIABLES
  rstatus,     \* [Rows -> status column], "absent" before the row exists
  errorCode,   \* [Rows -> last_error_code column]
  lapsed,      \* the leased rows whose lease_expires_at has passed
  receipts,    \* rows with a metric_sample_receipts entry and their samples
  updated,     \* rows whose event payloads Neo4j has applied
  pc,          \* [Writers -> control point of run_writer_once]
  batch,       \* [Writers -> rows claimed by the run and not settled yet]
  flagged,     \* [Writers -> rows of the claim read with code neo4j_pending]
  todo,        \* [Writers -> rows the current loop has still to visit]
  fresh,       \* [Writers -> new_payloads]
  pending,     \* [Writers -> pending_payloads]
  dups,        \* [Writers -> completed_duplicates]
  open,        \* the writers whose claim is not committed yet
  crashes,     \* runs that died so far
  failures,    \* store failures so far
  stranded     \* history: the rows that deaths left half done, see HalfDone

queueVars == <<rstatus, errorCode, lapsed>>
storeVars == <<receipts, updated>>
classVars == <<flagged, fresh, pending, dups>>
boundVars == <<crashes, failures, stranded>>
vars == <<queueVars, storeVars, pc, batch, todo, classVars, open, boundVars>>

ErrorCodes == {"none", "timescale_error", "neo4j_pending"}
RowStatuses == PublishStatuses \cup {"absent", "leased", "retry_wait", "written"}
Points == {"idle", "check", "dups", "persist", "retry_samples",
           "events", "retry_events", "complete"}

-----------------------------------------------------------------------------
TypeOK ==
  /\ rstatus \in [Rows -> RowStatuses]
  /\ errorCode \in [Rows -> ErrorCodes]
  /\ lapsed \in SUBSET Rows
  /\ receipts \in SUBSET Rows
  /\ updated \in SUBSET Rows
  /\ pc \in [Writers -> Points]
  /\ batch \in [Writers -> SUBSET Rows]
  /\ flagged \in [Writers -> SUBSET Rows]
  /\ todo \in [Writers -> SUBSET Rows]
  /\ fresh \in [Writers -> SUBSET Rows]
  /\ pending \in [Writers -> SUBSET Rows]
  /\ dups \in [Writers -> SUBSET Rows]
  /\ open \in SUBSET Writers
  /\ crashes \in 0..MaxCrashes
  /\ failures \in 0..MaxFailures
  /\ stranded \in SUBSET Rows

None == [w \in Writers |-> {}]

Init ==
  /\ rstatus = [r \in Rows |-> "absent"]
  /\ errorCode = [r \in Rows |-> "none"]
  /\ lapsed = {}
  /\ receipts = {}
  /\ updated = {}
  /\ pc = [w \in Writers |-> "idle"]
  /\ batch = None
  /\ flagged = None
  /\ todo = None
  /\ fresh = None
  /\ pending = None
  /\ dups = None
  /\ open = {}
  /\ crashes = 0
  /\ failures = 0
  /\ stranded = {}

-----------------------------------------------------------------------------
(* Row predicates and the queue statements.                                *)

\* Rows another transaction may not touch: the uncommitted claims.
Locked(r) == \E w \in Writers : w \in open /\ r \in batch[w]

\* A statement of w on row r waits while another open claim locks it.
MayUpdate(w, r) == \A v \in Writers \ {w} : ~(v \in open /\ r \in batch[v])

\* Faulty variants of Claimable, for the mutation runs: the expiry test of a
\* leased row is missing; leased rows are never taken back.
ClaimableAnyLease == {r \in Rows : rstatus[r] \in {"ready", "retry_wait", "leased"} /\ ~Locked(r)}
ClaimableWaiting == {r \in Rows : rstatus[r] \in {"ready", "retry_wait"} /\ ~Locked(r)}

Claimable ==
  {r \in Rows : /\ \/ rstatus[r] \in {"ready", "retry_wait"}
                   \/ rstatus[r] = "leased" /\ r \in lapsed
                /\ ~Locked(r)}

\* The queue after w's commit of a statement that gives row r the status s and
\* ends its lease; w's whole claim becomes visible with it.
SettleRow(w, r, s) ==
  /\ MayUpdate(w, r)
  /\ rstatus' = [q \in Rows |-> IF q = r THEN s
                                ELSE IF w \in open /\ q \in batch[w] THEN "leased"
                                ELSE rstatus[q]]
  /\ lapsed' = (IF w \in open THEN lapsed \ batch[w] ELSE lapsed) \ {r}
  /\ open' = open \ {w}
  /\ batch' = [batch EXCEPT ![w] = @ \ {r}]

\* The run returns.
Return(w) ==
  /\ pc' = [pc EXCEPT ![w] = "idle"]
  /\ batch' = [batch EXCEPT ![w] = {}]
  /\ flagged' = [flagged EXCEPT ![w] = {}]
  /\ todo' = [todo EXCEPT ![w] = {}]
  /\ fresh' = [fresh EXCEPT ![w] = {}]
  /\ pending' = [pending EXCEPT ![w] = {}]
  /\ dups' = [dups EXCEPT ![w] = {}]

-----------------------------------------------------------------------------
(* enqueue_results inserts a row whose key is new.                         *)
Publish(r, s) ==
  /\ rstatus[r] = "absent"
  /\ rstatus' = [rstatus EXCEPT ![r] = s]
  /\ UNCHANGED <<errorCode, lapsed, storeVars, pc, batch, todo, classVars, open, boundVars>>

ClaimResults(w) ==
  /\ pc[w] = "idle"
  /\ \E claim \in SUBSET Claimable :
       /\ claim # {}
       /\ \/ Cardinality(claim) = BatchSize
          \/ Cardinality(claim) < BatchSize /\ claim = Claimable
       /\ batch' = [batch EXCEPT ![w] = claim]
       /\ todo' = [todo EXCEPT ![w] = claim]
       /\ flagged' = [flagged EXCEPT ![w] = {r \in claim : errorCode[r] = "neo4j_pending"}]
  /\ open' = open \cup {w}
  /\ pc' = [pc EXCEPT ![w] = "check"]
  /\ UNCHANGED <<queueVars, storeVars, fresh, pending, dups, boundVars>>

(* Faulty variant of CheckReceipt: a duplicate is completed whatever its code. *)
CheckIgnoringPending(w, r) ==
  /\ pc[w] = "check"
  /\ r \in todo[w]
  /\ todo' = [todo EXCEPT ![w] = @ \ {r}]
  /\ IF r \notin receipts
     THEN fresh' = [fresh EXCEPT ![w] = @ \cup {r}] /\ UNCHANGED dups
     ELSE dups' = [dups EXCEPT ![w] = @ \cup {r}] /\ UNCHANGED fresh
  /\ UNCHANGED <<queueVars, storeVars, pc, batch, flagged, pending, open, boundVars>>

(* receipt_exists, one query per row: the row is new, a duplicate that     *)
(* Neo4j still waits for, or a duplicate to complete.                      *)
CheckReceipt(w, r) ==
  /\ pc[w] = "check"
  /\ r \in todo[w]
  /\ todo' = [todo EXCEPT ![w] = @ \ {r}]
  /\ \/ /\ r \notin receipts
        /\ fresh' = [fresh EXCEPT ![w] = @ \cup {r}]
        /\ UNCHANGED <<pending, dups>>
     \/ /\ r \in receipts \cap flagged[w]
        /\ pending' = [pending EXCEPT ![w] = @ \cup {r}]
        /\ UNCHANGED <<fresh, dups>>
     \/ /\ r \in receipts \ flagged[w]
        /\ dups' = [dups EXCEPT ![w] = @ \cup {r}]
        /\ UNCHANGED <<fresh, pending>>
  /\ UNCHANGED <<queueVars, storeVars, pc, batch, flagged, open, boundVars>>

CheckDone(w) ==
  /\ pc[w] = "check"
  /\ todo[w] = {}
  /\ pc' = [pc EXCEPT ![w] = "dups"]
  /\ todo' = [todo EXCEPT ![w] = dups[w]]
  /\ UNCHANGED <<queueVars, storeVars, batch, classVars, open, boundVars>>

CompleteDuplicate(w, r) ==
  /\ pc[w] = "dups"
  /\ r \in todo[w]
  /\ SettleRow(w, r, "written")
  /\ todo' = [todo EXCEPT ![w] = @ \ {r}]
  /\ UNCHANGED <<errorCode, storeVars, pc, classVars, boundVars>>

DuplicatesDone(w) ==
  /\ pc[w] = "dups"
  /\ todo[w] = {}
  /\ pc' = [pc EXCEPT ![w] = "persist"]
  /\ UNCHANGED <<queueVars, storeVars, batch, todo, classVars, open, boundVars>>

\* The primary key of metric_values holds the samples of a row already.
SamplesConflict(w) == fresh[w] \cap SampleRows \cap receipts # {}

(* Samples and receipts in one Timescale transaction.                      *)
PersistSamples(w) ==
  /\ pc[w] = "persist"
  /\ ~SamplesConflict(w)
  /\ receipts' = receipts \cup fresh[w]
  /\ pc' = [pc EXCEPT ![w] = "events"]
  /\ UNCHANGED <<queueVars, updated, batch, todo, classVars, open, boundVars>>

(* Faulty variant of PersistFails: the run goes on to the event updates.   *)
PersistFailsThrough(w) ==
  /\ pc[w] = "persist"
  /\ \/ SamplesConflict(w) /\ UNCHANGED failures
     \/ failures < MaxFailures /\ failures' = failures + 1
  /\ pc' = [pc EXCEPT ![w] = "events"]
  /\ UNCHANGED <<queueVars, storeVars, batch, todo, classVars, open, crashes, stranded>>

(* The transaction is rolled back; only the new rows are retried.          *)
PersistFails(w) ==
  /\ pc[w] = "persist"
  /\ \/ SamplesConflict(w) /\ UNCHANGED failures
     \/ failures < MaxFailures /\ failures' = failures + 1
  /\ pc' = [pc EXCEPT ![w] = "retry_samples"]
  /\ todo' = [todo EXCEPT ![w] = fresh[w]]
  /\ UNCHANGED <<queueVars, storeVars, batch, classVars, open, crashes, stranded>>

EventRows(w) == (fresh[w] \cup pending[w]) \ SilentRows

(* batch_update_events, whole.                                             *)
UpdateEvents(w) ==
  /\ pc[w] = "events"
  /\ updated' = updated \cup EventRows(w)
  /\ pc' = [pc EXCEPT ![w] = "complete"]
  /\ todo' = [todo EXCEPT ![w] = fresh[w] \cup pending[w]]
  /\ UNCHANGED <<queueVars, receipts, batch, classVars, open, boundVars>>

(* batch_update_events fails after some of its statements have run.  With   *)
(* no payload it returns before it touches Neo4j.                          *)
UpdateEventsFails(w) ==
  /\ pc[w] = "events"
  /\ EventRows(w) # {}
  /\ failures < MaxFailures
  /\ failures' = failures + 1
  /\ \E done \in SUBSET EventRows(w) : updated' = updated \cup done
  /\ pc' = [pc EXCEPT ![w] = "retry_events"]
  /\ todo' = [todo EXCEPT ![w] = EventRows(w)]
  /\ UNCHANGED <<queueVars, receipts, batch, classVars, open, crashes, stranded>>

(* retry_result, with the code of the store that failed.                   *)
RetryRow(w, r) ==
  /\ pc[w] \in {"retry_samples", "retry_events"}
  /\ r \in todo[w]
  /\ SettleRow(w, r, "retry_wait")
  /\ errorCode' = [errorCode EXCEPT
       ![r] = IF pc[w] = "retry_samples" THEN "timescale_error" ELSE "neo4j_pending"]
  /\ todo' = [todo EXCEPT ![w] = @ \ {r}]
  /\ UNCHANGED <<storeVars, pc, classVars, boundVars>>

CompleteRow(w, r) ==
  /\ pc[w] = "complete"
  /\ r \in todo[w]
  /\ SettleRow(w, r, "written")
  /\ todo' = [todo EXCEPT ![w] = @ \ {r}]
  /\ UNCHANGED <<errorCode, storeVars, pc, classVars, boundVars>>

(* The run returns and its sessions close: an uncommitted claim is rolled  *)
(* back, rows that were claimed and not settled stay leased.               *)
EndRun(w) ==
  /\ pc[w] \in {"retry_samples", "retry_events", "complete"}
  /\ todo[w] = {}
  /\ Return(w)
  /\ open' = open \ {w}
  /\ UNCHANGED <<queueVars, storeVars, boundVars>>

\* The rows a death of w leaves half done: Timescale has their receipt, their
\* event updates are neither applied nor noted on the row for a retry.
HalfDone(w) ==
  {r \in Rows \ (SilentRows \cup updated) :
     /\ errorCode[r] # "neo4j_pending"
     /\ \/ pc[w] = "events" /\ r \in fresh[w]
        \/ pc[w] = "retry_events" /\ r \in todo[w]}

(* The process dies, or an exception leaves run_writer_once.               *)
Crash(w) ==
  /\ pc[w] \in CrashPoints \ {"idle"}
  /\ crashes < MaxCrashes
  /\ crashes' = crashes + 1
  /\ stranded' = stranded \cup HalfDone(w)
  /\ Return(w)
  /\ open' = open \ {w}
  /\ UNCHANGED <<queueVars, storeVars, failures>>

LeaseLapses(r) ==
  /\ rstatus[r] = "leased"
  /\ r \notin lapsed
  /\ LeaseCoversBatch => \A w \in Writers : r \notin batch[w]
  /\ lapsed' = lapsed \cup {r}
  /\ UNCHANGED <<rstatus, errorCode, storeVars, pc, batch, todo, classVars, open, boundVars>>

(* Maintenance: expire_result_leases waits for the rows a claim has locked. *)
ExpireResultLeases ==
  /\ lapsed # {}
  /\ \A r \in lapsed : ~Locked(r)
  /\ rstatus' = [r \in Rows |-> IF r \in lapsed THEN "retry_wait" ELSE rstatus[r]]
  /\ lapsed' = {}
  /\ UNCHANGED <<errorCode, storeVars, pc, batch, todo, classVars, open, boundVars>>

CheckStep(w) == CheckDone(w) \/ \E r \in Rows : CheckReceipt(w, r)

WriterStep(w) ==
  \/ ClaimResults(w)
  \/ CheckStep(w)
  \/ \E r \in Rows : CompleteDuplicate(w, r) \/ RetryRow(w, r) \/ CompleteRow(w, r)
  \/ DuplicatesDone(w)
  \/ PersistSamples(w)
  \/ PersistFails(w)
  \/ UpdateEvents(w)
  \/ UpdateEventsFails(w)
  \/ EndRun(w)

RunStep ==
  \/ \E w \in Writers : WriterStep(w) \/ Crash(w)
  \/ \E r \in Rows : LeaseLapses(r)
  \/ ExpireResultLeases

Next ==
  \/ \E r \in Rows, s \in PublishStatuses : Publish(r, s)
  \/ RunStep

Spec == Init /\ [][Next]_vars

(* The writer pass is run in a loop by a process manager and time passes.  *)
(* Publications, crashes, failures and maintenance need not happen.        *)
Fairness ==
  /\ \A w \in Writers : WF_vars(WriterStep(w))
  /\ \A r \in Rows : WF_vars(LeaseLapses(r))

FairSpec == Spec /\ Fairness

-----------------------------------------------------------------------------
(* Properties.                                                             *)

(* A written row has its samples and its receipt in Timescale, however     *)
(* writers crashed, lost their lease or raced: run_writer_once completes a *)
(* row only behind its receipt.                                            *)
WrittenHasReceipt == \A r \in Rows : rstatus[r] = "written" => r \in receipts

(* Two runs never have one row in their hands, while a run fits in its     *)
(* lease: claim_results passes over locked rows and live leases.           *)
OneWriterPerRow ==
  \A v, w \in Writers : v # w => batch[v] \cap batch[w] = {}

(* While a run fits in its lease, the receipt check is still true when the *)
(* samples are inserted: no new row has got its receipt in between, so     *)
(* that no batch fails on the primary key of metric_values.                *)
FreshStaysFresh ==
  \A w \in Writers : pc[w] = "persist" => fresh[w] \cap receipts = {}

(* No event update is lost: a written row that has event payloads has them *)
(* applied in Neo4j.                                                       *)
NoUpdateLost ==
  \A r \in Rows \ SilentRows : rstatus[r] = "written" => r \in updated

(* An event update is lost in one way only, while a run fits in its lease: *)
(* its run died between the Timescale commit and the end of the event      *)
(* updates, or of noting them for a retry.  A store that fails, a death    *)
(* anywhere else, other writers and retries lose none; and what a death    *)
(* left half done is not mistaken for done in Neo4j.                       *)
OnlyDeathsLoseUpdates ==
  /\ \A r \in Rows \ SilentRows : rstatus[r] = "written" => r \in updated \cup stranded
  /\ stranded \cap updated = {}

(* A written row stays written, while a run fits in its lease.             *)
WrittenIsFinal ==
  [][\A r \in Rows : rstatus[r] = "written" => rstatus'[r] = "written"]_vars

(* Leases, receipts and error codes are invisible from outside, while runs *)
(* fit in their lease: the table is a work queue whose rows are written    *)
(* only by the writer that holds them, and only when both stores have what *)
(* is in them or a holder died with the row half done.                     *)
Work == INSTANCE WorkQueue WITH
          Workers <- Writers,
          Items <- Rows,
          queued <- {r \in Rows : rstatus[r] # "absent"},
          held <- batch,
          served <- receipts \cap (updated \cup SilentRows),
          lost <- stranded,
          finished <- {r \in Rows : rstatus[r] = "written"}
RowsAreWork == Work!Spec

(* Every published row is written in the end, once the stores stop failing. *)
EveryRowIsWritten ==
  \A r \in Rows : rstatus[r] # "absent" ~> rstatus[r] = "written"
=============================================================================
