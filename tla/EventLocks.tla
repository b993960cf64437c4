------------------------------ MODULE EventLocks ------------------------------
(***************************************************************************)
(* The advisory locks of the event writers, and the order in which each    *)
(* collector takes them (services/event_lock.py and its callers).          *)
(*                                                                         *)
(* acquire_event_triplet_lock calls pg_advisory_xact_lock(hashtext(key)):  *)
(* it blocks while another session has the lock, a session may take again  *)
(* a lock that it has, and all go when the transaction ends.  A run goes   *)
(* through passes; a pass takes the locks of its triplets one by one, in   *)
(* lexicographic order, and then writes.  What it writes is EventLifecycle.*)
(***************************************************************************)
EXTENDS Naturals, FiniteSets

CONSTANTS
  Triplets,     \* (ci_id, metric_id, event_type)
  Rank,         \* [Triplets -> Nat], the lexicographic order
  Family,       \* [Triplets -> "collection", "availability" or "latency"]
  Hash,         \* [Triplets -> Nat], hashtext of the key
  Sessions,     \* Postgres sessions that write events
  Collector,    \* [Sessions -> "batch", "engine" or "legacy"]
  MaxTriplets,  \* how many triplets one batch or cycle has breaches for
  MixedRuns     \* FALSE: an engine cycle overlaps with legacy sessions only

ASSUME TripletAssumption ==
  /\ IsFiniteSet(Triplets)
  /\ Rank \in [Triplets -> Nat]
  /\ \A s, t \in Triplets : Rank[s] = Rank[t] => s = t
  /\ Family \in [Triplets -> {"collection", "availability", "latency"}]
  /\ Hash \in [Triplets -> Nat]
ASSUME CollectorAssumption == Collector \in [Sessions -> {"batch", "engine", "legacy"}]
ASSUME BoundAssumption == MaxTriplets \in Nat /\ MixedRuns \in BOOLEAN

VARIABLES
  todo,      \* [Sessions -> triplets of the run whose locks are still to be taken]
  taken,     \* [Sessions -> triplets whose locks the open transaction took]
  roots      \* [Sessions -> triplets that are this cycle's ROOT candidates]

vars == <<todo, taken, roots>>

-----------------------------------------------------------------------------
TypeOK ==
  /\ todo \in [Sessions -> SUBSET Triplets]
  /\ taken \in [Sessions -> SUBSET Triplets]
  /\ roots \in [Sessions -> SUBSET Triplets]

Init ==
  /\ todo = [s \in Sessions |-> {}]
  /\ taken = [s \in Sessions |-> {}]
  /\ roots = [s \in Sessions |-> {}]

Locks(T) == {Hash[t] : t \in T}

-----------------------------------------------------------------------------
(* The order of a run.                                                     *)

\* One pass for each family; jitter and packet loss are further families that
\* the engine visits after latency in the same way.
FamilyIndex(t) ==
  CASE Family[t] = "collection" -> 1
    [] Family[t] = "availability" -> 2
    [] Family[t] = "latency" -> 3

\* poll_snmp goes through the families twice, first with the ROOT candidates.
\* batch_update_events has one pass for collection failures and one for the
\* rest; the legacy service has one triplet only.
Pass(s, t) ==
  CASE Collector[s] = "engine" /\ t \in roots[s] -> FamilyIndex(t)
    [] Collector[s] = "engine" /\ t \notin roots[s] -> 3 + FamilyIndex(t)
    [] Collector[s] # "engine" -> IF Family[t] = "collection" THEN 1 ELSE 2

\* Faulty variant of Before: the distinct triplets are not sorted.
BeforeUnsorted(s, t, u) == Pass(s, t) < Pass(s, u)

\* Session s takes the lock of t before that of u: passes in their order, and
\* sorted() within a pass.
Before(s, t, u) ==
  \/ Pass(s, t) < Pass(s, u)
  \/ Pass(s, t) = Pass(s, u) /\ Rank[t] < Rank[u]

\* The locks that a session may be about to request.
Wanted(s) == {t \in todo[s] : \A u \in todo[s] : ~Before(s, u, t)}

\* Sessions that hold the lock of t, other than s.
Holders(s, t) == {r \in Sessions \ {s} : Hash[t] \in Locks(taken[r])}

-----------------------------------------------------------------------------
(* Runs.                                                                   *)

\* store_metric_result opens a session for one metric of one CI.
Breaches(s) ==
  {B \in SUBSET Triplets :
     Cardinality(B) \in 1 .. (IF Collector[s] = "legacy" THEN 1 ELSE MaxTriplets)}

Idle(s) == todo[s] = {} /\ taken[s] = {}

\* Runs of the two collectors that write many triplets may be kept apart.
MayRunBeside(s, r) ==
  \/ MixedRuns
  \/ "legacy" \in {Collector[s], Collector[r]}
  \/ Collector[s] = "batch" /\ Collector[r] = "batch"

\* Only the engine distinguishes roots; its candidates are some of the breaches.
Start(s) ==
  /\ Idle(s)
  /\ \A r \in Sessions \ {s} : Idle(r) \/ MayRunBeside(s, r)
  /\ \E B \in Breaches(s) :
       /\ todo' = [todo EXCEPT ![s] = B]
       /\ \E C \in (IF Collector[s] = "engine" THEN SUBSET B ELSE {{}}) :
            roots' = [roots EXCEPT ![s] = C]
  /\ UNCHANGED taken

(* acquire_event_triplet_lock returns.                                     *)
Take(s) ==
  /\ \E t \in Wanted(s) :
       /\ Holders(s, t) = {}
       /\ todo' = [todo EXCEPT ![s] = @ \ {t}]
       /\ taken' = [taken EXCEPT ![s] = @ \cup {t}]
  /\ UNCHANGED roots

\* bulk_insert_metrics commits the cycle's session between the ROOT pass of the
\* collection failures and the other passes; a cycle without a good sample skips it.
BulkInsert(s) ==
  /\ Collector[s] = "engine"
  /\ taken[s] # {}
  /\ \A t \in taken[s] : Pass(s, t) = 1
  /\ \A t \in todo[s] : Pass(s, t) > 1
  /\ taken' = [taken EXCEPT ![s] = {}]
  /\ UNCHANGED <<todo, roots>>

\* Faulty variant of Finish: the session of the run is not closed.
FinishOpen(s) ==
  /\ ~Idle(s)
  /\ todo[s] = {}
  /\ UNCHANGED vars

(* The run has written everything and its session is closed.               *)
Finish(s) ==
  /\ ~Idle(s)
  /\ todo[s] = {}
  /\ taken' = [taken EXCEPT ![s] = {}]
  /\ roots' = [roots EXCEPT ![s] = {}]
  /\ UNCHANGED todo

(* The run fails: an error, a killed process, or Postgres chose it to break *)
(* a deadlock.                                                             *)
Abort(s) ==
  /\ todo[s] # {}
  /\ todo' = [todo EXCEPT ![s] = {}]
  /\ taken' = [taken EXCEPT ![s] = {}]
  /\ roots' = [roots EXCEPT ![s] = {}]

Next == \E s \in Sessions : Start(s) \/ Take(s) \/ BulkInsert(s) \/ Finish(s) \/ Abort(s)

Spec == Init /\ [][Next]_vars

(* Postgres hands a released lock to its waiters in the order they came,   *)
(* and runs close their sessions; neither failures nor new runs are forced.*)
FairSpec ==
  /\ Spec
  /\ \A s \in Sessions : SF_vars(Take(s)) /\ WF_vars(Finish(s))

-----------------------------------------------------------------------------
(* Properties.                                                             *)

\* Session s is blocked on a lock that a member of S has.
WaitsFor(s, S) == \E t \in Wanted(s) : Holders(s, t) \cap S # {}

(* event_writer.py, _acquire_sorted_locks: overlapping batches contend in  *)
(* the same order and never trigger Postgres deadlock detection; there is  *)
(* no group of sessions each of which waits for another member.            *)
NoDeadlock == ~\E S \in SUBSET Sessions : S # {} /\ \A s \in S : WaitsFor(s, S)

(* Every run gets all its locks, and writes, or fails: waiting ends.       *)
EveryRunEnds == \A s \in Sessions : ~Idle(s) ~> Idle(s)
=============================================================================
