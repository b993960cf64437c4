-------------------------- MODULE MCEventLifecycle --------------------------
(***************************************************************************)
(* EventLifecycle with two writers, three events and two types of triplets: *)
(* thresholds, which the result writer writes, and collection failures,     *)
(* which the engine and the legacy service write and whose recovered events *)
(* are acknowledged too.  Beside it the availability report over what the   *)
(* collectors make of a CI's outages, which shares no state with it: part    *)
(* says which a behaviour is about, the triplet, the report over the result *)
(* writer's events, or the one over the engine's.                           *)
(***************************************************************************)
EXTENDS EventLifecycle, TLC

CONSTANTS e1, e2, e3, w1, w2

VARIABLES part, now, outages, events, report, closed, misacked, acts

vVars == <<now, outages, events, report, closed, misacked, acts>>
MCVars == <<part, vars, vVars>>

MCWriters == {w1, w2}
MCEvents == {e1, e2, e3}
Symmetry == Permutations(MCEvents) \cup Permutations(MCWriters)

MCUpserts == [threshold |-> {"batch_threshold"}, collection |-> {"engine_collection", "legacy"}]
MCAckable == [threshold |-> {"OPEN", "ACK"}, collection |-> {"OPEN", "ACK", "RECOVERED"}]

Reporting == INSTANCE Availability WITH
          Collector <- "batch", MaxTime <- 3, MaxEvents <- 2, MaxActs <- 1
Recounting == INSTANCE Availability WITH
          Collector <- "engine", MaxTime <- 2, MaxEvents <- 1, MaxActs <- 1

MCInit ==
  /\ part \in {"triplet", "reports", "history"}
  /\ Init /\ (part # "triplet" => type = "threshold")
  /\ Reporting!Init

TripletNext == part = "triplet" /\ Next /\ UNCHANGED <<part, vVars>>
ReportsNext == part = "reports" /\ Reporting!Next /\ UNCHANGED <<part, vars>>
HistoryNext == part = "history" /\ Recounting!Next /\ UNCHANGED <<part, vars>>
MCNext == TripletNext \/ ReportsNext \/ HistoryNext

MCSpec == MCInit /\ [][MCNext]_MCVars

(* Availability: a report never says more than was seen, and all of it when *)
(* nothing disturbs it.                                                     *)
MeasuresHold ==
  /\ part = "reports" => Reporting!ReportInvariant
  /\ part = "history" => Recounting!ReportInvariant
=============================================================================
