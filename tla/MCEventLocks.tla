------------------------------ MODULE MCEventLocks ------------------------------
(***************************************************************************)
(* EventLocks with two result writers, an engine and a legacy session, and *)
(* four triplets: a collection failure and another breach on each of two   *)
(* CIs.  The ranks alternate, so that the order of the passes is not the   *)
(* order of the ranks.                                                     *)
(***************************************************************************)
EXTENDS EventLocks, TLC

CONSTANTS s1, s2, s3, s4, availA, failA, latB, failB

MCSessions == {s1, s2, s3, s4}
MCCollector == [s \in Sessions |->
  CASE s = s3 -> "engine" [] s = s4 -> "legacy" [] OTHER -> "batch"]

MCTriplets == {availA, failA, latB, failB}
MCRank == availA :> 1 @@ failA :> 2 @@ latB :> 3 @@ failB :> 4
MCFamily == availA :> "availability" @@ failA :> "collection"
              @@ latB :> "latency" @@ failB :> "collection"
=============================================================================
