------------------------------ MODULE MCPruneLock ------------------------------
(***************************************************************************)
(* Pruning with the scheduled job, two streams of one operator and a       *)
(* POST /events/prune, and with three dated and two legacy events in pages *)
(* of two.  Two of the dated events share their date, their ids are not in *)
(* the order of the dates, and one legacy id comes before theirs.          *)
(***************************************************************************)
EXTENDS Pruning, TLC

CONSTANTS job, r1, r2, m, scheduler, alice

MCRuns == {job, r1, r2, m}
MCOwners == {scheduler, alice, m}
MCKind == job :> "scheduler" @@ r1 :> "stream" @@ r2 :> "stream" @@ m :> "manual"
\* The manual prune asks for no lock; the name it is given is never used.
MCOwner == job :> scheduler @@ r1 :> alice @@ r2 :> alice @@ m :> m

MCEvents == 1 .. 5
MCCreated == <<1, 2, 2, Null, Null>>
MCId == <<3, 2, 4, 1, 5>>
=============================================================================
