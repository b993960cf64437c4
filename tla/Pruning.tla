-------------------------------- MODULE Pruning --------------------------------
(***************************************************************************)
(* Pruning: the runs that ask for the lock row (PruneLock, part "lock"),   *)
(* and beside them the stream that one of them then works through          *)
(* (BatchPruner, part "pages").  They share no state.                      *)
(***************************************************************************)
EXTENDS PruneLock, FiniteSets

CONSTANTS Events, Created, Id, Null, Header, BatchSize, MaxFailures, MaxCloseFailures, MayRecover

ASSUME PagesAssumption ==
  /\ IsFiniteSet(Events) /\ MayRecover \subseteq Events
  /\ Null \notin Nat /\ Header \notin Nat \cup {Null}
  /\ Created \in [Events -> Nat \cup {Null}]
  /\ Id \in [Events -> Nat] /\ \A d, e \in Events : Id[d] = Id[e] => d = e
  /\ BatchSize \in Nat \ {0}
  /\ MaxFailures \in Nat /\ MaxCloseFailures \in Nat

VARIABLES
  part,
  eligible, closed, kept, ppc, total, processed, lastDate, lastId, chunk, full, seen,
  failures, closeFailures, overlooked

P == INSTANCE BatchPruner WITH pc <- ppc

pageVars == <<eligible, closed, kept, ppc, total, processed, lastDate, lastId, chunk, full,
              seen, failures, closeFailures, overlooked>>
allVars == <<part, vars, pageVars>>

OnLock == UNCHANGED <<part, pageVars>>
OnPages == UNCHANGED <<part, vars>>
LockNext == part = "lock" /\ Next /\ OnLock
PagesNext == part = "pages" /\ P!Next /\ OnPages

PruningInit ==
  /\ part \in {"lock", "pages"}
  /\ Init
  /\ P!Init /\ (part = "lock" => eligible = {})

PruningSpec == PruningInit /\ [][LockNext \/ PagesNext]_allVars

\* The fairness of the two modules.
FairPruning ==
  /\ PruningSpec
  /\ WF_allVars(part = "lock" /\ Tick /\ OnLock)
  /\ \A r \in Runs : Kind[r] = "scheduler" => WF_allVars(part = "lock" /\ RunStep(r) /\ OnLock)
  /\ WF_allVars(part = "pages" /\ P!PruneStep /\ OnPages)

-----------------------------------------------------------------------------
(* BatchPruner: what stays eligible is closed when the stream ends, but     *)
(* for what the cursor passes over, and for one event for each newcomer     *)
(* that was closed in its place.                                            *)
NothingSkipped == P!TypeOK /\ P!NothingSkipped

(* Pruning goes on: a row of the lock that nobody stands behind does not    *)
(* stay for ever (PruneLock), and the stream ends, whatever fails and       *)
(* whoever recovers (BatchPruner).                                          *)
PruningGoesOn ==
  (part = "lock" => AbandonedIsTakenOver) /\ (part = "pages" => P!StreamEnds)
=============================================================================
