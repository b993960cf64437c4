--------------------------- MODULE EventLocks_proofs ---------------------------
(***************************************************************************)
(* Proofs about EventLocks: result writers, which sort, cannot deadlock,   *)
(* nor can an engine that shares the triplets with legacy sessions only.   *)
(***************************************************************************)
EXTENDS EventLocks, FiniteSetTheorems, WellFoundedInduction, TLAPS

(* Every variable keeps its type: the triplets of a run stay triplets.     *)
THEOREM LocksTypeCorrect == Spec => []TypeOK
<1>1. Init => TypeOK
  BY DEF Init, TypeOK
<1>2. TypeOK /\ [Next]_vars => TypeOK'
  <2> SUFFICES ASSUME TypeOK, [Next]_vars PROVE TypeOK'
    OBVIOUS
  <2> USE DEF TypeOK
  <2>1. CASE UNCHANGED vars
    BY <2>1 DEF vars
  <2>2. ASSUME NEW s \in Sessions, Start(s) PROVE TypeOK'
    <3>1. PICK B \in Breaches(s) : todo' = [todo EXCEPT ![s] = B]
                                   /\ \E C \in (IF Collector[s] = "engine" THEN SUBSET B ELSE {{}}) :
                                        roots' = [roots EXCEPT ![s] = C]
      BY <2>2 DEF Start
    <3>2. B \in SUBSET Triplets
      BY DEF Breaches
    <3>3. PICK C \in SUBSET B : roots' = [roots EXCEPT ![s] = C]
      BY <3>1
    <3> QED BY <2>2, <3>1, <3>2, <3>3 DEF Start
  <2>3. ASSUME NEW s \in Sessions, Take(s) PROVE TypeOK'
    BY <2>3 DEF Take, Wanted
  <2>4. ASSUME NEW s \in Sessions, BulkInsert(s) PROVE TypeOK'
    BY <2>4 DEF BulkInsert
  <2>5. ASSUME NEW s \in Sessions, Finish(s) PROVE TypeOK'
    BY <2>5 DEF Finish
  <2>6. ASSUME NEW s \in Sessions, Abort(s) PROVE TypeOK'
    BY <2>6 DEF Abort
  <2> QED BY <2>1, <2>2, <2>3, <2>4, <2>5, <2>6 DEF Next
<1> QED BY <1>1, <1>2, PTL DEF Spec

-----------------------------------------------------------------------------
(* Legacy sessions.                                                        *)

\* The runs of legacy sessions have one triplet.
SingleInv ==
  \A s \in Sessions : Collector[s] = "legacy" =>
    \/ todo[s] = {}
    \/ taken[s] = {} /\ \E t \in Triplets : todo[s] = {t}

(* A legacy run has nothing while it waits.                                *)
LEMMA SingleStep == ASSUME TypeOK, SingleInv, [Next]_vars PROVE SingleInv'
<1> USE DEF TypeOK, SingleInv
<1>1. CASE UNCHANGED vars
  BY <1>1 DEF vars
<1>2. ASSUME NEW s \in Sessions, Start(s) PROVE SingleInv'
  <2>1. PICK B \in Breaches(s) : todo' = [todo EXCEPT ![s] = B]
    BY <1>2 DEF Start
  <2>2. taken' = taken /\ taken[s] = {}
    BY <1>2 DEF Start, Idle
  <2>3. Collector[s] = "legacy" => \E t \in Triplets : B = {t}
    <3> SUFFICES ASSUME Collector[s] = "legacy" PROVE \E t \in Triplets : B = {t}
      OBVIOUS
    <3>1. B \in SUBSET Triplets /\ Cardinality(B) = 1
      BY DEF Breaches
    <3>2. \E t : B = {t}
      BY <3>1, FS_Subset, FS_Singleton, TripletAssumption
    <3> QED BY <3>1, <3>2
  <2> QED BY <2>1, <2>2, <2>3
<1>3. ASSUME NEW s \in Sessions, Take(s) PROVE SingleInv'
  <2>1. PICK t \in todo[s] : /\ todo' = [todo EXCEPT ![s] = @ \ {t}]
                             /\ taken' = [taken EXCEPT ![s] = @ \cup {t}]
    BY <1>3 DEF Take, Wanted
  <2>2. Collector[s] = "legacy" => todo'[s] = {}
    BY <2>1
  <2>3. \A r \in Sessions \ {s} : todo'[r] = todo[r] /\ taken'[r] = taken[r]
    BY <2>1
  <2> QED BY <2>2, <2>3
<1>4. ASSUME NEW s \in Sessions, BulkInsert(s) PROVE SingleInv'
  BY <1>4 DEF BulkInsert
<1>5. ASSUME NEW s \in Sessions, Finish(s) PROVE SingleInv'
  BY <1>5 DEF Finish
<1>6. ASSUME NEW s \in Sessions, Abort(s) PROVE SingleInv'
  BY <1>6 DEF Abort
<1> QED BY <1>1, <1>2, <1>3, <1>4, <1>5, <1>6 DEF Next

-----------------------------------------------------------------------------
(* Sorted sessions.                                                        *)

\* What sorting is for: a lock that is still to be taken comes after those
\* the session has.
Sorted ==
  \A s \in Sessions : Collector[s] # "engine" =>
    \A t \in taken[s], u \in todo[s] : Before(s, t, u)

\* While an engine runs, the other runs are those of legacy sessions.
Exclusive ==
  \A s, r \in Sessions :
    s # r /\ ~Idle(s) /\ ~Idle(r) /\ Collector[s] = "engine" => Collector[r] = "legacy"

(* Before is a total order of a session's triplets.                        *)
LEMMA BeforeTotal ==
  ASSUME NEW s \in Sessions, NEW t \in Triplets, NEW u \in Triplets, t # u
  PROVE  Before(s, t, u) \/ Before(s, u, t)
<1>1. Pass(s, t) \in Nat /\ Pass(s, u) \in Nat
  BY TripletAssumption DEF Pass, FamilyIndex
<1>2. Rank[t] \in Nat /\ Rank[u] \in Nat /\ Rank[t] # Rank[u]
  BY TripletAssumption
<1> QED BY <1>1, <1>2 DEF Before

(* Every step keeps the locks of a sorted run sorted.                      *)
LEMMA SortedStep == ASSUME TypeOK, Sorted, [Next]_vars PROVE Sorted'
<1> USE DEF TypeOK, Sorted, Before, Pass
<1>1. CASE UNCHANGED vars
  BY <1>1 DEF vars
<1>2. ASSUME NEW s \in Sessions, Start(s) PROVE Sorted'
  BY <1>2 DEF Start, Idle
<1>3. ASSUME NEW s \in Sessions, Take(s) PROVE Sorted'
  <2>1. PICK t \in Wanted(s) : /\ todo' = [todo EXCEPT ![s] = @ \ {t}]
                               /\ taken' = [taken EXCEPT ![s] = @ \cup {t}]
    BY <1>3 DEF Take
  <2>2. t \in todo[s] /\ t \in Triplets /\ \A u \in todo[s] : ~Before(s, u, t)
    BY DEF Wanted
  <2>3. \A u \in todo[s] \ {t} : Before(s, t, u)
    BY <2>2, BeforeTotal
  <2>4. todo'[s] = todo[s] \ {t} /\ taken'[s] = taken[s] \cup {t}
    BY <2>1
  <2>5. \A r \in Sessions \ {s} : todo'[r] = todo[r] /\ taken'[r] = taken[r]
    BY <2>1
  <2>6. \A r \in Sessions : Collector[r] # "engine" =>
          \A v \in taken'[r], u \in todo'[r] : Before(r, v, u)
    BY <2>3, <2>4, <2>5
  <2> QED BY <2>6
<1>4. ASSUME NEW s \in Sessions, BulkInsert(s) PROVE Sorted'
  BY <1>4 DEF BulkInsert
<1>5. ASSUME NEW s \in Sessions, Finish(s) PROVE Sorted'
  BY <1>5 DEF Finish
<1>6. ASSUME NEW s \in Sessions, Abort(s) PROVE Sorted'
  BY <1>6 DEF Abort
<1> QED BY <1>1, <1>2, <1>3, <1>4, <1>5, <1>6 DEF Next

(* Runs start where no run they may not be beside is open, and no run opens *)
(* in any other way.                                                       *)
LEMMA ExclusiveStep ==
  ASSUME ~MixedRuns, TypeOK, Exclusive, [Next]_vars
  PROVE  Exclusive'
<1> USE CollectorAssumption DEF TypeOK, Exclusive, Idle
<1>1. CASE UNCHANGED vars
  BY <1>1 DEF vars
<1>2. ASSUME NEW s \in Sessions, Start(s) PROVE Exclusive'
  <2>1. \A r \in Sessions \ {s} : todo'[r] = todo[r] /\ taken'[r] = taken[r]
    BY <1>2 DEF Start
  <2>2. \A r \in Sessions \ {s} :
          \/ Idle(r)
          \/ "legacy" \in {Collector[s], Collector[r]}
          \/ Collector[s] = "batch" /\ Collector[r] = "batch"
    BY <1>2 DEF Start, MayRunBeside
  <2> SUFFICES ASSUME NEW q \in Sessions, NEW r \in Sessions, q # r,
                      ~Idle(q)', ~Idle(r)', Collector[q] = "engine"
               PROVE  Collector[r] = "legacy"
    BY DEF Exclusive
  <2>3. CASE s \notin {q, r}
    BY <2>1, <2>3
  <2>4. CASE s = q
    BY <2>1, <2>2, <2>4
  <2>5. CASE s = r
    BY <2>1, <2>2, <2>5
  <2> QED BY <2>3, <2>4, <2>5
<1>3. ASSUME NEW s \in Sessions, Take(s) PROVE Exclusive'
  BY <1>3 DEF Take, Wanted
<1>4. ASSUME NEW s \in Sessions, BulkInsert(s) PROVE Exclusive'
  BY <1>4 DEF BulkInsert
<1>5. ASSUME NEW s \in Sessions, Finish(s) PROVE Exclusive'
  BY <1>5 DEF Finish
<1>6. ASSUME NEW s \in Sessions, Abort(s) PROVE Exclusive'
  BY <1>6 DEF Abort
<1> QED BY <1>1, <1>2, <1>3, <1>4, <1>5, <1>6 DEF Next

\* Where the lock of t comes in a sorted run, when all ranks are below M.
Place(t, M) == IF Family[t] = "collection" THEN Rank[t] ELSE M + Rank[t]

(* In a group of waiting sessions, look at the one whose wanted lock comes *)
(* last: its holder, which has a lock and waits, is a result writer, and   *)
(* waits for a lock that comes later still.                                *)
LEMMA SortedExcludesDeadlock ==
  ASSUME \A t, u \in Triplets : Hash[t] = Hash[u] => t = u,
         NEW M \in Nat, \A t \in Triplets : Rank[t] < M,
         TypeOK, Sorted, Exclusive, SingleInv
  PROVE  NoDeadlock
<1> SUFFICES ASSUME NEW S \in SUBSET Sessions, S # {}, \A s \in S : WaitsFor(s, S)
             PROVE  FALSE
  BY DEF NoDeadlock
<1> DEFINE Blocking == {t \in Triplets : \E s \in S : t \in Wanted(s) /\ Holders(s, t) \cap S # {}}
           Left(t) == 2 * M - Place(t, M)
           D == {Left(t) : t \in Blocking}
<1>1. \A s \in S : \E t \in Blocking : t \in Wanted(s)
  BY DEF WaitsFor, Wanted, TypeOK
<1>2. \A t \in Triplets : Place(t, M) \in Nat /\ Left(t) \in Nat
  BY TripletAssumption DEF Place
<1>3. D \subseteq Nat /\ D # {}
  <2>1. \A t \in Blocking : Left(t) \in Nat
    BY <1>2
  <2>2. Blocking # {}
    BY <1>1
  <2> HIDE DEF Blocking, Left
  <2> QED BY <2>1, <2>2
<1>4. PICK x \in D : \A y \in D : ~(<<y, x>> \in OpToRel(<, Nat))
  BY <1>3, NatLessThanWellFounded, WFMin
<1>5. PICK t \in Blocking : x = Left(t)
  BY DEF D
<1>6. PICK s \in S, r \in S : t \in Wanted(s) /\ Hash[t] \in Locks(taken[r])
  BY <1>5 DEF Holders
<1>7. ASSUME NEW q \in S PROVE \E p \in S \ {q} : taken[p] # {} /\ todo[p] # {}
  <2>1. PICK v \in Wanted(q), p \in S : p # q /\ Hash[v] \in Locks(taken[p])
    BY DEF WaitsFor, Holders
  <2>2. PICK w \in Wanted(p) : TRUE
    BY DEF WaitsFor
  <2> QED BY <2>1, <2>2 DEF Locks, Wanted
<1>8. Collector[r] = "batch"
  <2>1. taken[r] # {} /\ todo[r] # {}
    BY <1>1, <1>6 DEF Locks, Wanted
  <2>2. Collector[r] # "legacy"
    BY <2>1 DEF SingleInv
  <2>3. PICK p \in S \ {r} : taken[p] # {} /\ todo[p] # {}
    BY <1>7
  <2>4. Collector[p] # "legacy"
    BY <2>3 DEF SingleInv
  <2>5. Collector[r] # "engine"
    BY <2>1, <2>3, <2>4 DEF Exclusive, Idle
  <2> QED BY <2>2, <2>5, CollectorAssumption
<1>9. t \in taken[r]
  BY <1>6 DEF Locks, TypeOK
<1>10. PICK u \in Blocking : u \in Wanted(r)
  BY <1>1
<1>11. Before(r, t, u)
  BY <1>9, <1>10, <1>8 DEF Sorted, Wanted
<1>12. Place(t, M) < Place(u, M)
  <2>1. Rank[t] \in Nat /\ Rank[u] \in Nat /\ Rank[t] < M /\ Rank[u] < M
    BY TripletAssumption
  <2> QED BY <1>11, <1>8, <2>1 DEF Before, Pass, Place
<1>13. Left(u) < x /\ Left(u) \in Nat /\ x \in Nat /\ Left(u) \in D
  BY <1>2, <1>5, <1>10, <1>12
<1> QED BY <1>4, <1>13 DEF OpToRel

(* If engine cycles overlap with legacy sessions only, and hashtext keeps  *)
(* the triplets apart, the collectors never wait for each other in a       *)
(* circle, however many there are.                                         *)
THEOREM SeparateRunsNeverDeadlock ==
  ASSUME ~MixedRuns,
         \A t, u \in Triplets : Hash[t] = Hash[u] => t = u,
         NEW M \in Nat, \A t \in Triplets : Rank[t] < M
  PROVE  Spec => []NoDeadlock
<1> DEFINE IInv == Sorted /\ Exclusive /\ SingleInv
<1>1. Init => IInv
  BY DEF Init, Sorted, Exclusive, SingleInv, Idle
<1>2. TypeOK /\ IInv /\ [Next]_vars => IInv'
  BY SortedStep, ExclusiveStep, SingleStep
<1>3. TypeOK /\ IInv => NoDeadlock
  BY SortedExcludesDeadlock
<1> QED BY <1>1, <1>2, <1>3, LocksTypeCorrect, PTL DEF Spec

-----------------------------------------------------------------------------
(* One engine.                                                             *)

(* If all but one of the sessions are legacy ones nobody deadlocks, in     *)
(* whatever order that one takes its locks and whatever hashtext returns:  *)
(* the holder of a lock somebody waits for, if it waits itself, can only   *)
(* be that one, and nobody who waits holds what it wants.                  *)
THEOREM OneEngineNeverDeadlocks ==
  ASSUME NEW e \in Sessions, \A s \in Sessions \ {e} : Collector[s] = "legacy"
  PROVE  Spec => []NoDeadlock
<1>1. Init => SingleInv
  BY DEF Init, SingleInv
<1>2. TypeOK /\ SingleInv /\ [Next]_vars => SingleInv'
  BY SingleStep
<1>3. TypeOK /\ SingleInv => NoDeadlock
  <2> SUFFICES ASSUME TypeOK, SingleInv,
                      NEW S \in SUBSET Sessions, S # {}, \A s \in S : WaitsFor(s, S)
               PROVE  FALSE
    BY DEF NoDeadlock
  <2>1. \A s \in S : todo[s] # {}
    BY DEF WaitsFor, Wanted
  <2>2. ASSUME NEW s \in S PROVE e \in S /\ s # e
    <3>1. PICK t \in Wanted(s), r \in S : r # s /\ Hash[t] \in Locks(taken[r])
      BY DEF WaitsFor, Holders
    <3>2. taken[r] # {} /\ todo[r] # {}
      BY <2>1, <3>1 DEF Locks
    <3>3. r = e
      BY <3>2 DEF SingleInv
    <3> QED BY <3>1, <3>3
  <2> QED BY <2>2
<1> QED BY <1>1, <1>2, <1>3, LocksTypeCorrect, PTL DEF Spec
=============================================================================
