---------------------------- MODULE Pruning_proofs ----------------------------
(***************************************************************************)
(* Proofs about pruning: how alone a run is that asked for the lock        *)
(* (PruneLock), and which events a stream that ends well may have skipped  *)
(* (BatchPruner).                                                          *)
(***************************************************************************)
EXTENDS Pruning, FiniteSetTheorems, TLAPS

-----------------------------------------------------------------------------
(* The lock                                                                *)

(* Every variable keeps its type.                                          *)
THEOREM PruneTypeCorrect == Spec => []TypeOK
<1>1. Init => TypeOK
  BY RunAssumption, BoundAssumption DEF Init, TypeOK
<1>2. TypeOK /\ [Next]_vars => TypeOK'
  <2> SUFFICES ASSUME TypeOK, [Next]_vars PROVE TypeOK'
    OBVIOUS
  <2> USE RunAssumption, BoundAssumption DEF TypeOK, Goto, CallPoints, row, Live
  <2>1. CASE UNCHANGED vars
    BY <2>1 DEF vars
  <2>2. CASE Tick
    BY <2>2 DEF Tick
  <2>3. ASSUME NEW r \in Runs, CallAcquire(r) PROVE TypeOK'
    BY <2>3 DEF CallAcquire
  <2>4. ASSUME NEW r \in Runs, InsertRow(r) PROVE TypeOK'
    BY <2>4 DEF InsertRow
  <2>5. ASSUME NEW r \in Runs, SelectRow(r) PROVE TypeOK'
    BY <2>5 DEF SelectRow, TryAgain
  <2>6. ASSUME NEW r \in Runs, ExtendRow(r) PROVE TypeOK'
    BY <2>6 DEF ExtendRow
  <2>7. ASSUME NEW r \in Runs, DeleteExpired(r) PROVE TypeOK'
    BY <2>7 DEF DeleteExpired, TryAgain
  <2>8. ASSUME NEW r \in Runs, StartPruning(r) \/ StartManual(r) \/ AbandonStream(r) PROVE TypeOK'
    BY <2>8 DEF StartPruning, StartManual, AbandonStream
  <2>9. ASSUME NEW r \in Runs, FinishPruning(r) PROVE TypeOK'
    BY <2>9 DEF FinishPruning
  <2>10. ASSUME NEW r \in Runs, Crash(r) PROVE TypeOK'
    BY <2>10 DEF Crash
  <2> QED BY <2>1, <2>2, <2>3, <2>4, <2>5, <2>6, <2>7, <2>8, <2>9, <2>10 DEF Next, RunStep
<1> QED BY <1>1, <1>2, PTL DEF Spec

-----------------------------------------------------------------------------
(* Every step keeps the row of a live run: an insert needs an empty table, *)
(* a release the run's own name, and a clean-up an expired row.            *)
LEMMA PruneStep == ASSUME TypeOK, GrantHasRow, [Next]_vars PROVE GrantHasRow'
<1> USE RunAssumption, BoundAssumption
        DEF TypeOK, GrantHasRow, Goto, CallPoints, row, Live
<1>1. CASE UNCHANGED vars
  BY <1>1 DEF vars
<1>2. CASE Tick
  BY <1>2 DEF Tick
<1>3. ASSUME NEW r \in Runs, CallAcquire(r) PROVE GrantHasRow'
  BY <1>3 DEF CallAcquire
<1>4. ASSUME NEW r \in Runs, InsertRow(r) PROVE GrantHasRow'
  BY <1>4 DEF InsertRow
<1>5. ASSUME NEW r \in Runs, SelectRow(r) PROVE GrantHasRow'
  BY <1>5 DEF SelectRow, TryAgain
<1>6. ASSUME NEW r \in Runs, ExtendRow(r) PROVE GrantHasRow'
  BY <1>6 DEF ExtendRow
<1>7. ASSUME NEW r \in Runs, DeleteExpired(r) PROVE GrantHasRow'
  BY <1>7 DEF DeleteExpired, TryAgain
<1>8. ASSUME NEW r \in Runs, StartPruning(r) \/ StartManual(r) \/ AbandonStream(r) PROVE GrantHasRow'
  BY <1>8 DEF StartPruning, StartManual, AbandonStream
<1>9. ASSUME NEW r \in Runs, FinishPruning(r) PROVE GrantHasRow'
  BY <1>9 DEF FinishPruning
<1>10. ASSUME NEW r \in Runs, Crash(r) PROVE GrantHasRow'
  BY <1>10 DEF Crash
<1> QED BY <1>1, <1>2, <1>3, <1>4, <1>5, <1>6, <1>7, <1>8, <1>9, <1>10 DEF Next, RunStep

(* Whoever calls, however often, and whatever streams are abandoned and    *)
(* processes die: a run loses its row only by outliving it, by extending a *)
(* row that was gone, or through another run of its user.                  *)
THEOREM GrantsKeepTheirRow == Spec => []GrantHasRow
<1>1. Init => GrantHasRow
  BY DEF Init, GrantHasRow
<1>2. TypeOK /\ GrantHasRow /\ [Next]_vars => GrantHasRow'
  BY PruneStep
<1> QED BY <1>1, <1>2, PruneTypeCorrect, PTL DEF Spec

(* Two runs that asked for the lock prune at once only if they are of one  *)
(* user or one of them has lost its row in one of those ways.              *)
THEOREM RunsExcludeEachOther == Spec => []OnePruner
<1>1. GrantHasRow => OnePruner
  BY DEF GrantHasRow, OnePruner
<1> QED BY <1>1, GrantsKeepTheirRow, PTL

-----------------------------------------------------------------------------
(* The pages                                                               *)

(* The cursor stands at an event.                                           *)
At(x) == lastDate = Created[x] /\ lastId = Id[x]

(* What was attempted is behind, and what was closed of it is counted.      *)
Attempted ==
  /\ seen \cap chunk = {}
  /\ closed \subseteq seen
  /\ eligible \cap closed = {}
  /\ processed = Cardinality(closed)
  /\ kept \cap seen \subseteq closed
  /\ kept \subseteq eligible \cup closed

(* What was attempted is not behind the cursor's event; no event that is    *)
(* kept and not closed was left out but those of the page under way and     *)
(* those the cursor passed over.                                            *)
Cursor ==
  /\ seen \cup chunk # {} =>
       \E x \in Events : At(x) /\ \A e \in seen \cup chunk : e = x \/ P!Precedes(e, x)
  /\ ppc = "count" => \A e \in Events : P!AfterCursor(e) \/ e \in overlooked
  /\ ppc \in {"fetch", "close"} =>
       \A e \in kept \ closed : e \in chunk \/ P!AfterCursor(e) \/ e \in overlooked
  /\ ppc = "close" /\ ~full => kept \ closed \subseteq chunk \cup overlooked

(* The total counts all that is kept.                                       *)
Counted ==
  /\ ppc = "count" => kept = {} /\ closed = {} /\ chunk = {} /\ seen = {}
  /\ ppc = "fetch" => chunk = {}
  /\ ppc # "count" => Cardinality(kept) <= total

(* BatchPruner counts with the Cardinality of its own FiniteSets.            *)
LEMMA PagesCardinality == \A S : P!Cardinality(S) = Cardinality(S)
BY DEF P!Cardinality, Cardinality

USE PagesCardinality

PagesInv == P!TypeOK /\ Attempted /\ Cursor /\ Counted /\ P!NothingSkipped

(* Precedes is a strict total order.                                        *)
LEMMA PrecedesIsTotal ==
  ASSUME NEW d \in Events, NEW e \in Events
  PROVE  /\ ~P!Precedes(d, d)
         /\ d # e => P!Precedes(d, e) \/ P!Precedes(e, d)
         /\ ~(P!Precedes(d, e) /\ P!Precedes(e, d))
BY PagesAssumption DEF P!Precedes

LEMMA PrecedesIsTransitive ==
  ASSUME NEW d \in Events, NEW e \in Events, NEW f \in Events,
         P!Precedes(d, e), P!Precedes(e, f)
  PROVE  P!Precedes(d, f)
BY PagesAssumption DEF P!Precedes

(* What the cursor of an event reaches comes after it.                      *)
LEMMA CursorMeansAfter ==
  ASSUME NEW x \in Events, NEW e \in Events, P!Reaches(Created[x], Id[x], e)
  PROVE  P!Precedes(x, e)
BY PagesAssumption DEF P!Reaches, P!Precedes

Rows == {e \in eligible : P!AfterCursor(e)}
Before(e) == {d \in Rows : P!Precedes(d, e)}

(* A page is the beginning of the rows.                                     *)
LEMMA PageIsFirst ==
  ASSUME P!TypeOK, NEW d \in P!Page, NEW e \in Rows \ P!Page
  PROVE  P!Precedes(d, e)
<1> d \in Events /\ e \in Events /\ d \in Rows
  BY DEF P!TypeOK, P!Page, Rows
<1> SUFFICES ASSUME ~P!Precedes(d, e) PROVE FALSE
  OBVIOUS
<1>1. P!Precedes(e, d)
  BY PrecedesIsTotal
<1>2. Before(e) \subseteq Before(d)
  <2> SUFFICES ASSUME NEW f \in Before(e) PROVE f \in Before(d)
    OBVIOUS
  <2> f \in Rows /\ f \in Events /\ P!Precedes(f, e)
    BY DEF Before, Rows, P!TypeOK
  <2> QED BY <1>1, PrecedesIsTransitive DEF Before
<1>3. IsFiniteSet(Before(d))
  BY FS_Subset, PagesAssumption DEF Before, Rows, P!TypeOK
<1>4. Cardinality(Before(e)) <= Cardinality(Before(d))
  BY <1>2, <1>3, FS_Subset
<1>5. Cardinality(Before(d)) < BatchSize /\ ~(Cardinality(Before(e)) < BatchSize)
  BY DEF P!Page, Before, Rows
<1>6. Cardinality(Before(d)) \in Nat /\ Cardinality(Before(e)) \in Nat
  BY <1>2, <1>3, FS_CardinalityType, FS_Subset
<1> QED BY <1>4, <1>5, <1>6, PagesAssumption

(* A page that leaves rows is full: the rows before one that is left have    *)
(* all the ranks below its own.                                             *)
LEMMA ShortPageIsAll ==
  ASSUME P!TypeOK, NEW e \in Rows \ P!Page
  PROVE  Cardinality(P!Page) >= BatchSize
<1> DEFINE n == Cardinality(Before(e))
           Rank == [d \in Before(e) |-> Cardinality(Before(d))]
<1> e \in Events
  BY DEF P!TypeOK, Rows
<1>1. \A d \in Events : IsFiniteSet(Before(d)) /\ Cardinality(Before(d)) \in Nat
  BY FS_Subset, FS_CardinalityType, PagesAssumption DEF Before, Rows, P!TypeOK
<1>2. \A d, f \in Events : d \in Rows /\ P!Precedes(d, f) => Cardinality(Before(d)) < Cardinality(Before(f))
  <2> SUFFICES ASSUME NEW d \in Events, NEW f \in Events, d \in Rows, P!Precedes(d, f)
               PROVE  Cardinality(Before(d)) < Cardinality(Before(f))
    OBVIOUS
  <2>1. Before(d) \subseteq Before(f)
    <3> SUFFICES ASSUME NEW g \in Before(d) PROVE g \in Before(f)
      OBVIOUS
    <3> g \in Rows /\ g \in Events /\ P!Precedes(g, d)
      BY DEF Before, Rows, P!TypeOK
    <3> QED BY PrecedesIsTransitive DEF Before
  <2>2. d \in Before(f) /\ d \notin Before(d)
    BY PrecedesIsTotal DEF Before
  <2>3. Cardinality(Before(d)) <= Cardinality(Before(f)) /\ Cardinality(Before(f)) # Cardinality(Before(d))
    BY <1>1, <2>1, <2>2, FS_Subset
  <2> QED BY <1>1, <2>3
<1>3. Rank \in Injection(Before(e), 0 .. n - 1)
  <2>1. \A d \in Before(e) : d \in Events /\ d \in Rows /\ P!Precedes(d, e)
    BY DEF Before, Rows, P!TypeOK
  <2>2. \A d \in Before(e) : Cardinality(Before(d)) \in 0 .. n - 1
    BY <1>1, <1>2, <2>1
  <2>3. \A d, f \in Before(e) : Cardinality(Before(d)) = Cardinality(Before(f)) => d = f
    BY <1>1, <1>2, <2>1, PrecedesIsTotal
  <2> QED BY <2>2, <2>3 DEF Injection, IsInjective
<1>4. n \in Nat /\ IsFiniteSet(0 .. n - 1) /\ Cardinality(0 .. n - 1) = n
  <2>1. n \in Nat
    BY <1>1
  <2> HIDE DEF n
  <2>2. IsFiniteSet(0 .. n - 1) /\ Cardinality(0 .. n - 1) = IF 0 > n - 1 THEN 0 ELSE n - 1 - 0 + 1
    BY <2>1, FS_Interval
  <2> QED BY <2>1, <2>2
<1>5. Rank \in Surjection(Before(e), 0 .. n - 1)
  BY <1>1, <1>3, <1>4, FS_Injection
<1>6. ~(n < BatchSize) /\ BatchSize \in Nat \ {0}
  BY PagesAssumption DEF P!Page, Rows, Before
<1> DEFINE First == {d \in Before(e) : Cardinality(Before(d)) < BatchSize}
           Place == [d \in First |-> Cardinality(Before(d))]
<1>7. Place \in Surjection(First, 0 .. BatchSize - 1)
  <2>1. \A d \in First : Cardinality(Before(d)) \in 0 .. BatchSize - 1
    <3>1. \A d \in First : d \in Events
      BY DEF Before, Rows, P!TypeOK
    <3> QED BY <3>1, <1>1, <1>6
  <2>2. \A i \in 0 .. BatchSize - 1 : \E d \in First : Place[d] = i
    <3> SUFFICES ASSUME NEW i \in 0 .. BatchSize - 1 PROVE \E d \in First : Cardinality(Before(d)) = i
      OBVIOUS
    <3>1. i \in 0 .. n - 1
      BY <1>4, <1>6
    <3>2. PICK d \in Before(e) : Rank[d] = i
      BY <1>5, <3>1 DEF Surjection
    <3> QED BY <3>2, <1>6
  <2> QED BY <2>1, <2>2 DEF Surjection
<1>8. First \subseteq P!Page
  BY DEF P!Page, Before, Rows
<1>9. IsFiniteSet(P!Page)
  BY FS_Subset, PagesAssumption DEF P!Page, Rows, P!TypeOK
<1>10. IsFiniteSet(First) /\ Cardinality(First) <= Cardinality(P!Page)
  BY <1>8, <1>9, FS_Subset
<1>11. Cardinality(0 .. BatchSize - 1) = BatchSize
  BY <1>6, FS_Interval
<1>12. BatchSize <= Cardinality(First)
  BY <1>7, <1>10, <1>11, FS_Surjection
<1> QED BY <1>6, <1>9, <1>10, <1>12, FS_CardinalityType

(* What has been attempted, and how many of it were closed.                 *)
LEMMA AttemptedStep ==
  ASSUME P!TypeOK, Attempted, Cursor, Counted, [P!Next]_P!vars
  PROVE  Attempted'
<1> USE DEF Attempted
<1> IsFiniteSet(closed)
  BY FS_Subset, PagesAssumption DEF P!TypeOK
<1>1. CASE UNCHANGED P!vars
  BY <1>1 DEF P!vars
<1>2. CASE P!CountTotal
  <2> seen = {}
    BY <1>2 DEF P!CountTotal, Counted, Cursor
  <2> QED BY <1>2 DEF P!CountTotal, Counted
<1>3. CASE P!FetchPage
  BY <1>3 DEF P!FetchPage
<1>4. CASE P!FetchFails
  BY <1>4 DEF P!FetchFails, Counted
<1>5. ASSUME NEW e \in Events, P!CloseOne(e) PROVE Attempted'
  <2>1. e \notin closed
    BY <1>5 DEF P!CloseOne
  <2>2. Cardinality(closed \cup {e}) = Cardinality(closed) + 1
    BY <2>1, FS_AddElement
  <2> QED BY <1>5, <2>1, <2>2 DEF P!CloseOne
<1>6. ASSUME NEW e \in Events, P!CloseFails(e) PROVE Attempted'
  BY <1>6 DEF P!CloseFails
<1>7. CASE P!EndChunk
  BY <1>7 DEF P!EndChunk
<1>8. ASSUME NEW e \in Events, P!Leave(e) PROVE Attempted'
  BY <1>8 DEF P!Leave, P!loopVars
<1>9. ASSUME NEW e \in Events, P!Recover(e) PROVE Attempted'
  BY <1>9 DEF P!Recover, P!loopVars
<1> QED BY <1>1, <1>2, <1>3, <1>4, <1>5, <1>6, <1>7, <1>8, <1>9 DEF P!Next, P!PruneStep

LEMMA TypeStep ==
  ASSUME P!TypeOK, Attempted, Cursor, Counted, Attempted', [P!Next]_P!vars
  PROVE  P!TypeOK'
<1> USE DEF P!TypeOK
<1>0. /\ Cardinality(eligible) \in 0 .. Cardinality(Events)
      /\ closed' \subseteq Events => Cardinality(closed') \in 0 .. Cardinality(Events)
  BY FS_Subset, FS_CardinalityType, PagesAssumption
<1>1. CASE UNCHANGED P!vars
  BY <1>1 DEF P!vars
<1>2. CASE P!CountTotal
  BY <1>0, <1>2 DEF P!CountTotal
<1>3. CASE P!FetchPage
  <2>1. P!Page \subseteq Events
    BY DEF P!Page
  <2>2. lastDate' \in Nat \cup {Null, Header} /\ lastId' \in Nat \cup {Null}
    BY <1>3, <2>1, PagesAssumption DEF P!FetchPage, P!MoveCursor
  <2>3. overlooked' \subseteq Events
    BY <1>3 DEF P!FetchPage, P!MoveCursor
  <2> QED BY <1>3, <2>1, <2>2, <2>3 DEF P!FetchPage
<1>4. CASE P!FetchFails
  BY <1>4, PagesAssumption DEF P!FetchFails
<1>5. ASSUME NEW e \in Events, P!CloseOne(e) PROVE P!TypeOK'
  <2>1. closed' \subseteq Events
    BY <1>5 DEF P!CloseOne
  <2>2. processed' \in 0 .. Cardinality(Events)
    BY <1>0, <2>1 DEF Attempted
  <2> QED BY <1>5, <2>1, <2>2 DEF P!CloseOne
<1>6. ASSUME NEW e \in Events, P!CloseFails(e) PROVE P!TypeOK'
  BY <1>6, PagesAssumption DEF P!CloseFails
<1>7. CASE P!EndChunk
  BY <1>7, PagesAssumption DEF P!EndChunk
<1>8. ASSUME NEW e \in Events, P!Leave(e) PROVE P!TypeOK'
  BY <1>8 DEF P!Leave, P!loopVars
<1>9. ASSUME NEW e \in Events, P!Recover(e) PROVE P!TypeOK'
  BY <1>9 DEF P!Recover, P!loopVars
<1> QED BY <1>1, <1>2, <1>3, <1>4, <1>5, <1>6, <1>7, <1>8, <1>9 DEF P!Next, P!PruneStep

(* No page repeats an event; what it leaves to a later one is after the    *)
(* new cursor, or passed over by it.                                         *)
LEMMA CursorStep ==
  ASSUME P!TypeOK, Attempted, Cursor, Counted, [P!Next]_P!vars
  PROVE  Cursor'
<1>1. ASSUME UNCHANGED <<lastDate, lastId>>
      PROVE  /\ \A e : P!AfterCursor(e)' = P!AfterCursor(e)
             /\ \A x : At(x)' = At(x)
  BY <1>1 DEF At, P!AfterCursor, P!Reaches
<1>2. CASE UNCHANGED P!vars
  BY <1>1, <1>2 DEF P!vars, Cursor
<1>3. CASE P!CountTotal
  <2>1. chunk = {} /\ seen = {} /\ kept' \subseteq Events
    BY <1>3 DEF P!CountTotal, Counted, P!TypeOK
  <2> QED BY <1>1, <1>3, <2>1 DEF P!CountTotal, Cursor
<1>4. CASE P!FetchPage
  <2> USE <1>4 DEF P!FetchPage
  <2>1. P!Page \subseteq Events /\ P!Page \subseteq Rows /\ Rows \subseteq Events /\ chunk = {}
    BY DEF P!Page, Rows, P!TypeOK, Counted
  <2>2. ASSUME NEW e \in seen, NEW d \in Rows PROVE P!Precedes(e, d)
    <3>1. PICK x \in Events : At(x) /\ (e = x \/ P!Precedes(e, x))
      BY DEF Cursor
    <3>2. e \in Events /\ d \in Events /\ P!Precedes(x, d)
      BY <2>1, <3>1, CursorMeansAfter DEF Rows, At, P!AfterCursor, P!TypeOK
    <3> QED BY <3>1, <3>2, PrecedesIsTransitive
  <2>3. P!Page \cap seen = {}
    BY <2>1, <2>2, PrecedesIsTotal
  <2>4. chunk' = P!Page /\ seen' = seen /\ kept' = kept /\ closed' = closed /\ ppc' = "close"
    BY <2>3
  <2>5. \A e \in kept \ closed : e \in Rows \/ e \in overlooked
    BY <2>1 DEF Attempted, Rows, Cursor
  <2>6. Rows \ P!Page # {} => full'
    BY <2>3, ShortPageIsAll
  <2>7. CASE P!Page = {}
    <3>1. UNCHANGED <<lastDate, lastId, overlooked>>
      BY <2>3, <2>7 DEF P!MoveCursor
    <3>2. ~full'
      <4>1. P!Page \ seen = {}
        BY <2>7
      <4>2. Cardinality(P!Page \ seen) = 0
        BY <4>1, FS_EmptySet
      <4>3. ~(Cardinality(P!Page \ seen) >= BatchSize)
        BY <4>2, PagesAssumption
      <4> QED BY <4>3
    <3> QED BY <1>1, <2>1, <2>4, <2>5, <2>6, <2>7, <3>1, <3>2 DEF Cursor
  <2>8. ASSUME P!Page # {} PROVE Cursor'
    <3>1. PICK x \in P!Page :
            /\ \A e \in P!Page \ {x} : P!Precedes(e, x)
            /\ lastDate' = Created[x] /\ lastId' = Id[x]
            /\ overlooked' = overlooked \cup
                 {e \in Events : P!Precedes(x, e) /\ ~P!Reaches(Created[x], Id[x], e)}
      BY <2>3, <2>8 DEF P!MoveCursor
    <3>2. x \in Events /\ x \in Rows /\ At(x)'
      BY <2>1, <3>1 DEF At
    <3>3. \A e \in seen' \cup chunk' : e = x \/ P!Precedes(e, x)
      BY <2>2, <2>4, <3>1, <3>2
    <3>4. ASSUME NEW e \in Rows \ P!Page PROVE P!AfterCursor(e)' \/ e \in overlooked'
      <4>1. e \in Events /\ P!Precedes(x, e)
        BY <2>1, PageIsFirst
      <4> QED BY <3>1, <4>1 DEF P!AfterCursor
    <3>5. overlooked \subseteq overlooked'
      BY <3>1
    <3>6. \A e \in kept' \ closed' : e \in chunk' \/ P!AfterCursor(e)' \/ e \in overlooked'
      BY <2>4, <2>5, <3>4, <3>5
    <3>7. ~full' => kept' \ closed' \subseteq chunk' \cup overlooked'
      BY <2>4, <2>5, <2>6, <3>5
    <3> QED BY <2>4, <3>2, <3>3, <3>6, <3>7 DEF Cursor
  <2> QED BY <2>7, <2>8
<1>5. CASE P!FetchFails
  BY <1>1, <1>5 DEF P!FetchFails, Cursor
<1>6. ASSUME NEW e \in Events, P!CloseOne(e) PROVE Cursor'
  <2>1. e \in kept => e \in closed'
    BY <1>6 DEF P!CloseOne, Attempted
  <2> QED BY <1>1, <1>6, <2>1 DEF P!CloseOne, Cursor
<1>7. ASSUME NEW e \in Events, P!CloseFails(e) PROVE Cursor'
  BY <1>1, <1>7 DEF P!CloseFails, Cursor
<1>8. CASE P!EndChunk
  BY <1>1, <1>8 DEF P!EndChunk, Cursor
<1>9. ASSUME NEW e \in Events, P!Leave(e) PROVE Cursor'
  BY <1>1, <1>9 DEF P!Leave, P!loopVars, Cursor
<1>10. ASSUME NEW e \in Events, P!Recover(e) PROVE Cursor'
  BY <1>1, <1>10 DEF P!Recover, P!loopVars, Cursor
<1> QED BY <1>2, <1>3, <1>4, <1>5, <1>6, <1>7, <1>8, <1>9, <1>10 DEF P!Next, P!PruneStep

LEMMA CountedStep ==
  ASSUME P!TypeOK, Counted, [P!Next]_P!vars
  PROVE  Counted'
<1> USE DEF Counted
<1> IsFiniteSet(kept) /\ Cardinality(kept) \in Nat
  BY FS_Subset, FS_CardinalityType, PagesAssumption DEF P!TypeOK
<1>1. CASE UNCHANGED P!vars
  BY <1>1 DEF P!vars
<1>2. CASE P!CountTotal
  <2> Cardinality(eligible) \in Nat
    BY FS_Subset, FS_CardinalityType, PagesAssumption DEF P!TypeOK
  <2> QED BY <1>2 DEF P!CountTotal
<1>3. CASE P!FetchPage
  BY <1>3 DEF P!FetchPage
<1>4. CASE P!FetchFails
  BY <1>4 DEF P!FetchFails
<1>5. ASSUME NEW e \in Events, P!CloseOne(e) PROVE Counted'
  BY <1>5 DEF P!CloseOne
<1>6. ASSUME NEW e \in Events, P!CloseFails(e) PROVE Counted'
  <2> Cardinality(kept \ {e}) <= Cardinality(kept) /\ Cardinality(kept \ {e}) \in Nat
    BY FS_Subset, FS_CardinalityType
  <2> QED BY <1>6 DEF P!CloseFails, P!TypeOK
<1>7. CASE P!EndChunk
  BY <1>7 DEF P!EndChunk
<1>8. ASSUME NEW e \in Events, P!Leave(e) PROVE Counted'
  <2> Cardinality(kept \ {e}) <= Cardinality(kept) /\ Cardinality(kept \ {e}) \in Nat
    BY FS_Subset, FS_CardinalityType
  <2> QED BY <1>8 DEF P!Leave, P!loopVars, P!TypeOK
<1>9. ASSUME NEW e \in Events, P!Recover(e) PROVE Counted'
  BY <1>9 DEF P!Recover, P!loopVars
<1> QED BY <1>1, <1>2, <1>3, <1>4, <1>5, <1>6, <1>7, <1>8, <1>9 DEF P!Next, P!PruneStep

(* The stream ends when it has come to the last page, and then nothing that  *)
(* was kept is left, or when it has closed as many as were counted.          *)
LEMMA SkippedStep ==
  ASSUME P!TypeOK, Attempted, Cursor, Counted, P!NothingSkipped, [P!Next]_P!vars
  PROVE  P!NothingSkipped'
<1> USE DEF P!NothingSkipped
<1> IsFiniteSet(kept) /\ IsFiniteSet(closed)
  BY FS_Subset, PagesAssumption DEF P!TypeOK
<1>0. /\ Cardinality(kept \ closed) = Cardinality(kept) - Cardinality(kept \cap closed)
      /\ Cardinality(closed \ kept) = Cardinality(closed) - Cardinality(kept \cap closed)
      /\ Cardinality(kept) \in Nat /\ Cardinality(closed) \in Nat
      /\ Cardinality(kept \cap closed) \in Nat
      /\ Cardinality(kept \ closed) \in Nat /\ Cardinality(closed \ kept) \in Nat
      /\ Cardinality(kept \ (closed \cup overlooked)) \in Nat
      /\ Cardinality(kept \ (closed \cup overlooked)) <= Cardinality(kept \ closed)
  <2> kept \cap closed = closed \cap kept
    OBVIOUS
  <2>1. kept \ (closed \cup overlooked) \subseteq kept \ closed /\ IsFiniteSet(kept \ closed)
    BY FS_Difference
  <2>2. /\ Cardinality(kept \ (closed \cup overlooked)) <= Cardinality(kept \ closed)
        /\ Cardinality(kept \ (closed \cup overlooked)) \in Nat
    BY <2>1, FS_Subset, FS_CardinalityType
  <2> QED BY <2>2, FS_Difference, FS_CardinalityType, FS_Intersection
<1>1. CASE UNCHANGED P!vars
  BY <1>1 DEF P!vars
<1>2. CASE P!CountTotal
  <2>1. CASE eligible = {}
    <3> kept' = {} /\ closed' = {} /\ kept' \ (closed' \cup overlooked') = {} /\ closed' \ kept' = {}
      BY <1>2, <2>1 DEF P!CountTotal, Counted
    <3> QED BY FS_EmptySet
  <2> QED BY <1>2, <2>1 DEF P!CountTotal
<1>3. CASE P!FetchPage
  BY <1>3 DEF P!FetchPage
<1>4. CASE P!FetchFails
  BY <1>4 DEF P!FetchFails
<1>5. ASSUME NEW e \in Events, P!CloseOne(e) PROVE P!NothingSkipped'
  BY <1>5 DEF P!CloseOne
<1>6. ASSUME NEW e \in Events, P!CloseFails(e) PROVE P!NothingSkipped'
  BY <1>6 DEF P!CloseFails
<1>7. CASE P!EndChunk
  <2>1. CASE ~full
    <3> kept \ (closed \cup overlooked) = {}
      BY <1>7, <2>1 DEF P!EndChunk, Cursor
    <3> QED BY <1>0, <1>7, FS_EmptySet DEF P!EndChunk
  <2>2. CASE processed >= total
    BY <1>0, <1>7, <2>2 DEF P!EndChunk, Counted, Attempted, P!TypeOK
  <2> QED BY <1>7, <2>1, <2>2 DEF P!EndChunk, P!LastChunk
<1>8. ASSUME NEW e \in Events, P!Leave(e) PROVE P!NothingSkipped'
  <2>1. e \notin closed
    BY <1>8 DEF P!Leave, Attempted
  <2> DEFINE rest == kept' \ (closed' \cup overlooked')
  <2>2. closed' \ kept' = closed \ kept /\ rest \subseteq kept \ (closed \cup overlooked)
    BY <1>8, <2>1 DEF P!Leave, P!loopVars
  <2>3. IsFiniteSet(kept \ (closed \cup overlooked))
    BY FS_Difference
  <2> HIDE DEF rest
  <2>4. Cardinality(rest) <= Cardinality(kept \ (closed \cup overlooked)) /\ Cardinality(rest) \in Nat
    BY <2>2, <2>3, FS_Subset, FS_CardinalityType
  <2>5. Cardinality(closed' \ kept') = Cardinality(closed \ kept)
    BY <2>2
  <2>6. ppc' = "done" => Cardinality(rest) <= Cardinality(closed' \ kept')
    BY <1>0, <1>8, <2>4, <2>5 DEF P!Leave, P!loopVars
  <2> QED BY <2>6 DEF rest
<1>9. ASSUME NEW e \in Events, P!Recover(e) PROVE P!NothingSkipped'
  BY <1>9 DEF P!Recover, P!loopVars
<1> QED BY <1>1, <1>2, <1>3, <1>4, <1>5, <1>6, <1>7, <1>8, <1>9 DEF P!Next, P!PruneStep

LEMMA PagesInit == ASSUME P!Init PROVE PagesInv
<1> Cardinality({}) = 0 /\ Cardinality(Events) \in Nat
  BY FS_EmptySet, FS_CardinalityType, PagesAssumption
<1> USE DEF P!Init
<1>1. P!TypeOK
  <2> MaxFailures \in Nat /\ MaxCloseFailures \in Nat
    BY PagesAssumption
  <2>1. full \in BOOLEAN
    OBVIOUS
  <2>2. /\ eligible \subseteq Events /\ closed \subseteq Events /\ kept \subseteq Events
        /\ chunk \subseteq Events /\ seen \subseteq Events
        /\ total \in 0 .. Cardinality(Events) /\ processed \in 0 .. Cardinality(Events)
        /\ failures \in 0 .. MaxFailures /\ closeFailures \in 0 .. MaxCloseFailures
    OBVIOUS
  <2> QED BY <2>1, <2>2 DEF P!TypeOK
<1>2. Attempted /\ Counted /\ P!NothingSkipped
  BY DEF Attempted, Counted, P!NothingSkipped
<1>3. Cursor
  BY DEF Cursor, P!AfterCursor
<1> QED BY <1>1, <1>2, <1>3 DEF PagesInv

LEMMA PagesStep == ASSUME PagesInv, [P!Next]_P!vars PROVE PagesInv'
BY AttemptedStep, TypeStep, CursorStep, CountedStep, SkippedStep DEF PagesInv

LEMMA PagesHold == P!Spec => []PagesInv
<1>1. P!Init => PagesInv
  BY PagesInit
<1>2. PagesInv /\ [P!Next]_P!vars => PagesInv'
  BY PagesStep
<1> QED BY <1>1, <1>2, PTL DEF P!Spec

(* A stream that ends well has skipped no eligible event, whatever dates and *)
(* ids the events have, whatever pages and closings failed and whoever came  *)
(* and went meanwhile, but for those its cursor passed over, and for one     *)
(* event for each newcomer that it closed instead.                           *)
THEOREM NoEligibleEventIsSkipped == PruningSpec => []NothingSkipped
<1>1. PruningInit => P!Init
  BY DEF PruningInit
<1>2. [LockNext \/ PagesNext]_allVars => [P!Next]_P!vars
  BY DEF LockNext, PagesNext, OnLock, allVars, pageVars, P!vars
<1>3. PagesInv => NothingSkipped
  BY DEF PagesInv, NothingSkipped
<1> QED BY <1>1, <1>2, <1>3, PagesHold, PTL DEF PruningSpec, P!Spec
=============================================================================
