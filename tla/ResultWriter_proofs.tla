------------------------- MODULE ResultWriter_proofs -------------------------
(***************************************************************************)
(* Proofs about ResultWriter for every set of rows and writers.            *)
(***************************************************************************)
EXTENDS ResultWriter, TLAPS

(* Every row a run is about to complete has its receipt.                   *)
ReceiptInv ==
  /\ WrittenHasReceipt
  /\ \A w \in Writers :
       /\ dups[w] \subseteq receipts
       /\ pending[w] \subseteq receipts
       /\ pc[w] = "dups" => todo[w] \subseteq dups[w]
       /\ pc[w] = "events" => fresh[w] \subseteq receipts
       /\ pc[w] = "complete" => todo[w] \subseteq receipts

(* What the control points of a run say of its sets of rows.               *)
Kept(w) == fresh[w] \cup pending[w]
RunShape(w) ==
  /\ pc[w] = "idle" => batch[w] = {} /\ w \notin open /\ Kept(w) = {} /\ dups[w] = {}
  /\ Kept(w) \cap dups[w] = {}
  /\ pc[w] = "check" => /\ todo[w] \cap (Kept(w) \cup dups[w]) = {}
                        /\ dups[w] \subseteq batch[w]
  /\ pc[w] = "dups" => todo[w] \subseteq dups[w]
  /\ pc[w] \in {"check", "dups", "retry_samples", "retry_events", "complete"} =>
       todo[w] \subseteq batch[w]
  /\ pc[w] \in {"check", "dups", "persist", "events"} => Kept(w) \subseteq batch[w]
Shape == \A w \in Writers : RunShape(w)

(* What keeps a claimed row away from other writers: the row lock of an    *)
(* uncommitted claim, then a lease that has not run out.                   *)
Backed(w) ==
  \A r \in batch[w] :
    /\ rstatus[r] # "written"
    /\ w \notin open => rstatus[r] = "leased" /\ r \notin lapsed
AllBacked ==
  /\ \A r \in lapsed : rstatus[r] = "leased"
  /\ \A w \in Writers : Backed(w)
LeaseInv == Shape /\ OneWriterPerRow /\ AllBacked

(* A row some run has found to be new has no receipt until its run inserts it. *)
FreshInv ==
  \A w \in Writers :
    /\ pc[w] \in {"check", "dups", "persist"} => fresh[w] \cap receipts = {}
    /\ pc[w] = "retry_samples" => todo[w] \cap receipts = {}

(* A row with a receipt whose events are missing is in the hands of a run  *)
(* that will update or flag it, or it is flagged; and the flag that a run  *)
(* has read is the flag of the row.  Else a death left it half done.        *)
Awaiting(r) ==
  \E w \in Writers :
    \/ pc[w] = "events" /\ r \in fresh[w]
    \/ pc[w] = "retry_events" /\ r \in todo[w]
Done == updated \cup SilentRows \cup stranded
UpdateInv ==
  /\ \A r \in Rows : rstatus[r] = "written" => r \in Done
  /\ \A r \in receipts \ Done : errorCode[r] = "neo4j_pending" \/ Awaiting(r)
  /\ \A w \in Writers :
       /\ \A r \in batch[w] : r \in flagged[w] <=> errorCode[r] = "neo4j_pending"
       /\ pending[w] \subseteq flagged[w]
       /\ dups[w] \subseteq Done
       /\ pc[w] = "complete" => todo[w] \subseteq Done
       /\ pc[w] = "retry_events" => todo[w] \subseteq receipts

(* A row a death left half done keeps its receipt, and its run was the     *)
(* last that could have updated or flagged it.                             *)
StrandedRow(r) ==
  r \in receipts /\ r \notin updated /\ errorCode[r] # "neo4j_pending" /\ ~Awaiting(r)
StrandedInv == \A r \in stranded : StrandedRow(r)

-----------------------------------------------------------------------------
(* The statement that settles a row keeps the columns within their types.  *)
LEMMA SettleType ==
  ASSUME TypeOK, NEW w \in Writers, NEW r \in Rows, NEW s \in RowStatuses, SettleRow(w, r, s)
  PROVE  /\ rstatus' \in [Rows -> RowStatuses]
         /\ lapsed' \in SUBSET Rows
         /\ open' \in SUBSET Writers
         /\ batch' \in [Writers -> SUBSET Rows]
  BY DEF TypeOK, SettleRow, RowStatuses

(* What a run leaves behind when it returns.                               *)
LEMMA ReturnType ==
  ASSUME TypeOK, NEW w \in Writers, Return(w)
  PROVE  /\ pc' \in [Writers -> Points]
         /\ batch' \in [Writers -> SUBSET Rows]
         /\ flagged' \in [Writers -> SUBSET Rows]
         /\ todo' \in [Writers -> SUBSET Rows]
         /\ fresh' \in [Writers -> SUBSET Rows]
         /\ pending' \in [Writers -> SUBSET Rows]
         /\ dups' \in [Writers -> SUBSET Rows]
  BY DEF TypeOK, Return, Points

(* Type correctness is inductive.                                          *)
LEMMA TypeStep ==
  ASSUME TypeOK, [Next]_vars
  PROVE  TypeOK'
<1> USE RowAssumption, BoundAssumption DEF TypeOK
<1>1. ASSUME NEW r \in Rows, NEW s \in PublishStatuses, Publish(r, s) PROVE TypeOK'
  BY <1>1 DEF Publish, storeVars, classVars, boundVars, RowStatuses
<1>2. ASSUME NEW w \in Writers, ClaimResults(w) PROVE TypeOK'
  <2>1. PICK claim \in SUBSET Claimable :
          /\ batch' = [batch EXCEPT ![w] = claim]
          /\ todo' = [todo EXCEPT ![w] = claim]
          /\ flagged' = [flagged EXCEPT ![w] = {r \in claim : errorCode[r] = "neo4j_pending"}]
    BY <1>2 DEF ClaimResults
  <2>2. claim \in SUBSET Rows
    BY DEF Claimable
  <2> QED
    BY <1>2, <2>1, <2>2 DEF ClaimResults, queueVars, storeVars, boundVars, Points
<1>3. ASSUME NEW w \in Writers, NEW r \in Rows, CheckReceipt(w, r) PROVE TypeOK'
  BY <1>3 DEF CheckReceipt, queueVars, storeVars, boundVars
<1>4. ASSUME NEW w \in Writers, CheckDone(w) PROVE TypeOK'
  BY <1>4 DEF CheckDone, queueVars, storeVars, classVars, boundVars, Points
<1>5. ASSUME NEW w \in Writers, NEW r \in Rows, CompleteDuplicate(w, r) PROVE TypeOK'
  BY <1>5, SettleType DEF CompleteDuplicate, storeVars, classVars, boundVars, RowStatuses
<1>6. ASSUME NEW w \in Writers, NEW r \in Rows, RetryRow(w, r) PROVE TypeOK'
  <2>1. errorCode' \in [Rows -> ErrorCodes]
    BY <1>6 DEF RetryRow, ErrorCodes
  <2> QED
    BY <1>6, <2>1, SettleType DEF RetryRow, storeVars, classVars, boundVars, RowStatuses
<1>7. ASSUME NEW w \in Writers, NEW r \in Rows, CompleteRow(w, r) PROVE TypeOK'
  BY <1>7, SettleType DEF CompleteRow, storeVars, classVars, boundVars, RowStatuses
<1>8. ASSUME NEW w \in Writers, DuplicatesDone(w) PROVE TypeOK'
  BY <1>8 DEF DuplicatesDone, queueVars, storeVars, classVars, boundVars, Points
<1>9. ASSUME NEW w \in Writers, PersistSamples(w) PROVE TypeOK'
  BY <1>9 DEF PersistSamples, queueVars, classVars, boundVars, Points
<1>10. ASSUME NEW w \in Writers, PersistFails(w) PROVE TypeOK'
  BY <1>10 DEF PersistFails, queueVars, storeVars, classVars, Points
<1>11. ASSUME NEW w \in Writers, UpdateEvents(w) PROVE TypeOK'
  BY <1>11 DEF UpdateEvents, EventRows, queueVars, classVars, boundVars, Points
<1>12. ASSUME NEW w \in Writers, UpdateEventsFails(w) PROVE TypeOK'
  <2>1. PICK done \in SUBSET EventRows(w) : updated' = updated \cup done
    BY <1>12 DEF UpdateEventsFails
  <2> QED
    BY <1>12, <2>1 DEF UpdateEventsFails, EventRows, queueVars, classVars, Points
<1>13. ASSUME NEW w \in Writers, EndRun(w) PROVE TypeOK'
  BY <1>13, ReturnType DEF EndRun, queueVars, storeVars, boundVars
<1>14. ASSUME NEW w \in Writers, Crash(w) PROVE TypeOK'
  BY <1>14, ReturnType DEF Crash, HalfDone, queueVars, storeVars
<1>15. ASSUME NEW r \in Rows, LeaseLapses(r) PROVE TypeOK'
  BY <1>15 DEF LeaseLapses, storeVars, classVars, boundVars
<1>16. CASE ExpireResultLeases
  BY <1>16 DEF ExpireResultLeases, storeVars, classVars, boundVars, RowStatuses
<1>17. CASE UNCHANGED vars
  BY <1>17 DEF vars, queueVars, storeVars, classVars, boundVars
<1> QED
  BY <1>1, <1>2, <1>3, <1>4, <1>5, <1>6, <1>7, <1>8, <1>9, <1>10, <1>11, <1>12, <1>13,
     <1>14, <1>15, <1>16, <1>17
  DEF Next, RunStep, WriterStep, CheckStep

(* The columns of poll_result_queue, the two stores and the state of every *)
(* run keep their types whatever the writers do.                           *)
THEOREM WriterTypeCorrect == Spec => []TypeOK
<1>1. Init => TypeOK
  BY BoundAssumption
  DEF Init, TypeOK, None, RowStatuses, ErrorCodes, Points
<1>2. TypeOK /\ [Next]_vars => TypeOK'
  BY TypeStep
<1> QED
  BY <1>1, <1>2, PTL DEF Spec

-----------------------------------------------------------------------------
(* Receipts only accumulate, and every set of rows a run completes is      *)
(* drawn from them.                                                        *)
LEMMA ReceiptStep ==
  ASSUME TypeOK, ReceiptInv, [Next]_vars
  PROVE  ReceiptInv'
<1> USE StatusAssumption DEF TypeOK, ReceiptInv, WrittenHasReceipt
<1>1. ASSUME NEW r \in Rows, NEW s \in PublishStatuses, Publish(r, s) PROVE ReceiptInv'
  BY <1>1 DEF Publish, storeVars, classVars
<1>2. ASSUME NEW w \in Writers, ClaimResults(w) PROVE ReceiptInv'
  <2>1. PICK claim : todo' = [todo EXCEPT ![w] = claim]
    BY <1>2 DEF ClaimResults
  <2> QED
    BY <1>2, <2>1 DEF ClaimResults, queueVars, storeVars
<1>3. ASSUME NEW w \in Writers, NEW r \in Rows, CheckReceipt(w, r) PROVE ReceiptInv'
  BY <1>3 DEF CheckReceipt, queueVars, storeVars
<1>4. ASSUME NEW w \in Writers, CheckDone(w) PROVE ReceiptInv'
  BY <1>4 DEF CheckDone, queueVars, storeVars, classVars
<1>5. ASSUME NEW w \in Writers, NEW r \in Rows, CompleteDuplicate(w, r) PROVE ReceiptInv'
  BY <1>5 DEF CompleteDuplicate, SettleRow, storeVars, classVars
<1>6. ASSUME NEW w \in Writers, NEW r \in Rows, RetryRow(w, r) PROVE ReceiptInv'
  BY <1>6 DEF RetryRow, SettleRow, storeVars, classVars
<1>7. ASSUME NEW w \in Writers, NEW r \in Rows, CompleteRow(w, r) PROVE ReceiptInv'
  BY <1>7 DEF CompleteRow, SettleRow, storeVars, classVars
<1>8. ASSUME NEW w \in Writers, DuplicatesDone(w) PROVE ReceiptInv'
  BY <1>8 DEF DuplicatesDone, queueVars, storeVars, classVars
<1>9. ASSUME NEW w \in Writers, PersistSamples(w) PROVE ReceiptInv'
  BY <1>9 DEF PersistSamples, queueVars, classVars
<1>10. ASSUME NEW w \in Writers, PersistFails(w) PROVE ReceiptInv'
  BY <1>10 DEF PersistFails, queueVars, storeVars, classVars
<1>11. ASSUME NEW w \in Writers, UpdateEvents(w) PROVE ReceiptInv'
  BY <1>11 DEF UpdateEvents, queueVars, classVars
<1>12. ASSUME NEW w \in Writers, UpdateEventsFails(w) PROVE ReceiptInv'
  BY <1>12 DEF UpdateEventsFails, queueVars, classVars
<1>13. ASSUME NEW w \in Writers, EndRun(w) PROVE ReceiptInv'
  BY <1>13 DEF EndRun, Return, queueVars, storeVars
<1>14. ASSUME NEW w \in Writers, Crash(w) PROVE ReceiptInv'
  BY <1>14 DEF Crash, Return, queueVars, storeVars
<1>15. ASSUME NEW r \in Rows, LeaseLapses(r) PROVE ReceiptInv'
  BY <1>15 DEF LeaseLapses, storeVars, classVars
<1>16. CASE ExpireResultLeases
  BY <1>16 DEF ExpireResultLeases, storeVars, classVars
<1>17. CASE UNCHANGED vars
  BY <1>17 DEF vars, queueVars, storeVars, classVars
<1> QED
  BY <1>1, <1>2, <1>3, <1>4, <1>5, <1>6, <1>7, <1>8, <1>9, <1>10, <1>11, <1>12, <1>13,
     <1>14, <1>15, <1>16, <1>17
  DEF Next, RunStep, WriterStep, CheckStep

(* No crash, lost lease, store failure or race writes a row whose samples  *)
(* and receipt are not in Timescale.                                       *)
THEOREM WrittenRowsHaveReceipts == Spec => []WrittenHasReceipt
<1>1. Init => ReceiptInv
  BY DEF Init, ReceiptInv, WrittenHasReceipt, None
<1>2. TypeOK /\ ReceiptInv /\ [Next]_vars => ReceiptInv'
  BY ReceiptStep
<1>3. ReceiptInv => WrittenHasReceipt
  BY DEF ReceiptInv
<1> QED
  BY WriterTypeCorrect, <1>1, <1>2, <1>3, PTL DEF Spec

-----------------------------------------------------------------------------
(* A step that touches no set of rows of a run keeps what its control      *)
(* point says of them.                                                     *)
LEMMA ShapeKept ==
  ASSUME Shape, NEW v \in Writers,
         pc'[v] = pc[v], batch'[v] = batch[v], v \in open' => v \in open,
         todo'[v] = todo[v], fresh'[v] = fresh[v], pending'[v] = pending[v], dups'[v] = dups[v]
  PROVE  RunShape(v)'
  BY DEF Shape, RunShape, Kept

(* The same of a step of another run, which changes only that run's        *)
(* entries and opens no claim but its own.                                 *)
LEMMA OthersKeepShape ==
  ASSUME TypeOK, Shape, NEW w \in Writers, NEW v \in Writers, v # w, WriterStep(w) \/ Crash(w)
  PROVE  RunShape(v)' /\ batch'[v] = batch[v] /\ (v \in open' <=> v \in open)
<1> USE DEF TypeOK, Shape, RunShape, Kept, classVars
<1>1. CASE ClaimResults(w)
  BY <1>1 DEF ClaimResults
<1>2. CASE CheckStep(w)
  BY <1>2 DEF CheckStep, CheckDone, CheckReceipt
<1>3. ASSUME NEW r \in Rows, CompleteDuplicate(w, r) \/ RetryRow(w, r) \/ CompleteRow(w, r)
      PROVE RunShape(v)' /\ batch'[v] = batch[v] /\ (v \in open' <=> v \in open)
  BY <1>3 DEF CompleteDuplicate, RetryRow, CompleteRow, SettleRow
<1>4. CASE DuplicatesDone(w) \/ PersistSamples(w) \/ PersistFails(w) \/ UpdateEvents(w)
           \/ UpdateEventsFails(w)
  BY <1>4 DEF DuplicatesDone, PersistSamples, PersistFails, UpdateEvents, UpdateEventsFails
<1>5. CASE EndRun(w) \/ Crash(w)
  BY <1>5 DEF EndRun, Crash, Return
<1> QED
  BY <1>1, <1>2, <1>3, <1>4, <1>5 DEF WriterStep

(* A run's own steps keep what its control points say.                     *)
LEMMA OwnShape ==
  ASSUME TypeOK, Shape, NEW w \in Writers, WriterStep(w) \/ Crash(w)
  PROVE  RunShape(w)'
<1> USE DEF TypeOK, Shape, RunShape, Kept, classVars
<1>1. CASE ClaimResults(w)
  BY <1>1 DEF ClaimResults
<1>2. ASSUME NEW r \in Rows, CheckReceipt(w, r) PROVE RunShape(w)'
  BY <1>2 DEF CheckReceipt
<1>3. CASE CheckDone(w)
  BY <1>3 DEF CheckDone
<1>4. ASSUME NEW r \in Rows, CompleteDuplicate(w, r) PROVE RunShape(w)'
  BY <1>4 DEF CompleteDuplicate, SettleRow
<1>5. ASSUME NEW r \in Rows, RetryRow(w, r) \/ CompleteRow(w, r) PROVE RunShape(w)'
  BY <1>5 DEF RetryRow, CompleteRow, SettleRow
<1>6. CASE DuplicatesDone(w) \/ PersistSamples(w)
  BY <1>6 DEF DuplicatesDone, PersistSamples
<1>7. CASE PersistFails(w)
  BY <1>7 DEF PersistFails
<1>8. CASE UpdateEvents(w) \/ UpdateEventsFails(w)
  BY <1>8 DEF UpdateEvents, UpdateEventsFails, EventRows
<1>9. CASE EndRun(w) \/ Crash(w)
  BY <1>9 DEF EndRun, Crash, Return
<1> QED
  BY <1>1, <1>2, <1>3, <1>4, <1>5, <1>6, <1>7, <1>8, <1>9 DEF WriterStep, CheckStep

LEMMA ShapeStep ==
  ASSUME TypeOK, Shape, [Next]_vars
  PROVE  Shape'
<1>1. ASSUME NEW w \in Writers, WriterStep(w) \/ Crash(w) PROVE Shape'
  BY <1>1, OwnShape, OthersKeepShape DEF Shape
<1>2. ASSUME UNCHANGED <<pc, batch, todo, classVars, open>> PROVE Shape'
  BY <1>2, ShapeKept DEF Shape, classVars
<1> QED
  BY <1>1, <1>2
  DEF Next, RunStep, Publish, LeaseLapses, ExpireResultLeases, vars

-----------------------------------------------------------------------------
(* The rows of a run other than the one that settles a row stay backed.    *)
LEMMA SettleBacked ==
  ASSUME TypeOK, LeaseInv, NEW w \in Writers, NEW r \in batch[w], NEW s, SettleRow(w, r, s)
  PROVE  OneWriterPerRow' /\ AllBacked'
<1> USE DEF TypeOK, LeaseInv, OneWriterPerRow, SettleRow, AllBacked
<1>1. OneWriterPerRow'
  OBVIOUS
<1>2. Backed(w)'
  BY DEF Backed
<1>3. ASSUME NEW v \in Writers, v # w PROVE Backed(v)'
  BY <1>3 DEF Backed
<1>4. \A q \in lapsed' : rstatus'[q] = "leased"
  OBVIOUS
<1> QED
  BY <1>1, <1>2, <1>3, <1>4

(* No run outlives its lease, so each claimed row is out of reach of every *)
(* other claim until its run settles it or ends.                           *)
LEMMA LeaseStep ==
  ASSUME LeaseCoversBatch, TypeOK, LeaseInv, [Next]_vars
  PROVE  LeaseInv'
<1> USE DEF TypeOK, OneWriterPerRow, AllBacked, Backed
<1>0. Shape'
  BY ShapeStep DEF LeaseInv
<1>1. ASSUME NEW r \in Rows, NEW s \in PublishStatuses, Publish(r, s) PROVE OneWriterPerRow' /\ AllBacked'
  BY <1>1, StatusAssumption DEF Publish, LeaseInv
<1>2. ASSUME NEW w \in Writers, ClaimResults(w) PROVE OneWriterPerRow' /\ AllBacked'
  <2>1. PICK claim \in SUBSET Claimable : batch' = [batch EXCEPT ![w] = claim]
    BY <1>2 DEF ClaimResults
  <2>2. ASSUME NEW v \in Writers, v # w PROVE batch[v] \cap claim = {}
    BY <2>2 DEF Claimable, Locked, LeaseInv
  <2>3. OneWriterPerRow'
    BY <2>1, <2>2 DEF LeaseInv
  <2>4. Backed(w)'
    BY <1>2, <2>1 DEF ClaimResults, queueVars, Claimable
  <2>5. ASSUME NEW v \in Writers, v # w PROVE Backed(v)'
    BY <1>2, <2>1, <2>5 DEF ClaimResults, queueVars, LeaseInv
  <2>6. \A r \in lapsed' : rstatus'[r] = "leased"
    BY <1>2 DEF ClaimResults, queueVars, LeaseInv
  <2> QED
    BY <2>3, <2>4, <2>5, <2>6
<1>3. ASSUME NEW w \in Writers, NEW r \in Rows,
             CompleteDuplicate(w, r) \/ RetryRow(w, r) \/ CompleteRow(w, r)
      PROVE OneWriterPerRow' /\ AllBacked'
  <2>1. r \in batch[w]
    BY <1>3 DEF CompleteDuplicate, RetryRow, CompleteRow, LeaseInv, Shape, RunShape
  <2> QED
    BY <1>3, <2>1, SettleBacked DEF CompleteDuplicate, RetryRow, CompleteRow
<1>4. ASSUME NEW w \in Writers, EndRun(w) \/ Crash(w) PROVE OneWriterPerRow' /\ AllBacked'
  BY <1>4 DEF EndRun, Crash, Return, queueVars, LeaseInv
<1>5. ASSUME NEW r \in Rows, LeaseLapses(r) PROVE OneWriterPerRow' /\ AllBacked'
  BY <1>5, LeaseCoversBatch DEF LeaseLapses, LeaseInv
<1>6. ASSUME ExpireResultLeases PROVE OneWriterPerRow' /\ AllBacked'
  <2>1. batch' = batch /\ open' = open
    BY <1>6 DEF ExpireResultLeases
  <2>2. ASSUME NEW v \in Writers PROVE Backed(v)'
    BY <1>6, <2>1 DEF ExpireResultLeases, LeaseInv
  <2>3. lapsed' = {}
    BY <1>6 DEF ExpireResultLeases
  <2> QED
    BY <2>1, <2>2, <2>3 DEF LeaseInv
<1>7. ASSUME UNCHANGED <<queueVars, batch, open>> PROVE OneWriterPerRow' /\ AllBacked'
  BY <1>7 DEF queueVars, LeaseInv
<1>8. ASSUME NEW w \in Writers,
             \/ CheckStep(w) \/ DuplicatesDone(w) \/ PersistSamples(w) \/ PersistFails(w)
             \/ UpdateEvents(w) \/ UpdateEventsFails(w)
      PROVE UNCHANGED <<queueVars, batch, open>>
  BY <1>8 DEF CheckStep, CheckReceipt, CheckDone, DuplicatesDone, PersistSamples, PersistFails,
              UpdateEvents, UpdateEventsFails
<1>9. ASSUME NEW w \in Writers, WriterStep(w) \/ Crash(w) PROVE OneWriterPerRow' /\ AllBacked'
  BY <1>2, <1>3, <1>4, <1>7, <1>8, <1>9 DEF WriterStep
<1>10. ASSUME UNCHANGED vars PROVE OneWriterPerRow' /\ AllBacked'
  BY <1>7, <1>10 DEF vars
<1>11. OneWriterPerRow' /\ AllBacked'
  BY <1>1, <1>5, <1>6, <1>9, <1>10 DEF Next, RunStep
<1> QED
  BY <1>0, <1>11 DEF LeaseInv

LEMMA LeaseInit == Init => LeaseInv
  BY DEF Init, LeaseInv, Shape, RunShape, Kept, OneWriterPerRow, AllBacked, Backed, None

LEMMA LeaseAlways == ASSUME LeaseCoversBatch PROVE Spec => [](TypeOK /\ LeaseInv)
<1>1. TypeOK /\ LeaseInv /\ [Next]_vars => LeaseInv'
  BY LeaseStep, LeaseCoversBatch
<1> QED
  BY WriterTypeCorrect, LeaseInit, <1>1, PTL DEF Spec

(* While every run fits in its lease, no row is in the hands of two runs.  *)
THEOREM OneRunPerRow == ASSUME LeaseCoversBatch PROVE Spec => []OneWriterPerRow
<1>1. LeaseInv => OneWriterPerRow
  BY DEF LeaseInv
<1> QED
  BY LeaseAlways, <1>1, LeaseCoversBatch, PTL

-----------------------------------------------------------------------------
(* Only PersistSamples adds receipts, and only those of rows that no other *)
(* run holds.                                                              *)
LEMMA FreshStep ==
  ASSUME TypeOK, LeaseInv, FreshInv, [Next]_vars
  PROVE  FreshInv'
<1> USE DEF TypeOK, FreshInv
<1>1. ASSUME NEW w \in Writers, ClaimResults(w) PROVE FreshInv'
  BY <1>1 DEF ClaimResults, storeVars, LeaseInv, Shape, RunShape, Kept
<1>2. ASSUME NEW w \in Writers, CheckStep(w) PROVE FreshInv'
  BY <1>2 DEF CheckStep, CheckDone, CheckReceipt, storeVars, classVars
<1>3. ASSUME NEW w \in Writers, NEW r \in Rows,
             CompleteDuplicate(w, r) \/ RetryRow(w, r) \/ CompleteRow(w, r)
      PROVE FreshInv'
  BY <1>3 DEF CompleteDuplicate, RetryRow, CompleteRow, storeVars, classVars
<1>4. ASSUME NEW w \in Writers, DuplicatesDone(w) \/ PersistFails(w) PROVE FreshInv'
  BY <1>4 DEF DuplicatesDone, PersistFails, storeVars, classVars
<1>5. ASSUME NEW w \in Writers, PersistSamples(w) PROVE FreshInv'
  <2>1. fresh[w] \subseteq batch[w]
    BY <1>5 DEF PersistSamples, LeaseInv, Shape, RunShape, Kept
  <2>2. ASSUME NEW v \in Writers, v # w PROVE fresh[w] \cap batch[v] = {}
    BY <2>1, <2>2 DEF LeaseInv, OneWriterPerRow
  <2>3. ASSUME NEW v \in Writers, v # w, pc[v] \in {"check", "dups", "persist"}
        PROVE fresh[v] \subseteq batch[v]
    BY <2>3 DEF LeaseInv, Shape, RunShape, Kept
  <2>4. ASSUME NEW v \in Writers, v # w, pc[v] = "retry_samples"
        PROVE todo[v] \subseteq batch[v]
    BY <2>4 DEF LeaseInv, Shape, RunShape
  <2> QED
    BY <1>5, <2>2, <2>3, <2>4 DEF PersistSamples, classVars
<1>6. ASSUME NEW w \in Writers, UpdateEvents(w) \/ UpdateEventsFails(w) PROVE FreshInv'
  BY <1>6 DEF UpdateEvents, UpdateEventsFails, classVars
<1>7. ASSUME NEW w \in Writers, EndRun(w) \/ Crash(w) PROVE FreshInv'
  BY <1>7 DEF EndRun, Crash, Return, storeVars
<1>8. ASSUME UNCHANGED <<receipts, pc, todo, fresh>> PROVE FreshInv'
  BY <1>8
<1>9. ASSUME NEW w \in Writers, WriterStep(w) \/ Crash(w) PROVE FreshInv'
  BY <1>1, <1>2, <1>3, <1>4, <1>5, <1>6, <1>7, <1>9 DEF WriterStep
<1> QED
  BY <1>8, <1>9
  DEF Next, RunStep, Publish, LeaseLapses, ExpireResultLeases, storeVars, classVars, vars

(* While every run fits in its lease, the receipt check of a row is still  *)
(* true when its samples are inserted.                                     *)
THEOREM ReceiptCheckHolds == ASSUME LeaseCoversBatch PROVE Spec => []FreshStaysFresh
<1>1. Init => FreshInv
  BY DEF Init, FreshInv, None
<1>2. TypeOK /\ LeaseInv /\ FreshInv /\ [Next]_vars => FreshInv'
  BY FreshStep
<1>3. FreshInv => FreshStaysFresh
  BY DEF FreshInv, FreshStaysFresh
<1> QED
  BY LeaseAlways, <1>1, <1>2, <1>3, LeaseCoversBatch, PTL DEF Spec

(* While every run fits in its lease, no written row is taken up again.    *)
THEOREM WrittenRowsAreFinal == ASSUME LeaseCoversBatch PROVE Spec => WrittenIsFinal
<1>1. ASSUME TypeOK, LeaseInv, [Next]_vars, NEW r \in Rows, rstatus[r] = "written"
      PROVE rstatus'[r] = "written"
  <2> USE <1>1 DEF TypeOK
  <2>1. \A w \in Writers : r \notin batch[w]
    BY DEF LeaseInv, AllBacked, Backed
  <2>2. ASSUME NEW w \in Writers, NEW q \in Rows, NEW s, q \in batch[w], SettleRow(w, q, s)
        PROVE rstatus'[r] = "written"
    BY <2>1, <2>2 DEF SettleRow
  <2>3. ASSUME NEW w \in Writers, NEW q \in Rows,
               CompleteDuplicate(w, q) \/ RetryRow(w, q) \/ CompleteRow(w, q)
        PROVE rstatus'[r] = "written"
    <3>1. q \in batch[w]
      BY <2>3 DEF CompleteDuplicate, RetryRow, CompleteRow, LeaseInv, Shape, RunShape
    <3> QED
      BY <2>2, <2>3, <3>1 DEF CompleteDuplicate, RetryRow, CompleteRow
  <2>4. ASSUME NEW q \in Rows, NEW s \in PublishStatuses, Publish(q, s)
        PROVE rstatus'[r] = "written"
    BY <2>4 DEF Publish
  <2>5. ASSUME ExpireResultLeases PROVE rstatus'[r] = "written"
    <3>1. r \notin lapsed
      BY DEF LeaseInv, AllBacked
    <3> QED
      BY <2>5, <3>1 DEF ExpireResultLeases
  <2> QED
    BY <2>3, <2>4, <2>5
    DEF Next, RunStep, WriterStep, ClaimResults, CheckStep, CheckReceipt, CheckDone,
        DuplicatesDone, PersistSamples, PersistFails, UpdateEvents, UpdateEventsFails,
        EndRun, Crash, LeaseLapses, queueVars, vars
<1>2. TypeOK /\ LeaseInv /\ [Next]_vars
        => [\A r \in Rows : rstatus[r] = "written" => rstatus'[r] = "written"]_vars
  BY <1>1
<1> QED
  BY LeaseAlways, <1>2, LeaseCoversBatch, PTL DEF Spec, WrittenIsFinal

-----------------------------------------------------------------------------
(* Every run but one that updates or flags its rows keeps what awaits it.  *)
LEMMA AwaitingKept ==
  ASSUME NEW r,
         \A w \in Writers : pc[w] \in {"events", "retry_events"} =>
            pc'[w] = pc[w] /\ fresh'[w] = fresh[w] /\ todo'[w] = todo[w],
         Awaiting(r)
  PROVE  Awaiting(r)'
  BY DEF Awaiting

(* A row in the hands of a run that looks at its receipt awaits no run.    *)
LEMMA HeldRowsAwaitNobody ==
  ASSUME TypeOK, LeaseInv, NEW w \in Writers, NEW r \in batch[w],
         pc[w] \notin {"events", "retry_events"}
  PROVE  ~Awaiting(r)
  BY DEF TypeOK, LeaseInv, Shape, RunShape, Kept, OneWriterPerRow, Awaiting

LEMMA UpdateStep ==
  ASSUME TypeOK, LeaseInv, ReceiptInv, FreshInv, UpdateInv, [Next]_vars
  PROVE  UpdateInv'
<1> USE DEF TypeOK, UpdateInv, Done, boundVars
<1>1. ASSUME NEW r \in Rows, NEW s \in PublishStatuses, Publish(r, s) PROVE UpdateInv'
  BY <1>1, StatusAssumption DEF Publish, Awaiting, storeVars, classVars
<1>2. ASSUME NEW w \in Writers, ClaimResults(w) PROVE UpdateInv'
  <2>1. PICK claim \in SUBSET Claimable :
          /\ batch' = [batch EXCEPT ![w] = claim]
          /\ todo' = [todo EXCEPT ![w] = claim]
          /\ flagged' = [flagged EXCEPT ![w] = {r \in claim : errorCode[r] = "neo4j_pending"}]
    BY <1>2 DEF ClaimResults
  <2>2. \A r : Awaiting(r) => Awaiting(r)'
    BY <1>2, <2>1, AwaitingKept DEF ClaimResults
  <2>3. pending[w] = {}
    BY <1>2 DEF ClaimResults, LeaseInv, Shape, RunShape, Kept
  <2> QED
    BY <1>2, <2>1, <2>2, <2>3 DEF ClaimResults, queueVars, storeVars
<1>3. ASSUME NEW w \in Writers, NEW r \in Rows, CheckReceipt(w, r) PROVE UpdateInv'
  <2>1. \A q : Awaiting(q) => Awaiting(q)'
    BY <1>3, AwaitingKept DEF CheckReceipt
  <2>2. r \in receipts \ flagged[w] => r \in Done
    BY <1>3, HeldRowsAwaitNobody DEF CheckReceipt, LeaseInv, Shape, RunShape
  <2> QED
    BY <1>3, <2>1, <2>2 DEF CheckReceipt, queueVars, storeVars
<1>4. ASSUME NEW w \in Writers, CheckDone(w) \/ DuplicatesDone(w) PROVE UpdateInv'
  <2>1. \A q : Awaiting(q) => Awaiting(q)'
    BY <1>4, AwaitingKept DEF CheckDone, DuplicatesDone, classVars
  <2> QED
    BY <1>4, <2>1 DEF CheckDone, DuplicatesDone, queueVars, storeVars, classVars
<1>5. ASSUME NEW w \in Writers, NEW r \in Rows, CompleteDuplicate(w, r) \/ CompleteRow(w, r)
      PROVE UpdateInv'
  <2>1. \A q : Awaiting(q) => Awaiting(q)'
    BY <1>5, AwaitingKept DEF CompleteDuplicate, CompleteRow, classVars
  <2>2. r \in Done
    BY <1>5 DEF CompleteDuplicate, CompleteRow, LeaseInv, Shape, RunShape
  <2> QED
    BY <1>5, <2>1, <2>2 DEF CompleteDuplicate, CompleteRow, SettleRow, storeVars, classVars
<1>6. ASSUME NEW w \in Writers, NEW r \in Rows, RetryRow(w, r) PROVE UpdateInv'
  <2>1. r \in batch[w]
    BY <1>6 DEF RetryRow, LeaseInv, Shape, RunShape
  <2>2. \A v \in Writers : r \notin batch'[v]
    BY <1>6, <2>1 DEF RetryRow, SettleRow, LeaseInv, OneWriterPerRow
  <2>3. ASSUME NEW q \in Rows, q # r, Awaiting(q) PROVE Awaiting(q)'
    BY <1>6, <2>3 DEF RetryRow, Awaiting, classVars
  <2>4. r \in receipts => errorCode'[r] = "neo4j_pending"
    BY <1>6 DEF RetryRow, FreshInv
  <2>5. \A q \in Rows : rstatus'[q] = "written" => q \in Done'
    BY <1>6 DEF RetryRow, SettleRow, storeVars
  <2>6. \A q \in Rows : q # r => errorCode'[q] = errorCode[q]
    BY <1>6 DEF RetryRow
  <2>7. /\ receipts' = receipts /\ updated' = updated /\ pc' = pc
        /\ flagged' = flagged /\ dups' = dups /\ pending' = pending /\ stranded' = stranded
        /\ \A v \in Writers : batch'[v] \subseteq batch[v] /\ todo'[v] \subseteq todo[v]
    BY <1>6 DEF RetryRow, SettleRow, storeVars, classVars
  <2>8. \A q \in receipts' \ Done' :
           errorCode'[q] = "neo4j_pending" \/ Awaiting(q)'
    BY <2>3, <2>4, <2>6, <2>7
  <2> QED
    BY <2>2, <2>5, <2>6, <2>7, <2>8
<1>7. ASSUME NEW w \in Writers, PersistSamples(w) PROVE UpdateInv'
  <2>1. \A q : Awaiting(q) => Awaiting(q)'
    BY <1>7, AwaitingKept DEF PersistSamples, classVars
  <2>2. \A q \in fresh[w] : Awaiting(q)'
    BY <1>7 DEF PersistSamples, Awaiting, classVars
  <2> QED
    BY <1>7, <2>1, <2>2 DEF PersistSamples, queueVars, classVars
<1>8. ASSUME NEW w \in Writers, PersistFails(w) PROVE UpdateInv'
  <2>1. \A q : Awaiting(q) => Awaiting(q)'
    BY <1>8, AwaitingKept DEF PersistFails, classVars
  <2> QED
    BY <1>8, <2>1 DEF PersistFails, queueVars, storeVars, classVars
<1>9. ASSUME NEW w \in Writers, UpdateEvents(w) PROVE UpdateInv'
  <2>1. ASSUME NEW q, Awaiting(q), q \notin Done' PROVE Awaiting(q)'
    BY <1>9, <2>1 DEF UpdateEvents, EventRows, Awaiting, classVars
  <2> QED
    BY <1>9, <2>1 DEF UpdateEvents, EventRows, queueVars, classVars
<1>10. ASSUME NEW w \in Writers, UpdateEventsFails(w) PROVE UpdateInv'
  <2>1. ASSUME NEW q, Awaiting(q), q \notin SilentRows PROVE Awaiting(q)'
    BY <1>10, <2>1 DEF UpdateEventsFails, EventRows, Awaiting, classVars
  <2>2. updated \subseteq updated'
    BY <1>10 DEF UpdateEventsFails
  <2> QED
    BY <1>10, <2>1, <2>2 DEF UpdateEventsFails, EventRows, ReceiptInv, queueVars, classVars
<1>11. ASSUME NEW w \in Writers, EndRun(w) PROVE UpdateInv'
  <2>1. ASSUME NEW q, Awaiting(q) PROVE Awaiting(q)'
    BY <1>11, <2>1 DEF EndRun, Return, Awaiting
  <2> QED
    BY <1>11, <2>1 DEF EndRun, Return, queueVars, storeVars
<1>15. ASSUME NEW w \in Writers, Crash(w) PROVE UpdateInv'
  <2>1. ASSUME NEW q \in receipts \ Done', Awaiting(q), errorCode[q] # "neo4j_pending"
        PROVE Awaiting(q)'
    BY <1>15, <2>1 DEF Crash, Return, Awaiting, HalfDone, storeVars
  <2> QED
    BY <1>15, <2>1 DEF Crash, Return, queueVars, storeVars
<1>12. ASSUME NEW r \in Rows, LeaseLapses(r) PROVE UpdateInv'
  BY <1>12 DEF LeaseLapses, Awaiting, storeVars, classVars
<1>13. CASE ExpireResultLeases
  <2>1. \A r \in Rows : rstatus'[r] = "written" => rstatus[r] = "written"
    BY <1>13 DEF ExpireResultLeases
  <2> QED
    BY <1>13, <2>1 DEF ExpireResultLeases, Awaiting, storeVars, classVars
<1>14. CASE UNCHANGED vars
  BY <1>14 DEF vars, queueVars, storeVars, classVars, Awaiting
<1> QED
  BY <1>1, <1>2, <1>3, <1>4, <1>5, <1>6, <1>7, <1>8, <1>9, <1>10, <1>11, <1>12, <1>13, <1>14, <1>15
  DEF Next, RunStep, WriterStep, CheckStep

(* The rows of HalfDone become stranded by the death of their run, and no  *)
(* other run holds them; a stranded row is a duplicate to every later run. *)
LEMMA StrandedStep ==
  ASSUME TypeOK, LeaseInv, ReceiptInv, FreshInv, UpdateInv, StrandedInv, [Next]_vars
  PROVE  StrandedInv'
<1> USE DEF TypeOK, StrandedInv, StrandedRow, boundVars
<1>1. ASSUME NEW w \in Writers, UpdateEvents(w) \/ UpdateEventsFails(w), NEW r \in stranded
      PROVE  r \notin EventRows(w)
  <2>1. r \notin fresh[w]
    BY <1>1 DEF UpdateEvents, UpdateEventsFails, Awaiting
  <2>2. r \notin pending[w]
    BY <1>1 DEF UpdateEvents, UpdateEventsFails, UpdateInv, LeaseInv, Shape, RunShape, Kept
  <2> QED
    BY <2>1, <2>2 DEF EventRows
<1>2. ASSUME NEW r \in stranded, NEW w \in Writers, WriterStep(w) PROVE StrandedRow(r)'
  <2>1. CASE ClaimResults(w) \/ CheckStep(w) \/ DuplicatesDone(w) \/ EndRun(w)
    BY <2>1
    DEF ClaimResults, CheckStep, CheckReceipt, CheckDone, DuplicatesDone, EndRun, Return, Awaiting,
        queueVars, storeVars, classVars
  <2>2. ASSUME NEW q \in Rows, CompleteDuplicate(w, q) \/ CompleteRow(w, q)
        PROVE  StrandedRow(r)'
    BY <2>2 DEF CompleteDuplicate, CompleteRow, Awaiting, storeVars, classVars
  <2>3. ASSUME NEW q \in Rows, RetryRow(w, q) PROVE StrandedRow(r)'
    <3>1. errorCode'[r] # "neo4j_pending"
      BY <2>3 DEF RetryRow, Awaiting
    <3> QED
      BY <2>3, <3>1 DEF RetryRow, Awaiting, storeVars, classVars
  <2>4. CASE PersistSamples(w)
    <3>1. r \notin fresh[w]
      BY <2>4 DEF PersistSamples, FreshInv
    <3> QED
      BY <2>4, <3>1 DEF PersistSamples, Awaiting, queueVars, classVars
  <2>5. CASE PersistFails(w)
    BY <2>5 DEF PersistFails, Awaiting, queueVars, storeVars, classVars
  <2>6. CASE UpdateEvents(w)
    BY <1>1, <2>6 DEF UpdateEvents, Awaiting, queueVars, classVars
  <2>7. CASE UpdateEventsFails(w)
    BY <1>1, <2>7 DEF UpdateEventsFails, Awaiting, queueVars, classVars
  <2> QED
    BY <1>2, <2>1, <2>2, <2>3, <2>4, <2>5, <2>6, <2>7 DEF WriterStep
<1>3. ASSUME NEW w \in Writers, Crash(w) PROVE StrandedInv'
  <2>1. ASSUME NEW r \in stranded PROVE StrandedRow(r)'
    BY <1>3 DEF Crash, Return, Awaiting, queueVars, storeVars
  <2>2. ASSUME NEW r \in HalfDone(w) PROVE StrandedRow(r)'
    <3>1. r \in receipts /\ r \notin updated /\ errorCode[r] # "neo4j_pending"
      BY DEF HalfDone, ReceiptInv, UpdateInv
    <3>2. r \in batch[w]
      BY DEF HalfDone, LeaseInv, Shape, RunShape, Kept
    <3>3. ASSUME NEW v \in Writers, v # w PROVE r \notin batch[v]
      BY <3>2, <3>3 DEF LeaseInv, OneWriterPerRow
    <3>4. ~Awaiting(r)'
      BY <1>3, <3>3 DEF Crash, Return, Awaiting, LeaseInv, Shape, RunShape, Kept
    <3> QED
      BY <1>3, <3>1, <3>4 DEF Crash, queueVars, storeVars
  <2>3. stranded' = stranded \cup HalfDone(w)
    BY <1>3 DEF Crash
  <2> QED
    BY <2>1, <2>2, <2>3
<1>4. ASSUME NEW w \in Writers, WriterStep(w) PROVE stranded' = stranded
  BY <1>4
  DEF WriterStep, ClaimResults, CheckStep, CheckReceipt, CheckDone, DuplicatesDone,
      CompleteDuplicate, RetryRow, CompleteRow, PersistSamples, PersistFails, UpdateEvents,
      UpdateEventsFails, EndRun
<1>5. ASSUME UNCHANGED <<receipts, updated, errorCode, pc, todo, fresh, stranded>>
      PROVE  StrandedInv'
  BY <1>5 DEF Awaiting
<1> QED
  BY <1>2, <1>3, <1>4, <1>5
  DEF Next, RunStep, Publish, LeaseLapses, ExpireResultLeases, queueVars, storeVars, classVars, vars

(* While every run fits in its lease, wherever its runs may die: the only  *)
(* rows written without their event update are those that a death between  *)
(* the Timescale commit and the end of the event updates left half done.   *)
THEOREM UpdatesAreLostByDeathsOnly ==
  ASSUME LeaseCoversBatch PROVE Spec => []OnlyDeathsLoseUpdates
<1>1. Init => ReceiptInv /\ FreshInv /\ UpdateInv /\ StrandedInv
  BY DEF Init, ReceiptInv, WrittenHasReceipt, FreshInv, UpdateInv, StrandedInv, None
<1>2. TypeOK /\ LeaseInv /\ ReceiptInv /\ FreshInv /\ UpdateInv /\ StrandedInv /\ [Next]_vars
        => ReceiptInv' /\ FreshInv' /\ UpdateInv' /\ StrandedInv'
  BY ReceiptStep, FreshStep, UpdateStep, StrandedStep
<1>3. UpdateInv /\ StrandedInv => OnlyDeathsLoseUpdates
  BY DEF UpdateInv, Done, StrandedInv, StrandedRow, OnlyDeathsLoseUpdates
<1> QED
  BY LeaseAlways, <1>1, <1>2, <1>3, LeaseCoversBatch, PTL DEF Spec
-----------------------------------------------------------------------------
(* What a run has claimed is in the table.                                 *)
HeldIsQueued == \A w \in Writers : \A r \in batch[w] : rstatus[r] # "absent"

LEMMA HeldStep ==
  ASSUME TypeOK, LeaseInv, HeldIsQueued, [Next]_vars
  PROVE  HeldIsQueued'
<1> USE DEF TypeOK, HeldIsQueued
<1>1. ASSUME NEW r \in Rows, NEW s \in PublishStatuses, Publish(r, s) PROVE HeldIsQueued'
  BY <1>1, StatusAssumption DEF Publish
<1>2. ASSUME NEW w \in Writers, ClaimResults(w) PROVE HeldIsQueued'
  <2>1. PICK claim \in SUBSET Claimable : batch' = [batch EXCEPT ![w] = claim]
    BY <1>2 DEF ClaimResults
  <2>2. \A r \in claim : rstatus[r] # "absent"
    BY DEF Claimable
  <2> QED
    BY <1>2, <2>1, <2>2 DEF ClaimResults, queueVars
<1>3. ASSUME NEW w \in Writers, NEW r \in Rows, NEW s, s # "absent", SettleRow(w, r, s)
      PROVE HeldIsQueued'
  BY <1>3 DEF SettleRow
<1>4. ASSUME NEW w \in Writers, NEW r \in Rows,
             CompleteDuplicate(w, r) \/ RetryRow(w, r) \/ CompleteRow(w, r)
      PROVE HeldIsQueued'
  BY <1>3, <1>4 DEF CompleteDuplicate, RetryRow, CompleteRow
<1>5. ASSUME NEW w \in Writers, EndRun(w) \/ Crash(w) PROVE HeldIsQueued'
  BY <1>5 DEF EndRun, Crash, Return, queueVars
<1>6. CASE ExpireResultLeases
  BY <1>6 DEF ExpireResultLeases
<1>7. ASSUME rstatus' = rstatus, batch' = batch PROVE HeldIsQueued'
  BY <1>7
<1> QED
  BY <1>1, <1>2, <1>4, <1>5, <1>6, <1>7
  DEF Next, RunStep, WriterStep, CheckStep, CheckReceipt, CheckDone, DuplicatesDone,
      PersistSamples, PersistFails, UpdateEvents, UpdateEventsFails, LeaseLapses,
      queueVars, vars

(* What the queue of work is about.                                        *)
Queued == {r \in Rows : rstatus[r] # "absent"}
Served == receipts \cap (updated \cup SilentRows)
Written == {r \in Rows : rstatus[r] = "written"}

(* The statement that settles a row changes nothing else of the queue.     *)
LEMMA SettleWorks ==
  ASSUME TypeOK, LeaseInv, HeldIsQueued, NEW w \in Writers, NEW r \in batch[w],
         NEW s \in {"written", "retry_wait"}, SettleRow(w, r, s)
  PROVE  /\ r \in Rows /\ Queued' = Queued
         /\ s = "written" => Written' = Written \cup {r}
         /\ s = "retry_wait" => Written' = Written
         /\ batch' = [batch EXCEPT ![w] = @ \ {r}]
<1> USE DEF TypeOK
<1>1. r \in Rows
  OBVIOUS
<1>2. \A q \in batch[w] : q \in Rows /\ rstatus[q] # "absent" /\ rstatus[q] # "written"
  BY DEF HeldIsQueued, LeaseInv, AllBacked, Backed
<1>3. ASSUME NEW q \in Rows, q # r
      PROVE  /\ rstatus'[q] = "absent" <=> rstatus[q] = "absent"
             /\ rstatus'[q] = "written" <=> rstatus[q] = "written"
  BY <1>2, <1>3 DEF SettleRow
<1>4. rstatus'[r] = s /\ rstatus[r] # "absent" /\ rstatus[r] # "written"
  BY <1>2 DEF SettleRow
<1>5. Queued' = Queued
  BY <1>3, <1>4 DEF Queued
<1>6. s = "written" => Written' = Written \cup {r}
  BY <1>1, <1>3, <1>4 DEF Written
<1>7. s = "retry_wait" => Written' = Written
  BY <1>3, <1>4 DEF Written
<1> QED
  BY <1>1, <1>5, <1>6, <1>7 DEF SettleRow

(* Every step of a run is a step of the work queue, or hidden in it.       *)
LEMMA RunWorks ==
  ASSUME TypeOK, LeaseInv, ReceiptInv, UpdateInv, HeldIsQueued,
         NEW w \in Writers, WriterStep(w) \/ Crash(w)
  PROVE  [Work!Next]_(Work!vars)
<1> USE DEF TypeOK
<1>1. ASSUME rstatus' = rstatus, batch' = batch, Served' = Served, stranded' = stranded
      PROVE  UNCHANGED Work!vars
  BY <1>1 DEF Served, Work!vars
<1>2. ASSUME NEW S \in SUBSET Rows, Work!Claim(w, S) \/ Work!Serve(w, S) \/ Work!PutBack(w, S)
                                  \/ Work!Lose(w, S)
      PROVE  Work!Next
  BY <1>2 DEF Work!Next
<1>3. ASSUME NEW S \in SUBSET batch[w], Served' = Served \cup S,
             rstatus' = rstatus, batch' = batch, stranded' = stranded
      PROVE  Work!Next
  <2>1. Work!Serve(w, S)
    BY <1>3 DEF Served, Work!Serve
  <2>2. S \in SUBSET Rows
    OBVIOUS
  <2> QED
    BY <1>2, <2>1, <2>2
<1>4. CASE ClaimResults(w)
  <2>1. PICK claim \in SUBSET Claimable : batch' = [batch EXCEPT ![w] = claim]
    BY <1>4 DEF ClaimResults
  <2>2. batch[w] = {} /\ rstatus' = rstatus /\ Served' = Served /\ stranded' = stranded
    BY <1>4
    DEF ClaimResults, LeaseInv, Shape, RunShape, queueVars, storeVars, boundVars, Served
  <2>3. ASSUME NEW r \in claim PROVE r \in Work!Free
    <3>1. r \in Rows /\ rstatus[r] # "absent" /\ rstatus[r] # "written"
      BY DEF Claimable
    <3>2. ASSUME NEW v \in Writers PROVE r \notin batch[v]
      BY StatusAssumption DEF Claimable, Locked, LeaseInv, AllBacked, Backed
    <3> QED
      BY <3>1, <3>2 DEF Work!Free
  <2>4. Work!Claim(w, claim)
    BY <2>1, <2>2, <2>3 DEF Work!Claim, Served
  <2>5. claim \in SUBSET Rows
    BY DEF Claimable
  <2> QED
    BY <1>2, <2>4, <2>5
<1>5. CASE CheckStep(w) \/ DuplicatesDone(w) \/ PersistFails(w)
  BY <1>1, <1>5
  DEF CheckStep, CheckReceipt, CheckDone, DuplicatesDone, PersistFails, queueVars, storeVars,
      boundVars, Served
<1>6. ASSUME NEW r \in Rows, CompleteDuplicate(w, r) \/ CompleteRow(w, r) PROVE Work!Next
  <2>1. r \in batch[w] /\ r \in Served \cup stranded
    BY <1>6
    DEF CompleteDuplicate, CompleteRow, LeaseInv, Shape, RunShape, ReceiptInv, UpdateInv, Done, Served
  <2>2. SettleRow(w, r, "written") /\ Served' = Served /\ stranded' = stranded
    BY <1>6 DEF CompleteDuplicate, CompleteRow, storeVars, boundVars, Served
  <2>3. /\ Queued' = Queued /\ Written' = Written \cup {r}
        /\ batch' = [batch EXCEPT ![w] = @ \ {r}]
    BY <2>1, <2>2, SettleWorks
  <2>4. Work!Finish(w, r)
    BY <2>1, <2>2, <2>3 DEF Work!Finish, Queued, Written, Served
  <2> QED
    BY <2>1, <2>4 DEF Work!Next, Work!Finish
<1>7. ASSUME NEW r \in Rows, RetryRow(w, r) PROVE Work!Next
  <2>1. r \in batch[w]
    BY <1>7 DEF RetryRow, LeaseInv, Shape, RunShape
  <2>2. SettleRow(w, r, "retry_wait") /\ Served' = Served /\ stranded' = stranded
    BY <1>7 DEF RetryRow, storeVars, boundVars, Served
  <2>3. Queued' = Queued /\ Written' = Written /\ batch' = [batch EXCEPT ![w] = @ \ {r}]
    BY <2>1, <2>2, SettleWorks
  <2>4. Work!PutBack(w, {r}) /\ {r} \in SUBSET Rows
    BY <2>1, <2>2, <2>3 DEF Work!PutBack, Queued, Written, Served
  <2> QED
    BY <1>2, <2>4
<1>8. CASE PersistSamples(w)
  <2>1. fresh[w] \subseteq batch[w]
    BY <1>8 DEF PersistSamples, LeaseInv, Shape, RunShape, Kept
  <2>2. Served' = Served \cup (fresh[w] \cap (updated \cup SilentRows))
    BY <1>8 DEF PersistSamples, Served
  <2> QED
    BY <1>3, <1>8, <2>1, <2>2 DEF PersistSamples, queueVars, boundVars
<1>9. CASE UpdateEvents(w) \/ UpdateEventsFails(w)
  <2>1. EventRows(w) \subseteq batch[w]
    BY <1>9 DEF UpdateEvents, UpdateEventsFails, EventRows, LeaseInv, Shape, RunShape, Kept
  <2>2. PICK done \in SUBSET EventRows(w) : updated' = updated \cup done
    BY <1>9 DEF UpdateEvents, UpdateEventsFails
  <2>3. /\ receipts' = receipts /\ rstatus' = rstatus /\ batch' = batch
        /\ stranded' = stranded
    BY <1>9 DEF UpdateEvents, UpdateEventsFails, queueVars, boundVars
  <2>4. Served' = Served \cup (receipts \cap done)
    BY <2>2, <2>3 DEF Served
  <2> QED
    BY <1>3, <2>1, <2>3, <2>4
<1>10. CASE EndRun(w)
  <2>1. /\ rstatus' = rstatus /\ Served' = Served /\ stranded' = stranded
        /\ batch' = [batch EXCEPT ![w] = {}]
    BY <1>10 DEF EndRun, Return, queueVars, storeVars, boundVars, Served
  <2>2. Work!PutBack(w, batch[w]) /\ batch[w] \in SUBSET Rows
    BY <2>1 DEF Work!PutBack, Served
  <2> QED
    BY <1>2, <2>2
<1>11. CASE Crash(w)
  <2>1. /\ rstatus' = rstatus /\ Served' = Served /\ stranded' = stranded \cup HalfDone(w)
        /\ batch' = [batch EXCEPT ![w] = {}]
    BY <1>11 DEF Crash, Return, queueVars, storeVars, Served
  <2>2. HalfDone(w) \subseteq batch[w]
    BY DEF HalfDone, LeaseInv, Shape, RunShape, Kept
  <2>3. Work!Lose(w, HalfDone(w)) /\ HalfDone(w) \in SUBSET Rows
    BY <2>1, <2>2 DEF Work!Lose, Served
  <2> QED
    BY <1>2, <2>3
<1> QED
  BY <1>4, <1>5, <1>6, <1>7, <1>8, <1>9, <1>10, <1>11 DEF WriterStep

LEMMA TableWorks ==
  ASSUME TypeOK, LeaseInv, ReceiptInv, UpdateInv, HeldIsQueued, [Next]_vars
  PROVE  [Work!Next]_(Work!vars)
<1> USE DEF TypeOK
<1>1. ASSUME NEW r \in Rows, NEW s \in PublishStatuses, Publish(r, s) PROVE Work!Next
  <2>1. /\ r \notin Queued /\ Queued' = Queued \cup {r} /\ Written' = Written
        /\ Served' = Served /\ batch' = batch /\ stranded' = stranded
    BY <1>1, StatusAssumption DEF Publish, storeVars, boundVars, Queued, Written, Served
  <2>2. Work!Enqueue(r)
    BY <2>1 DEF Work!Enqueue, Queued, Written, Served
  <2> QED
    BY <2>2 DEF Work!Next
<1>2. CASE ExpireResultLeases
  <2>1. \A r \in lapsed : rstatus[r] = "leased"
    BY DEF LeaseInv, AllBacked
  <2>2. /\ Queued' = Queued /\ Written' = Written /\ Served' = Served
        /\ batch' = batch /\ stranded' = stranded
    BY <1>2, <2>1 DEF ExpireResultLeases, storeVars, boundVars, Queued, Written, Served
  <2> QED
    BY <2>2 DEF Work!vars, Queued, Written, Served
<1>3. CASE UNCHANGED vars \/ \E r \in Rows : LeaseLapses(r)
  BY <1>3 DEF LeaseLapses, storeVars, boundVars, queueVars, vars, Work!vars
<1> QED
  BY <1>1, <1>2, <1>3, RunWorks DEF Next, RunStep

(* While every run fits in its lease, the result table under any number of *)
(* writers, wherever they die, is a work queue: one holder, and no end but *)
(* with both stores written or behind the death of a holder that had the   *)
(* row half done.                                                          *)
THEOREM RowsAreAWorkQueue == ASSUME LeaseCoversBatch PROVE Spec => RowsAreWork
<1>1. Init => ReceiptInv /\ FreshInv /\ UpdateInv /\ HeldIsQueued /\ Work!Init
  BY DEF Init, ReceiptInv, WrittenHasReceipt, FreshInv, UpdateInv, HeldIsQueued,
         None, Work!Init
<1>2. TypeOK /\ LeaseInv /\ ReceiptInv /\ FreshInv /\ UpdateInv /\ HeldIsQueued /\ [Next]_vars
        => ReceiptInv' /\ FreshInv' /\ UpdateInv' /\ HeldIsQueued'
  BY ReceiptStep, FreshStep, UpdateStep, HeldStep
<1>3. TypeOK /\ LeaseInv /\ ReceiptInv /\ UpdateInv /\ HeldIsQueued /\ [Next]_vars
        => [Work!Next]_(Work!vars)
  BY TableWorks
<1> QED
  BY LeaseAlways, <1>1, <1>2, <1>3, LeaseCoversBatch, PTL DEF Spec, RowsAreWork, Work!Spec
=============================================================================
