------------------------------ MODULE BatchPruner ------------------------------
(***************************************************************************)
(* event_batch_pruner: one streamed prune that pages through the RECOVERED,*)
(* unacknowledged events with a (created_at, id) cursor and closes them    *)
(* one by one, while collectors and operators go on (services/             *)
(* event_service.py).                                                      *)
(*                                                                         *)
(* Left out: the delay between pages, and the 300 s after which the cache  *)
(* of attempted events forgets.                                            *)
(***************************************************************************)
EXTENDS Naturals, FiniteSets

CONSTANTS
  Events,            \* Event nodes, finitely many
  Created,           \* [Events -> created_at], Null for legacy rows
  Id,                \* [Events -> Nat], the order of the ids, no two the same
  Null,              \* the absent created_at, and the cursor that is not set
  Header,            \* the text of Last-Event-ID, which compares with no created_at
  BatchSize,         \* batch_size
  MaxFailures,       \* MAX_CONSECUTIVE_CHUNK_FAILURES
  MaxCloseFailures,  \* how many single closings may fail
  MayRecover         \* events that a collector may turn RECOVERED meanwhile

VARIABLES
  eligible,   \* RECOVERED events whose ack is not set
  closed,     \* events this prune closed
  kept,       \* events eligible from the count on that nobody else changed
  pc,         \* "count", "fetch", "close" or the way it ended: "done", "failed"
  total,      \* _fetch_total_count
  processed,  \* total_processed, with the current chunk
  lastDate,   \* last_cursor
  lastId,     \* last_id
  chunk,      \* event_ids still to be closed
  full,       \* the chunk had batch_size events
  seen,       \* keys of _idempotency_cache
  failures,   \* consecutive_failures
  closeFailures,  \* closings that failed so far
  overlooked  \* history: events the cursor passed over, see MoveCursor

vars == <<eligible, closed, kept, pc, total, processed, lastDate, lastId,
          chunk, full, seen, failures, closeFailures, overlooked>>
loopVars == <<total, processed, lastDate, lastId, overlooked, chunk, full, seen, failures>>

-----------------------------------------------------------------------------
TypeOK ==
  /\ eligible \subseteq Events
  /\ closed \subseteq Events
  /\ kept \subseteq Events
  /\ pc \in {"count", "fetch", "close", "done", "failed"}
  /\ total \in 0 .. Cardinality(Events)
  /\ processed \in 0 .. Cardinality(Events)
  /\ lastDate \in Nat \cup {Null, Header}
  /\ lastId \in Nat \cup {Null}
  /\ chunk \subseteq Events
  /\ full \in BOOLEAN
  /\ seen \subseteq Events
  /\ failures \in 0 .. MaxFailures
  /\ closeFailures \in 0 .. MaxCloseFailures
  /\ overlooked \subseteq Events

-----------------------------------------------------------------------------
(* The page query.                                                         *)

\* ORDER BY created_at ASC, id ASC, where Cypher puts NULL last.
Precedes(d, e) ==
  \/ Created[d] # Null /\ Created[e] = Null
  \/ Created[d] # Null /\ Created[e] # Null /\ Created[d] < Created[e]
  \/ Created[d] = Created[e] /\ Id[d] < Id[e]

\* cursor_filter of the cursor (d, i); a comparison with NULL, or of a date
\* with a text, is not true.
Reaches(d, i, e) ==
  \/ d = Null /\ i = Null
  \/ d \in Nat /\ Created[e] # Null /\ Created[e] > d
  \/ i # Null /\ Created[e] = Null /\ Id[e] > i

\* Faulty variant of AfterCursor: a cursor on the id alone.
AfterId(e) == lastId = Null \/ Id[e] > lastId

AfterCursor(e) == Reaches(lastDate, lastId, e)

Page ==
  LET rows == {e \in eligible : AfterCursor(e)}
  IN {e \in rows : Cardinality({d \in rows : Precedes(d, e)}) < BatchSize}

(* stream_prune_progress hands the header over as the cursor.              *)
Init ==
  /\ eligible \in SUBSET Events
  /\ closed = {}
  /\ kept = {}
  /\ pc = "count"
  /\ total = 0
  /\ processed = 0
  /\ lastDate \in {Null, Header}
  /\ lastId = Null
  /\ chunk = {}
  /\ full = FALSE
  /\ seen = {}
  /\ failures = 0
  /\ closeFailures = 0
  /\ overlooked = {e \in Events : ~Reaches(lastDate, lastId, e)}

-----------------------------------------------------------------------------
(* The generator.                                                          *)

CountTotal ==
  /\ pc = "count"
  /\ total' = Cardinality(eligible)
  /\ kept' = eligible
  /\ pc' = IF eligible = {} THEN "done" ELSE "fetch"
  /\ UNCHANGED <<eligible, closed, processed, lastDate, lastId, overlooked, chunk, full, seen,
                 failures, closeFailures>>

\* The cursor moves to the last row of the page that was not attempted before.
\* It passes over the later rows that it does not reach: those of the same
\* date, and legacy rows with a lower id.
MoveCursor(new) ==
  IF new = {}
  THEN UNCHANGED <<lastDate, lastId, overlooked>>
  ELSE \E last \in new :
         /\ \A e \in new \ {last} : Precedes(e, last)
         /\ lastDate' = Created[last]
         /\ lastId' = Id[last]
         /\ overlooked' = overlooked \cup
              {e \in Events : Precedes(last, e) /\ ~Reaches(Created[last], Id[last], e)}

FetchPage ==
  /\ pc = "fetch"
  /\ chunk' = Page \ seen
  /\ full' = (Cardinality(Page \ seen) >= BatchSize)
  /\ MoveCursor(Page \ seen)
  /\ pc' = "close"
  /\ UNCHANGED <<eligible, closed, kept, total, processed, seen, failures, closeFailures>>

(* The page query raises: it is tried again a bounded number of times; a   *)
(* syntax error ends the stream at once.                                   *)
FetchFails ==
  /\ pc = "fetch"
  /\ \/ failures < MaxFailures /\ failures' = failures + 1 /\ UNCHANGED pc
     \/ pc' = "failed" /\ UNCHANGED failures
  /\ UNCHANGED <<eligible, closed, kept, total, processed, lastDate, lastId, overlooked, chunk, full,
                 seen, closeFailures>>

(* _close_one checks again, in its own transaction.                        *)
CloseOne(e) ==
  /\ pc = "close"
  /\ e \in chunk
  /\ chunk' = chunk \ {e}
  /\ seen' = seen \cup {e}
  /\ IF e \in eligible
     THEN /\ eligible' = eligible \ {e}
          /\ closed' = closed \cup {e}
          /\ processed' = processed + 1
     ELSE UNCHANGED <<eligible, closed, processed>>
  /\ UNCHANGED <<kept, pc, total, lastDate, lastId, overlooked, full, failures, closeFailures>>

(* The transaction raises: the event is passed over.                       *)
CloseFails(e) ==
  /\ pc = "close"
  /\ e \in chunk
  /\ closeFailures < MaxCloseFailures
  /\ closeFailures' = closeFailures + 1
  /\ chunk' = chunk \ {e}
  /\ seen' = seen \cup {e}
  /\ kept' = kept \ {e}
  /\ UNCHANGED <<eligible, closed, pc, total, processed, lastDate, lastId, overlooked, full, failures>>

\* A short page is the last one; so is the one that completes the total.
LastChunk == ~full \/ processed >= total

EndChunk ==
  /\ pc = "close"
  /\ chunk = {}
  /\ failures' = 0
  /\ pc' = IF LastChunk THEN "done" ELSE "fetch"
  /\ UNCHANGED <<eligible, closed, kept, total, processed, lastDate, lastId, overlooked, chunk, full,
                 seen, closeFailures>>

-----------------------------------------------------------------------------
(* Everybody else.                                                         *)

(* An operator acknowledges the event or closes it, or a breach reopens it. *)
Leave(e) ==
  /\ e \in eligible
  /\ eligible' = eligible \ {e}
  /\ kept' = kept \ {e}
  /\ UNCHANGED <<closed, pc, loopVars, closeFailures>>

(* An event recovers, again or for the first time.                         *)
Recover(e) ==
  /\ e \in MayRecover \ (eligible \cup closed)
  /\ eligible' = eligible \cup {e}
  /\ UNCHANGED <<closed, kept, pc, loopVars, closeFailures>>

PruneStep ==
  \/ CountTotal
  \/ FetchPage
  \/ FetchFails
  \/ \E e \in Events : CloseOne(e) \/ CloseFails(e)
  \/ EndChunk

Next == PruneStep \/ \E e \in Events : Leave(e) \/ Recover(e)

Spec == Init /\ [][Next]_vars

(* The event loop resumes the generator.                                   *)
FairSpec == Spec /\ WF_vars(PruneStep)

-----------------------------------------------------------------------------
(* Properties.                                                             *)

(* openspec event-prune-recovery-lifecycle: every eligible row is processed *)
(* across the batches, no eligible row is skipped: when the stream ends    *)
(* well, what was eligible all the time is closed, but for the rows that   *)
(* the cursor passes over, and for one event for each that recovered       *)
(* meanwhile and was closed, which the total that was counted before takes *)
(* for one of its own.                                                     *)
NothingSkipped ==
  pc = "done" => Cardinality(kept \ (closed \cup overlooked)) <= Cardinality(closed \ kept)

(* The stream ends: neither failing pages nor events that keep recovering  *)
(* hold it for ever.                                                       *)
StreamEnds == <>(pc \in {"done", "failed"})
=============================================================================
