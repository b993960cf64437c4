------------------------------ MODULE WorkQueue ------------------------------
(***************************************************************************)
(* What a leased queue promises to the rest of the pipeline, with no word  *)
(* of leases, commits, row locks or clocks: an item that is held is held   *)
(* by one worker; what an item asks for is done by its holder, and once    *)
(* done stays done; an item leaves the queue for good only when its holder *)
(* finds it done, and however a holder ends, the item is there again.  A   *)
(* holder that dies may lose items it held half done: they are there       *)
(* again, but may leave the queue undone.                                  *)
(*                                                                         *)
(* PollTaskQueue and ResultWriter implement it, as long as a batch fits in *)
(* its lease: an item is a task, and what it asks for a final result; or   *)
(* an item is a result, and what it asks for is to be in both stores.      *)
(***************************************************************************)
CONSTANTS Workers, Items

VARIABLES
  queued,    \* the items that were ever enqueued
  held,      \* [Workers -> the items in the worker's hands]
  served,    \* the items for which what they ask for is done
  lost,      \* the items that a dying holder left half done
  finished   \* the items that are done with

vars == <<queued, held, served, lost, finished>>

Init ==
  /\ queued = {} /\ served = {} /\ lost = {} /\ finished = {}
  /\ held = [w \in Workers |-> {}]

Free == (queued \ finished) \ UNION {held[w] : w \in Workers}

Enqueue(i) ==
  /\ i \notin queued /\ queued' = queued \cup {i}
  /\ UNCHANGED <<held, served, lost, finished>>

Claim(w, S) ==
  /\ held[w] = {} /\ S \subseteq Free /\ held' = [held EXCEPT ![w] = S]
  /\ UNCHANGED <<queued, served, lost, finished>>

Serve(w, S) ==
  /\ S \subseteq held[w] /\ served' = served \cup S
  /\ UNCHANGED <<queued, held, lost, finished>>

Finish(w, i) ==
  /\ i \in held[w] \cap (served \cup lost)
  /\ finished' = finished \cup {i} /\ held' = [held EXCEPT ![w] = @ \ {i}]
  /\ UNCHANGED <<queued, served, lost>>

(* A retry, a deferral, the end of the run or its death.                   *)
PutBack(w, S) ==
  /\ S \subseteq held[w] /\ held' = [held EXCEPT ![w] = @ \ S]
  /\ UNCHANGED <<queued, served, lost, finished>>

(* The holder dies while the items of S are half done.                     *)
Lose(w, S) ==
  /\ S \subseteq held[w] /\ lost' = lost \cup S /\ held' = [held EXCEPT ![w] = {}]
  /\ UNCHANGED <<queued, served, finished>>

Next ==
  \/ \E i \in Items : Enqueue(i)
  \/ \E w \in Workers :
       \/ \E i \in held[w] : Finish(w, i)
       \/ \E S \in SUBSET Items : Claim(w, S) \/ Serve(w, S) \/ PutBack(w, S) \/ Lose(w, S)

Spec == Init /\ [][Next]_vars
=============================================================================
