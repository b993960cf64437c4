---------------------------- MODULE EventLifecycle ----------------------------
(***************************************************************************)
(* The Event nodes of one (ci_id, metric_id, event_type) triplet in Neo4j, *)
(* of one failure family and correlation type ROOT, and everybody who      *)
(* changes them: the breach writers of the three collectors, which hold    *)
(* the triplet's advisory lock from before their lookup until their        *)
(* Postgres session closes; the recovery statements, which take no lock;   *)
(* operators; and the pruner.                                              *)
(*                                                                         *)
(* Whoever matches an event sets it later: in one Cypher statement (read   *)
(* committed, so that another commit may fall in between) or, in the       *)
(* legacy service and in close_event, in two.  A recovery or a prune of    *)
(* several events is one of each of them, at its own time.  Severity,      *)
(* message, snapshot and timestamps are left out, and so are the           *)
(* propagated children of an event.                                        *)
(***************************************************************************)
EXTENDS Naturals, FiniteSets

CONSTANTS
  Events,            \* Event nodes that may be created
  Writers,           \* breach writers, of any collector
  Types,             \* the event types that a triplet may be of, each with ...
  Upserts,           \* ... the upserts in use for it, and
  Ackable,           \* ... the statuses in which operators acknowledge: ack_event takes all
  NoEvent,           \* "the lookup found nothing"
  NoWriter           \* "the advisory lock is free"

\* The upserts of the polling result writer: collection failures, other breaches.
BatchKinds == {"batch_collection", "batch_threshold"}
\* Those of the engine (collection failures and availability; latency, jitter
\* and packet loss) and of services/snmp_service.
AllKinds == BatchKinds \cup {"engine_collection", "engine_latency", "legacy"}
\* The upserts that do not SET the status of the event they found.
StatusKeepers == {"batch_threshold", "engine_latency"}

Active == {"OPEN", "ACK"}
Unclosed == Active \cup {"RECOVERED"}
Statuses == Unclosed \cup {"absent", "CLOSED"}

ASSUME KindAssumption == \A t \in Types : Upserts[t] \subseteq AllKinds
ASSUME AckAssumption == \A t \in Types : Ackable[t] \subseteq Statuses \ {"absent"}
ASSUME NoneAssumption == NoEvent \notin Events /\ NoWriter \notin Writers

VARIABLES
  type,      \* the event type of the triplet, which does not change
  status,    \* [Events -> status property], "absent" before the node exists
  ack,       \* [Events -> ack property]
  recovering, \* events that a recovery statement has matched, and not yet set
  closing,   \* events whose closing request has passed its status check
  pruning,   \* events that a prune has matched, and not yet closed
  revived,   \* history: closed events that a recovery set nonetheless
  lock,      \* the writer that holds the triplet's advisory lock
  pc,        \* [Writers -> control point of a breach write]
  kind,      \* [Writers -> the upsert it is running]
  found      \* [Writers -> the event its lookup returned]

eventVars == <<status, ack>>
pendingVars == <<recovering, closing, pruning, revived>>
runVars == <<lock, pc, kind, found>>
vars == <<type, eventVars, pendingVars, runVars>>

Kinds == Upserts[type]
AckableStatuses == Ackable[type]

-----------------------------------------------------------------------------
TypeOK ==
  /\ type \in Types
  /\ status \in [Events -> Statuses]
  /\ ack \in [Events -> BOOLEAN]
  /\ recovering \in SUBSET Events
  /\ closing \in SUBSET Events
  /\ pruning \in SUBSET Events
  /\ revived \in SUBSET Events
  /\ lock \in Writers \cup {NoWriter}
  /\ pc \in [Writers -> {"idle", "match", "write", "held"}]
  /\ kind \in [Writers -> AllKinds \cup {"none"}]
  /\ found \in [Writers -> Events \cup {NoEvent}]

Init ==
  /\ type \in Types
  /\ status = [e \in Events |-> "absent"]
  /\ ack = [e \in Events |-> FALSE]
  /\ recovering = {}
  /\ closing = {}
  /\ pruning = {}
  /\ revived = {}
  /\ lock = NoWriter
  /\ pc = [w \in Writers |-> "idle"]
  /\ kind = [w \in Writers |-> "none"]
  /\ found = [w \in Writers |-> NoEvent]

-----------------------------------------------------------------------------
(* Breach writers.                                                         *)

\* Faulty variant of Matched, for the mutation runs: the predicate is narrowed
\* to the active events.
MatchedNarrowed(k) == {"OPEN", "ACK"}

\* The statuses in which an upsert recognises an event as the one to update.
Matched(k) == IF k \in BatchKinds THEN Active ELSE Unclosed

(* Faulty variant of AcquireLock: the upsert runs without lock_db.         *)
AcquireNothing(w, k) ==
  /\ pc[w] = "idle"
  /\ lock' = w
  /\ pc' = [pc EXCEPT ![w] = "match"]
  /\ kind' = [kind EXCEPT ![w] = k]
  /\ UNCHANGED <<type, eventVars, pendingVars, found>>

(* acquire_event_triplet_lock blocks until the holder's session ends.      *)
AcquireLock(w, k) ==
  /\ pc[w] = "idle"
  /\ lock = NoWriter
  /\ lock' = w
  /\ pc' = [pc EXCEPT ![w] = "match"]
  /\ kind' = [kind EXCEPT ![w] = k]
  /\ UNCHANGED <<type, eventVars, pendingVars, found>>

(* head(collect(existing)), or LIMIT 1: any event that matches.            *)
MatchEvent(w) ==
  LET matching == {e \in Events : status[e] \in Matched(kind[w])} IN
  /\ pc[w] = "match"
  /\ found' \in {[found EXCEPT ![w] = e] :
                   e \in IF matching = {} THEN {NoEvent} ELSE matching}
  /\ pc' = [pc EXCEPT ![w] = "write"]
  /\ UNCHANGED <<type, eventVars, pendingVars, lock, kind>>

Writes(w) ==
  /\ pc[w] = "write"
  /\ pc' = [pc EXCEPT ![w] = "held"]
  /\ UNCHANGED <<type, pendingVars, lock, kind, found>>

CreateEvent(w) ==
  /\ Writes(w)
  /\ found[w] = NoEvent
  /\ \E e \in Events :
       /\ status[e] = "absent"
       /\ status' = [status EXCEPT ![e] = "OPEN"]
  /\ UNCHANGED ack

(* Collection failures and availability: OPEN again, and unassigned.       *)
ReopenEvent(w) ==
  /\ Writes(w)
  /\ found[w] # NoEvent
  /\ kind[w] \in {"batch_collection", "engine_collection"}
  /\ status' = [status EXCEPT ![found[w]] = "OPEN"]
  /\ ack' = [ack EXCEPT ![found[w]] = FALSE]

(* The other breaches: the status stays, ack stays with an ACK event only. *)
RefreshEvent(w) ==
  LET e == found[w] IN
  /\ Writes(w)
  /\ e # NoEvent
  /\ kind[w] \in StatusKeepers
  /\ ack' = [ack EXCEPT ![e] = status[e] = "ACK" /\ @]
  /\ UNCHANGED status

(* The legacy service: OPEN again, ack is left as it is.                   *)
ReopenKeepingAck(w) ==
  /\ Writes(w)
  /\ found[w] # NoEvent
  /\ kind[w] = "legacy"
  /\ status' = [status EXCEPT ![found[w]] = "OPEN"]
  /\ UNCHANGED ack

(* The Postgres session of a run is closed, after the write or because the *)
(* run failed before it: the transaction ends, and with it the lock.       *)
ReleaseLock(w) ==
  /\ pc[w] # "idle"
  /\ lock' = NoWriter
  /\ pc' = [pc EXCEPT ![w] = "idle"]
  /\ kind' = [kind EXCEPT ![w] = "none"]
  /\ found' = [found EXCEPT ![w] = NoEvent]
  /\ UNCHANGED <<type, eventVars, pendingVars>>

-----------------------------------------------------------------------------
(* Recovery, operators and the pruner: none of them takes the lock.        *)

(* A good sample, seen by any collector: the event is matched ...          *)
MatchRecovery(e) ==
  /\ status[e] \in Active
  /\ recovering' = recovering \cup {e}
  /\ UNCHANGED <<type, eventVars, closing, pruning, revived, runVars>>

(* ... and set, whatever became of it in between.                          *)
SetRecovered(e) ==
  /\ e \in recovering
  /\ status' = [status EXCEPT ![e] = "RECOVERED"]
  /\ recovering' = recovering \ {e}
  /\ revived' = IF status[e] \in Unclosed THEN revived ELSE revived \cup {e}
  /\ UNCHANGED <<type, ack, closing, pruning, runVars>>

(* ack_event has no condition on the status.                               *)
AckEvent(e) ==
  /\ status[e] \in AckableStatuses
  /\ status' = [status EXCEPT ![e] = "ACK"]
  /\ ack' = [ack EXCEPT ![e] = TRUE]
  /\ UNCHANGED <<type, pendingVars, runVars>>

(* close_event reads the status in one transaction ...                     *)
CheckClose(e) ==
  /\ status[e] \notin {"absent", "CLOSED"}
  /\ closing' = closing \cup {e}
  /\ UNCHANGED <<type, eventVars, recovering, pruning, revived, runVars>>

(* ... and closes the event in the next.                                   *)
CloseEvent(e) ==
  /\ e \in closing
  /\ status' = [status EXCEPT ![e] = "CLOSED"]
  /\ closing' = closing \ {e}
  /\ UNCHANGED <<type, ack, recovering, pruning, revived, runVars>>

(* prune_recovered_events, from the scheduler or /events/prune, and        *)
(* _close_one of event_batch_pruner: the event is matched ...              *)
MatchPrune(e) ==
  /\ status[e] = "RECOVERED" /\ ~ack[e]
  /\ pruning' = pruning \cup {e}
  /\ UNCHANGED <<type, eventVars, recovering, closing, revived, runVars>>

(* ... and closed, though it may have been reopened or acknowledged.       *)
ClosePruned(e) ==
  /\ e \in pruning
  /\ status' = [status EXCEPT ![e] = "CLOSED"]
  /\ pruning' = pruning \ {e}
  /\ UNCHANGED <<type, ack, recovering, closing, revived, runVars>>

BreachWrite(w) ==
  \/ CreateEvent(w)
  \/ ReopenEvent(w)
  \/ RefreshEvent(w)
  \/ ReopenKeepingAck(w)

WriterStep(w) ==
  \/ \E k \in Kinds : AcquireLock(w, k)
  \/ MatchEvent(w)
  \/ BreachWrite(w)
  \/ ReleaseLock(w)

EventStep(e) ==
  \/ MatchRecovery(e)
  \/ SetRecovered(e)
  \/ AckEvent(e)
  \/ CheckClose(e)
  \/ CloseEvent(e)
  \/ MatchPrune(e)
  \/ ClosePruned(e)

Next ==
  \/ \E w \in Writers : WriterStep(w)
  \/ \E e \in Events : EventStep(e)

Spec == Init /\ [][Next]_vars

-----------------------------------------------------------------------------
(* Properties.                                                             *)

(* docs/mqtt-monitoring.md: the advisory-lock path avoids duplicate active *)
(* events; a triplet that only the result writer writes, and whose active  *)
(* events alone are acknowledged, has one OPEN or ACK event at most.       *)
OneActiveEvent ==
  Kinds \subseteq BatchKinds /\ AckableStatuses \subseteq Active =>
  \A d, e \in Events : status[d] \in Active /\ status[e] \in Active => d = e

(* Writers that recognise RECOVERED events reuse them: of all the events   *)
(* of a triplet that the engine and the legacy service write at most one   *)
(* is not CLOSED, so that recovered events do not accumulate (openspec     *)
(* event-prune-recovery-lifecycle), if no closed one is acknowledged; but  *)
(* for those that a recovery which had matched them set after they were    *)
(* closed, which is how a second one comes about.                          *)
OneLifecycle ==
  Kinds \cap BatchKinds = {} /\ AckableStatuses \subseteq Unclosed =>
  \A d, e \in Events \ revived : status[d] \in Unclosed /\ status[e] \in Unclosed => d = e
=============================================================================
