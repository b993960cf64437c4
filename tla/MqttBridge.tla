----------------------------- MODULE MqttBridge -----------------------------
(***************************************************************************)
(* From MQTT messages to samples and events                                *)
(* (services/mqtt/subscriber.py, services/mqtt_bridge_service.py) and the   *)
(* life of the mappings that decide which messages count                    *)
(* (services/mqtt_mapping_service.py, repositories/mqtt_mapping_repo.py).   *)
(*                                                                          *)
(* A message carries one numeric value for each of its metrics.  Its        *)
(* readings have the time of their measurement, if the payload gives it,    *)
(* and that of their parsing otherwise; messages of one time differ in      *)
(* their values.                                                            *)
(* A mapping ties a source metric to the CI and metric it is stored under.  *)
(* The broker redelivers what was not acknowledged.                         *)
(***************************************************************************)
EXTENDS Integers, FiniteSets

CONSTANTS
    Subscribers,    \* subscriber loops: the dedicated process, or the backend's own
    Messages,
    Malformed,      \* the messages their parser rejects with ParseError
    Stamps,
    StampsOf,        \* [Messages -> SUBSET Stamps]: the time in the payload, or any
    MetricCount,    \* metrics of a reading
    Maps,           \* ids of mappings
    SourceOf,       \* [Maps -> 1 .. MetricCount]
    Targets,        \* pairs of a CI and a metric definition
    Operators,      \* requests to the mapping endpoints that are under way
    MaxFailures,    \* bound on failing statements
    MaxChanges      \* bound on changes of mappings

None == "none"
MapStatuses == {None, "DRAFT", "APPROVED", "REVOKED"}
ReceiptStatuses == {None, "PENDING_METRIC", "PENDING_EVENT", "COMPLETE", "FAILED"}
Points == {"idle", "parse", "raw", "bridge", "receipt", "metric", "mark", "event",
           "event_written", "event_failed", "failed", "outcome", "ack"}
RequestKinds == {"idle", "update", "approve", "approved", "revoke"}

VARIABLES
    mapStatus, target,      \* of each mapping
    request,                \* [Operators -> what the request has read and does next]
    changes,
    pending,                \* messages the broker still has to deliver or redeliver
    at,                     \* [Subscribers -> place in _dispatch and process_reading]
    raw,                    \* messages whose readings are on Device and Metric nodes
    receipts,               \* [Maps \X Messages \X Stamps -> status of the receipt]
    samples,                \* rows of metric_values
    events,                 \* receipts' keys whose event was written
    acked,
    failures

mapVars == <<mapStatus, target, request, changes>>
storeVars == <<receipts, samples, events>>
vars == <<mapVars, pending, at, raw, storeVars, acked, failures>>

Idle == [pc |-> "idle", msg |-> None, time |-> None, metric |-> 0, map |-> None, target |-> None]
NoRequest == [kind |-> "idle", map |-> None]

Init ==
    /\ mapStatus = [p \in Maps |-> None]
    /\ target = [p \in Maps |-> None]
    /\ request = [o \in Operators |-> NoRequest]
    /\ changes = 0
    /\ pending = Messages
    /\ at = [s \in Subscribers |-> Idle]
    /\ raw = {} /\ acked = {}
    /\ receipts = [k \in Maps \X Messages \X Stamps |-> None]
    /\ samples = {} /\ events = {}
    /\ failures = 0

-----------------------------------------------------------------------------
(* Mappings                                                                *)

\* An approval holds the MqttMappingSourceLock node of its source from its
\* statement to its commit, and with it the write lock of the mapping's node.
Approving(p) == \E o \in Operators : request[o].kind = "approved" /\ request[o].map = p
SourceLocked(p) == \E q \in Maps : SourceOf[q] = SourceOf[p] /\ Approving(q)

Change == changes < MaxChanges /\ changes' = changes + 1
Answer(o) == request' = [request EXCEPT ![o] = NoRequest]
BridgeUnchanged == UNCHANGED <<pending, at, raw, storeVars, acked, failures>>

CreateDraft(p) ==
    /\ Change
    /\ mapStatus[p] = None
    /\ mapStatus' = [mapStatus EXCEPT ![p] = "DRAFT"]
    /\ \E t \in Targets : target' = [target EXCEPT ![p] = t]
    /\ UNCHANGED request /\ BridgeUnchanged

\* The read that update_draft, approve and revoke begin with: it decides
\* whether the request goes on.
ReadMapping(o, p) ==
    /\ request[o].kind = "idle" /\ mapStatus[p] # None
    /\ \/ mapStatus[p] = "DRAFT" /\ \E k \in {"update", "approve"} :
              request' = [request EXCEPT ![o] = [kind |-> k, map |-> p]]
       \/ mapStatus[p] # "REVOKED" /\ request' = [request EXCEPT ![o] = [kind |-> "revoke", map |-> p]]
    /\ Change
    /\ UNCHANGED <<mapStatus, target>> /\ BridgeUnchanged

\* update_draft's SET has no condition on the status.
UpdateDraft(o) ==
    LET p == request[o].map IN
    /\ request[o].kind = "update" /\ ~Approving(p)
    /\ \E t \in Targets : target' = [target EXCEPT ![p] = t]
    /\ Answer(o)
    /\ UNCHANGED <<mapStatus, changes>> /\ BridgeUnchanged

\* The approved mappings of the same source.
Conflicts(p) == {q \in Maps \ {p} : SourceOf[q] = SourceOf[p] /\ mapStatus[q] = "APPROVED"}

\* The statement of approve: MERGE of the lock node, then the conflicts are
\* counted and the status compared.
ApproveStatement(o) ==
    LET p == request[o].map IN
    /\ request[o].kind = "approve" /\ ~SourceLocked(p)
    /\ IF mapStatus[p] = "DRAFT" /\ Conflicts(p) = {}
          THEN request' = [request EXCEPT ![o].kind = "approved"]
          ELSE Answer(o)
    /\ UNCHANGED <<mapStatus, target, changes>> /\ BridgeUnchanged

ApproveCommit(o) ==
    /\ request[o].kind = "approved"
    /\ mapStatus' = [mapStatus EXCEPT ![request[o].map] = "APPROVED"]
    /\ Answer(o)
    /\ UNCHANGED <<target, changes>> /\ BridgeUnchanged

Revoke(o) ==
    /\ request[o].kind = "revoke" /\ ~Approving(request[o].map)
    /\ mapStatus' = [mapStatus EXCEPT ![request[o].map] = "REVOKED"]
    /\ Answer(o)
    /\ UNCHANGED <<target, changes>> /\ BridgeUnchanged

-----------------------------------------------------------------------------
(* The subscriber                                                          *)

Goto(s, pc) == at' = [at EXCEPT ![s].pc = pc]
Fail == failures < MaxFailures /\ failures' = failures + 1
Key(s) == <<at[s].map, at[s].msg, at[s].time>>
Sample(s) == [target |-> at[s].target, time |-> at[s].time, msg |-> at[s].msg, metric |-> at[s].metric]
Requeue(s) == at' = [at EXCEPT ![s] = Idle]

Deliver(s) ==
    /\ at[s].pc = "idle"
    /\ \E m \in pending : at' = [at EXCEPT ![s] = [Idle EXCEPT !.pc = "parse", !.msg = m]]
    /\ UNCHANGED <<mapVars, pending, raw, storeVars, acked, failures>>

\* ParseError is acknowledged, any other exception of the parser is not.  What
\* comes without a timestamp gets that of now, and another one if redelivered.
Parse(s) ==
    /\ at[s].pc = "parse"
    /\ IF at[s].msg \in Malformed THEN Goto(s, "ack")
       ELSE \E t \in StampsOf[at[s].msg] : at' = [at EXCEPT ![s].pc = "raw", ![s].time = t]
    /\ UNCHANGED <<mapVars, pending, raw, storeVars, acked, failures>>

\* A negative acknowledgement, the death of the process and the loss of the
\* connection all leave the message with the broker.
Nack(s) ==
    /\ at[s].pc # "idle" /\ Fail
    /\ Requeue(s)
    /\ UNCHANGED <<mapVars, pending, raw, storeVars, acked>>

PersistRaw(s) ==
    /\ at[s].pc = "raw"
    /\ raw' = raw \union {at[s].msg}
    /\ at' = [at EXCEPT ![s].pc = "bridge", ![s].metric = 1]
    /\ UNCHANGED <<mapVars, pending, storeVars, acked, failures>>

Approved(metric) == {p \in Maps : SourceOf[p] = metric /\ mapStatus[p] = "APPROVED"}

\* _resolve_approved_mapping: exactly one approved mapping, or the metric is skipped.
ResolveMapping(s) ==
    /\ at[s].pc = "bridge" /\ at[s].metric <= MetricCount
    /\ LET found == Approved(at[s].metric) IN
       IF Cardinality(found) = 1
          THEN \E p \in found :
                 at' = [at EXCEPT ![s].pc = "receipt", ![s].map = p, ![s].target = target[p]]
          ELSE Goto(s, "outcome")
    /\ UNCHANGED <<mapVars, pending, raw, storeVars, acked, failures>>

ReadReceipt(s) ==
    /\ at[s].pc = "receipt"
    /\ LET found == receipts[Key(s)]
           status == IF found = None THEN "PENDING_METRIC" ELSE found
       IN \/ /\ receipts' = [receipts EXCEPT ![Key(s)] = status]
             /\ Goto(s, CASE status = "COMPLETE" -> "outcome"
                          [] status = "PENDING_EVENT" -> "event"
                          [] OTHER -> "metric")
             /\ UNCHANGED failures
          \/ /\ receipts' \in {receipts, [receipts EXCEPT ![Key(s)] = status]}
             /\ Fail /\ Goto(s, "ack")
    /\ UNCHANGED <<mapVars, pending, raw, samples, events, acked>>

\* The primary key is the time and the target: a row that another reading of that
\* time has written stays, and the conflict counts as written.
Taken(s) == \E x \in samples : x.target = at[s].target /\ x.time = at[s].time

WriteMetric(s) ==
    /\ at[s].pc = "metric"
    /\ \/ /\ samples' = IF Taken(s) THEN samples ELSE samples \union {Sample(s)}
          /\ Goto(s, "mark") /\ UNCHANGED failures
       \/ Fail /\ Goto(s, "failed") /\ UNCHANGED samples
    /\ UNCHANGED <<mapVars, pending, raw, receipts, events, acked>>

\* Faulty variant of MarkFailed: the receipt goes to the event's retries.
MarkFailedAsPending(s) ==
    /\ at[s].pc = "failed"
    /\ receipts' = [receipts EXCEPT ![Key(s)] = "PENDING_EVENT"]
    /\ Goto(s, "outcome")
    /\ UNCHANGED <<mapVars, pending, raw, samples, events, acked, failures>>

\* _mark_failed: FAILED, and the reading goes on with its next metric.
MarkFailed(s) ==
    /\ at[s].pc = "failed"
    /\ receipts' = [receipts EXCEPT ![Key(s)] = "FAILED"]
    /\ Goto(s, "outcome")
    /\ UNCHANGED <<mapVars, pending, raw, samples, events, acked, failures>>

\* mark_timescale_written; its failure is suppressed.
MarkWritten(s) ==
    /\ at[s].pc = "mark"
    /\ \/ receipts' = [receipts EXCEPT ![Key(s)] = "PENDING_EVENT"] /\ UNCHANGED failures
       \/ Fail /\ UNCHANGED receipts
    /\ Goto(s, "event")
    /\ UNCHANGED <<mapVars, pending, raw, samples, events, acked>>

\* _write_events_and_update_receipt: a failure of the event writer or of
\* mark_event_written is answered by mark_event_failed.
WriteEvent(s) ==
    /\ at[s].pc = "event"
    /\ \/ events' = events \union {Key(s)} /\ Goto(s, "event_written") /\ UNCHANGED failures
       \/ Fail /\ Goto(s, "event_failed") /\ UNCHANGED events
    /\ UNCHANGED <<mapVars, pending, raw, receipts, samples, acked>>

MarkEventWritten(s) ==
    /\ at[s].pc = "event_written"
    /\ \/ receipts' = [receipts EXCEPT ![Key(s)] = "COMPLETE"]
          /\ Goto(s, "outcome") /\ UNCHANGED failures
       \/ Fail /\ Goto(s, "event_failed") /\ UNCHANGED receipts
    /\ UNCHANGED <<mapVars, pending, raw, samples, events, acked>>

MarkEventFailed(s) ==
    /\ at[s].pc = "event_failed"
    /\ receipts' = [receipts EXCEPT ![Key(s)] = "PENDING_EVENT"]
    /\ Goto(s, "outcome")
    /\ UNCHANGED <<mapVars, pending, raw, samples, events, acked, failures>>

\* record_bridge_outcome, and on to the next metric.
RecordOutcome(s) ==
    /\ at[s].pc = "outcome"
    /\ at' = [at EXCEPT ![s].pc = "bridge", ![s].metric = @ + 1, ![s].map = None,
                        ![s].target = None]
    /\ UNCHANGED <<mapVars, pending, raw, storeVars, acked, failures>>

\* What else fails in process_reading is swallowed by _persist_reading: the
\* rest of the reading is skipped and the message acknowledged.
BridgeRaises(s) ==
    /\ at[s].pc \in {"bridge", "failed", "event_failed", "outcome"}
    /\ Fail /\ Goto(s, "ack")
    /\ UNCHANGED <<mapVars, pending, raw, storeVars, acked>>

EndReading(s) ==
    /\ at[s].pc = "bridge" /\ at[s].metric > MetricCount
    /\ Goto(s, "ack")
    /\ UNCHANGED <<mapVars, pending, raw, storeVars, acked, failures>>

Ack(s) ==
    /\ at[s].pc = "ack"
    /\ pending' = pending \ {at[s].msg} /\ acked' = acked \union {at[s].msg}
    /\ Requeue(s)
    /\ UNCHANGED <<mapVars, raw, storeVars, failures>>

-----------------------------------------------------------------------------
MappingStep ==
    \/ \E p \in Maps : CreateDraft(p)
    \/ \E o \in Operators :
          \/ \E p \in Maps : ReadMapping(o, p)
          \/ UpdateDraft(o) \/ ApproveStatement(o) \/ ApproveCommit(o) \/ Revoke(o)

Store(s) ==
    \/ ResolveMapping(s) \/ ReadReceipt(s) \/ WriteMetric(s) \/ MarkFailed(s) \/ MarkWritten(s)
    \/ WriteEvent(s) \/ MarkEventWritten(s) \/ MarkEventFailed(s) \/ RecordOutcome(s)
    \/ BridgeRaises(s) \/ EndReading(s)

Dispatch(s) == Deliver(s) \/ Parse(s) \/ PersistRaw(s) \/ Store(s) \/ Ack(s)

Next == MappingStep \/ \E s \in Subscribers : Dispatch(s) \/ Nack(s)

Spec == Init /\ [][Next]_vars

-----------------------------------------------------------------------------
\* Mappings, places, receipts and stores keep their types.
TypeOK ==
    /\ mapStatus \in [Maps -> MapStatuses] /\ target \in [Maps -> Targets \union {None}]
    /\ request \in [Operators -> [kind : RequestKinds, map : Maps \union {None}]]
    /\ pending \subseteq Messages /\ raw \subseteq Messages /\ acked \subseteq Messages
    /\ at \in [Subscribers -> [pc : Points, msg : Messages \union {None},
                               time : Stamps \union {None}, metric : 0 .. MetricCount + 1,
                               map : Maps \union {None}, target : Targets \union {None}]]
    /\ receipts \in [Maps \X Messages \X Stamps -> ReceiptStatuses]
    /\ samples \subseteq [target : Targets, time : Stamps, msg : Messages, metric : 1 .. MetricCount]
    /\ events \subseteq Maps \X Messages \X Stamps

\* Two operators who approve different mappings of one source at the same time
\* do not both succeed: a source never has two approved mappings, which would
\* stop the bridge for it (BLOCKED_AMBIGUOUS_MAPPING).
OneApproved == \A metric \in 1 .. MetricCount : Cardinality(Approved(metric)) <= 1

\* A mapping that was revoked stays so, whatever an approval or an update had
\* read before.
RevokedIsFinal == [][\A p \in Maps : mapStatus[p] = "REVOKED" => mapStatus'[p] = "REVOKED"]_vars

\* An event is only raised, and a receipt only says PENDING_EVENT or COMPLETE, for
\* a reading whose time has its sample: its own one or that of a reading of the
\* same time, which was there first; and COMPLETE only when the event was raised.
\* This holds whatever failed on the way, was redelivered or revoked meanwhile.
ReceiptsAreTrue ==
    LET Stored(k) == \E x \in samples : x.time = k[3] /\ k[3] \in StampsOf[x.msg] IN
    /\ \A k \in events : Stored(k)
    /\ \A k \in Maps \X Messages \X Stamps :
         /\ receipts[k] \in {"PENDING_EVENT", "COMPLETE"} => Stored(k)
         /\ receipts[k] = "COMPLETE" => k \in events

\* A complete receipt is not reopened by a redelivery: the event of a reading that
\* carries its time is not raised again after an operator has dealt with it.
CompleteIsFinal ==
    [][\A k \in Maps \X Messages \X Stamps :
         receipts[k] = "COMPLETE" => receipts'[k] = "COMPLETE"]_vars

\* No message is acknowledged before its readings are on the raw nodes.
AckedIsRaw == acked \subseteq raw \union Malformed
=============================================================================
