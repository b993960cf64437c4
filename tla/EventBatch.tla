----------------------------- MODULE EventBatch -----------------------------
(***************************************************************************)
(* What batch_update_events (polling/event_writer.py) makes of the results  *)
(* that a writer has claimed: the envelopes of one poll with those derived  *)
(* from it (polling/writer_pool.py), the rows that survive deduplication,   *)
(* and five statements that commit one by one.  Results come in any order,  *)
(* and a batch whose statement fails is applied again.  One CI, with an     *)
(* SNMP metric and an ICMP availability metric with sidecars.               *)
(***************************************************************************)
EXTENDS Integers, Sequences, FiniteSets, SequencesExt, FiniteSetsExt

CONSTANTS
    Polls,          \* results, numbered by the time they were observed at
    Outcomes,       \* what a poll may have found
    BatchSize, MaxFailures      \* results of one batch; statements that fail

VARIABLES
    outcome,        \* [Polls -> Outcomes]
    waiting,        \* results not yet applied
    batch,          \* the rows of the batch under way
    pc,             \* its next statement, 0 between batches
    active,         \* [metric and type -> whether it has an OPEN or ACK event]
    shown,          \* r.status of a metric: what the row shown last said
    failures

vars == <<outcome, waiting, batch, pc, active, shown, failures>>

Metrics == {"snmp", "avail", "latency", "loss"}
Types == {"failure", "threshold"}   \* COLLECTION_FAILURE, and the other two

-----------------------------------------------------------------------------
(* Envelopes and rows                                                      *)

Row(p, m, says) == [key |-> p, at |-> p, metric |-> m, says |-> says]

\* build_event_rows on a result and on the envelopes derived from it, which
\* keep its idempotency_key.  No loss and no jitter make no envelope.
Rows(p) ==
    CASE outcome[p] \in {"ok", "breach", "fail"} -> <<Row(p, "snmp", outcome[p])>>
      [] outcome[p] = "fast" -> <<Row(p, "avail", "ok"), Row(p, "latency", "ok")>>
      [] outcome[p] = "slow" -> <<Row(p, "avail", "ok"), Row(p, "latency", "breach")>>
      [] outcome[p] = "down" -> <<Row(p, "avail", "breach"), Row(p, "loss", "breach")>>

\* _dedupe_idempotent_rows: of the rows with one key the last is kept, in the
\* place of the first.
Idempotent(rows) ==
    LET kept == {i \in DOMAIN rows : ~\E j \in DOMAIN rows : j > i /\ rows[j].key = rows[i].key} IN
    [i \in 1 .. Cardinality(kept) |-> rows[CHOOSE k \in kept : Cardinality({x \in kept : x <= k}) = i]]

\* Faulty variant of LatestState: the last of the batch, whenever it was observed.
LatestStateInOrder(rows) ==
    {i \in DOMAIN rows : rows[i].says # "fail" /\
       ~\E j \in DOMAIN rows : rows[j].metric = rows[i].metric /\ rows[j].says # "fail" /\ j > i}

\* _dedupe_non_collection_latest_state: the newest of each metric, as indices.
LatestState(rows) ==
    {i \in DOMAIN rows : rows[i].says # "fail" /\
       ~\E j \in DOMAIN rows : rows[j].metric = rows[i].metric /\ rows[j].says # "fail"
                               /\ rows[j].at > rows[i].at}

\* _latest_metric_rows: those, and every collection failure.
LatestMetric(rows) == LatestState(rows) \union {i \in DOMAIN rows : rows[i].says = "fail"}

-----------------------------------------------------------------------------
Init ==
    /\ outcome \in [Polls -> Outcomes] /\ waiting = Polls
    /\ batch = <<>> /\ pc = 0
    /\ active = [k \in Metrics \X Types |-> FALSE]
    /\ shown = [m \in Metrics |-> "none"]
    /\ failures = 0

\* Results in the order of the claim, which is that of priorities.
Start(claim) ==
    /\ pc = 0 /\ pc' = 1
    /\ waiting' = waiting \ Range(claim)
    /\ batch' = Idempotent(FlattenSeq([i \in DOMAIN claim |-> Rows(claim[i])]))
    /\ UNCHANGED <<outcome, active, shown, failures>>

Statement(n) == pc = n /\ pc' = (n + 1) % 6 /\ UNCHANGED <<outcome, waiting, batch, failures>>

\* HAS_METRIC and MetricResult, row after row.
ShowLatest ==
    /\ Statement(1) /\ UNCHANGED active
    /\ shown' = [m \in Metrics |->
                   LET own == {i \in LatestMetric(batch) : batch[i].metric = m} IN
                   IF own = {} THEN shown[m] ELSE batch[Max(own)].says]

Said(m, what, I) == \E i \in I : batch[i].metric = m /\ batch[i].says = what

Set(type, value, M) ==
    active' = [k \in DOMAIN active |-> IF k[2] = type /\ k[1] \in M THEN value ELSE active[k]]

OpenFailures ==
    /\ Statement(2) /\ UNCHANGED shown
    /\ Set("failure", TRUE, {m \in Metrics : Said(m, "fail", DOMAIN batch)})

OpenBreaches ==
    /\ Statement(3) /\ UNCHANGED shown
    /\ Set("threshold", TRUE, {m \in Metrics : Said(m, "breach", LatestState(batch))})

\* Any row with a number recovers collection failures, whenever it was observed.
RecoverFailures ==
    /\ Statement(4) /\ UNCHANGED shown
    /\ Set("failure", FALSE, {m \in Metrics : Said(m, "ok", DOMAIN batch) \/ Said(m, "breach", DOMAIN batch)})

RecoverBreaches ==
    /\ Statement(5) /\ UNCHANGED shown
    /\ Set("threshold", FALSE, {m \in Metrics : Said(m, "ok", LatestState(batch))})

\* A statement raises: the rows are retried, from the first statement on, in a
\* batch of their own or with others.
Fail ==
    /\ pc > 0 /\ failures < MaxFailures
    /\ failures' = failures + 1
    /\ pc' = 0 /\ waiting' = waiting \union {batch[i].key : i \in DOMAIN batch}
    /\ batch' = <<>>
    /\ UNCHANGED <<outcome, active, shown>>

Next ==
    \/ \E S \in SUBSET waiting \ {{}} : Cardinality(S) <= BatchSize /\ \E claim \in SetToSeqs(S) : Start(claim)
    \/ ShowLatest \/ OpenFailures \/ OpenBreaches \/ RecoverFailures \/ RecoverBreaches
    \/ Fail

Spec == Init /\ [][Next]_vars

-----------------------------------------------------------------------------
Applied == pc = 0 /\ batch # <<>>

\* Newest row of the metric with a number, in the batch.
Newest(m) ==
    LET own == {i \in DOMAIN batch : batch[i].metric = m /\ batch[i].says # "fail"} IN
    batch[CHOOSE i \in own : \A j \in own : batch[i].at >= batch[j].at].says

Numbered(m) == \E i \in DOMAIN batch : batch[i].metric = m /\ batch[i].says # "fail"

\* The events, what is shown and the batch under way keep their types.
TypeOK ==
    /\ waiting \subseteq Polls /\ pc \in 0 .. 5
    /\ active \in [Metrics \X Types -> BOOLEAN]
    /\ shown \in [Metrics -> {"none", "ok", "breach", "fail"}]
    /\ Cardinality({batch[i].key : i \in DOMAIN batch}) = Len(batch)

\* However a batch orders its rows, and whatever part of an earlier attempt was
\* committed, a metric has an active breach event after it exactly when the
\* newest number of the batch is a breach.
BreachIsNewest ==
    Applied => \A m \in Metrics : Numbered(m) => (active[m, "threshold"] <=> Newest(m) = "breach")

\* No collection failure stays active after a batch with a number of the metric.
NumberEndsFailure ==
    Applied => \A m \in Metrics : Numbered(m) => ~active[m, "failure"]

\* Without collection failures in the batch, what is shown of a metric is what
\* the newest row says, and agrees with its breach event.
ShownIsNewest ==
    Applied => \A m \in Metrics :
        Numbered(m) /\ ~Said(m, "fail", DOMAIN batch)
            => shown[m] = Newest(m) /\ (shown[m] = "breach" <=> active[m, "threshold"])

\* "Dedicated writer ... updates events": every metric that a poll says something
\* of is told of it.  Rows that share the key of their poll drop each other.
EveryMetricIsTold ==
    Applied => \A i \in DOMAIN batch : \A r \in Range(Rows(batch[i].key)) :
                  \E j \in DOMAIN batch : batch[j].metric = r.metric
=============================================================================
