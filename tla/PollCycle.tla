------------------------------ MODULE PollCycle ------------------------------
(***************************************************************************)
(* One cycle of the SNMP/ICMP engine (engines/snmp_worker.py, poll_snmp)    *)
(* over a topology of CIs: debounced pings, the correlation of failures     *)
(* with those of upstream CIs (engines/correlation.py, topology_repo), the  *)
(* passes that write root events before and dependents after the recovery   *)
(* pass, and the Timescale insert between them.  A CI has one main metric,  *)
(* availability over ICMP or a value over SNMP, and may have ICMP jitter.   *)
(***************************************************************************)
EXTENDS Integers, FiniteSets, FiniteSetsExt

CONSTANTS
    CIs,
    Snmp,           \* the CIs whose main metric is polled over SNMP
    Jittery,        \* CIs with HAS_METRIC to the jitter metric
    Parents,        \* [CIs -> SUBSET CIs], direct upstream relations, without cycles
    Unconfirmed,    \* pairs <<ci, parent>> that cross a PhysicalLink with status UNKNOWN
    Debounce,       \* icmp_settings.debounce_count
    AckableStatuses,
    MaxFlips, MaxFailures, MaxClosings, MaxRestarts     \* bounds of the model

VARIABLES
    up,             \* whether the CI answers
    fails,          \* _consecutive_failures
    streak,         \* pings of the CI that failed in a row, whatever the engine counted
    shown, stored,  \* r.last_value of a metric, and its latest sample in Timescale
    root,           \* the latest ROOT event of a metric: number, status, affected_ci_ids
    children,       \* degraded PROPAGATED events: metric, the root they come from, status
    pc, obs, cache, cands,      \* locals of poll_snmp
    blind,          \* a query for parents failed in this cycle
    flips, failures, closings, restarts

cycle == <<obs, cache, cands, blind>>
data == <<fails, streak, shown, stored, root, children>>
bounds == <<flips, failures, closings, restarts>>
vars == <<up, fails, streak, shown, stored, root, children, pc, cycle, bounds>>

-----------------------------------------------------------------------------
(* Topology                                                                *)

Main(c) == <<c, "main">>
Jitter(c) == <<c, "jitter">>
Keys == {Main(c) : c \in CIs} \union {Jitter(c) : c \in Jittery}
Icmp == CIs \ Snmp

\* CORRELATION_MAX_DEPTH logical hops; a crossing of a link is one of them.
Upstream(c) ==
    LET Step(S) == UNION {Parents[x] : x \in S} IN
    Step({c}) \union Step(Step({c})) \union Step(Step(Step({c})))

\* No link, or one that degrades what crosses it.
Crossed(c, p) == IF <<c, p>> \in Unconfirmed THEN "UNKNOWN" ELSE "none"

NoEvent == [number |-> 0, status |-> "none", affected |-> {}]
Active(k) == root[k].status \in {"OPEN", "ACK"}
NoParent == <<>>

Init ==
    /\ up \in [CIs -> BOOLEAN]
    /\ fails = [c \in Icmp |-> 0] /\ streak = [c \in Icmp |-> 0]
    /\ shown = [k \in Keys |-> "none"] /\ stored = [k \in Keys |-> "none"]
    /\ root = [k \in Keys |-> NoEvent] /\ children = {}
    /\ pc = "idle"
    /\ obs = [k \in Keys |-> "none"] /\ cache = [k \in Keys |-> NoParent]
    /\ cands = {} /\ blind = FALSE
    /\ flips = 0 /\ failures = 0 /\ closings = 0 /\ restarts = 0

-----------------------------------------------------------------------------
(* The world, operators, the process                                       *)

Flip(c) ==
    /\ flips < MaxFlips /\ flips' = flips + 1
    /\ up' = [up EXCEPT ![c] = ~@]
    /\ UNCHANGED <<data, pc, cycle, failures, closings, restarts>>

AckEvent(k) ==
    /\ root[k].status \in AckableStatuses
    /\ root' = [root EXCEPT ![k].status = "ACK"]
    /\ UNCHANGED <<up, fails, streak, shown, stored, children, pc, cycle, bounds>>

CloseEvent(k) ==
    /\ closings < MaxClosings /\ closings' = closings + 1
    /\ root[k].status \in {"OPEN", "ACK", "RECOVERED"}
    /\ root' = [root EXCEPT ![k].status = "CLOSED"]
    /\ UNCHANGED <<up, fails, streak, shown, stored, children, pc, cycle, flips, failures, restarts>>

\* The finally of poll_snmp, and the except around the whole cycle.
EndCycle ==
    /\ pc' = "idle"
    /\ obs' = [k \in Keys |-> "none"] /\ cache' = [k \in Keys |-> NoParent]
    /\ cands' = {} /\ blind' = FALSE

\* A query or a statement of the cycle raises: nothing that follows is done.
Abort ==
    /\ pc \notin {"idle", "pass2a", "pass2b"} /\ failures < MaxFailures
    /\ failures' = failures + 1 /\ EndCycle
    /\ UNCHANGED <<up, data, flips, closings, restarts>>

Restart ==
    /\ restarts < MaxRestarts /\ restarts' = restarts + 1 /\ EndCycle
    /\ fails' = [c \in Icmp |-> 0]
    /\ UNCHANGED <<up, streak, shown, stored, root, children, flips, failures, closings>>

-----------------------------------------------------------------------------
(* Polling                                                                 *)

\* Pinged because the availability metric is due, or jitter alone.
Pinged(c, due) == c \in Icmp /\ {Main(c), Jitter(c)} \intersect due # {}

\* Faulty variant of Counted: a success keeps the counter.
CountedOnly(c) == IF up[c] THEN fails[c] ELSE Min({fails[c] + 1, Debounce})

\* Only compared with Debounce, so that it is not counted further here.
Counted(c) == IF up[c] THEN 0 ELSE Min({fails[c] + 1, Debounce})

\* A failure below the debounce count leaves no sample.
Outcome(k, due) ==
    LET c == k[1]
        tried == IF k[2] = "jitter" THEN Pinged(c, due) ELSE k \in due
        bad == k[2] = "main" /\ (c \in Snmp \/ Counted(c) >= Debounce)
    IN IF tried /\ up[c] THEN "ok" ELSE IF tried /\ bad THEN "fail" ELSE "none"

Poll(due) ==
    /\ pc = "idle" /\ pc' = "polled"
    /\ fails' = [c \in Icmp |-> IF Pinged(c, due) THEN Counted(c) ELSE fails[c]]
    /\ streak' = [c \in Icmp |-> IF ~Pinged(c, due) THEN streak[c]
                                 ELSE IF up[c] THEN 0 ELSE Min({streak[c] + 1, Debounce})]
    /\ obs' = [k \in Keys |-> Outcome(k, due)]
    /\ UNCHANGED <<up, shown, stored, root, children, cache, cands, blind, bounds>>

Failing == {k \in Keys : obs[k] = "fail"}

\* build_open_parent_index: a root event, OPEN or ACK, of an upstream CI.
ParentEvents(k) ==
    {<<p, root[p].number>> : p \in {q \in Keys : q[1] \in Upstream(k[1]) /\ Active(q)}}

Caches == {f \in [Keys -> {NoParent} \union UNION {ParentEvents(k) : k \in Failing}] :
             \A k \in Keys : IF k \in Failing /\ ParentEvents(k) # {}
                             THEN f[k] \in ParentEvents(k) ELSE f[k] = NoParent}

\* Faulty variant of CycleRootCandidates: the open parents alone decide.
CandidatesOfCache(c, topology) == {k \in Failing : c[k] = NoParent}

\* cycle_root_candidates: no open parent, and no upstream CI failing as well,
\* when the topology of the cycle could be read.
CycleRootCandidates(c, topology) ==
    {k \in Failing :
       /\ c[k] = NoParent
       /\ topology => ~\E q \in Failing : q[1] \in Upstream(k[1])}

\* The cache of open parents, then the topology of the cycle; each may fail.
BuildCache ==
    /\ pc = "polled" /\ pc' = "pass2a"
    /\ \/ /\ cache' \in Caches
          /\ \/ cands' = CycleRootCandidates(cache', TRUE) /\ UNCHANGED <<failures, blind>>
             \/ /\ failures < MaxFailures /\ failures' = failures + 1 /\ blind' = TRUE
                /\ cands' = CycleRootCandidates(cache', FALSE)
       \/ /\ failures < MaxFailures /\ failures' = failures + 1 /\ blind' = TRUE
          /\ cache' = [k \in Keys |-> NoParent]
          /\ cands' = CycleRootCandidates(cache', FALSE)
    /\ UNCHANGED <<up, data, obs, flips, closings, restarts>>

-----------------------------------------------------------------------------
(* The passes                                                              *)

\* Faulty variant of Upserted: an event that is found keeps its status.
UpsertedKeeping(k) ==
    IF root[k].status \in {"none", "CLOSED"}
    THEN [number |-> root[k].number + 1, status |-> "OPEN", affected |-> {}]
    ELSE root[k]

\* The ROOT upsert: reuses an event that is not closed.  Jitter keeps its status.
Upserted(k) ==
    IF root[k].status \in {"none", "CLOSED"}
    THEN [number |-> root[k].number + 1, status |-> "OPEN", affected |-> {}]
    ELSE IF k[2] = "jitter" THEN root[k] ELSE [root[k] EXCEPT !.status = "OPEN"]

Upsert(K) == [k \in Keys |-> IF k \in K THEN Upserted(k) ELSE root[k]]

\* materialize_current_cycle_roots of one family: its failure is logged only.
Materialize(from, to, K) ==
    /\ pc = from /\ pc' = to
    /\ \/ root' = Upsert(K) /\ UNCHANGED failures
       \/ /\ K # {} /\ failures < MaxFailures /\ failures' = failures + 1
          /\ UNCHANGED root
    /\ UNCHANGED <<up, fails, streak, shown, stored, children, cycle, flips, closings, restarts>>

Pass2a == Materialize("pass2a", "insert", {k \in cands : k[1] \in Snmp})
Pass2b == Materialize("pass2b", "recover", {k \in cands : k[1] \in Icmp})

Sampled == {k \in Keys : obs[k] = "ok" \/ (obs[k] = "fail" /\ k[1] \in Icmp)}

\* bulk_insert_metrics; the exception of an insert that fails ends the cycle.
Insert ==
    /\ pc = "insert" /\ pc' = "publish"
    /\ stored' = [k \in Keys |-> IF k \in Sampled THEN obs[k] ELSE stored[k]]
    /\ UNCHANGED <<up, fails, streak, shown, root, children, cycle, bounds>>

\* Faulty variant of InsertFails: the failure is passed over.
InsertFailsThrough ==
    /\ pc = "insert" /\ Sampled # {} /\ failures < MaxFailures
    /\ failures' = failures + 1 /\ pc' = "publish"
    /\ UNCHANGED <<up, data, cycle, flips, closings, restarts>>

InsertFails ==
    /\ pc = "insert" /\ Sampled # {} /\ failures < MaxFailures
    /\ failures' = failures + 1 /\ EndCycle
    /\ UNCHANGED <<up, data, flips, closings, restarts>>

\* Latest values, the status of the CI, and the reset of its counter.
Publish ==
    /\ pc = "publish" /\ pc' = "pass2b"
    /\ shown' = [k \in Keys |-> IF k \in Sampled THEN obs[k] ELSE shown[k]]
    /\ fails' = [c \in Icmp |-> IF Main(c) \in Sampled THEN 0 ELSE fails[c]]
    /\ UNCHANGED <<up, streak, stored, root, children, cycle, bounds>>

\* Direct children of the event that recovers.
Recovered(k, ch) ==
    IF ch.from = <<k, root[k].number>> /\ ch.status = "OPEN"
    THEN [ch EXCEPT !.status = "RECOVERED"] ELSE ch

Answered == {k \in Keys : obs[k] = "ok" /\ k[1] \in Icmp /\ Active(k)}

\* The Cypher text of _recover_snmp_collection_failures holds lines that start
\* with #, which is no comment there: the server refuses the statement, and it
\* is sent whenever an SNMP sample came in.
SnmpRecoveryRefused ==
    /\ pc = "recover" /\ \E k \in Keys : obs[k] = "ok" /\ k[1] \in Snmp
    /\ EndCycle
    /\ UNCHANGED <<up, data, bounds>>

Recover ==
    /\ pc = "recover" /\ pc' = "rebuild"
    /\ ~\E k \in Keys : obs[k] = "ok" /\ k[1] \in Snmp
    /\ root' = [k \in Keys |-> IF k \in Answered THEN [root[k] EXCEPT !.status = "RECOVERED"]
                               ELSE root[k]]
    /\ children' = {IF ch.from[1] \in Answered THEN Recovered(ch.from[1], ch) ELSE ch : ch \in children}
    /\ UNCHANGED <<up, fails, streak, shown, stored, cycle, bounds>>

Rebuild ==
    /\ pc = "rebuild" /\ pc' = "pass3"
    /\ \/ cache' \in Caches /\ UNCHANGED <<failures, blind>>
       \/ /\ failures < MaxFailures /\ failures' = failures + 1 /\ blind' = TRUE
          /\ cache' = [k \in Keys |-> NoParent]
    /\ UNCHANGED <<up, data, obs, cands, flips, closings, restarts>>

\* _inject_synthetic_breaches_for_down_cis.
Synthetic == {Jitter(c) : c \in {x \in Jittery : obs[Main(x)] = "fail" /\ x \in Icmp}}

Dependents == {k \in Failing \ cands : cache[k] # NoParent}

\* Dependents of the event, while it is the one they found and is not closed.
Attached(p) ==
    {k[1] : k \in {q \in Dependents : cache[q] = <<p, root[p].number>>
                                      /\ root[p].status \in {"OPEN", "ACK", "RECOVERED"}}}

\* One child for each metric and root; an existing one is opened again.
Degraded ==
    {[key |-> k, from |-> cache[k], status |-> "OPEN"] :
        k \in {q \in Dependents : Crossed(q[1], cache[q][1][1]) = "UNKNOWN"}}

Pass3 ==
    /\ pc = "pass3"
    /\ root' = [k \in Keys |->
                  LET r == IF k \in ((Failing \ cands) \ Dependents) \union Synthetic
                           THEN Upserted(k) ELSE root[k]
                  IN  [r EXCEPT !.affected = @ \union Attached(k)]]
    /\ children' = {ch \in children : ~\E d \in Degraded : d.key = ch.key /\ d.from = ch.from}
                        \union Degraded
    /\ EndCycle
    /\ UNCHANGED <<up, fails, streak, shown, stored, bounds>>

-----------------------------------------------------------------------------
Cycle ==
    \/ BuildCache \/ Pass2a \/ Insert \/ Publish \/ Pass2b
    \/ SnmpRecoveryRefused \/ Recover \/ Rebuild \/ Pass3

Next ==
    \/ Cycle \/ InsertFails \/ Abort \/ Restart
    \/ \E due \in SUBSET Keys : Poll(due)
    \/ \E c \in CIs : Flip(c)
    \/ \E k \in Keys : AckEvent(k) \/ CloseEvent(k)

Spec == Init /\ [][Next]_vars

\* The scheduler runs cycle after cycle, and every metric is due with the others
\* again and again.
FairSpec == Spec /\ WF_vars(Cycle) /\ SF_vars(Poll(Keys))

-----------------------------------------------------------------------------
\* Counters, samples, events and the locals of the cycle keep their types.
TypeOK ==
    /\ \A c \in Icmp : fails[c] \in 0 .. Debounce /\ streak[c] \in 0 .. Debounce
    /\ \A k \in Keys :
          /\ {shown[k], stored[k], obs[k]} \subseteq {"none", "ok", "fail"}
          /\ root[k].status \in {"none", "OPEN", "ACK", "RECOVERED", "CLOSED"}
          /\ root[k].number \in 0 .. MaxClosings + 1 /\ root[k].affected \subseteq CIs
    /\ \A ch \in children : ch.key \in Keys /\ ch.status \in {"OPEN", "RECOVERED"}
    /\ cands \subseteq Keys
    /\ pc \in {"idle", "polled", "pass2a", "insert", "publish", "pass2b", "recover", "rebuild", "pass3"}

\* A CI is taken for down only after Debounce pings in a row have failed, by
\* whatever metric they were due, and through inserts that fail and restarts.
DownIsDebounced == \A c \in Icmp : obs[Main(c)] = "fail" => streak[c] >= Debounce

\* What is counted has its type, and stands behind every CI taken for down.
CountsAreSound == TypeOK /\ DownIsDebounced

ShowsStored == \A k \in Keys : shown'[k] # shown[k] => shown'[k] = stored[k]

\* "Only publish latest values to Neo4j after Timescale persistence succeeds".
ShownIsStored == [][ShowsStored]_vars

Opened(k) == ~Active(k) /\ root'[k].status = "OPEN"

\* A failing CI gets no root event of its own while an upstream CI has one, nor
\* in the pass that writes one for the upstream CI, unless a query for parents
\* failed in this cycle.
OpensQuietly ==
    \A k \in Keys : Opened(k) /\ ~blind /\ k[2] = "main"
        => \A q \in Keys : q[1] \in Upstream(k[1]) /\ q[2] = "main" =>
              /\ ~Active(q)
              /\ pc \in {"pass2a", "pass2b"} => ~Opened(q)

\* "a parent that recovers in the same cycle cannot accept new dependent attachments".
AttachesToActive ==
    \A k \in Keys : root'[k].number = root[k].number /\ root'[k].affected # root[k].affected
        => Active(k)

\* When an event recovers, the degraded events that come from it recover with it.
ChildrenFollow ==
    \A ch \in children :
        LET r == root[ch.from[1]] IN
        ch.status = "OPEN" => ~(r.number = ch.from[2] /\ r.status = "RECOVERED")

\* Events follow the topology: dependents stay quiet, a recovered parent takes
\* nobody, and degraded children recover with their root.
FollowsTopology == []ChildrenFollow /\ [][OpensQuietly]_vars /\ [][AttachesToActive]_vars

Seen(c) ==
    \/ Active(Main(c))
    \/ \E q \in Keys : q[1] \in Upstream(c) /\ Active(q) /\ c \in root[q].affected

\* A CI that stays down ends up with an active event, or as one of the affected
\* CIs of an active event upstream.
DownIsSeen == \A c \in CIs : <>[](~up[c] => Seen(c))

\* A CI that answers again ends up without an active event of its main metric.
AnsweringIsRecovered == \A c \in CIs : <>[](up[c] => ~Active(Main(c)))
=============================================================================
