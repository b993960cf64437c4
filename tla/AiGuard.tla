------------------------------ MODULE AiGuard ------------------------------
(***************************************************************************)
(* What keeps an AI agent from repeating itself                             *)
(* (services/ai_guard_service.py) and the routes that ask it: events        *)
(* (routers/events.py), CI metadata (routers/nodes.py) and the chat         *)
(* (routers/ai.py).  Cooldowns live in the memory of the process, the log   *)
(* of operations in Postgres.  One agent; one tick is one minute.           *)
(***************************************************************************)
EXTENDS Integers, Sequences, FiniteSets, SequencesExt

CONSTANTS
    Targets,        \* events and CIs
    Critical,       \* the events of severity CRITICAL
    Ops,            \* operations in use: "diagnose", "ack", "close", "ci_metadata_update"
    Requests,       \* chats and closes of critical events that may be under way at once
    Cooldown,       \* COOLDOWNS, in ticks
    Hour, AckWindow, UpdateWindow,          \* one hour, ten and five minutes
    MaxCloses, MaxAcks, MaxUpdates,         \* 3, 20 and 5 in the code
    MaxEntities, BulkOps, BulkTargets,      \* 10, 50 and 30
    MaxTime, MaxLog, MaxRestarts, MaxFailures   \* bounds of the model

VARIABLES
    now, epoch,     \* time, and the number of restarts of the backend
    cool,           \* _cooldown_cache: when the cooldown of [operation, target] ends
    log,            \* ai_operation_log; "unlogged" marks what was done and not recorded
    ongoing,        \* [Requests -> the <<operation, target>> it was let in for and awaits]
    failures

vars == <<now, epoch, cool, log, ongoing, failures>>

Init ==
    /\ now = 0 /\ epoch = 0
    /\ cool = [k \in Ops \X Targets |-> 0]
    /\ log = <<>>
    /\ ongoing = [q \in Requests |-> {}]
    /\ failures = 0

-----------------------------------------------------------------------------
(* The guards                                                              *)

Entry(op, t, result) == [op |-> op, target |-> t, result |-> result, at |-> now, epoch |-> epoch]

\* Rows of the log with timestamp > cutoff, as indices.
Rows(cutoff, op, results) ==
    {i \in DOMAIN log : log[i].at > cutoff /\ log[i].op = op /\ log[i].result \in results}

AnyResult == {"success", "blocked", "escalated"}

\* cutoff_1h is now without its seconds: the rows of this minute only.
MinuteStart == now - 1

Cooling(op, t) == cool[<<op, t>>] > now

\* The count of closes is of this very target.
CloseWithoutDiagnostic(op, t) ==
    /\ op = "close"
    /\ Cardinality({i \in Rows(MinuteStart, "close", {"success"}) : log[i].target = t}) > MaxCloses
    /\ Rows(MinuteStart, "diagnose", AnyResult) = {}

AckFlood(op) ==
    /\ op = "ack"
    /\ Cardinality(Rows(now - AckWindow, "ack", {"success"})) > MaxAcks
    /\ Rows(now - AckWindow, "diagnose", AnyResult) = {}

Stampede(op) ==
    /\ op = "ci_metadata_update"
    /\ Cardinality(Rows(now - UpdateWindow, op, {"success"})) > MaxUpdates

\* check_bulk_detection: a flag, except for a request with too many targets.
Escalation(op) ==
    \/ Cardinality(Rows(MinuteStart, op, AnyResult)) >= BulkOps
    \/ Cardinality({log[i].target : i \in {j \in DOMAIN log : log[j].at > MinuteStart
                          /\ log[j].op \in {"diagnose", "ci_metadata_update"}}}) >= BulkTargets

Denied(op, t) == Cooling(op, t) \/ CloseWithoutDiagnostic(op, t) \/ AckFlood(op) \/ Stampede(op)

\* What is checked before an await and recorded after it: the diagnoses of a chat,
\* whose harness runs in a thread, and the close of a CRITICAL event, which
\* notifies a human in between.
Awaited == ({"diagnose"} \X Targets) \cup ({"close"} \X Critical)

-----------------------------------------------------------------------------
(* The routes                                                              *)

\* Faulty variant of SetCooldown: of the operation, on whatever target.
SetCooldownShort(op, T) ==
    [k \in DOMAIN cool |-> IF k[1] = op /\ k[2] \in T THEN now ELSE cool[k]]

SetCooldown(op, T) ==
    [k \in DOMAIN cool |-> IF k[1] = op /\ k[2] \in T THEN now + Cooldown[op] ELSE cool[k]]

\* Any other operation of a route: guard, operation, record_operation, without an
\* await in between.  The operation was made when its record fails; the cooldown
\* is set before the commit that may fail.
Operate(op, t) ==
    /\ op \in Ops /\ ~Denied(op, t) /\ (op = "close" => t \notin Critical)
    /\ Len(log) < MaxLog
    /\ \/ /\ log' = Append(log, Entry(op, t, "success"))
          /\ cool' = SetCooldown(op, {t}) /\ UNCHANGED failures
       \/ /\ failures < MaxFailures /\ failures' = failures + 1
          /\ log' = Append(log, Entry(op, t, "unlogged"))
          /\ cool' \in {cool, SetCooldown(op, {t})}
    /\ UNCHANGED <<now, epoch, ongoing>>

\* A request is let in, and waits.
Await(q, K) ==
    /\ ongoing[q] = {} /\ \A k \in K : k[1] \in Ops /\ ~Denied(k[1], k[2])
    /\ ongoing' = [ongoing EXCEPT ![q] = K]
    /\ UNCHANGED <<now, epoch, cool, log, failures>>

CloseGuard(q, t) == t \in Critical /\ Await(q, {<<"close", t>>})

\* notify_critical_event_escalation returns: the escalation is recorded and the
\* cooldown set before the close, which may be refused (the event is closed), and
\* whose own record may fail.
CloseCritical(q) ==
    /\ \E t \in Critical : ongoing[q] = {<<"close", t>>}
          /\ cool' = SetCooldown("close", {t})
          /\ \/ log' = Append(log, Entry("close", t, "escalated")) /\ UNCHANGED failures
             \/ /\ log' = log \o <<Entry("close", t, "escalated"), Entry("close", t, "success")>>
                /\ UNCHANGED failures
             \/ /\ failures < MaxFailures /\ failures' = failures + 1
                /\ log' = log \o <<Entry("close", t, "escalated"), Entry("close", t, "unlogged")>>
    /\ Len(log) + 2 <= MaxLog
    /\ ongoing' = [ongoing EXCEPT ![q] = {}]
    /\ UNCHANGED <<now, epoch>>

\* The guard of the chat refuses what is escalated, and records the refusal.
ChatDenied(q, T) ==
    /\ ongoing[q] = {} /\ "diagnose" \in Ops
    /\ \/ Cardinality(T) > MaxEntities \/ Escalation("diagnose")
       \/ \E t \in T : Denied("diagnose", t)
    /\ Len(log) < MaxLog
    /\ \E t \in T, r \in {"blocked", "escalated"} :
          /\ (r = "escalated") <=> (Escalation("diagnose") /\ ~\E u \in T : Cooling("diagnose", u))
          /\ log' = Append(log, Entry("diagnose", t, r))
    /\ UNCHANGED <<now, epoch, cool, ongoing, failures>>

ChatGuard(q, T) ==
    /\ Cardinality(T) <= MaxEntities /\ ~Escalation("diagnose")
    /\ Await(q, {"diagnose"} \X T)

\* The thread comes back: one record for each CI, whose failures are swallowed.
ChatDone(q) ==
    LET T == {t \in Targets : <<"diagnose", t>> \in ongoing[q]} IN
    /\ T # {} /\ ongoing' = [ongoing EXCEPT ![q] = {}]
    /\ Len(log) + Cardinality(T) <= MaxLog
    /\ log' = log \o [i \in 1 .. Cardinality(T) |-> Entry("diagnose", SetToSeq(T)[i], "success")]
    /\ cool' = SetCooldown("diagnose", T)
    /\ UNCHANGED <<now, epoch, failures>>

\* The harness or the first record of a close raises, and nothing is recorded.
RequestFails(q) ==
    /\ ongoing[q] # {}
    /\ ongoing' = [ongoing EXCEPT ![q] = {}]
    /\ UNCHANGED <<now, epoch, cool, log, failures>>

Restart ==
    /\ epoch < MaxRestarts /\ epoch' = epoch + 1
    /\ cool' = [k \in DOMAIN cool |-> 0]
    /\ ongoing' = [q \in Requests |-> {}]
    /\ UNCHANGED <<now, log, failures>>

Tick == now < MaxTime /\ now' = now + 1 /\ UNCHANGED <<epoch, cool, log, ongoing, failures>>

Next ==
    \/ \E op \in Ops, t \in Targets : Operate(op, t)
    \/ \E q \in Requests :
          \/ \E T \in SUBSET Targets \ {{}} : ChatDenied(q, T) \/ ChatGuard(q, T)
          \/ \E t \in Targets : CloseGuard(q, t)
          \/ ChatDone(q) \/ CloseCritical(q) \/ RequestFails(q)
    \/ Restart \/ Tick

Spec == Init /\ [][Next]_vars

-----------------------------------------------------------------------------
Made(i, op) == log[i].op = op /\ log[i].result \in {"success", "unlogged"}

\* The log, the cooldowns and the requests keep their types.
TypeOK ==
    /\ now \in 0 .. MaxTime /\ epoch \in 0 .. MaxRestarts /\ failures \in 0 .. MaxFailures
    /\ \A k \in Ops \X Targets : cool[k] \in 0 .. MaxTime + Cooldown[k[1]]
    /\ \A i \in DOMAIN log : log[i].op \in Ops /\ log[i].target \in Targets
    /\ \A q \in Requests : ongoing[q] \subseteq Awaited

\* An agent does not repeat an acknowledgement, a close or an update of a target
\* before its cooldown is over, unless the backend was restarted in between
\* (which forgets cooldowns) or a record failed; closes of critical events apart.
CooldownKept ==
    \A i, j \in DOMAIN log : \A op \in Ops \ {"diagnose"} :
        /\ i < j /\ Made(i, op) /\ log[i].result = "success" /\ Made(j, op)
        /\ log[i].target = log[j].target /\ log[i].epoch = log[j].epoch
        /\ <<op, log[i].target>> \notin Awaited
        => log[j].at >= log[i].at + Cooldown[op]

\* The rows of the log that count against the cooldown of what is awaited: a close
\* of a critical event has set it before its own record could fail.
Final(op) == IF op = "close" THEN {"success", "unlogged"} ELSE {"success"}

\* Requests that are checked before they wait and recorded afterwards: of those
\* that are under way together each may make its operation once in the cooldown,
\* and the diagnose route a diagnosis more, but no further one.
RepeatsBounded ==
    \A k \in Awaited, s \in 0 .. MaxTime, e \in 0 .. MaxRestarts :
        Cardinality({i \in DOMAIN log : log[i].result \in Final(k[1]) /\ log[i].op = k[1]
             /\ log[i].target = k[2] /\ log[i].epoch = e
             /\ log[i].at \in s .. s + Cooldown[k[1]] - 1})
          <= Cardinality(Requests) + (IF k[1] = "diagnose" THEN 1 ELSE 0)

\* No more than MaxUpdates + 1 updates of CIs in any window, restarts included,
\* but for those whose record failed.
StampedeBounded ==
    \A s \in 0 .. MaxTime :
        Cardinality({i \in DOMAIN log : Made(i, "ci_metadata_update")
                        /\ log[i].at \in s .. s + UpdateWindow - 1}) <= MaxUpdates + 1 + failures

\* "Close without diagnostic: >3 closes/hour without any diagnostic" is blocked
\* (the reason the guard gives): within an hour an agent does not close more
\* than MaxCloses + 1 events without having run a diagnostic.
ClosesAreDiagnosed ==
    LET LastHour(op) == {i \in DOMAIN log : Made(i, op) /\ log[i].at > now - Hour} IN
    LastHour("diagnose") = {} => Cardinality(LastHour("close")) <= MaxCloses + 1
=============================================================================
