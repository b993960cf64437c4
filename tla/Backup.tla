-------------------------------- MODULE Backup --------------------------------
(***************************************************************************)
(* PostgreSQL backups (services/backup_service.py, routers/backup.py, and   *)
(* schedule_daily_backup in main.py): the daily job and an operator's       *)
(* request run pg_dump, write the history, raise an event and clean up, in  *)
(* this order and with nothing between them that excludes the other.        *)
(*                                                                          *)
(* The handlers do not await: while a manual backup runs the event loop     *)
(* serves nobody and starts no job, but a job started before goes on in its *)
(* thread.  One tick is the resolution of file names; the retention is      *)
(* counted in ticks too.                                                    *)
(***************************************************************************)
EXTENDS Naturals, FiniteSets, FiniteSetsExt

CONSTANTS
    Retentions,     \* values of retention_days in use
    Times,          \* values of scheduled_time in use
    SameSecond,     \* whether two dumps may start in the same second
    MaxTime, MaxFaults, MaxChanges     \* MaxFaults: failing steps and crashes together

Runs == {"scheduled", "manual"}
None == "none"
\* scheduled_time is stored as it comes: "25:00" is a number CronTrigger
\* refuses, "soon" is none at all.
Unfit == {"25:00", "soon"}

VARIABLES
    up, now,
    config,         \* backup_config: enabled, time, retention
    job,            \* the time daily_backup is scheduled for, or None
    dump,           \* [name of a file -> whether it is whole, and its mtime]
    history,        \* rows of backup_history: status and name
    run,            \* [Runs -> control point, file, the retention read at the start]
    faults, changes

vars == <<up, now, config, job, dump, history, run, faults, changes>>

Idle == [pc |-> "idle", name |-> 0, retention |-> 0]

Init ==
    /\ up = TRUE /\ now = 1
    /\ config \in [enabled : {TRUE}, time : Times \ Unfit, retention : Retentions]
    /\ job = config.time
    /\ dump = <<>> /\ history = {} /\ run = [r \in Runs |-> Idle]
    /\ faults = 0 /\ changes = 0

LoopIsFree == up /\ run["manual"].pc = "idle"
Goto(r, pc) == run' = [run EXCEPT ![r].pc = pc]
Fault == faults < MaxFaults /\ faults' = faults + 1

-----------------------------------------------------------------------------
(* Schedule                                                                *)

\* schedule_daily_backup: the time is parsed first, the old job removed, the
\* new one added; "failed" when the time raises.
Scheduled(c, old) ==
    IF c.time = "soon" THEN old ELSE IF c.enabled /\ c.time \notin Unfit THEN c.time ELSE None
ScheduleRaises(c) == c.time = "soon" \/ (c.enabled /\ c.time = "25:00")

\* PUT /backup/config: saved, audited, rescheduled.  A time that does not fit
\* is answered with a 500, and stays in the table.
UpdateConfig(c) ==
    /\ LoopIsFree /\ c # config /\ changes < MaxChanges
    /\ changes' = changes + 1 /\ config' = c
    /\ job' = Scheduled(c, job)
    /\ UNCHANGED <<up, now, dump, history, run, faults>>

Crash ==
    /\ up /\ Fault
    /\ up' = FALSE /\ job' = None /\ run' = [r \in Runs |-> Idle]
    /\ UNCHANGED <<now, config, dump, history, changes>>

\* startup_event: an exception of schedule_daily_backup ends the start.
Restart ==
    /\ ~up /\ ~ScheduleRaises(config)
    /\ up' = TRUE /\ job' = Scheduled(config, None)
    /\ UNCHANGED <<now, config, dump, history, run, faults, changes>>

-----------------------------------------------------------------------------
(* One run                                                                 *)

\* trigger_scheduled_backup, trigger_manual_backup: configuration and pg_dump's
\* output file.
Start(r) ==
    /\ LoopIsFree /\ run[r].pc = "idle" /\ (r = "scheduled" => job # None)
    /\ SameSecond \/ now \notin DOMAIN dump
    /\ run' = [run EXCEPT ![r] = [pc |-> "dump", name |-> now, retention |-> config.retention]]
    /\ dump' = [n \in DOMAIN dump \union {now} |->
                  IF n = now THEN [whole |-> FALSE, at |-> now] ELSE dump[n]]
    /\ UNCHANGED <<up, now, config, job, history, faults, changes>>

DumpEnds(r) ==
    /\ run[r].pc = "dump" /\ Goto(r, "record")
    /\ dump' = [n \in DOMAIN dump |->
                  IF n = run[r].name THEN [whole |-> TRUE, at |-> now] ELSE dump[n]]
    /\ UNCHANGED <<up, now, config, job, history, faults, changes>>

\* _record_backup_history, then _emit_backup_event.
Record(r) ==
    /\ run[r].pc = "record" /\ Goto(r, "emit")
    /\ history' = history \union {[status |-> "SUCCESS", name |-> run[r].name]}
    /\ UNCHANGED <<up, now, config, job, dump, faults, changes>>
Emit(r) ==
    /\ run[r].pc = "emit" /\ Goto(r, "clean")
    /\ UNCHANGED <<up, now, config, job, dump, history, faults, changes>>

\* Whatever raises leads to the except clause.
StepFails(r) ==
    /\ run[r].pc \in {"dump", "record", "emit"} /\ Fault /\ Goto(r, "failed")
    /\ UNCHANGED <<up, now, config, job, dump, history, changes>>

\* The time a file was last written: pg_dump writes until it ends.
Written(n) == IF \E r \in Runs : run[r].pc = "dump" /\ run[r].name = n THEN now ELSE dump[n].at

\* With a retention of 0 the dump just made is older than the cut-off.
Expired(n, retention) == Written(n) + retention < now \/ retention = 0
Cleaned(retention) == [n \in {m \in DOMAIN dump : ~Expired(m, retention)} |-> dump[n]]

\* _cleanup_old_backups.
Clean(r) ==
    /\ run[r].pc = "clean" /\ run' = [run EXCEPT ![r] = Idle]
    /\ dump' = Cleaned(run[r].retention)
    /\ UNCHANGED <<up, now, config, job, history, faults, changes>>

\* The row names no file.
FailRow == history' = history \union {[status |-> "FAILURE", name |-> 0]}

\* Faulty variant of Fail: failed runs clean up, too.
FailCleaning(r) ==
    /\ run[r].pc = "failed" /\ run' = [run EXCEPT ![r] = Idle]
    /\ FailRow /\ dump' = Cleaned(run[r].retention)
    /\ UNCHANGED <<up, now, config, job, faults, changes>>

\* The except clause: a row FAILURE, also beside a row SUCCESS of the same run,
\* and an event.  What raises here ends the run.
Fail(r) ==
    /\ run[r].pc = "failed" /\ run' = [run EXCEPT ![r] = Idle]
    /\ FailRow \/ UNCHANGED history
    /\ UNCHANGED <<up, now, config, job, dump, faults, changes>>

\* What follows a dump takes less than a tick, and so less than a retention.
Tick ==
    /\ now < MaxTime /\ now' = now + 1
    /\ \A r \in Runs : run[r].pc \in {"record", "emit", "clean"} /\ run[r].name \in DOMAIN dump
                         => dump[run[r].name].at = now
    /\ UNCHANGED <<up, config, job, dump, history, run, faults, changes>>

RunStep(r) ==
    Start(r) \/ DumpEnds(r) \/ Record(r) \/ Emit(r) \/ StepFails(r) \/ Clean(r) \/ Fail(r)

Next ==
    \/ \E r \in Runs : RunStep(r)
    \/ \E c \in [enabled : BOOLEAN, time : Times, retention : Retentions] : UpdateConfig(c)
    \/ Crash \/ Restart \/ Tick

Spec == Init /\ [][Next]_vars

-----------------------------------------------------------------------------
TypeOK ==
    /\ up \in BOOLEAN /\ now \in 1 .. MaxTime
    /\ config \in [enabled : BOOLEAN, time : Times, retention : Retentions]
    /\ job \in (Times \ Unfit) \union {None}
    /\ DOMAIN dump \subseteq 1 .. MaxTime
    /\ \A n \in DOMAIN dump : dump[n] \in [whole : BOOLEAN, at : 1 .. MaxTime]
    /\ history \subseteq [status : {"SUCCESS", "FAILURE"}, name : 0 .. MaxTime]
    /\ run \in [Runs -> [pc : {"idle", "dump", "record", "emit", "clean", "failed"},
                         name : 0 .. MaxTime, retention : Retentions \union {0}]]
    /\ faults \in 0 .. MaxFaults /\ changes \in 0 .. MaxChanges

Successes == {h.name : h \in {g \in history : g.status = "SUCCESS"}}
Restorable(n) == n \in DOMAIN dump /\ dump[n].whole

(* However long backups fail, and whatever is cleaned up, reconfigured or   *)
(* restarted meanwhile: once one has succeeded there is a whole dump on     *)
(* disk.                                                                    *)
SomeDumpRemains == Successes # {} => \E n \in DOMAIN dump : dump[n].whole

(* What the history calls a success can be restored for the shortest        *)
(* retention that was ever configured, whoever else dumps and cleans up.    *)
SuccessIsRestorable ==
    \A n \in Successes : n + Min(Retentions) >= now => Restorable(n)
===============================================================================
