----------------------------- MODULE MqttStatus -----------------------------
(***************************************************************************)
(* What the API says of the MQTT subscriber: the row of                     *)
(* mqtt_runtime_status that the subscriber writes                           *)
(* (services/mqtt/subscriber.py, services/mqtt_runtime_status.py,           *)
(* repositories/mqtt_runtime_status_repo.py) and how the API reads it.      *)
(*                                                                          *)
(* Time is counted in ticks since an event: `age` since last_message_at,    *)
(* `silent` since the loop's last attempt at a heartbeat.                   *)
(***************************************************************************)
EXTENDS Integers

CONSTANTS
    Stale,          \* missed_heartbeat_seconds
    MaxDispatch,    \* longest dispatch of a message
    MaxBackoff,     \* _MAX_BACKOFF_S
    MaxWriteFailures, MaxCrashes

\* heartbeat_interval, without the clamp to 5 .. 60 seconds.
HeartbeatInterval == Stale \div 3

States == {"dead", "waiting", "dispatching", "backoff"}

VARIABLES
    loop,           \* where the subscriber loop is
    connected, reason, age,     \* columns of the row; running and connected are written together
    silent,         \* ticks since the loop last tried to write a heartbeat
    busy,           \* ticks spent in the current dispatch
    backoff, wait,  \* the next delay before a reconnection, what is left of this one
    gone,           \* ticks since the loop was last connected
    lost,           \* the last write of the row was refused
    writeFailures, crashes

vars == <<loop, connected, reason, age, silent, gone, busy, backoff, wait, lost, writeFailures, crashes>>

Init ==
    /\ loop = "dead" /\ connected = FALSE /\ reason = "none" /\ age = Stale + 1
    /\ silent = 0 /\ gone = Stale + 1 /\ busy = 0 /\ backoff = 1 /\ wait = 0
    /\ lost = FALSE /\ writeFailures = 0 /\ crashes = 0

\* update_status, called through _safe_status_update: a refused write is logged
\* and forgotten.
Refused ==
    /\ writeFailures < MaxWriteFailures /\ writeFailures' = writeFailures + 1
    /\ lost' = TRUE
    /\ UNCHANGED <<connected, reason, age>>

RecordHeartbeat ==
    /\ silent' = 0
    /\ \/ /\ connected' = TRUE /\ reason' = "none" /\ age' = 0 /\ lost' = FALSE
          /\ UNCHANGED writeFailures
       \/ Refused

\* record_disconnect leaves last_message_at alone.
RecordDisconnect(code) ==
    \/ /\ connected' = FALSE /\ reason' = code /\ lost' = FALSE
       /\ UNCHANGED <<age, writeFailures>>
    \/ Refused

-----------------------------------------------------------------------------
\* The process starts; mark_configured writes no column of this model.
Start ==
    /\ loop = "dead"
    /\ loop' = "backoff" /\ backoff' = 1 /\ wait' = 0 /\ silent' = 0 /\ busy' = 0
    /\ UNCHANGED <<connected, reason, age, gone, lost, writeFailures, crashes>>

Connect ==
    /\ loop = "backoff" /\ wait = 0
    /\ loop' = "waiting" /\ backoff' = 1 /\ gone' = 0
    /\ RecordHeartbeat
    /\ UNCHANGED <<busy, wait, crashes>>

HeartbeatTimeout ==
    /\ loop = "waiting" /\ silent >= HeartbeatInterval
    /\ RecordHeartbeat
    /\ UNCHANGED <<loop, gone, busy, backoff, wait, crashes>>

TakeMessage ==
    /\ loop = "waiting"
    /\ loop' = "dispatching" /\ busy' = 0
    /\ UNCHANGED <<connected, reason, age, silent, gone, backoff, wait, lost, writeFailures, crashes>>

EndDispatch ==
    /\ loop = "dispatching"
    /\ loop' = "waiting" /\ busy' = 0
    /\ RecordHeartbeat
    /\ UNCHANGED <<gone, backoff, wait, crashes>>

\* The connection fails, or the attempt to connect: record_disconnect, sleep,
\* and a doubled delay for the next time.
LoseConnection ==
    /\ \/ loop \in {"waiting", "dispatching"}
       \/ loop = "backoff" /\ wait = 0
    /\ loop' = "backoff" /\ busy' = 0 /\ wait' = backoff
    /\ backoff' = IF backoff * 2 < MaxBackoff THEN backoff * 2 ELSE MaxBackoff
    /\ RecordDisconnect("MQTT_SUBSCRIBER_CONNECTION_ERROR")
    /\ UNCHANGED <<silent, gone, crashes>>

Shutdown ==
    /\ loop # "dead" /\ crashes < MaxCrashes
    /\ loop' = "dead" /\ crashes' = crashes + 1
    /\ RecordDisconnect("SHUTDOWN")
    /\ UNCHANGED <<silent, gone, busy, backoff, wait>>

\* Death without a word.
Crash ==
    /\ loop # "dead" /\ crashes < MaxCrashes
    /\ loop' = "dead" /\ crashes' = crashes + 1
    /\ UNCHANGED <<connected, reason, age, silent, gone, busy, backoff, wait, lost, writeFailures>>

\* The loop is back at its wait as soon as the interval or a dispatch ends.
Tick ==
    /\ loop = "waiting" => silent < HeartbeatInterval
    /\ loop = "dispatching" => busy < MaxDispatch
    /\ loop = "backoff" => wait > 0
    /\ age' = IF age > Stale THEN age ELSE age + 1
    /\ gone' = IF loop \in {"waiting", "dispatching"} THEN 0
               ELSE IF gone > Stale THEN gone ELSE gone + 1
    /\ silent' = IF loop \in {"waiting", "dispatching"} THEN silent + 1 ELSE silent
    /\ busy' = IF loop = "dispatching" THEN busy + 1 ELSE busy
    /\ wait' = IF wait > 0 THEN wait - 1 ELSE 0
    /\ UNCHANGED <<loop, connected, reason, backoff, lost, writeFailures, crashes>>

Next ==
    \/ Start \/ Connect \/ HeartbeatTimeout \/ TakeMessage \/ EndDispatch
    \/ LoseConnection \/ Shutdown \/ Crash \/ Tick

Spec == Init /\ [][Next]_vars

-----------------------------------------------------------------------------

\* get_status: a stale row is reported as not connected.
Reported == connected /\ age <= Stale

\* The columns and the loop's variables keep their types.
TypeOK ==
    /\ loop \in States /\ connected \in BOOLEAN /\ lost \in BOOLEAN
    /\ reason \in {"none", "SHUTDOWN", "MQTT_SUBSCRIBER_CONNECTION_ERROR"}
    /\ age \in 0 .. Stale + 1 /\ gone \in 0 .. Stale + 1
    /\ silent \in 0 .. HeartbeatInterval + MaxDispatch /\ busy \in 0 .. MaxDispatch
    /\ backoff \in 1 .. MaxBackoff /\ wait \in 0 .. MaxBackoff

\* A subscriber that is connected is reported so, however many messages it
\* dispatches between two heartbeats and however often it had lost the
\* connection before, as long as its last write was accepted.
LiveIsReported == loop \in {"waiting", "dispatching"} /\ ~lost => Reported

\* The API does not go on reporting a subscriber that lost its connection or
\* died, even if its farewell was refused or never sent.
ReportIsRecent == Reported => gone <= Stale
=============================================================================
