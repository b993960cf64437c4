-------------------------------- MODULE CliPoll --------------------------------
(***************************************************************************)
(* The CLI engine (engines/cli_worker.py): a process that runs a cycle ten  *)
(* seconds after the last one ended, asks each metric that is due of its    *)
(* CI, and stores all the samples at the end of the cycle.                  *)
(*                                                                         *)
(* A unit of time is the pause between two cycles; a day has few of them.   *)
(* A device is reached by SSH, by Telnet or not at all; what a metric gets   *)
(* of it is a value, an output without one, or no output.  Each wait for a   *)
(* device ends in cli_timeout, which is three units as a rule, and one that  *)
(* does not answer is waited for twice: a metric takes some units, up to     *)
(* MaxTakes.  A device that never stops sending is left out.                 *)
(***************************************************************************)
EXTENDS Integers, FiniteSets

CONSTANTS
  Metrics,       \* the metrics whose protocol is CLI
  Pairs,         \* HAS_METRIC: <<CI, metric>>, of the CIs with an address
  Interval,      \* metric -> polling_interval
  Ref,           \* metric -> cli_credential_ref
  Escalates,     \* the metrics with an escalation script
  Env,           \* <<reference, "USER" or "PASS">>: the variables of the environment
  Day,           \* units in a day
  MaxTakes,      \* units that a metric takes at most
  Threshold,     \* misses in a row before an alert
  MaxTime, MaxFaults     \* bounds: the clock, failures and restarts

Never == -1
Reaches == {"ssh", "telnet", "neither"}

VARIABLES
  now,
  pc,          \* "pause", "due", "polling" or "down"
  due,         \* the pairs that the cycle has still to ask
  batch,       \* metrics_to_save: pair -> time
  last,        \* r.last_polled
  stored,      \* the time of a pair's newest row in metric_values
  tracker,     \* _nan_tracker
  tried,       \* history: when a pair was last asked, the engine started or a
               \* cycle failed, which may pass over all its pairs
  misses,      \* history: misses in a row of a metric, and of those when alerted
  unbacked,    \* history: the pairs whose samples a failed cycle took with it
  faults

vars == <<now, pc, due, batch, last, stored, tracker, tried, misses, unbacked, faults>>

Init ==
  /\ now = 0 /\ pc = "pause" /\ due = {} /\ batch = <<>>
  /\ last = [p \in Pairs |-> Never] /\ stored = [p \in Pairs |-> Never]
  /\ tracker = [m \in Metrics |-> 0]
  /\ tried = [p \in Pairs |-> 0]
  /\ misses = [m \in Metrics |-> [run |-> 0, alerted |-> {}]]
  /\ unbacked = {} /\ faults = 0

-----------------------------------------------------------------------------
\* Faulty variant of Seconds: what was never polled counts as polled just now.
SecondsPolled(p) == (IF last[p] = Never THEN 0 ELSE now - last[p]) % Day

(* The seconds of a duration leave its days out; 1970 began at midnight.    *)
Seconds(p) == (IF last[p] = Never THEN now ELSE now - last[p]) % Day
IsDue(p) == Seconds(p) >= Interval[p[2]]

Tick ==
  /\ pc \in {"pause", "down"} /\ now < MaxTime
  /\ now' = now + 1
  /\ pc' = IF pc = "pause" THEN "due" ELSE pc
  /\ UNCHANGED <<due, batch, last, stored, tracker, tried, misses, unbacked, faults>>

(* poll_cli: the query.                                                     *)
StartCycle ==
  /\ pc = "due"
  /\ due' = {p \in Pairs : IsDue(p)}
  /\ pc' = "polling"
  /\ UNCHANGED <<now, batch, last, stored, tracker, tried, misses, unbacked, faults>>

(* resolve_credential: the name and the password may be of two references.  *)
Credentials(m) ==
  \A kind \in {"USER", "PASS"} : \E ref \in {Ref[m], "CLI_TEST", "CLI_DEFAULT"} : <<ref, kind>> \in Env

(* apply_escalation talks to the SSH client as if it were a channel.        *)
EscalationSucceeds(m) == m \notin Escalates

(* fetch_cli_value and extract_regex_value.  Telnet is tried when SSH does  *)
(* not connect; an answer may time out on the way or be empty.              *)
Fetched(m, reach) ==
  IF ~Credentials(m) \/ reach = "neither" \/ (reach = "ssh" /\ ~EscalationSucceeds(m))
  THEN {"none"} ELSE {"output", "none"}
Extracted(output) == IF output = "none" THEN {"none"} ELSE {"value", "unparsed"}
Answers(m, reach) == UNION {Extracted(o) : o \in Fetched(m, reach)}

(* check_nan_threshold: counted for the metric, whichever CI was asked.  A  *)
(* failure to write the event is caught.                                    *)
Count(m, missed) == IF missed THEN tracker[m] + 1 ELSE 0
Ask(p, answer, takes) ==
  LET m == p[2]
      missed == answer # "value"
      count == Count(m, missed)
      run == IF missed THEN misses[m].run + 1 ELSE 0
  IN /\ pc = "polling" /\ p \in due /\ due' = due \ {p}
     /\ now + takes <= MaxTime /\ now' = now + takes
     /\ tried' = [tried EXCEPT ![p] = now']
     /\ batch' = [q \in DOMAIN batch \cup {p} |-> IF q = p THEN now' ELSE batch[q]]
     /\ tracker' = [tracker EXCEPT ![m] = count]
     /\ misses' = [misses EXCEPT ![m] =
          [run |-> run,
           alerted |-> IF missed /\ count >= Threshold THEN @.alerted \cup {run} ELSE @.alerted]]
     /\ last' = IF answer = "none" THEN last ELSE [last EXCEPT ![p] = now']
     /\ UNCHANGED <<pc, stored, unbacked, faults>>

(* bulk_insert_metrics: one transaction.                                    *)
EndCycle ==
  /\ pc = "polling" /\ due = {}
  /\ stored' = [p \in Pairs |-> IF p \in DOMAIN batch THEN batch[p] ELSE stored[p]]
  /\ unbacked' = unbacked \ DOMAIN batch
  /\ batch' = <<>> /\ pc' = "pause"
  /\ UNCHANGED <<now, due, last, tracker, tried, misses, faults>>

(* A statement of the cycle raises: job catches, and what was measured goes.*)
CycleFails ==
  /\ pc \in {"due", "polling"} /\ faults < MaxFaults /\ faults' = faults + 1
  /\ unbacked' = unbacked \cup DOMAIN batch
  /\ batch' = <<>> /\ due' = {} /\ pc' = "pause"
  /\ tried' = [p \in Pairs |-> now]
  /\ UNCHANGED <<now, last, stored, tracker, misses>>

Dies ==
  /\ pc # "down" /\ faults < MaxFaults /\ faults' = faults + 1
  /\ unbacked' = unbacked \cup DOMAIN batch
  /\ batch' = <<>> /\ due' = {} /\ pc' = "down"
  /\ UNCHANGED <<now, last, stored, tracker, tried, misses>>

StartEngine ==
  /\ pc = "down" /\ pc' = "pause"
  /\ tracker' = [m \in Metrics |-> 0]
  /\ tried' = [p \in Pairs |-> now]
  /\ misses' = [m \in Metrics |-> [run |-> 0, alerted |-> {}]]
  /\ UNCHANGED <<now, due, batch, last, stored, unbacked, faults>>

Next ==
  \/ Tick \/ StartCycle \/ EndCycle \/ CycleFails \/ Dies \/ StartEngine
  \/ \E p \in due, reach \in Reaches, takes \in 0..MaxTakes :
       \E answer \in Answers(p[2], reach) : Ask(p, answer, takes)

Spec == Init /\ [][Next]_vars

-----------------------------------------------------------------------------
TypeOK ==
  /\ now \in 0..MaxTime /\ pc \in {"pause", "due", "polling", "down"} /\ due \subseteq Pairs
  /\ DOMAIN batch \subseteq Pairs /\ faults \in 0..MaxFaults
  /\ \A p \in Pairs : {last[p], stored[p], tried[p]} \subseteq 0..now \cup {Never}
  /\ \A m \in Metrics : tracker[m] \in Nat

(* A metric whose interval and the time of all the others fit into a day is  *)
(* asked again in its interval and three times the time of the others, also  *)
(* when its device has not answered for days, as long as the engine runs and *)
(* no cycle fails: the others are asked when the last cycle was too early    *)
(* for it, in the cycle before and in the one in which its turn comes.       *)
AskedInTime ==
  LET others == MaxTakes * (Cardinality(Pairs) - 1) IN
  \A p \in Pairs : pc # "down" /\ Interval[p[2]] + others < Day =>
    now - tried[p] <= Interval[p[2]] + 3 * others + 1

(* An alert says that the metric missed as often in a row as it says.       *)
AlertsAreEarned ==
  \A m \in Metrics :
    /\ \A n \in misses[m].alerted : n >= Threshold
    /\ misses[m].run >= Threshold => misses[m].run \in misses[m].alerted

(* Between cycles, a stamp of a poll has a sample in metric_values that is  *)
(* not older, unless the cycle that wrote the stamp failed.                 *)
StampsAreBacked ==
  pc = "pause" => \A p \in Pairs \ unbacked : stored[p] >= last[p]

CliHolds == TypeOK /\ AskedInTime /\ AlertsAreEarned /\ StampsAreBacked
=============================================================================
