----------------------------- MODULE Availability -----------------------------
(***************************************************************************)
(* The availability report (get_availability_report in event_service.py)    *)
(* against the outages it is about: a CI that its collector sees fail and   *)
(* answer, the availability events that collector and operators make of it, *)
(* and the report, which reads the events with two statements between which *)
(* they change.                                                             *)
(*                                                                         *)
(* The row of one CI is modelled, whose events have one metric; an outage   *)
(* lasts from the failed poll to the poll that is answered.  The sum of the *)
(* SNMP coverage beside the rows is left out.                               *)
(***************************************************************************)
EXTENDS Integers, FiniteSets, FiniteSetsExt

CONSTANTS
  Collector,     \* "batch", the result writer, or "engine": whose upsert is in use
  MaxTime, MaxEvents, MaxActs    \* bounds: the clock, events, acts of operators

Never == -1
Active == {"OPEN", "ACK"}
Idle == [pc |-> "idle"]

VARIABLES
  now,
  outages,     \* what the collector saw: from, and to or Never
  events,      \* the CI's availability events, in the order of their creation
  report,      \* the report that is made, and what it says when it is done
  closed,      \* events that an operator closed while they were active
  misacked,    \* events that an operator acknowledged when they were not active
  acts

vars == <<now, outages, events, report, closed, misacked, acts>>

Init ==
  /\ now = 0 /\ outages = {} /\ events = <<>> /\ report = Idle
  /\ closed = {} /\ misacked = {} /\ acts = 0

Ids == DOMAIN events
Down == \E o \in outages : o.to = Never

\* Something changed between the two statements of a report.
Disturb == report' = IF report.pc = "read" THEN [report EXCEPT !.disturbed = TRUE] ELSE report

-----------------------------------------------------------------------------
(* The collector.                                                          *)

\* The event a failure belongs to: the result writer looks for an active one,
\* the engine for a recovered one too.
Existing ==
  {e \in Ids : events[e].status \in (IF Collector = "engine" THEN Active \cup {"RECOVERED"} ELSE Active)}

Again(e) ==
  IF Collector = "engine" THEN [e EXCEPT !.status = "OPEN", !.recovered = Never, !.ack = FALSE]
  ELSE [e EXCEPT !.recovered = Never, !.ack = e.status = "ACK" /\ e.ack]

(* _upsert_availability_events, and the upsert of breaches in               *)
(* event_writer.py.                                                         *)
FailedPoll ==
  /\ outages' = IF Down THEN outages ELSE outages \cup {[from |-> now, to |-> Never]}
  /\ \/ \E e \in Existing : events' = [events EXCEPT ![e] = Again(events[e])]
     \/ /\ Existing = {} /\ Cardinality(Ids) < MaxEvents
        /\ events' = [e \in Ids \cup {Cardinality(Ids) + 1} |->
             IF e \in Ids THEN events[e]
             ELSE [status |-> "OPEN", created |-> now, recovered |-> Never, ack |-> FALSE]]
  /\ Disturb /\ UNCHANGED <<now, closed, misacked, acts>>

(* _recover_icmp_availability_events: every active event.                   *)
AnsweredPoll ==
  /\ outages' = {IF o.to = Never THEN [o EXCEPT !.to = now] ELSE o : o \in outages}
  /\ events' = [e \in Ids |->
       IF events[e].status \in Active
       THEN [events[e] EXCEPT !.status = "RECOVERED", !.recovered = now] ELSE events[e]]
  /\ Disturb /\ UNCHANGED <<now, closed, misacked, acts>>

-----------------------------------------------------------------------------
(* Operators and the pruner.                                               *)

Act == acts < MaxActs /\ acts' = acts + 1 /\ Disturb /\ UNCHANGED <<now, outages>>

(* ack_event does not look at the status.                                   *)
AckEvent(e) ==
  /\ Act
  /\ events' = [events EXCEPT ![e].status = "ACK", ![e].ack = TRUE]
  /\ misacked' = misacked \cup {x \in {e} : events[x].status \notin Active}
  /\ UNCHANGED closed

CloseEvent(e) ==
  /\ Act /\ events[e].status # "CLOSED"
  /\ events' = [events EXCEPT ![e].status = "CLOSED"]
  /\ closed' = closed \cup {x \in {e} : events[x].status \in Active}
  /\ UNCHANGED misacked

Prune ==
  /\ Act
  /\ events' = [e \in Ids |->
       IF events[e].status = "RECOVERED" /\ ~events[e].ack
       THEN [events[e] EXCEPT !.status = "CLOSED"] ELSE events[e]]
  /\ UNCHANGED <<closed, misacked>>

-----------------------------------------------------------------------------
(* The report.                                                             *)

\* The first statement, and the tests that its rows meet after it.  An event
\* that lost its recovered_at or is active again belongs to the second.
Recovered(end) ==
  {e \in Ids : /\ events[e].recovered # Never /\ events[e].status \notin Active
               /\ events[e].created <= end /\ events[e].recovered <= end}
\* The second statement.
ActiveAt(end) == {e \in Ids : events[e].status \in Active /\ events[e].created <= end}

(* _resolve_availability_window, then the first statement.                  *)
StartReport(start, end) ==
  /\ report = Idle
  /\ start <= end /\ end <= now
  /\ report' = [pc |-> "read", start |-> start, end |-> end, disturbed |-> FALSE,
                completed |-> [e \in Recovered(end) |-> [from |-> events[e].created, to |-> events[e].recovered]]]
  /\ UNCHANGED <<now, outages, events, closed, misacked, acts>>

(* Incidents that began before the window are kept for the intervals only.  *)
Repairs(c, start) == {e \in DOMAIN c : c[e].from >= start}
Downtime(c, start) == MapThenSumSet(LAMBDA e : c[e].to - c[e].from, Repairs(c, start))

\* Faulty variant of ActiveDowntime: all the time since the event was created.
ActiveDowntimeWhole(start, end) == MapThenSumSet(LAMBDA e : end - events[e].created, ActiveAt(end))

ActiveDowntime(start, end) ==
  MapThenSumSet(LAMBDA e : end - Max({events[e].created, start}), ActiveAt(end))

(* The operating time before an incident: since the latest recovery of the  *)
(* incidents before it, when it does not overlap with them.                 *)
Earlier(i, j) == i.from < j.from \/ (i.from = j.from /\ i.to < j.to)
Gaps(c, start) ==
  LET incidents == {c[e] : e \in DOMAIN c}
      before(i) == {j \in incidents : Earlier(j, i)}
      last(i) == Max({j.to : j \in before(i)})
  IN {[from |-> last(i), to |-> i.from] :
        i \in {k \in incidents : before(k) # {} /\ k.from >= last(k) /\ k.from >= start}}

FinishReport ==
  /\ report.pc = "read"
  /\ report' = [pc |-> "done", start |-> report.start, end |-> report.end,
                disturbed |-> report.disturbed,
                downtime |-> Downtime(report.completed, report.start)
                               + ActiveDowntime(report.start, report.end),
                repairs |-> {report.completed[e] : e \in Repairs(report.completed, report.start)},
                gaps |-> Gaps(report.completed, report.start)]
  /\ UNCHANGED <<now, outages, events, closed, misacked, acts>>

DropReport == report.pc = "done" /\ report' = Idle /\ UNCHANGED <<now, outages, events, closed, misacked, acts>>

Tick == now < MaxTime /\ now' = now + 1 /\ UNCHANGED <<outages, events, report, closed, misacked, acts>>

-----------------------------------------------------------------------------
Next ==
  \/ FailedPoll \/ AnsweredPoll \/ Prune \/ Tick
  \/ \E e \in Ids : AckEvent(e) \/ CloseEvent(e)
  \/ \E start, end \in 0..MaxTime : StartReport(start, end)
  \/ FinishReport \/ DropReport

Spec == Init /\ [][Next]_vars

-----------------------------------------------------------------------------
TypeOK ==
  /\ now \in 0..MaxTime /\ acts \in 0..MaxActs
  /\ outages \subseteq [from : 0..MaxTime, to : 0..MaxTime \cup {Never}]
  /\ \A e \in Ids : events[e] \in
       [status : Active \cup {"RECOVERED", "CLOSED"}, created : 0..MaxTime,
        recovered : 0..MaxTime \cup {Never}, ack : BOOLEAN]
  /\ closed \cup misacked \subseteq Ids /\ report.pc \in {"idle", "read", "done"}

(* How long the CI was down in a window, as its collector saw it.           *)
End(o, end) == IF o.to = Never THEN end ELSE Min({o.to, end})
TrueDowntime(start, end) ==
  MapThenSumSet(LAMBDA o : Max({0, End(o, end) - Max({o.from, start})}), outages)

Reported == report.pc = "done" /\ misacked = {}

(* As long as operators acknowledge active events only, and with the result *)
(* writer's upsert, a report of the past never says more downtime than      *)
(* there was, whatever is polled, closed or pruned between its statements   *)
(* (the engine opens a recovered event again and keeps its created_at).     *)
NeverOverstated == Reported /\ Collector = "batch" => report.downtime <= TrueDowntime(report.start, report.end)

(* It says exactly what there was when nothing changed between its two      *)
(* statements, nobody closed an active event, and no outage reaches over an *)
(* end of the window.                                                       *)
Within(o) ==
  /\ o.from >= report.start \/ (o.to # Never /\ o.to <= report.start)
  /\ o.to # Never => o.to <= report.end \/ o.from >= report.end
ExactWhenQuiet ==
  Reported /\ Collector = "batch" /\ ~report.disturbed /\ closed = {} /\ (\A o \in outages : Within(o)) =>
    report.downtime = TrueDowntime(report.start, report.end)

(* Every time to repair is an outage as it was, from the start of one to    *)
(* the end of a later one with the engine, and the CI was up all the time   *)
(* that is counted between failures.                                        *)
TimesAreTrue ==
  Reported /\ closed = {} =>
    /\ \A r \in report.repairs : \E o, p \in outages :
         r.from = o.from /\ r.to = p.to /\ (Collector = "batch" => o = p)
    /\ \A g \in report.gaps, o \in outages :
         o.from = o.to \/ (o.to # Never /\ o.to <= g.from) \/ o.from >= g.to

ReportInvariant == TypeOK /\ NeverOverstated /\ ExactWhenQuiet /\ TimesAreTrue
=============================================================================
