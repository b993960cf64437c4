----------------------------- MODULE PhysicalLink -----------------------------
(***************************************************************************)
(* Physical links between CIs: the service that creates them and sets their *)
(* status, the deletion of CIs under them, the counters that are polled at  *)
(* their ends, the bridge that derives last_polled_at and status from those *)
(* samples (polling/physical_link_bridge.py), and the utilization that the  *)
(* API computes from the same samples.                                      *)
(*                                                                         *)
(* run_once is modelled as its tests call it.  In and out octets go the     *)
(* same way and are one counter here; an id always names the same two ends. *)
(***************************************************************************)
EXTENDS Integers, FiniteSets, FiniteSetsExt

CONSTANTS
  CIs, Links,
  Ends,          \* the two CIs that a link id joins
  Fresh, Stale,  \* fresh_window_seconds, and stale_after_seconds of the bridge
  ReadStale,     \* stale_after_seconds of the utilization service
  Windows,       \* window_seconds of the utilization endpoint
  MaxTime, MaxBytes, MaxChanges   \* bounds: the clock, octets per CI, operators' writes

Statuses == {"UP", "DOWN", "UNKNOWN", "PLANNED"}
Never == -1
NoLink == [status |-> "none"]
NoRow == [id |-> "none"]
NoRequest == [link |-> "none"]
Idle == [at |-> Never, rows |-> {}, down |-> {}, row |-> NoRow, step |-> "collect", newest |-> <<>>]

VARIABLES
  now,
  cis,       \* the CIs in the graph
  link,      \* the PhysicalLink of an id: status, capacity set or not, last_polled_at
  request,   \* a create request between its checks and its statement
  pass,      \* the bridge's pass: its time, the rows still to do, the one in hand
  counter,   \* what the device's octet counter shows
  total,     \* the octets that really passed since the start
  samples,   \* the rows of metric_values for a CI, with the total at the time beside them
  changes    \* operators' writes so far

vars == <<now, cis, link, request, pass, counter, total, samples, changes>>

Exists(l) == link[l] # NoLink
Rows == [status : Statuses, capacity : BOOLEAN, polled : 0..MaxTime \cup {Never}]
Samples == [t : 0..MaxTime, v : 0..MaxBytes, total : 0..MaxBytes]

Init ==
  /\ now = 0 /\ cis = CIs /\ link = [l \in Links |-> NoLink] /\ request = NoRequest
  /\ pass = Idle /\ changes = 0
  /\ counter = [c \in CIs |-> 0] /\ total = [c \in CIs |-> 0] /\ samples = [c \in CIs |-> {}]

-----------------------------------------------------------------------------
(* What the samples of a window say.                                       *)

InWindow(c, from, to) == {s \in samples[c] : from <= s.t /\ s.t <= to}
Newest(S) == IF S = {} THEN Never ELSE Max({s.t : s \in S})

(* derive_status, on the newest sample of each end that was fetched.        *)
Derived(capacity, newest, at) ==
  LET silent == {c \in DOMAIN newest : newest[c] = Never}
      fresh  == {c \in DOMAIN newest \ silent : at - newest[c] <= Stale}
  IN IF ~capacity THEN "PLANNED"
     ELSE IF fresh # {} THEN "UP"
     ELSE IF silent = {} THEN "DOWN"
     ELSE "UNKNOWN"

(* The bridge fetches no sample older than stale_after_seconds.             *)
Fetched(l, at) == [c \in Ends[l] |-> Newest(InWindow(c, at - Stale, at))]

(* The octets that _rollup_endpoint reports: the last sample of the window  *)
(* minus the first, and 0 when that is negative.                            *)
At(S, t) == CHOOSE s \in S : s.t = t
First(S) == At(S, Min({s.t : s \in S}))
Last(S) == At(S, Max({s.t : s \in S}))
Delta(S) == IF S = {} THEN 0 ELSE Max({0, Last(S).v - First(S).v})

EmptyReason(l, w) ==
  LET seen == Max({Newest(InWindow(c, now - w, now)) : c \in Ends[l]})
  IN IF ~link[l].capacity THEN "no_capacity"
     ELSE IF seen = Never THEN "no_data"
     ELSE IF now - seen > ReadStale THEN "stale_samples"
     ELSE "none"

-----------------------------------------------------------------------------
(* Operators.                                                              *)

Change == changes < MaxChanges /\ changes' = changes + 1

CheckCreate(l, status, capacity) ==
  /\ request = NoRequest /\ Ends[l] \subseteq cis /\ Change
  /\ request' = [link |-> l, status |-> status, capacity |-> capacity]
  /\ UNCHANGED <<now, cis, link, pass, counter, total, samples>>

(* One statement matches both ends, creates the node and its edges; a taken *)
(* id violates the constraint, an end that is gone gives no row.            *)
WriteCreate ==
  /\ request # NoRequest /\ request' = NoRequest
  /\ link' = IF Ends[request.link] \subseteq cis /\ ~Exists(request.link)
               THEN [link EXCEPT ![request.link] =
                       [status |-> request.status, capacity |-> request.capacity, polled |-> Never]]
               ELSE link
  /\ UNCHANGED <<now, cis, pass, counter, total, samples, changes>>

SetStatus(l, status) ==
  /\ Exists(l) /\ Change /\ link' = [link EXCEPT ![l].status = status]
  /\ UNCHANGED <<now, cis, request, pass, counter, total, samples>>

(* Faulty variant of DeleteNode: the links of the CI are left.               *)
DeleteNodeOnly(c) ==
  /\ c \in cis /\ Change /\ cis' = cis \ {c}
  /\ UNCHANGED <<now, link, request, pass, counter, total, samples>>

DeleteNode(c) ==
  /\ c \in cis /\ Change /\ cis' = cis \ {c}
  /\ link' = [l \in Links |-> IF c \in Ends[l] THEN NoLink ELSE link[l]]
  /\ UNCHANGED <<now, request, pass, counter, total, samples>>

UpsertNode(c) ==
  /\ c \notin cis /\ Change /\ cis' = cis \cup {c}
  /\ UNCHANGED <<now, link, request, pass, counter, total, samples>>

(* Every deployment applies migration 010 again.                            *)
Redeploy ==
  /\ Change /\ pass = Idle /\ request = NoRequest
  /\ link' = [l \in Links |-> IF Exists(l) THEN [link[l] EXCEPT !.polled = Never] ELSE NoLink]
  /\ UNCHANGED <<now, cis, request, pass, counter, total, samples>>

-----------------------------------------------------------------------------
(* The bridge.                                                             *)

OnBridge == UNCHANGED <<now, cis, request, counter, total, samples, changes>>

(* Faulty variant of Active: outages are polled, too.                       *)
ActiveAny == {l \in Links : Exists(l)}
Active == {l \in Links : Exists(l) /\ link[l].status \in {"UP", "UNKNOWN", "PLANNED"}}

StartPass ==
  /\ pass = Idle /\ UNCHANGED link /\ OnBridge
  /\ pass' = [Idle EXCEPT
       !.at = now, !.down = {l \in Links : Exists(l) /\ link[l].status = "DOWN"},
       !.rows = {[id |-> l, status |-> link[l].status, capacity |-> link[l].capacity] : l \in Active}]

Collect(r) ==
  /\ pass.row = NoRow /\ r \in pass.rows /\ UNCHANGED link /\ OnBridge
  /\ pass' = [pass EXCEPT !.rows = @ \ {r}, !.row = r, !.newest = Fetched(r.id, pass.at)]

InHand(step) == pass.row # NoRow /\ pass.step = step
Written(field, value) ==
  IF Exists(pass.row.id) THEN [link EXCEPT ![pass.row.id][field] = value] ELSE link
NextRow == [pass EXCEPT !.row = NoRow, !.step = "collect", !.newest = <<>>]

Stamp ==
  /\ InHand("collect") /\ OnBridge /\ pass' = [pass EXCEPT !.step = "derive"]
  /\ link' = IF \E c \in DOMAIN pass.newest :
                   pass.newest[c] # Never /\ pass.newest[c] >= pass.at - Fresh
               THEN Written("polled", pass.at) ELSE link

Derive ==
  /\ InHand("derive") /\ OnBridge /\ pass' = NextRow
  /\ LET derived == Derived(pass.row.capacity, pass.newest, pass.at)
     IN link' = IF derived # pass.row.status THEN Written("status", derived) ELSE link

(* An exception is logged, and the next link's turn comes.                  *)
RowFails == pass.row # NoRow /\ pass' = NextRow /\ UNCHANGED link /\ OnBridge

EndPass == pass # Idle /\ pass.row = NoRow /\ pass.rows = {} /\ pass' = Idle /\ UNCHANGED link /\ OnBridge

-----------------------------------------------------------------------------
(* The devices, the sampler and the clock.                                 *)

OnDevice == UNCHANGED <<now, cis, link, request, pass, changes>>

Traffic(c) ==
  /\ total[c] < MaxBytes /\ total' = [total EXCEPT ![c] = @ + 1]
  /\ counter' = [counter EXCEPT ![c] = @ + 1] /\ UNCHANGED samples /\ OnDevice

(* A device that restarts, and a counter that wraps.                        *)
Reset(c) ==
  /\ counter[c] > 0 /\ counter' = [counter EXCEPT ![c] = 0] /\ UNCHANGED <<total, samples>> /\ OnDevice

Sample(c) ==
  /\ c \in cis /\ InWindow(c, now, now) = {} /\ UNCHANGED <<counter, total>> /\ OnDevice
  /\ samples' = [samples EXCEPT ![c] = @ \cup {[t |-> now, v |-> counter[c], total |-> total[c]]}]

Tick ==
  /\ now < MaxTime /\ now' = now + 1
  /\ UNCHANGED <<cis, link, request, pass, counter, total, samples, changes>>

Operator ==
  \/ \E l \in Links, s \in Statuses : SetStatus(l, s) \/ \E k \in BOOLEAN : CheckCreate(l, s, k)
  \/ WriteCreate \/ Redeploy
  \/ \E c \in CIs : DeleteNode(c) \/ UpsertNode(c)
Bridge == StartPass \/ (\E r \in pass.rows : Collect(r)) \/ Stamp \/ Derive \/ RowFails \/ EndPass

Next == Operator \/ Bridge \/ Tick \/ \E c \in CIs : Traffic(c) \/ Reset(c) \/ Sample(c)

Spec == Init /\ [][Next]_vars

-----------------------------------------------------------------------------
(* The variables keep their types.                                          *)
TypeOK ==
  /\ now \in 0..MaxTime /\ cis \subseteq CIs /\ changes \in 0..MaxChanges
  /\ \A l \in Links : Exists(l) => link[l] \in Rows
  /\ request # NoRequest =>
       request \in [link : Links, status : Statuses, capacity : BOOLEAN]
  /\ pass.at \in 0..MaxTime \cup {Never} /\ pass.down \subseteq Links
  /\ \A c \in CIs : samples[c] \subseteq Samples /\ counter[c] <= total[c]

(* A link joins two CIs of the graph, whoever deletes a CI while the link   *)
(* is created (physical_link_repo.py:116-120, topology_repo.py:308).        *)
LinksJoinCIs == \A l \in Links : Exists(l) => Ends[l] \subseteq cis

(* last_polled_at is backed by a sample of an end that was at most Fresh    *)
(* old at the time.                                                         *)
StampsAreBacked ==
  \A l \in Links : Exists(l) /\ link[l].polled # Never =>
    \E c \in Ends[l] : InWindow(c, link[l].polled - Fresh, link[l].polled) # {}

(* Whatever a device does to its counter, the octets reported for a window  *)
(* are at most those that passed.                                           *)
NeverOverstated ==
  \A c \in CIs, w \in Windows :
    LET S == InWindow(c, now - w, now)
    IN S # {} => Delta(S) <= Last(S).total - First(S).total

(* The status that the bridge would derive now and the answer of the        *)
(* utilization endpoint agree (the bridge's comment at 100-102): for a      *)
(* window as wide as the threshold or wider, UP and an answer are the same. *)
ReadersAgree ==
  ReadStale = Stale => \A l \in Links, w \in Windows : Exists(l) =>
    LET derived == Derived(link[l].capacity, Fetched(l, now), now)
    IN /\ EmptyReason(l, w) = "no_capacity" <=> derived = "PLANNED"
       /\ EmptyReason(l, w) = "none" => derived = "UP"
       /\ w >= Stale /\ derived = "UP" => EmptyReason(l, w) = "none"

LinksInvariant == TypeOK /\ LinksJoinCIs /\ StampsAreBacked /\ NeverOverstated /\ ReadersAgree

(* An outage that was declared when the pass began is left alone by it, and *)
(* the bridge itself never declares one.                                    *)
OutagesAreOperators ==
  pass # Idle /\ pass' # pass => \A l \in Links : Exists(l) /\ link'[l] # NoLink =>
    /\ l \in pass.down => link'[l].status = link[l].status
    /\ link'[l].status = "DOWN" => link[l].status = "DOWN"
=============================================================================
