----------------------------- MODULE MCOperations -----------------------------
(***************************************************************************)
(* Operations on small instances: part says which module, or which corner   *)
(* of one, a behaviour is about:                                            *)
(*   backup        Backup, daily and manual dumps                           *)
(*   desk          TicketDesk, one worker, two services                     *)
(*   desks         TicketDesk, two workers on one ticket                    *)
(*   roles         Permissions, an old installation that is upgraded        *)
(*   links         PhysicalLink, operators and the bridge on one link       *)
(*   traffic       PhysicalLink, the counters of one CI                     *)
(*   metrics       MetricAssignment, two threads on two metrics             *)
(*   dictionaries  MetricAssignment, one metric and one dictionary          *)
(*   graph         CiGraph, requests of a user of one of two locations      *)
(*   graphs        CiGraph, two requests at once                            *)
(*   feed          PollFeed, two scripts over five files of records         *)
(*   cli           CliPoll, one metric of two CIs                           *)
(***************************************************************************)
EXTENDS Operations, TLC

VARIABLE part

MCVars == <<part, vars>>

-----------------------------------------------------------------------------
(* The parts and their bounds.                                             *)

Record(metric, protocol, kind, addr, field, version) ==
  [ci |-> "c1", metric |-> metric, protocol |-> protocol, kind |-> kind,
   addr |-> addr, field |-> field, version |-> version]
Latency == Record("icmp_latency_ms", "ICMP", "telemetry", "i1", "ip_address", "none")
Latency2 == Record("icmp_latency_ms", "ICMP", "none", "i2", "ip", "v1")
Ping == Record("PING-1", "ICMP", "none", "i1", "ip", "none")
BadPing == Record("PING-1", "ICMP", "none", "i1", "ip_address", "none")
Own == Record("reach", "ICMP", "availability", "i2", "ip", "none")
Snmp == Record("oid", "SNMP", "none", "i1", "ip", "v2")
MCFiles ==
  {{Latency}, {Ping, Latency, Latency2}, {Own, Latency2, Ping}, {Snmp, Latency}, {BadPing, Snmp}}

MCCliPairs == {<<"a", "m">>, <<"b", "m">>}
MCCliInterval == [m |-> 2]
MCCliRef == [m |-> "R"]
MCCliEnv == {<<"R", "USER">>, <<"CLI_DEFAULT", "PASS">>}

Selects(names, kinds) == [names |-> names, kinds |-> kinds]
MCCriteria == {Selects({}, {"k1"}), Selects({}, {"k2"}), Selects({"a"}, {"k2"})}
MCSeeded == <<"ADMIN", "VIEWER">>
MCSeeds == [ADMIN |-> {"USER_MANAGE", "ROLE_MANAGE", "x"}, VIEWER |-> {"x"}]
MCUpgrades == [ADMIN |-> {"x"}, VIEWER |-> {}]
MCLegacyRoles == [ADMIN |-> [perms |-> {"USER_MANAGE"}, system |-> "true"],
                  OLD |-> [perms |-> {"x"}, system |-> "none"]]
MCLegacyUsers == [old |-> [role |-> "OLD", perms |-> {}]]

MCEnds == [l |-> {"a", "b"}]
Filter(ids, layer, location) == [ids |-> ids, layer |-> layer, location |-> location]
MCFilters == {Filter({}, "none", "none"), Filter({}, "other", "y"), Filter({"a"}, "none", "none")}
MCAllowed == [u |-> {"x"}]

(* Metrics: no dictionary, no failure, and the criteria of one kind or of    *)
(* one CI; threads and metrics are alike, and t1 is asked about m alone.     *)
(* Dictionaries: one thread, one metric and one kind of CI.                  *)
MetricsOnly ==
  /\ aJob'["t1"].metric # "n"
  /\ dict' = dict /\ aFailures' = 0 /\ ops' <= 3
  /\ \A a \in Threads : aJob'[a].criteria # Selects({}, {"k2"})
DictionariesOnly ==
  /\ aJob'["t2"] = aJob["t2"] /\ ci'["a"] # "k2" /\ def'["n"] = Assigning!NoDef
  /\ \A a \in Threads : aJob'[a].metric # "n" /\ aJob'[a].criteria # Selects({"a"}, {"k2"})

(* Desk: one worker, who gives a reason to close a ticket and no null.       *)
(* Desks: two workers, one ticket and service, and every reason; nothing     *)
(* fails and nobody changes users or services.                              *)
DeskOnly ==
  /\ tReq'["w2"] = Desk!Idle
  /\ tReq'["w1"].op = "update" =>
       tReq'["w1"].move # "null" /\ (tReq'["w1"].why = "text" <=> tReq'["w1"].move = "closed")
DesksOnly ==
  /\ Len(tickets') <= 1 /\ tChanges' = 0 /\ tFailures' = 0
  /\ \A w \in Workers : tReq'[w].op # "idle" => tReq'[w].service # "s2"

(* Roles: what a request gives a user or a role is nothing, one permission   *)
(* or all.                                                                   *)
Bundles == {{}, {"x"}, {"USER_MANAGE"}, Perms}
RolesOnly ==
  /\ \A u \in DOMAIN granted' : granted'[u].perms \in Bundles
  /\ boot = "up" => \A n \in DOMAIN role' :
       role'[n].perms \in Bundles \/ (n \in DOMAIN role /\ role'[n] = role[n])

(* Cli: an answer takes no time, and to get none takes as much as it may;    *)
(* from a, as the devices are alike, there may also be none at once, or one  *)
(* that cannot be parsed.  The engine dies with something in hand.           *)
CliOnly ==
  /\ pc' = "down" => pc = "down" \/ batch # <<>>
  /\ pc = "polling" =>
       /\ cNow' = cNow \/ (cNow' = cNow + MaxTakes /\ last' = last)
       /\ due \ due' = {<<"b", "m">>} /\ tracker'["m"] # 0 => last' = last /\ cNow' # cNow

(* Links: the statuses and the samples of both ends, without traffic; the    *)
(* ends are alike, and b answers a sample only at times at which a does.     *)
(* Traffic: the counters of one CI, with more time for them.                 *)
LinksOnly ==
  /\ lNow' <= 2 /\ total' = [c \in Nodes |-> 0]
  /\ \A s \in samples'["b"] : \E r \in samples'["a"] : r.t = s.t
TrafficOnly == lChanges' = 0 /\ total'["b"] = 0 /\ samples'["b"] = {}

(* Graph: one request after the other, two locations and two relations.      *)
(* Graphs: two requests, one location and one relation, and filters that     *)
(* name a CI.                                                                *)
Asks(q) == q.at # "idle" /\ q.kind # "link"
GraphOnly ==
  /\ gReq'["q"] = Graph!Idle
  /\ Asks(gReq'["p"]) => {gReq'["p"].f, gReq'["p"].g} \cap {Filter({"a"}, "none", "none")} = {}
GraphsOnly ==
  /\ \A c \in DOMAIN gCi' : gCi'[c].loc = "x"
  /\ \A r \in Requests :
       LET q == gReq'[r] IN
       /\ q.at # "idle" /\ q.kind = "link" => q.e[2] = "R"
       /\ Asks(q) => "S" \notin {q.rel, q.new} /\ Filter({}, "other", "y") \notin {q.f, q.g}

-----------------------------------------------------------------------------
MCInit ==
  /\ part \in {"backup", "desk", "desks", "roles", "links", "traffic",
              "graph", "graphs", "metrics", "dictionaries", "feed", "cli"}
  /\ Init /\ (part # "backup" => config.retention = 1)
  /\ gCi["a"].layer = "hub" /\ (part \notin {"graph", "graphs"} => gCi["b"].layer = "hub")
  /\ part # "graph" => \A c \in Nodes : gCi[c].loc = "x"

Stay == UNCHANGED part

BackupPart == part = "backup" /\ DumpsNext /\ Stay
DeskPart == part = "desk" /\ DeskNext /\ DeskOnly /\ Stay
DesksPart == part = "desks" /\ DeskNext /\ DesksOnly /\ Stay
RolesPart == part = "roles" /\ GrantingNext /\ RolesOnly /\ Stay
MetricsPart == part = "metrics" /\ AssigningNext /\ MetricsOnly /\ Stay
DictionariesPart == part = "dictionaries" /\ AssigningNext /\ DictionariesOnly /\ Stay
LinksPart == part = "links" /\ CablesNext /\ LinksOnly /\ Stay
TrafficPart == part = "traffic" /\ CablesNext /\ TrafficOnly /\ Stay
GraphPart == part = "graph" /\ GraphNext /\ GraphOnly /\ Stay
GraphsPart == part = "graphs" /\ GraphNext /\ GraphsOnly /\ Stay
FeedPart == part = "feed" /\ FeedNext /\ Stay
CliPart == part = "cli" /\ AskingNext /\ CliOnly /\ Stay

MCNext ==
  \/ BackupPart \/ DeskPart \/ DesksPart \/ RolesPart
  \/ LinksPart \/ TrafficPart \/ GraphPart \/ GraphsPart
  \/ MetricsPart \/ DictionariesPart \/ FeedPart \/ CliPart

MCSpec == MCInit /\ [][MCNext]_MCVars
=============================================================================
