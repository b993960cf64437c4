------------------------------ MODULE MCServices ------------------------------
(***************************************************************************)
(* Services on small instances. A behaviour runs one service, or one corner *)
(* of it; part says which:                                                  *)
(*   race    Sessions, two workers that exchange up to four tokens at once  *)
(*   idle    Sessions, one worker that may die, while time passes           *)
(*   login   LoginLimit, two workers                                        *)
(*   cmdb    CmdbProposal, two proposals that share a CI                    *)
(*   ai      AiGuard, diagnoses and metadata updates of one target          *)
(*   ops     AiGuard, closes of two targets, one of them critical           *)
(*   bridge  MqttBridge, two mappings of one source                         *)
(*   times   MqttBridge, one mapping, a message that has a time and one     *)
(*           that gets it when it is parsed                                 *)
(*   status  MqttStatus                                                     *)
(***************************************************************************)
EXTENDS Services

MCManifest == [p1 |-> {"a"}, p2 |-> {"a", "b"}]
MCCooldown == [diagnose |-> 3, ack |-> 2, close |-> 3, ci_metadata_update |-> 1]
MCStampsOf == [m1 |-> {"noon"}, m2 |-> {"noon", "later"}, m3 |-> {"noon"}]
MCSourceOf == [p \in {"a", "b"} |-> 1]

VARIABLE part
MCVars == <<part, vars>>

MCInit == part \in {"race", "idle", "login", "cmdb", "ai", "ops", "bridge", "times", "status"} /\ Init

\* Race: little time passes and nobody dies. Idle: the second worker rests.
Race == sNow' <= 2 /\ deaths' = 0
Alone == sReq'["w2"] = sReq["w2"] /\ Len(token') <= 3

\* Ai: diagnoses and updates of one target. Ops: closes of both targets beside
\* acknowledgements of one, and no restart.
OneTarget ==
  /\ \A i \in DOMAIN log' : log'[i].target = "t1" /\ log'[i].op \in {"diagnose", "ci_metadata_update"}
  /\ \A q \in Requests : ongoing'[q] \subseteq {<<"diagnose", "t1">>}
Closes ==
  /\ \A i \in DOMAIN log' : log'[i].op = "close" \/ <<log'[i].op, log'[i].target>> = <<"ack", "t1">>
  /\ \A q \in Requests : ongoing'[q] \subseteq {<<"close", "t2">>}
  /\ epoch' = 0

\* Bridge: every message has its time. Times: the second mapping is not used.
Stamped == \A s \in Subscribers : at'[s].msg # "m2"
OneMap == mapStatus'["b"] = "none" /\ \A s \in Subscribers : at'[s].msg # "m3"

RaceNext == part = "race" /\ SessNext /\ Race
IdleNext == part = "idle" /\ SessNext /\ Alone
AiNext == part = "ai" /\ GuardNext /\ OneTarget
OpsNext == part = "ops" /\ GuardNext /\ Closes

MCNext ==
  /\ \/ RaceNext \/ IdleNext \/ AiNext \/ OpsNext
     \/ part = "login" /\ LoginNext
     \/ part = "cmdb" /\ CmdbNext
     \/ part = "bridge" /\ BridgeNext /\ Stamped
     \/ part = "times" /\ BridgeNext /\ OneMap
     \/ part = "status" /\ StatusNext
  /\ UNCHANGED part

MCSpec == MCInit /\ [][MCNext]_MCVars
=============================================================================
