------------------------------- MODULE Services -------------------------------
(***************************************************************************)
(* The services around polling, side by side. They share the database      *)
(* server and the worker processes but no row, no node and no memory, so   *)
(* a step of the whole is a step of one of them.                           *)
(***************************************************************************)
EXTENDS Naturals, Sequences, FiniteSets

CONSTANTS
  Workers,
  AllSessions, AccessTTL, RefreshTTL, IdleTTL, Grace, MaxRecoveries, Throttle,
  MaxTokens, SessionTime, MaxDeaths,                                \* Sessions
  MaxAttempts, Lockout, Retention, LoginTime,                       \* LoginLimit
  Proposals, Manifest, Page, Faulty, OddVersions,                   \* CmdbProposal
  Targets, Critical, Ops, Requests, Cooldown, Hour, AckWindow, UpdateWindow,
  MaxCloses, MaxAcks, MaxUpdates, MaxEntities, BulkOps, BulkTargets,
  AiTime, MaxLog, MaxRestarts, AiFailures,                          \* AiGuard
  Subscribers, Messages, Malformed, Stamps, StampsOf, MetricCount, Maps, SourceOf,
  Samplings, Operators, BridgeFailures, MaxChanges,                            \* MqttBridge
  Stale, MaxDispatch, MaxBackoff, MaxWriteFailures, MaxCrashes      \* MqttStatus

VARIABLES
  sNow, token, delivered, access, seen, sActive, cache, sReq, deaths,
  lNow, row, lPc, guesses,
  order, state, live, wrote, audit, cReq, sweep, missed,
  aNow, epoch, cool, log, ongoing, aFailures,
  mapStatus, target, request, changes, pending, at, raw, receipts, samples, events, acked, mFailures,
  loop, connected, reason, age, silent, gone, busy, backoff, wait, lost, writeFailures, crashes

sVars == <<sNow, token, delivered, access, seen, sActive, cache, sReq, deaths>>
lVars == <<lNow, row, lPc, guesses>>
cVars == <<order, state, live, wrote, audit, cReq, sweep, missed>>
aVars == <<aNow, epoch, cool, log, ongoing, aFailures>>
mVars == <<mapStatus, target, request, changes, pending, at, raw, receipts, samples, events, acked, mFailures>>
uVars == <<loop, connected, reason, age, silent, gone, busy, backoff, wait, lost, writeFailures, crashes>>
vars == <<sVars, lVars, cVars, aVars, mVars, uVars>>

Sess == INSTANCE Sessions WITH
          MaxTime <- SessionTime, MaxCrashes <- MaxDeaths,
          now <- sNow, active <- sActive, req <- sReq, crashes <- deaths
Login == INSTANCE LoginLimit WITH MaxTime <- LoginTime, now <- lNow, pc <- lPc
Cmdb == INSTANCE CmdbProposal WITH Stale <- OddVersions, req <- cReq
Guard == INSTANCE AiGuard WITH
          MaxTime <- AiTime, MaxFailures <- AiFailures, now <- aNow, failures <- aFailures
Bridge == INSTANCE MqttBridge WITH
          Targets <- Samplings, MaxFailures <- BridgeFailures, failures <- mFailures
Status == INSTANCE MqttStatus

-----------------------------------------------------------------------------
(* What the settings are: durations and limits are numbers, and the worker *)
(* processes, the targets of the assistant and its requests are finitely many.*)

PolicyIsSet ==
  /\ IsFiniteSet(Workers)
  /\ AccessTTL \in Nat /\ RefreshTTL \in Nat /\ IdleTTL \in Nat /\ Grace \in Nat
  /\ MaxRecoveries \in Nat /\ Throttle \in Nat \ {0} /\ SessionTime \in Nat \ {0}
LimitsAreSet ==
  /\ IsFiniteSet(Workers) /\ MaxAttempts \in Nat /\ Lockout \in Nat /\ Retention \in Nat
  /\ LoginTime \in Nat \ {0}
GuardsAreSet ==
  /\ IsFiniteSet(Targets) /\ IsFiniteSet(Requests) /\ Critical \subseteq Targets
  /\ Ops \subseteq {"diagnose", "ack", "close", "ci_metadata_update"}
  /\ Cooldown \in [{"diagnose", "ack", "close", "ci_metadata_update"} -> Nat]
  /\ UpdateWindow \in Nat /\ MaxUpdates \in Nat
  /\ AiTime \in Nat /\ MaxRestarts \in Nat /\ AiFailures \in Nat
ReadingsAreSet == MetricCount \in Nat /\ StampsOf \in [Messages -> SUBSET Stamps]
ASSUME SettingsAssumption == PolicyIsSet /\ LimitsAreSet /\ GuardsAreSet /\ ReadingsAreSet

(* What one of the properties asks for besides: a dispatch leaves a        *)
(* heartbeat its time.                                                     *)
HeartbeatsFit ==
  /\ Stale \in Nat /\ MaxDispatch \in Nat /\ MaxBackoff \in Nat \ {0}
  /\ Status!HeartbeatInterval + MaxDispatch <= Stale

-----------------------------------------------------------------------------
Init ==
  /\ Sess!Init /\ Login!Init /\ Cmdb!Init /\ Guard!Init /\ Bridge!Init /\ Status!Init

SessNext == Sess!Next /\ UNCHANGED <<lVars, cVars, aVars, mVars, uVars>>
LoginNext == Login!Next /\ UNCHANGED <<sVars, cVars, aVars, mVars, uVars>>
CmdbNext == Cmdb!Next /\ UNCHANGED <<sVars, lVars, aVars, mVars, uVars>>
GuardNext == Guard!Next /\ UNCHANGED <<sVars, lVars, cVars, mVars, uVars>>
BridgeNext == Bridge!Next /\ UNCHANGED <<sVars, lVars, cVars, aVars, uVars>>
StatusNext == Status!Next /\ UNCHANGED <<sVars, lVars, cVars, aVars, mVars>>

Next == SessNext \/ LoginNext \/ CmdbNext \/ GuardNext \/ BridgeNext \/ StatusNext

Spec == Init /\ [][Next]_vars

-----------------------------------------------------------------------------
(* Sessions and LoginLimit: no session that is used expires as idle, a      *)
(* refresh token is exchanged once for each worker at most and recovered a  *)
(* bounded number of times, and the wrong passwords between two locks are   *)
(* bounded by the limit and the workers under way.                          *)
AccountsHold ==
  /\ Sess!TypeOK /\ Sess!ActivityKept /\ Sess!ExchangesBounded
  /\ Login!TypeOK /\ Login!GuessesBounded

(* CmdbProposal: an approved proposal has its CIs, and what the sweep       *)
(* revokes and its listing shows is audited.                                *)
ProposalsHold == Cmdb!TypeOK /\ Cmdb!ApprovedIsApplied /\ Cmdb!SweptAreAudited

(* AiGuard: an operation is not repeated within its cooldown; diagnoses and  *)
(* closes of critical events in a cooldown are bounded by the requests that  *)
(* are under way; and the updates of five minutes are bounded.               *)
GuardsHold ==
  Guard!TypeOK /\ Guard!CooldownKept /\ Guard!RepeatsBounded /\ Guard!StampedeBounded

(* MqttBridge and MqttStatus: one approved mapping for each source, a       *)
(* receipt says what was stored, what is acknowledged is stored raw; a live *)
(* subscriber is reported, and what is reported is recent.                  *)
MqttHolds ==
  /\ Bridge!TypeOK /\ Bridge!OneApproved /\ Bridge!ReceiptsAreTrue /\ Bridge!AckedIsRaw
  /\ Status!TypeOK /\ Status!LiveIsReported /\ Status!ReportIsRecent

(* What is settled stays settled: a session that ended is never renewed,    *)
(* nobody moves the end of a lock that runs, a proposal is decided once and *)
(* on the version it was read in, a revoked mapping and a complete receipt  *)
(* stay so.                                                                 *)
SettledIsFinal ==
  /\ Sess!DeadIsFinal
  /\ Login!LockKeepsItsEnd /\ Cmdb!DecisionStands
  /\ Bridge!RevokedIsFinal /\ Bridge!CompleteIsFinal
=============================================================================
