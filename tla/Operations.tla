------------------------------ MODULE Operations ------------------------------
(***************************************************************************)
(* What operators administer, side by side: backups, the ticket desk, roles *)
(* and users, metrics with their dictionaries, physical links with their    *)
(* polling bridge, the relations between CIs, the script that feeds the      *)
(* poll queue, and the engine that polls by CLI.  They share no row and no  *)
(* memory; where two of them know the same CIs, each has those properties   *)
(* of a CI that it reads or writes, its creation and its deletion, and      *)
(* promises nothing of the other's: a step of the whole is a step of one.   *)
(***************************************************************************)
EXTENDS Integers, Sequences, FiniteSets

CONSTANTS
  Retentions, Times, SameSecond, BackupTime, BackupFaults, ConfigChanges,   \* Backup
  Workers, Staff, Services, Transitions, MaxTickets, DeskChanges, DeskFailures,   \* TicketDesk
  Accounts, Admin, Names, Perms, Seeded, Seeds, Upgrades, LegacyRoles, LegacyUsers,
  RoleChanges, RoleFailures,                                                \* Permissions
  CIs, Kinds, Metrics, Criteria, Dicts, BrandModels, Threads, Loop, Batch,
  MaxOps, MaxFailures,                                                      \* MetricAssignment
  Nodes, Links, Ends, FreshWindow, StaleAfter, ReadStaleAfter, Windows,
  LinkTime, MaxBytes, LinkChanges,                                          \* PhysicalLink
  Layers, Hub, Locations, Rels, Mediums, Viewers, Allowed, Filters, Limit,
  Requests, MaxRequests, MaxEdits,                                          \* CiGraph
  RecordFiles, Slots, Versions, Scripts, MaxDepth, MaxRuns,                 \* PollFeed
  CliMetrics, CliPairs, CliInterval, CliRef, Escalates, CliEnv, Day, Threshold,
  MaxTakes, CliTime, CliFaults                                              \* CliPoll

VARIABLES
  up, bNow, config, job, dump, history, run, faults, bChanges,
  user, service, tickets, lock, tReq, overtaken, tChanges, tFailures,
  role, rUser, node, boot, settled, granted, held, rChanges, rFailures,
  ci, def, dict, has, asked, unsure, entry, ref, holds, aJob, ops, aFailures,
  lNow, cis, link, request, pass, counter, total, samples, lChanges,
  gCi, edge, gReq, lost, answer, requests, edits,
  script, cycles, queue, finished, runs,
  cNow, pc, due, batch, last, stored, tracker, tried, misses, unbacked, cFaults

bVars == <<up, bNow, config, job, dump, history, run, faults, bChanges>>
tVars == <<user, service, tickets, lock, tReq, overtaken, tChanges, tFailures>>
rVars == <<role, rUser, node, boot, settled, granted, held, rChanges, rFailures>>
aVars == <<ci, def, dict, has, asked, unsure, entry, ref, holds, aJob, ops, aFailures>>
lVars == <<lNow, cis, link, request, pass, counter, total, samples, lChanges>>
gVars == <<gCi, edge, gReq, lost, answer, requests, edits>>
fVars == <<script, cycles, queue, finished, runs>>
cVars == <<cNow, pc, due, batch, last, stored, tracker, tried, misses, unbacked, cFaults>>
vars == <<bVars, tVars, rVars, aVars, lVars, gVars, fVars, cVars>>

Dumps == INSTANCE Backup WITH
           MaxTime <- BackupTime, MaxFaults <- BackupFaults, MaxChanges <- ConfigChanges,
           now <- bNow, changes <- bChanges
Desk == INSTANCE TicketDesk WITH
          Users <- Staff, Moves <- Transitions, MaxChanges <- DeskChanges, MaxFailures <- DeskFailures,
          req <- tReq, changes <- tChanges, failures <- tFailures
Granting == INSTANCE Permissions WITH
          Users <- Accounts, MaxChanges <- RoleChanges, MaxFailures <- RoleFailures,
          user <- rUser, changes <- rChanges, failures <- rFailures
Assigning == INSTANCE MetricAssignment WITH Pairs <- BrandModels, job <- aJob, failures <- aFailures
Cables == INSTANCE PhysicalLink WITH
            CIs <- Nodes, Fresh <- FreshWindow, Stale <- StaleAfter, ReadStale <- ReadStaleAfter,
            MaxTime <- LinkTime, MaxChanges <- LinkChanges, now <- lNow, changes <- lChanges
Graph == INSTANCE CiGraph WITH CIs <- Nodes, Users <- Viewers, ci <- gCi, req <- gReq
Feed == INSTANCE PollFeed WITH Files <- RecordFiles
Asking == INSTANCE CliPoll WITH
            Metrics <- CliMetrics, Pairs <- CliPairs, Interval <- CliInterval, Ref <- CliRef,
            Env <- CliEnv, MaxTime <- CliTime, MaxFaults <- CliFaults,
            now <- cNow, faults <- cFaults

-----------------------------------------------------------------------------
(* What the settings are.                                                  *)

BackupsAreSet ==
  /\ Retentions \subseteq Nat
  /\ BackupTime \in Nat \ {0} /\ BackupFaults \in Nat /\ ConfigChanges \in Nat
DeskIsSet ==
  /\ Desk!None \notin Workers /\ IsFiniteSet(Workers)
  /\ DeskChanges \in Nat /\ DeskFailures \in Nat
\* The roles that are seeded are five at most, and the legacy of the graph is
\* of the kinds that its nodes have.
RolesAreSet ==
  /\ Admin \in Accounts /\ "ADMIN" \in Names
  /\ Seeded \in Seq(Names) /\ Len(Seeded) \in 1 .. 5
  /\ \A i \in DOMAIN Seeded : Seeds[Seeded[i]] \subseteq Perms
  /\ DOMAIN LegacyRoles \subseteq Names
  /\ \A n \in DOMAIN LegacyRoles :
       LegacyRoles[n] \in [perms : SUBSET Perms, system : {"true", "false", "none"}]
  /\ DOMAIN LegacyUsers \subseteq Accounts
  /\ \A u \in DOMAIN LegacyUsers : LegacyUsers[u] \in [role : Names, perms : SUBSET Perms]
  /\ RoleChanges \in Nat /\ RoleFailures \in Nat
\* The names of actors, kinds and holders.
NamesAreApart ==
  /\ IsFiniteSet(Threads) /\ Loop \notin Threads
  /\ Assigning!None \notin Kinds /\ Assigning!NoDef \notin Criteria /\ CIs \cap Dicts = {}
LinksAreSet ==
  /\ {FreshWindow, StaleAfter, ReadStaleAfter, LinkTime, MaxBytes, LinkChanges} \subseteq Nat
  /\ Windows \subseteq Nat
  /\ \A l \in Links : Ends[l] \subseteq Nodes /\ Ends[l] # {} /\ IsFiniteSet(Ends[l])
FeedIsSet == MaxRuns \in Nat
CliIsSet ==
  /\ IsFiniteSet(CliPairs) /\ \A p \in CliPairs : p[2] \in CliMetrics
  /\ CliInterval \in [CliMetrics -> Nat] /\ {Day, Threshold} \subseteq Nat \ {0}
  /\ MaxTakes \in Nat /\ CliTime \in Nat /\ CliFaults \in Nat
GraphIsSet == IsFiniteSet(Nodes) /\ MaxRequests \in Nat /\ MaxEdits \in Nat
ASSUME SettingsAssumption ==
  /\ BackupsAreSet /\ DeskIsSet /\ RolesAreSet /\ NamesAreApart
  /\ LinksAreSet /\ GraphIsSet /\ FeedIsSet /\ CliIsSet

(* What backups ask for besides: no retention of 0 days, which deletes the  *)
(* dump that was just made, and a second between two starts.                *)
DumpsApart == 0 \notin Retentions /\ ~SameSecond

-----------------------------------------------------------------------------
Init ==
  /\ Dumps!Init /\ Desk!Init /\ Granting!Init /\ Assigning!Init
  /\ Cables!Init /\ Graph!Init /\ Feed!Init /\ Asking!Init

DumpsNext == Dumps!Next /\ UNCHANGED <<tVars, rVars, aVars, lVars, gVars, fVars, cVars>>
DeskNext == Desk!Next /\ UNCHANGED <<bVars, rVars, aVars, lVars, gVars, fVars, cVars>>
GrantingNext == Granting!Next /\ UNCHANGED <<bVars, tVars, aVars, lVars, gVars, fVars, cVars>>
AssigningNext == Assigning!Next /\ UNCHANGED <<bVars, tVars, rVars, lVars, gVars, fVars, cVars>>
CablesNext == Cables!Next /\ UNCHANGED <<bVars, tVars, rVars, aVars, gVars, fVars, cVars>>
GraphNext == Graph!Next /\ UNCHANGED <<bVars, tVars, rVars, aVars, lVars, fVars, cVars>>
FeedNext == Feed!Next /\ UNCHANGED <<bVars, tVars, rVars, aVars, lVars, gVars, cVars>>
AskingNext == Asking!Next /\ UNCHANGED <<bVars, tVars, rVars, aVars, lVars, gVars, fVars>>

Next ==
  \/ DumpsNext \/ DeskNext \/ GrantingNext \/ AssigningNext \/ CablesNext \/ GraphNext \/ FeedNext
  \/ AskingNext

Spec == Init /\ [][Next]_vars

-----------------------------------------------------------------------------
(* Backup: once a dump succeeded a whole dump remains, and a row of the     *)
(* history that says SUCCESS within the retention names a dump that is whole.*)
BackupsHold == Dumps!TypeOK /\ Dumps!SomeDumpRemains /\ Dumps!SuccessIsRestorable

(* TicketDesk: a ticket's type is that of its service, a user's lock is held *)
(* by a request that creates a ticket for the user, a closed ticket is       *)
(* archived with its reason.  Permissions: a settled user has what the role  *)
(* has, and nobody holds a permission that was not given.                    *)
DeskHolds == Desk!DeskHolds /\ Granting!RolesHold

(* MetricAssignment: one operation at a time for each metric, a registry     *)
(* without leavings, and CIs that are polled for the metrics whose criteria  *)
(* they meet once nothing is under way.  PollFeed: the tasks of a cycle are  *)
(* those that its records ask for, each of its version and measured once.    *)
(* CliPoll: the CLI engine asks what is due in time, an alert is earned, and *)
(* a stamp of a poll has its sample.                                         *)
AssignmentsHold == Assigning!AssignmentInvariant /\ Feed!FeedInvariant /\ Asking!CliHolds

(* PhysicalLink: a link joins CIs that exist, its stamp is backed by a       *)
(* sample, its utilization never exceeds what passed, and the bridge's and   *)
(* the API's readings of the same samples agree.  CiGraph: tunnels end in    *)
(* hubs, mass creations do what was simulated, and the graph is whole.       *)
LinksHold == Cables!LinksInvariant /\ Graph!GraphHolds

(* No ticket is opened on a service that is not active or goes back along    *)
(* its statuses, system roles stay and lose nothing while the backend runs,  *)
(* the bridge leaves the outages that operators declared, a mass request     *)
(* touches what its user sees listed, and no task is polled twice.           *)
StepsHold ==
  /\ [][Desk!DeskSteps]_tVars /\ [][Granting!SystemRolesGrow]_rVars
  /\ [][Cables!OutagesAreOperators]_lVars /\ [][Graph!MassSteps]_gVars
  /\ [][Feed!PolledOnce]_fVars
=============================================================================
