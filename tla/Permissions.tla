------------------------------ MODULE Permissions ------------------------------
(***************************************************************************)
(* Who may do what (routers/roles.py, routers/users.py, seed_admin.py,      *)
(* seed_roles.py): roles are in Neo4j, users with permissions of their own  *)
(* in Postgres, and only the start of the backend copies from the former to *)
(* the latter.                                                             *)
(*                                                                         *)
(* One uvicorn worker: no handler awaits, so that each request is one step; *)
(* the start is many, any of which may fail or be the last before a crash.  *)
(***************************************************************************)
EXTENDS Naturals, Sequences, FiniteSets

CONSTANTS
  Users, Admin,     \* user names, and ADMIN_DEFAULT_USERNAME among them
  Names,            \* names of roles
  Perms,            \* permissions, with USER_MANAGE and ROLE_MANAGE
  Seeded,           \* the system roles in the order of seed_roles, which has five
  Seeds,            \* their permissions
  Upgrades,         \* the permissions that an upgrade may add to them
  LegacyRoles,      \* the roles that a graph from before the seeding may hold
  LegacyUsers,      \* the users in Neo4j from before Postgres held them
  MaxChanges, MaxFailures   \* bounds: requests, and failed steps or crashes

VARIABLES
  role,       \* :Role nodes: name -> permissions, and is_system or "none"
  user,       \* users rows: name -> role, permissions, is_active
  node,       \* :User nodes: name -> role, permissions
  boot,       \* "down", "up", or the step of the start
  settled,    \* the users whose row a start has filled and nobody has touched
  granted,    \* history: what an administrator gave, and the roles held
  held,       \* history: all the permissions that a role has had
  changes, failures

vars == <<role, user, node, boot, settled, granted, held, changes, failures>>

Put(f, k, v) == [x \in DOMAIN f \cup {k} |-> IF x = k THEN v ELSE f[x]]
Without(f, k) == [x \in DOMAIN f \ {k} |-> f[x]]
Row(r, perms, active) == [role |-> r, perms |-> perms, active |-> active]
Granted(r, perms) == [perms |-> perms, roles |-> {r}]

Init ==
  /\ role = LegacyRoles /\ user = <<>> /\ node = LegacyUsers
  /\ boot = "down" /\ settled = {} /\ granted = <<>>
  /\ held = [n \in Names |-> IF n \in DOMAIN LegacyRoles THEN LegacyRoles[n].perms ELSE {}]
  /\ changes = 0 /\ failures = 0

-----------------------------------------------------------------------------
(* The start (startup_event): each step is caught on its own.               *)

Start == boot = "down" /\ boot' = "admin" /\ settled' = {}
         /\ UNCHANGED <<role, user, node, granted, held, changes, failures>>

(* seed_admin: looks for the name only, in each store.                      *)
SeedAdmin ==
  /\ boot = "admin" /\ boot' = "adminNode"
  /\ user' = IF Admin \in DOMAIN user THEN user ELSE Put(user, Admin, Row("ADMIN", Perms, TRUE))
  /\ granted' = IF Admin \in DOMAIN user THEN granted ELSE Put(granted, Admin, Granted("ADMIN", Perms))
  /\ UNCHANGED <<role, node, settled, held, changes, failures>>
SeedAdminNode ==
  /\ boot = "adminNode" /\ boot' = "role1"
  /\ node' = IF Admin \in DOMAIN node THEN node
             ELSE Put(node, Admin, [role |-> "ADMIN", perms |-> Perms])
  /\ UNCHANGED <<role, user, settled, granted, held, changes, failures>>

(* seed_roles, one role: a system role only grows, and a role of that name  *)
(* that is not one is overwritten.                                          *)
Seeding(n) ==
  IF n \notin DOMAIN role THEN [perms |-> Seeds[n], system |-> "true"]
  ELSE IF role[n].system = "true"
       THEN [role[n] EXCEPT !.perms = @ \cup (Upgrades[n] \cap Seeds[n])]
       ELSE [perms |-> Seeds[n], system |-> "false"]
RoleSteps == <<"role1", "role2", "role3", "role4", "role5">>
Step(i) == RoleSteps[i]
SeedRole(i) ==
  /\ boot = Step(i)
  /\ boot' = IF i = Len(Seeded) THEN "backfill" ELSE Step(i + 1)
  /\ role' = Put(role, Seeded[i], Seeding(Seeded[i]))
  /\ held' = [held EXCEPT ![Seeded[i]] = @ \cup Seeding(Seeded[i]).perms]
  /\ UNCHANGED <<user, node, settled, granted, changes, failures>>

(* backfill_user_permissions_from_roles: Postgres in one transaction, then  *)
(* Neo4j.                                                                   *)
RolePerms(r) == IF r \in DOMAIN role THEN role[r].perms ELSE {}
Backfill ==
  /\ boot = "backfill" /\ boot' = "backfillNode"
  /\ user' = [u \in DOMAIN user |-> [user[u] EXCEPT !.perms = @ \cup RolePerms(user[u].role)]]
  /\ settled' = DOMAIN user
  /\ UNCHANGED <<role, node, granted, held, changes, failures>>
BackfillNode ==
  /\ boot = "backfillNode" /\ boot' = "up"
  /\ node' = [u \in DOMAIN node |-> [node[u] EXCEPT !.perms = @ \cup RolePerms(node[u].role)]]
  /\ UNCHANGED <<role, user, settled, granted, held, changes, failures>>

(* A step that raises is logged.  What follows it in its own function is    *)
(* left out: seed_admin's second store when the first one fails, and the    *)
(* roles after one that failed; the two halves of the backfill are caught   *)
(* one by one.                                                              *)
After(step) ==
  CASE step \in {"admin", "adminNode"} -> "role1"
    [] step \in {RoleSteps[i] : i \in 1 .. 5} -> "backfill"
    [] step = "backfill" -> "backfillNode"
    [] step = "backfillNode" -> "up"
StepFails ==
  /\ boot \notin {"down", "up"} /\ failures < MaxFailures /\ failures' = failures + 1
  /\ boot' = After(boot)
  /\ UNCHANGED <<role, user, node, settled, granted, held, changes>>
Crash ==
  /\ boot # "down" /\ failures < MaxFailures /\ failures' = failures + 1
  /\ boot' = "down"
  /\ UNCHANGED <<role, user, node, settled, granted, held, changes>>
Stop == boot = "up" /\ boot' = "down" /\ UNCHANGED <<role, user, node, settled, granted, held, changes, failures>>

-----------------------------------------------------------------------------
(* Requests.                                                                *)

(* get_current_active_user and check_permission, on the actor's row.        *)
May(perm) ==
  \E u \in DOMAIN user : user[u].active /\ (user[u].role = "ADMIN" \/ perm \in user[u].perms)

Request(perm) ==
  /\ boot = "up" /\ May(perm) /\ changes < MaxChanges /\ changes' = changes + 1
  /\ UNCHANGED <<boot, failures>>

(* Nothing asks whether the role of a user exists.                          *)
CreateUser(u, r, perms) ==
  /\ Request("USER_MANAGE") /\ u \notin DOMAIN user
  /\ user' = Put(user, u, Row(r, perms, TRUE))
  /\ granted' = Put(granted, u, Granted(r, perms))
  /\ UNCHANGED <<role, node, settled, held>>

\* A field that is not in the request stays.
UpdateUserRole(u, r) ==
  /\ Request("USER_MANAGE") /\ u \in DOMAIN user
  /\ user' = [user EXCEPT ![u].role = r]
  /\ granted' = [granted EXCEPT ![u].roles = @ \cup {r}]
  /\ settled' = settled \ {u}
  /\ UNCHANGED <<role, node, held>>
UpdateUserPerms(u, perms) ==
  /\ Request("USER_MANAGE") /\ u \in DOMAIN user
  /\ user' = [user EXCEPT ![u].perms = perms]
  /\ granted' = [granted EXCEPT ![u].perms = perms]
  /\ settled' = settled \ {u}
  /\ UNCHANGED <<role, node, held>>

(* The node in Neo4j, if there is one, stays.                               *)
DeleteUser(u) ==
  /\ Request("USER_MANAGE") /\ u \in DOMAIN user
  /\ user' = Without(user, u) /\ granted' = Without(granted, u) /\ settled' = settled \ {u}
  /\ UNCHANGED <<role, node, held>>
DeactivateUser(u) ==
  /\ Request("USER_MANAGE") /\ u \in DOMAIN user /\ user[u].active
  /\ user' = [user EXCEPT ![u].active = FALSE]
  /\ UNCHANGED <<role, node, settled, granted, held>>

CreateRole(n, perms) ==
  /\ Request("ROLE_MANAGE") /\ n \notin DOMAIN role
  /\ role' = Put(role, n, [perms |-> perms, system |-> "false"])
  /\ held' = [held EXCEPT ![n] = @ \cup perms]
  /\ settled' = {u \in settled : user[u].role # n}
  /\ UNCHANGED <<user, node, granted>>

Changeable(n) == n \in DOMAIN role /\ role[n].system # "true"
UpdateRole(n, perms) ==
  /\ Request("ROLE_MANAGE") /\ Changeable(n)
  /\ role' = [role EXCEPT ![n].perms = perms]
  /\ held' = [held EXCEPT ![n] = @ \cup perms]
  /\ settled' = {u \in settled : user[u].role # n}
  /\ UNCHANGED <<user, node, granted>>

(* The users that hold the role are looked for in Neo4j.                    *)
InUse(n) == \E u \in DOMAIN node : node[u].role = n
DeleteRole(n) ==
  /\ Request("ROLE_MANAGE") /\ Changeable(n) /\ ~InUse(n)
  /\ role' = Without(role, n)
  /\ UNCHANGED <<user, node, settled, granted, held>>

(* migrate_users, a script: the users of Neo4j that Postgres lacks.         *)
MigrateUsers ==
  LET missing == DOMAIN node \ DOMAIN user
  IN /\ missing # {}
     /\ user' = [u \in DOMAIN user \cup missing |->
          IF u \in missing THEN Row(node[u].role, node[u].perms, TRUE) ELSE user[u]]
     /\ granted' = [u \in DOMAIN granted \cup missing |->
          IF u \in missing THEN Granted(node[u].role, node[u].perms) ELSE granted[u]]
     /\ UNCHANGED <<role, node, boot, settled, held, changes, failures>>

-----------------------------------------------------------------------------
Next ==
  \/ Start \/ SeedAdmin \/ SeedAdminNode \/ (\E i \in DOMAIN Seeded : SeedRole(i))
  \/ Backfill \/ BackfillNode \/ StepFails \/ Crash \/ Stop \/ MigrateUsers
  \/ \E u \in Users :
       \/ \E r \in Names, perms \in SUBSET Perms : CreateUser(u, r, perms)
       \/ \E r \in Names : UpdateUserRole(u, r)
       \/ \E perms \in SUBSET Perms : UpdateUserPerms(u, perms)
       \/ DeleteUser(u) \/ DeactivateUser(u)
  \/ \E n \in Names :
       \/ \E perms \in SUBSET Perms : CreateRole(n, perms) \/ UpdateRole(n, perms)
       \/ DeleteRole(n)

Spec == Init /\ [][Next]_vars

-----------------------------------------------------------------------------
TypeOK ==
  /\ DOMAIN role \subseteq Names /\ DOMAIN node \subseteq Users
  /\ \A n \in DOMAIN role : role[n] \in [perms : SUBSET Perms, system : {"true", "false", "none"}]
  /\ DOMAIN user \subseteq Users /\ DOMAIN granted = DOMAIN user /\ settled \subseteq DOMAIN user
  /\ \A u \in DOMAIN user : user[u] \in [role : Names, perms : SUBSET Perms, active : BOOLEAN]
  /\ changes \in 0..MaxChanges /\ failures \in 0..MaxFailures

(* A role is a floor (seed_roles.py:182-184): a user that was there at the  *)
(* last start holds what its role gives, until somebody changes one of the  *)
(* two, whatever failed while the backend started.                          *)
RoleIsFloor ==
  boot = "up" => \A u \in settled : RolePerms(user[u].role) \subseteq user[u].perms

(* Nobody holds a permission that neither an administrator nor a role that  *)
(* the user has had gave.                                                   *)
PermissionsWereGiven ==
  \A u \in DOMAIN user :
    user[u].perms \subseteq granted[u].perms \cup UNION {held[r] : r \in granted[u].roles}

(* What holds of the two stores.                                            *)
RolesHold == TypeOK /\ RoleIsFloor /\ PermissionsWereGiven

(* A system role stays, stays one and never loses a permission, whatever    *)
(* is requested and however often the backend starts or fails to.           *)
SystemRolesGrow ==
  \A n \in DOMAIN role : role[n].system = "true" =>
    n \in DOMAIN role' /\ role[n].perms \subseteq role'[n].perms /\ role'[n].system = "true"
=============================================================================
