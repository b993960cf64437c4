----------------------------- MODULE CmdbProposal -----------------------------
(***************************************************************************)
(* Proposals of configuration items (services/cmdb_proposal_service.py,    *)
(* repositories/cmdb_proposal_repo.py, scripts/cmdb_proposal_ttl_sweep.py).*)
(*                                                                         *)
(* An agent submits a manifest of one CI or, from a CSV file, of several;  *)
(* a reviewer approves it, which creates the live CIs one by one and only  *)
(* then moves the proposal, or revokes it; the sweep revokes old drafts.   *)
(* Every statement is a Neo4j transaction of its own; audit rows go to     *)
(* Postgres.  Manifests that fail validation and callers without the       *)
(* permission change nothing and are left out.                             *)
(***************************************************************************)
EXTENDS Naturals, Sequences, FiniteSets, Functions

CONSTANTS
  Workers,    \* uvicorn worker processes
  Proposals,  \* ids that submissions may draw
  Manifest,   \* [Proposals -> non-empty set of CI ids]
  Page,       \* page_size of the sweep's listing: 50
  Faulty,     \* whether CI commits fail and processes die
  Stale       \* whether reviewers send versions other than 1 and 2

VARIABLES
  order,   \* the submitted proposals, oldest first
  state,   \* [Proposals -> status, version and reviewer of the node]
  live,    \* ids of the :CI nodes
  wrote,   \* [Proposals -> CIs written on its behalf]; history
  audit,   \* audit rows of decisions: proposal and event
  req,     \* [Workers -> the review in progress]
  sweep,   \* the sweep in progress
  missed   \* what sweeps have revoked and their listing did not show; history

vars == <<order, state, live, wrote, audit, req, sweep, missed>>

CIs == UNION {Manifest[p] : p \in Proposals}
Idle == [pc |-> "idle"]
NoNode == [status |-> "NONE", version |-> 0, by |-> "none"]
Submitted == {order[i] : i \in DOMAIN order}
Revoked == {p \in Proposals : state[p].status = "REVOKED"}

TypeOK ==
  /\ order \in Seq(Proposals) /\ IsInjective(order)
  /\ state \in [Proposals -> [status : {"NONE", "DRAFT", "APPROVED", "REVOKED"},
                              version : 0..3, by : {"none", "user", "SYSTEM"}]]
  /\ \A p \in Proposals : state[p].status = "NONE" <=> p \notin Submitted
  /\ live \subseteq CIs
  /\ wrote \in [Proposals -> SUBSET CIs]
  /\ audit \subseteq Proposals \X {"APPROVE", "REVOKE"}

Init ==
  /\ order = <<>>
  /\ state = [p \in Proposals |-> NoNode]
  /\ live = {}
  /\ wrote = [p \in Proposals |-> {}]
  /\ audit = {}
  /\ req = [w \in Workers |-> Idle]
  /\ sweep = Idle /\ missed = {}

Goto(w, r) == req' = [req EXCEPT ![w] = r]
Move(p, status, by) ==
  state' = [state EXCEPT ![p] = [status |-> status, version |-> @.version + 1, by |-> by]]

-----------------------------------------------------------------------------
(* create_proposal and bulk_import_proposals: no live CI has an id of the  *)
(* manifest; the draft is created.  The AI guard never refuses: it looks   *)
(* for a cooldown of the target "new" where record_operation starts one    *)
(* for the id, and the bulk threshold escalates, which the service lets    *)
(* pass.  The audit row of the creation is left out.                       *)
Submit(p) ==
  /\ p \notin Submitted
  /\ Manifest[p] \cap live = {}
  /\ order' = Append(order, p)
  /\ state' = [state EXCEPT ![p] = [status |-> "DRAFT", version |-> 1, by |-> "none"]]
  /\ UNCHANGED <<live, wrote, audit, req, sweep, missed>>

(* approve_proposal and revoke_proposal: the status as it is read now; the *)
(* version is the one the reviewer saw, or any other.                      *)
Review(w, p, act, v) ==
  /\ req[w] = Idle
  /\ state[p].status \in (IF act = "approve" THEN {"DRAFT"} ELSE {"DRAFT", "APPROVED"})
  /\ v = state[p].version \/ Stale
  /\ Goto(w, [pc |-> IF act = "approve" THEN "collide" ELSE "revoke", id |-> p,
              version |-> v, todo |-> Manifest[p], failed |-> FALSE])
  /\ UNCHANGED <<order, state, live, wrote, audit, sweep, missed>>

(* Categories and _ci_id_exists, for every CI of the manifest (409).       *)
Collide(w) ==
  /\ req[w].pc = "collide"
  /\ IF req[w].todo \cap live # {} THEN Goto(w, Idle)
     ELSE \/ Goto(w, [req[w] EXCEPT !.pc = "commit"])
          \/ Goto(w, Idle)  \* category_renamed
  /\ UNCHANGED <<order, state, live, wrote, audit, sweep, missed>>

(* create_update_node for the next CI.  A failure is noted and the loop    *)
(* goes on; it may come before or after the MERGE of the node.             *)
CommitCI(w) ==
  /\ req[w].pc = "commit"
  /\ req[w].todo # {}
  /\ \E fails \in (IF Faulty THEN BOOLEAN ELSE {FALSE}), merged \in BOOLEAN :
     LET c == CHOOSE x \in req[w].todo : TRUE IN
       /\ ~fails => merged
       /\ live' = IF merged THEN live \cup {c} ELSE live
       /\ wrote' = IF merged THEN [wrote EXCEPT ![req[w].id] = @ \cup {c}] ELSE wrote
       /\ Goto(w, [req[w] EXCEPT !.todo = @ \ {c}, !.failed = @ \/ fails])
  /\ UNCHANGED <<order, state, audit, sweep, missed>>

(* Faulty variant of Approve: the errors of the loop are only logged.      *)
ApproveAnyway(w) ==
  /\ req[w].pc = "commit" /\ req[w].todo = {}
  /\ LET p == req[w].id IN
     IF state[p].version = req[w].version /\ state[p].status = "DRAFT"
     THEN Move(p, "APPROVED", "user") /\ Goto(w, [req[w] EXCEPT !.pc = "auditA"])
     ELSE Goto(w, Idle) /\ UNCHANGED state
  /\ UNCHANGED <<order, live, wrote, audit, sweep, missed>>

(* Faulty variant of Approve: the version is not compared.                 *)
ApproveUnversioned(w) ==
  /\ req[w].pc = "commit" /\ req[w].todo = {}
  /\ LET p == req[w].id IN
     IF ~req[w].failed
     THEN Move(p, "APPROVED", "user") /\ Goto(w, [req[w] EXCEPT !.pc = "auditA"])
     ELSE Goto(w, Idle) /\ UNCHANGED state
  /\ UNCHANGED <<order, live, wrote, audit, sweep, missed>>

(* repo.approve, if no CI failed (500): version and status are compared    *)
(* in the statement that moves the proposal (409).                         *)
Approve(w) ==
  /\ req[w].pc = "commit" /\ req[w].todo = {}
  /\ LET p == req[w].id IN
     IF ~req[w].failed /\ state[p].version = req[w].version /\ state[p].status = "DRAFT"
     THEN Move(p, "APPROVED", "user") /\ Goto(w, [req[w] EXCEPT !.pc = "auditA"])
     ELSE Goto(w, Idle) /\ UNCHANGED state
  /\ UNCHANGED <<order, live, wrote, audit, sweep, missed>>

(* repo.revoke; the live CIs stay.                                         *)
Revoke(w) ==
  /\ req[w].pc = "revoke"
  /\ LET p == req[w].id IN
     IF state[p].version = req[w].version /\ state[p].status \in {"DRAFT", "APPROVED"}
     THEN Move(p, "REVOKED", "user") /\ Goto(w, [req[w] EXCEPT !.pc = "auditR"])
     ELSE Goto(w, Idle) /\ UNCHANGED state
  /\ UNCHANGED <<order, live, wrote, audit, sweep, missed>>

Audit(w) ==
  /\ req[w].pc \in {"auditA", "auditR"}
  /\ audit' = audit \cup {<<req[w].id, IF req[w].pc = "auditA" THEN "APPROVE" ELSE "REVOKE">>}
  /\ Goto(w, Idle)
  /\ UNCHANGED <<order, state, live, wrote, sweep, missed>>

-----------------------------------------------------------------------------
(* ttl_sweep: the drafts among the n oldest proposals.                     *)
Sweep(n) ==
  /\ sweep = Idle
  /\ LET old == {p \in {order[i] : i \in 1..n} : state[p].status = "DRAFT"} IN
     /\ old # {}
     /\ state' = [p \in Proposals |->
                    IF p \in old
                    THEN [status |-> "REVOKED", version |-> state[p].version + 1, by |-> "SYSTEM"]
                    ELSE state[p]]
     /\ sweep' = [pc |-> "audit", swept |-> old]
  /\ UNCHANGED <<order, live, wrote, audit, req, missed>>

Before(p, q) == \E i, j \in DOMAIN order : i < j /\ order[i] = p /\ order[j] = q

\* repo.list gives the newest first; what a page of n takes from proposals S.
Newest(S, n) == {p \in S : Cardinality({q \in S : Before(p, q)}) < n}

(* The sweep does not know which rows it moved, only how many: it takes    *)
(* that number of SYSTEM rows from the first page of the revoked ones.     *)
SweepAudits ==
  /\ sweep # Idle
  /\ LET n == Cardinality(sweep.swept)
         page == Newest(Revoked, IF n > Page THEN n ELSE Page)
         rows == Newest({p \in page : state[p].by = "SYSTEM"}, n)
     IN /\ audit' = audit \cup {<<p, "REVOKE">> : p \in rows}
        /\ missed' = missed \cup (sweep.swept \ page)
  /\ sweep' = Idle
  /\ UNCHANGED <<order, state, live, wrote, req>>

Crash(w) ==
  /\ Faulty
  /\ req[w] # Idle
  /\ Goto(w, Idle)
  /\ UNCHANGED <<order, state, live, wrote, audit, sweep, missed>>

Next ==
  \/ SweepAudits
  \/ \E n \in 1..Len(order) : Sweep(n)
  \/ \E p \in Proposals : Submit(p)
  \/ \E w \in Workers :
       \/ Collide(w) \/ CommitCI(w) \/ Approve(w) \/ Revoke(w) \/ Audit(w) \/ Crash(w)
       \/ \E p \in Submitted, act \in {"approve", "revoke"}, v \in 1..2 : Review(w, p, act, v)

Spec == Init /\ [][Next]_vars

-----------------------------------------------------------------------------
(* An approved proposal has all its CIs in the graph, whatever fails, dies *)
(* or races between the commits of the CIs and that of the approval.       *)
ApprovedIsApplied ==
  \A p \in Proposals : state[p].status = "APPROVED" => Manifest[p] \subseteq wrote[p] \cap live

(* A decision stands: a revoked proposal is never approved, and an         *)
(* approved one never again, by a review that read it before.              *)
DecisionStands ==
  [][\A p \in Proposals :
       /\ state[p].status = "REVOKED" => state'[p] = state[p]
       /\ state[p].status = "APPROVED" => state'[p].status # "APPROVED" \/ state'[p] = state[p]]_vars

(* The sweep leaves an audit row for each draft it has revoked, although   *)
(* it finds them again by reviewer and order only, and whoever revokes     *)
(* besides: unless so many newer proposals are revoked that its one page   *)
(* does not show the draft, or the sweep is killed before its audit.       *)
SweptAreAudited ==
  \A p \in Proposals :
    state[p].by = "SYSTEM" /\ sweep = Idle => <<p, "REVOKE">> \in audit \/ p \in missed

(* "Revoke from DRAFT leaves no CI" (openspec cmdb-ai-proposals, 007).     *)
(* Violated: approvals commit CIs before they compare the version.         *)
RevokedDraftHasNoCI ==
  \A p \in Revoked :
    <<p, "APPROVE">> \notin audit /\ (\A w \in Workers : req[w] = Idle) => wrote[p] = {}
=============================================================================
