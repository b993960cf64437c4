--------------------------- MODULE MetricAssignment ---------------------------
(***************************************************************************)
(* Which metrics a CI is polled for: metric definitions with criteria, the  *)
(* HAS_METRIC links that reconcile_node_metrics derives from them, and the  *)
(* dictionaries that list metrics of a brand and model.                     *)
(*                                                                         *)
(* Definitions are written and deleted by threads of the pool, behind the   *)
(* guard of metric_operation_guard.py; CIs and dictionaries by handlers of  *)
(* the event loop, one at a time (Loop).  Each Cypher statement is a commit *)
(* of its own, so that they interleave.  One worker process is assumed.     *)
(*                                                                         *)
(* Left out: the overlay of applied dictionaries, whose creation the        *)
(* constraint ci_id_unique refuses, and the ICMP sidecars, which no         *)
(* criteria select.                                                         *)
(***************************************************************************)
EXTENDS Integers, FiniteSets, FiniteSetsExt

CONSTANTS
  CIs, Kinds,      \* configuration items, and what criteria look at: brand, model, layer
  Metrics, Criteria,
  Dicts, Pairs,    \* dictionaries, and the brand and model that one is for
  Threads, Loop,
  Batch,           \* METRIC_DELETE_RELATIONSHIP_BATCH_SIZE
  MaxOps, MaxFailures   \* bounds: requests, and statements that fail

None == "none"
NoDef == [names |-> {None}, kinds |-> {None}]
Actors == Threads \cup {Loop}
Holders == CIs \cup Dicts
Entries == 1..Cardinality(Threads)

VARIABLES
  ci,        \* the kind of a CI, or None
  def,       \* the criteria of a metric definition, or NoDef
  dict,      \* the pair of a dictionary, or None
  has,       \* the HAS_METRIC links of CIs and dictionaries
  entry,     \* the guard's registry: the lock object of a metric, 0 when there is none
  ref, holds,   \* the lock object a thread has hold of, and whether it locked it
  job,       \* what an actor is doing
  asked,     \* the metrics a dictionary was last given, those deleted since taken off
  unsure,    \* CIs and dictionaries whose last update failed or was disturbed
  ops, failures

data == <<ci, def, dict, has, asked, unsure>>
guard == <<entry, ref, holds>>
vars == <<data, guard, job, ops, failures>>

NoJob == [op |-> None, stage |-> None, metric |-> None, criteria |-> NoDef, todo |-> {},
          on |-> None, effective |-> {}, drop |-> {}, add |-> {}, clean |-> TRUE]
NoRef == <<None, 0>>

Init ==
  /\ ci = [c \in CIs |-> None] /\ def = [m \in Metrics |-> NoDef] /\ dict = [d \in Dicts |-> None]
  /\ has = [h \in Holders |-> {}] /\ asked = [d \in Dicts |-> {}] /\ unsure = {}
  /\ entry = [m \in Metrics |-> 0] /\ ref = [t \in Threads |-> NoRef] /\ holds = [t \in Threads |-> FALSE]
  /\ job = [a \in Actors |-> NoJob] /\ ops = 0 /\ failures = 0

-----------------------------------------------------------------------------
(* metric_matches_ci: every filter that is given must fit, and one must be  *)
(* given.                                                                   *)
Matches(criteria, c, kind) ==
  /\ criteria.names # {} => c \in criteria.names
  /\ criteria.kinds # {} => kind \in criteria.kinds
  /\ criteria.names \cup criteria.kinds # {}

Applicable(c) == {m \in Metrics : def[m] # NoDef /\ ci[c] # None /\ Matches(def[m], c, ci[c])}
Explicit(c) == {m \in Metrics : def[m] # NoDef /\ c \in def[m].names}

At(a, stage) == job[a].stage = stage
Done(a) == job' = [job EXCEPT ![a] = NoJob]
Goto(a, stage) == job' = [job EXCEPT ![a].stage = stage]

(* Jobs that have read what another actor now changes are not clean.        *)
Reading == {"linked", "drop", "add"}
Disturbed(a, H, next) ==
  [b \in Actors |-> IF b = a THEN next
                    ELSE IF job[b].stage \in Reading /\ job[b].on \in H THEN [job[b] EXCEPT !.clean = FALSE]
                    ELSE job[b]]

Request == ops < MaxOps /\ ops' = ops + 1 /\ UNCHANGED failures
Onward == UNCHANGED <<ops, failures>>

-----------------------------------------------------------------------------
(* metric_operation_guard.                                                 *)

Users(m, e) == {t \in Threads : ref[t] = <<m, e>>}
Locked(m, e) == \E t \in Users(m, e) : holds[t]

(* _entry_for: a new lock object when the registry has none.                *)
Enter(t, op, m, criteria) ==
  /\ job[t] = NoJob /\ Request /\ UNCHANGED <<data, holds>>
  /\ LET free == Min({e \in Entries : Users(m, e) = {}})
         e == IF entry[m] = 0 THEN free ELSE entry[m]
     IN entry' = [entry EXCEPT ![m] = e] /\ ref' = [ref EXCEPT ![t] = <<m, e>>]
  /\ job' = [job EXCEPT ![t] = [NoJob EXCEPT !.op = op, !.stage = "lock", !.metric = m, !.criteria = criteria]]

TryLock(t) ==
  /\ At(t, "lock") /\ Onward /\ UNCHANGED <<data, entry, ref>>
  /\ \/ ~Locked(ref[t][1], ref[t][2]) /\ holds' = [holds EXCEPT ![t] = TRUE] /\ Goto(t, job[t].op)
     \/ Locked(ref[t][1], ref[t][2]) /\ UNCHANGED holds /\ Goto(t, "leave")

Unlock(t) ==
  /\ At(t, "unlock") /\ Onward /\ UNCHANGED <<data, entry, ref>>
  /\ holds' = [holds EXCEPT ![t] = FALSE] /\ Goto(t, "leave")

Unused(t) == Users(ref[t][1], ref[t][2]) = {t}
(* _release_entry.                                                         *)
Leave(t) ==
  /\ At(t, "leave") /\ Onward /\ UNCHANGED <<data, holds>> /\ Done(t)
  /\ ref' = [ref EXCEPT ![t] = NoRef]
  /\ entry' = IF Unused(t) /\ entry[ref[t][1]] = ref[t][2] THEN [entry EXCEPT ![ref[t][1]] = 0] ELSE entry

-----------------------------------------------------------------------------
(* create_metric, and the reconciliation of the CIs it concerns.            *)

WriteDef(t) ==
  /\ At(t, "create") /\ Onward /\ UNCHANGED <<ci, dict, has, asked, unsure, guard>>
  /\ def' = [def EXCEPT ![job[t].metric] = job[t].criteria]
  /\ job' = Disturbed(t, CIs, [job[t] EXCEPT !.stage = "affected"])

(* Faulty variant of Affected: CIs that no longer match are forgotten.       *)
AffectedMatching(m, criteria) ==
  {c \in CIs : ci[c] # None /\ Matches(criteria, c, ci[c])}
Affected(m, criteria) ==
  {c \in CIs : ci[c] # None /\ (m \in has[c] \/ Matches(criteria, c, ci[c]))}

ReadAffected(t) ==
  /\ At(t, "affected") /\ Onward /\ UNCHANGED <<data, guard>>
  /\ job' = [job EXCEPT ![t].stage = "next", ![t].todo = Affected(job[t].metric, job[t].criteria)]

NextNode(t) ==
  /\ At(t, "next") /\ Onward /\ UNCHANGED <<data, guard>>
  /\ \/ \E c \in job[t].todo :
          job' = [job EXCEPT ![t].stage = "effective", ![t].on = c, ![t].todo = @ \ {c}, ![t].clean = TRUE]
     \/ job[t].todo = {} /\ IF t = Loop THEN Done(t) ELSE Goto(t, "unlock")

-----------------------------------------------------------------------------
(* reconcile_node_metrics.                                                 *)

ReadEffective(a) ==
  /\ At(a, "effective") /\ Onward /\ UNCHANGED <<data, guard>>
  /\ job' = [job EXCEPT ![a].stage = "linked", ![a].effective = Applicable(job[a].on)]

ReadLinked(a) ==
  /\ At(a, "linked") /\ Onward /\ UNCHANGED <<data, guard>>
  /\ LET c == job[a].on
     IN job' = [job EXCEPT ![a].stage = "drop",
                  ![a].drop = has[c] \ (job[a].effective \cup Explicit(c)),
                  ![a].add = job[a].effective \ has[c]]

DropLink(a) ==
  /\ At(a, "drop") /\ Onward /\ UNCHANGED guard
  /\ \/ \E m \in job[a].drop :
          /\ has' = [has EXCEPT ![job[a].on] = @ \ {m}] /\ UNCHANGED <<ci, def, dict, asked, unsure>>
          /\ job' = Disturbed(a, {job[a].on}, [job[a] EXCEPT !.drop = @ \ {m}])
     \/ job[a].drop = {} /\ Goto(a, "add") /\ UNCHANGED data

(* The statement matches the CI and the definition, and adds nothing when   *)
(* either is gone.                                                          *)
AddLink(a) ==
  /\ At(a, "add") /\ Onward /\ UNCHANGED <<ci, def, dict, asked, guard>>
  /\ \/ \E m \in job[a].add :
          /\ has' = IF ci[job[a].on] # None /\ def[m] # NoDef
                      THEN [has EXCEPT ![job[a].on] = @ \cup {m}] ELSE has
          /\ job' = Disturbed(a, {job[a].on}, [job[a] EXCEPT !.add = @ \ {m}]) /\ UNCHANGED unsure
     \/ /\ job[a].add = {} /\ UNCHANGED has /\ Goto(a, "next")
        /\ unsure' = IF job[a].clean THEN unsure \ {job[a].on} ELSE unsure \cup {job[a].on}

-----------------------------------------------------------------------------
(* create_update_node and the workbook import (upsert, then reconcile), and *)
(* delete_node.                                                             *)

SaveNodes(C, kind) ==
  /\ job[Loop] = NoJob /\ Request /\ UNCHANGED <<def, dict, has, asked, guard>>
  /\ ci' = [c \in CIs |-> IF c \in C THEN kind ELSE ci[c]] /\ unsure' = unsure \cup C
  /\ job' = Disturbed(Loop, C, [NoJob EXCEPT !.op = "save", !.stage = "next", !.todo = C])

DeleteNode(c) ==
  /\ job[Loop] = NoJob /\ ci[c] # None /\ Request /\ UNCHANGED <<def, dict, asked, unsure, guard>>
  /\ ci' = [ci EXCEPT ![c] = None] /\ has' = [has EXCEPT ![c] = {}]
  /\ job' = Disturbed(Loop, {c}, NoJob)

-----------------------------------------------------------------------------
(* delete_metric: its links in batches, then the definition, which Neo4j    *)
(* refuses to delete while it has one.                                      *)

LinksOf(m) == {h \in Holders : m \in has[h]}

DeleteBatch(t) ==
  /\ At(t, "delete") /\ Onward /\ UNCHANGED <<ci, def, dict, unsure, guard>>
  /\ LET m == job[t].metric
     IN \/ \E H \in SUBSET LinksOf(m) :
             /\ H # {} /\ Cardinality(H) = Min({Batch, Cardinality(LinksOf(m))})
             /\ has' = [h \in Holders |-> IF h \in H THEN has[h] \ {m} ELSE has[h]]
             /\ asked' = [d \in Dicts |-> IF d \in H THEN asked[d] \ {m} ELSE asked[d]]
             /\ job' = Disturbed(t, H, job[t])
        \/ LinksOf(m) = {} /\ Goto(t, "definition") /\ UNCHANGED <<has, asked>>

DeleteDef(t) ==
  /\ At(t, "definition") /\ Onward /\ UNCHANGED <<ci, dict, has, asked, guard>>
  /\ LET m == job[t].metric
     IN \/ LinksOf(m) = {} /\ def' = [def EXCEPT ![m] = NoDef] /\ UNCHANGED unsure
        \/ LinksOf(m) # {} /\ UNCHANGED def /\ unsure' = Holders
  /\ job' = Disturbed(t, CIs, [job[t] EXCEPT !.stage = "unlock"])

-----------------------------------------------------------------------------
(* Dictionaries: a write of the node, then one statement for each metric.   *)

Taken(d, pair) == \E e \in Dicts \ {d} : dict[e] = pair
Known(M) == \A m \in M : def[m] # NoDef

WriteDict(d, pair, M) ==
  /\ job[Loop] = NoJob /\ Request /\ ~Taken(d, pair) /\ Known(M) /\ UNCHANGED <<ci, def, has, guard>>
  /\ dict' = [dict EXCEPT ![d] = pair] /\ asked' = [asked EXCEPT ![d] = M] /\ unsure' = unsure \cup {d}
  /\ job' = [job EXCEPT ![Loop] =
       [NoJob EXCEPT !.op = "dict", !.stage = "clear", !.on = d, !.add = M]]

ClearDict ==
  /\ At(Loop, "clear") /\ Onward /\ Goto(Loop, "fill") /\ UNCHANGED <<ci, def, dict, asked, unsure, guard>>
  /\ has' = [has EXCEPT ![job[Loop].on] = {}]

FillDict ==
  /\ At(Loop, "fill") /\ Onward /\ UNCHANGED <<ci, def, dict, guard>>
  /\ LET d == job[Loop].on
     IN \/ \E m \in job[Loop].add :
             /\ job' = [job EXCEPT ![Loop].add = @ \ {m}] /\ UNCHANGED unsure
             /\ has' = IF def[m] # NoDef THEN [has EXCEPT ![d] = @ \cup {m}] ELSE has
             /\ asked' = [asked EXCEPT ![d] = IF def[m] # NoDef THEN @ \cup {m} ELSE @ \ {m}]
        \/ job[Loop].add = {} /\ Done(Loop) /\ unsure' = unsure \ {d} /\ UNCHANGED <<has, asked>>

(* The workbook's rows are one transaction; nobody looks at the pairs.      *)
BulkCreate(d, pair, M) ==
  /\ job[Loop] = NoJob /\ Request /\ dict[d] = None /\ M # {} /\ Known(M)
  /\ dict' = [dict EXCEPT ![d] = pair] /\ asked' = [asked EXCEPT ![d] = M]
  /\ has' = [has EXCEPT ![d] = M] /\ unsure' = unsure \ {d} /\ UNCHANGED <<ci, def, guard, job>>

DeleteDict(d) ==
  /\ job[Loop] = NoJob /\ Request /\ dict[d] # None
  /\ dict' = [dict EXCEPT ![d] = None] /\ asked' = [asked EXCEPT ![d] = {}]
  /\ has' = [has EXCEPT ![d] = {}] /\ UNCHANGED <<ci, def, unsure, guard, job>>

-----------------------------------------------------------------------------
(* A statement raises: the request ends where it is.  A save logs it and    *)
(* goes on with the next CI.                                                *)
Fail(a) ==
  /\ job[a].stage \in {"create", "affected", "effective", "linked", "drop", "add", "delete",
                       "definition", "clear", "fill"}
  /\ failures < MaxFailures /\ failures' = failures + 1 /\ UNCHANGED <<ci, def, dict, has, asked, guard, ops>>
  /\ unsure' = IF a = Loop THEN unsure \cup {job[a].on} ELSE Holders
  /\ IF a = Loop THEN IF job[a].op = "save" THEN Goto(a, "next") ELSE Done(a) ELSE Goto(a, "unlock")

Operation(t) ==
  \/ \E m \in Metrics : Enter(t, "delete", m, NoDef) \/ \E k \in Criteria : Enter(t, "create", m, k)
  \/ TryLock(t) \/ Unlock(t) \/ Leave(t) \/ WriteDef(t) \/ ReadAffected(t) \/ DeleteBatch(t) \/ DeleteDef(t)
Reconcile(a) == NextNode(a) \/ ReadEffective(a) \/ ReadLinked(a) \/ DropLink(a) \/ AddLink(a)
Handler ==
  \/ \E C \in SUBSET CIs \ {{}}, k \in Kinds : SaveNodes(C, k)
  \/ \E c \in CIs : DeleteNode(c)
  \/ \E d \in Dicts, p \in Pairs, M \in SUBSET Metrics : WriteDict(d, p, M) \/ BulkCreate(d, p, M)
  \/ \E d \in Dicts : DeleteDict(d)
  \/ ClearDict \/ FillDict

Next == (\E t \in Threads : Operation(t)) \/ (\E a \in Actors : Reconcile(a) \/ Fail(a)) \/ Handler

Spec == Init /\ [][Next]_vars

-----------------------------------------------------------------------------
(* The variables keep their types, and links join what exists.              *)
TypeOK ==
  /\ ci \in [CIs -> Kinds \cup {None}] /\ dict \in [Dicts -> Pairs \cup {None}]
  /\ \A m \in Metrics : def[m] = NoDef \/ def[m] \in Criteria
  /\ \A h \in Holders : has[h] \subseteq {m \in Metrics : def[m] # NoDef}
  /\ \A c \in CIs : ci[c] = None => has[c] = {}
  /\ unsure \subseteq Holders /\ entry \in [Metrics -> 0..Cardinality(Threads)]

(* One create or delete of a metric runs at a time, however its callers     *)
(* enter and leave the registry of locks (metric_operation_guard.py).       *)
Inside(t, m) == holds[t] /\ ref[t][1] = m
OneOperationPerMetric ==
  \A t, u \in Threads, m \in Metrics : Inside(t, m) /\ Inside(u, m) => t = u

(* The registry keeps no lock that nobody uses.                             *)
RegistryIsClean == \A m \in Metrics : entry[m] # 0 => Users(m, entry[m]) # {}

(* When nothing is under way, a CI whose last reconciliation ended          *)
(* well, with no other write to the CI or to a definition in the midst of   *)
(* it, has the metrics whose criteria it meets, and no other but those that *)
(* name it.                                                                 *)
Quiet == \A a \in Actors : job[a] = NoJob
CriteriaAreMet ==
  Quiet => \A c \in CIs \ unsure : ci[c] # None =>
    Applicable(c) \subseteq has[c] /\ has[c] \subseteq Applicable(c) \cup Explicit(c)

(* A dictionary whose last update did not fail lists what it was given, but *)
(* for metrics deleted since.                                               *)
DictionariesAreWhole ==
  job[Loop] = NoJob => \A d \in Dicts \ unsure : dict[d] # None => has[d] = asked[d]

AssignmentInvariant ==
  TypeOK /\ OneOperationPerMetric /\ RegistryIsClean /\ CriteriaAreMet /\ DictionariesAreWhole
=============================================================================
