------------------------------- MODULE CiGraph -------------------------------
(***************************************************************************)
(* The relations between CIs: single links with the rule that a tunnel ends *)
(* in a hub, the mass operations with their simulation and their limit, and *)
(* the graph that the map shows (services/link_service.py and               *)
(* repositories/topology_repo.py).                                          *)
(*                                                                         *)
(* Every query is a transaction of its own, so that what several workers do *)
(* runs between two queries of a request.  Only CIs are modelled: a filter  *)
(* may also ask for another label.                                          *)
(***************************************************************************)
EXTENDS Integers, FiniteSets

CONSTANTS
  CIs, Layers, Hub, Locations, Rels, Mediums,
  Users, Admin, Allowed,  \* allowed_locations of the users who are not Admin
  Filters,                \* [ids |-> CIs, layer |-> a layer or None, location |-> a location or None]
  Limit,                  \* potential links of a safe simulation
  Requests,               \* the requests that run at once
  MaxRequests, MaxEdits   \* bounds: links' requests, edits of CIs

None == "none"
Idle == [at |-> "idle"]
NoAnswer == [kind |-> "none"]

VARIABLES
  ci,      \* the CIs in the graph, with their layer and location
  edge,    \* <<source, relationship, target>> -> r.medium
  req,     \* a request: what it asks, its next query, what it read, and whether
           \* the graph changed since its first query (stale)
  lost,    \* history: the tunnels whose hub was edited, or that a stale request wrote
  answer,  \* the last answer of a mass creation or of the graph
  requests, edits

vars == <<ci, edge, req, lost, answer, requests, edits>>

Edges == CIs \X Rels \X CIs
Init ==
  /\ ci \in [CIs -> [layer : Layers, loc : Locations]]
  /\ edge = <<>> /\ req = [r \in Requests |-> Idle]
  /\ lost = {} /\ answer = NoAnswer
  /\ requests = 0 /\ edits = 0

-----------------------------------------------------------------------------
(* What a user sees and selects.                                            *)
Scoped(u) == u # Admin
In(u, c) == c \in DOMAIN ci /\ ci[c].loc \in Allowed[u]

(* get_links: either end in the user's locations.                           *)
Listed(u) == {e \in DOMAIN edge : ~Scoped(u) \/ In(u, e[1]) \/ In(u, e[3])}

(* _get_nodes_by_filter: a user without locations is not limited.           *)
Selected(f, u) ==
  {c \in DOMAIN ci :
    /\ IF f.ids # {} THEN c \in f.ids ELSE f.layer \in {None, ci[c].layer}
    /\ Scoped(u) /\ Allowed[u] # {} => In(u, c)}

(* get_cis_relationship_summary: the relations of which c is the source.    *)
AsSource(c, u) == {e \in DOMAIN edge : e[1] = c /\ (Scoped(u) => In(u, c))}

HasHub(e) == \E c \in {e[1], e[3]} : c \in DOMAIN ci /\ ci[c].layer = Hub
BothThere(e) == {e[1], e[3]} \subseteq DOMAIN ci

(* Others notice a change: it makes what they have read stale.              *)
Stale(q) == IF q.at = "idle" \/ <<ci, edge>>' = <<ci, edge>> THEN q ELSE [q EXCEPT !.stale = TRUE]
Moves(r, q) == req' = [s \in Requests |-> IF s = r THEN q ELSE Stale(req[s])]

Arrives(r) == req[r].at = "idle" /\ requests < MaxRequests /\ requests' = requests + 1
Anything(layer) == [ids |-> {}, layer |-> layer, location |-> None]
Ask(kind, at, u, rel) ==
  [at |-> at, kind |-> kind, user |-> u, rel |-> rel, new |-> rel, stale |-> FALSE,
   f |-> Anything(None), g |-> Anything(None), counted |-> 0, warned |-> {},
   src |-> {}, tgt |-> {}, layer |-> None, nodes |-> {}]

(* Graph of the links es after a write; a link keeps its medium if it stays.*)
Linked(es) == [e \in es |-> IF e \in DOMAIN edge THEN edge[e] ELSE None]

-----------------------------------------------------------------------------
(* validate_tunnel_endpoint_hub, then the statement.                        *)
CreateLink(r, e, medium) ==
  /\ Arrives(r)
  /\ medium # None => BothThere(e) /\ HasHub(e)
  /\ UNCHANGED <<ci, edge, lost, answer, edits>>
  /\ Moves(r, [at |-> "write", kind |-> "link", e |-> e, medium |-> medium, stale |-> FALSE])

WriteLink(r) ==
  LET q == req[r] IN
  /\ q.at = "write" /\ q.kind = "link"
  /\ edge' = IF BothThere(q.e)
             THEN [e \in DOMAIN edge \cup {q.e} |->
                     IF e = q.e /\ q.medium # None THEN q.medium ELSE Linked({q.e} \cup DOMAIN edge)[e]]
             ELSE edge
  /\ lost' = IF q.medium = None \/ ~BothThere(q.e) THEN lost
             ELSE IF q.stale THEN lost \cup {q.e} ELSE lost \ {q.e}
  /\ UNCHANGED <<ci, answer, requests, edits>>
  /\ Moves(r, Idle)

DeleteLink(r, e) ==
  /\ Arrives(r)
  /\ edge' = Linked(DOMAIN edge \ {e}) /\ lost' = lost \ {e}
  /\ UNCHANGED <<ci, answer, edits>>
  /\ Moves(r, Idle)

-----------------------------------------------------------------------------
(* simulate_bulk_links counts, execute_bulk_links reads what is there for   *)
(* its warning, and execute_mass_links reads the nodes again.               *)
Simulation(f, g, u) == Cardinality(Selected(f, u)) * Cardinality(Selected(g, u))
LocationsAllowed(f, g, u) ==
  Scoped(u) => \A h \in {f, g} : h.location \in Allowed[u] \cup {None}

MassCreate(r, u, f, g, rel) ==
  /\ Arrives(r)
  /\ LocationsAllowed(f, g, u) /\ Simulation(f, g, u) <= Limit
  /\ UNCHANGED <<ci, edge, lost, answer, edits>>
  /\ Moves(r, [Ask("create", "warn", u, rel) EXCEPT !.f = f, !.g = g, !.counted = Simulation(f, g, u)])

Related(q) == {c \in Selected(q.f, q.user) : \E e \in AsSource(c, q.user) : e[2] = q.rel}
MassWarn(r) ==
  LET q == req[r] IN
  /\ q.at = "warn"
  /\ UNCHANGED <<ci, edge, lost, answer, requests, edits>>
  /\ Moves(r, [q EXCEPT !.at = "read", !.warned = Related(q)])

ReadNodes(r) ==
  LET q == req[r] IN
  /\ q.at = "read"
  /\ UNCHANGED <<ci, edge, lost, answer, requests, edits>>
  /\ Moves(r, [q EXCEPT !.at = "write", !.src = Selected(q.f, q.user), !.tgt = Selected(q.g, q.user)])

(* execute_mass_links: MERGE for every pair of two CIs.                     *)
MassLinks(q) == {e \in q.src \X {q.rel} \X q.tgt : BothThere(e) /\ e[1] # e[3]}
WriteMassLinks(r) ==
  LET q == req[r]
      total == MassLinks(q) IN
  /\ q.at = "write" /\ q.kind = "create"
  /\ edge' = Linked(DOMAIN edge \cup total)
  /\ answer' = [kind |-> "create", user |-> q.user, stale |-> q.stale,
                counted |-> q.counted, warned |-> q.warned,
                total |-> Cardinality(total), created |-> Cardinality(total \ DOMAIN edge)]
  /\ UNCHANGED <<ci, lost, requests, edits>>
  /\ Moves(r, Idle)

(* execute_mass_delete and execute_mass_update: MERGE makes a new relation, *)
(* also when it has the name of the deleted one.                            *)
MassChange(r, u, f, g, kind, rel, new) ==
  /\ Arrives(r)
  /\ UNCHANGED <<ci, edge, lost, answer, edits>>
  /\ Moves(r, [Ask(kind, "read", u, rel) EXCEPT !.f = f, !.g = g, !.new = new])

Matched(q) == {e \in DOMAIN edge : e[1] \in q.src /\ e[2] = q.rel /\ e[3] \in q.tgt}
WriteMassDelete(r) ==
  LET q == req[r] IN
  /\ q.at = "write" /\ q.kind = "delete"
  /\ edge' = Linked(DOMAIN edge \ Matched(q)) /\ lost' = lost \ Matched(q)
  /\ UNCHANGED <<ci, answer, requests, edits>>
  /\ Moves(r, Idle)

WriteMassUpdate(r) ==
  LET q == req[r]
      kept == DOMAIN edge \ Matched(q)
      renamed == {<<e[1], q.new, e[3]>> : e \in Matched(q)} IN
  /\ q.at = "write" /\ q.kind = "update"
  /\ edge' = [e \in kept \cup renamed |-> IF e \in kept THEN edge[e] ELSE None]
  /\ lost' = lost \cap kept
  /\ UNCHANGED <<ci, answer, requests, edits>>
  /\ Moves(r, Idle)

-----------------------------------------------------------------------------
(* get_filtered_graph_data: the nodes, then the links; each condition may   *)
(* be met by another end.                                                   *)
Shown(layer, u) == {c \in Selected(Anything(layer), u) : Scoped(u) => Allowed[u] # {}}
GraphNodes(r, u, layer) ==
  /\ Arrives(r)
  /\ UNCHANGED <<ci, edge, lost, answer, edits>>
  /\ Moves(r, [Ask("graph", "links", u, None) EXCEPT !.layer = layer, !.nodes = Shown(layer, u)])

Conditions(q) == {k \in {"scope", "layer"} : IF k = "scope" THEN Scoped(q.user) ELSE q.layer # None}
Meets(k, q, c) == IF k = "scope" THEN In(q.user, c) ELSE ci[c].layer = q.layer
GraphLinks(r) ==
  LET q == req[r] IN
  /\ q.at = "links"
  /\ answer' = [kind |-> "graph", stale |-> q.stale,
                conditions |-> Cardinality(Conditions(q)), nodes |-> q.nodes,
                links |-> {e \in DOMAIN edge :
                             \A k \in Conditions(q) : Meets(k, q, e[1]) \/ Meets(k, q, e[3])},
                all |-> DOMAIN edge]
  /\ UNCHANGED <<ci, edge, lost, requests, edits>>
  /\ Moves(r, Idle)

-----------------------------------------------------------------------------
(* upsert_node and delete_node, by other routes.                            *)
Edit == edits < MaxEdits /\ edits' = edits + 1
EveryoneNotices == req' = [r \in Requests |-> Stale(req[r])]
UpsertNode(c, layer, loc) ==
  /\ Edit
  /\ ci' = [d \in DOMAIN ci \cup {c} |-> IF d = c THEN [layer |-> layer, loc |-> loc] ELSE ci[d]]
  /\ lost' = lost \cup {e \in DOMAIN edge : c \in {e[1], e[3]} /\ HasHub(e) /\ ~HasHub(e)'}
  /\ UNCHANGED <<edge, answer, requests>> /\ EveryoneNotices

DeleteNode(c) ==
  /\ Edit /\ c \in DOMAIN ci
  /\ ci' = [d \in DOMAIN ci \ {c} |-> ci[d]]
  /\ edge' = Linked({e \in DOMAIN edge : c \notin {e[1], e[3]}})
  /\ lost' = lost \cap DOMAIN edge'
  /\ EveryoneNotices /\ UNCHANGED <<answer, requests>>

Next ==
  \/ \E r \in Requests, e \in Edges :
       DeleteLink(r, e) \/ \E medium \in Mediums \cup {None} : CreateLink(r, e, medium)
  \/ \E r \in Requests, u \in Users, f, g \in Filters, rel \in Rels :
       \/ MassCreate(r, u, f, g, rel)
       \/ MassChange(r, u, f, g, "delete", rel, rel)
       \/ \E new \in Rels : MassChange(r, u, f, g, "update", rel, new)
  \/ \E r \in Requests, u \in Users, layer \in Layers \cup {None} : GraphNodes(r, u, layer)
  \/ \E r \in Requests :
       \/ WriteLink(r) \/ MassWarn(r) \/ ReadNodes(r) \/ GraphLinks(r)
       \/ WriteMassLinks(r) \/ WriteMassDelete(r) \/ WriteMassUpdate(r)
  \/ \E c \in CIs : DeleteNode(c) \/ \E layer \in Layers, loc \in Locations : UpsertNode(c, layer, loc)

Spec == Init /\ [][Next]_vars

-----------------------------------------------------------------------------
TypeOK ==
  /\ DOMAIN ci \subseteq CIs /\ DOMAIN edge \subseteq Edges /\ lost \subseteq DOMAIN edge
  /\ \A e \in DOMAIN edge : edge[e] \in Mediums \cup {None} /\ BothThere(e)
  /\ requests \in 0..MaxRequests /\ edits \in 0..MaxEdits

(* A tunnel ends in a hub, unless the hub was edited afterwards or between  *)
(* the check and the statement: also after mass updates and deletions.      *)
TunnelsHaveHubs == \A e \in DOMAIN edge : edge[e] # None => HasHub(e) \/ e \in lost

(* If nothing changed meanwhile, a mass creation writes no more links than  *)
(* the simulation counted, and does not find links without a warning.       *)
SimulationHolds ==
  answer.kind = "create" /\ ~answer.stale =>
    /\ answer.total <= answer.counted
    /\ answer.created < answer.total /\ (Scoped(answer.user) => Allowed[answer.user] # {}) =>
         answer.warned # {}

(* If nothing changed meanwhile, the graph has every link between two of    *)
(* its nodes, and under one condition only links that touch a node of it.   *)
GraphIsWhole ==
  answer.kind = "graph" /\ ~answer.stale =>
    /\ {e \in answer.all : {e[1], e[3]} \subseteq answer.nodes} \subseteq answer.links
    /\ answer.conditions < 2 => \A e \in answer.links : {e[1], e[3]} \cap answer.nodes # {}

GraphHolds == TypeOK /\ TunnelsHaveHubs /\ SimulationHolds /\ GraphIsWhole

(* A mass request of a user with locations touches only links that the list *)
(* shows this user, before or after it, and it relates no CI to itself that *)
(* was not related to itself.                                               *)
Touched ==
  {e \in DOMAIN edge \cup DOMAIN edge' :
     e \notin DOMAIN edge \/ e \notin DOMAIN edge' \/ edge[e] # edge'[e]}
MassSteps ==
  \A r \in Requests, u \in Users :
       req[r].at = "write" /\ req[r].kind # "link" /\ req[r].user = u /\ req'[r] = Idle =>
         /\ ~req[r].stale /\ (Scoped(u) => Allowed[u] # {}) =>
              Touched \subseteq Listed(u) \cup Listed(u)'
         /\ \A e \in DOMAIN edge' \ DOMAIN edge : e[1] = e[3] =>
              \E d \in DOMAIN edge : d[1] = e[1] /\ d[3] = e[1]
=============================================================================
