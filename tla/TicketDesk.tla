------------------------------ MODULE TicketDesk ------------------------------
(***************************************************************************)
(* Tickets, the services they are about and the users they go to.          *)
(*                                                                         *)
(* Users are rows of Postgres; services, tickets and the number of the     *)
(* last ticket are nodes of Neo4j.  A worker (a process of the API: within  *)
(* one, handlers do not interleave) takes a request through its statements, *)
(* each of which is a step.  create_ticket_folio looks at the service,      *)
(* takes the advisory lock of the assignee, reads its row and creates the   *)
(* ticket in one statement that looks at the service again;                 *)
(* update_ticket_folio reads the ticket, looks at the new service, sets     *)
(* what the request names and moves the relation in another transaction.    *)
(* deactivate_user takes no lock.                                           *)
(*                                                                         *)
(* The two workbook imports are left out: parse_ticket_workbook asks the    *)
(* user repository without a session and bulk_create leaves two parameters  *)
(* of its statement out, so that neither gets as far as a write.            *)
(***************************************************************************)
EXTENDS Naturals, Sequences, FiniteSets

CONSTANTS
  Workers, Users, Services,
  Moves,         \* the statuses that updates ask for
  MaxTickets, MaxChanges, MaxFailures

Order == <<"open", "in_progress", "in_validation", "resolved", "closed">>
Types == {"incident", "service_request"}
None == "none"                     \* no such row, a field not given
Null == "null"                     \* a field given as null
Idle == [op |-> "idle"]

VARIABLES
  user,       \* user[u]: None, "active" or "inactive"
  service,    \* service[s]: type and active of the node
  tickets,    \* tickets[i]: the ticket with number i; TicketSequence is Len(tickets)
  lock,       \* lock[u]: the worker whose session holds u's advisory lock
  req,        \* req[w]: the request of w and the statement it is at
  overtaken,  \* history: tickets written while another update had read them
  changes, failures

vars == <<user, service, tickets, lock, req, overtaken, changes, failures>>
admin == <<user, service>>

Init ==
  /\ user = [u \in Users |-> "active"]
  /\ service = [s \in Services |-> [type |-> "incident", active |-> TRUE]]
  /\ tickets = <<>>
  /\ lock = [u \in Users |-> None]
  /\ req = [w \in Workers |-> Idle]
  /\ overtaken = {}
  /\ changes = 0 /\ failures = 0

-----------------------------------------------------------------------------
(* Users and services.                                                     *)

Change == changes < MaxChanges /\ changes' = changes + 1 /\ UNCHANGED <<tickets, lock, req, overtaken, failures>>

(* create_user, deactivate_user, delete_user: one transaction each.        *)
ChangeUser(u) ==
  /\ \/ user[u] = None /\ user' = [user EXCEPT ![u] = "active"]
     \/ user[u] = "active" /\ user' = [user EXCEPT ![u] = "inactive"]
     \/ user[u] # None /\ user' = [user EXCEPT ![u] = None]
  /\ Change /\ UNCHANGED service

\* Faulty variant of UpdateService: the type is set like any other field.
UpdateServiceTyped(s, t) ==
  /\ service[s].type # None
  /\ \E a \in BOOLEAN : service' = [service EXCEPT ![s] = [type |-> t, active |-> a]]
  /\ Change /\ UNCHANGED user

\* update_service_catalog and deactivate: a type is accepted if it is the old one.
UpdateService(s, t) ==
  /\ service[s].type = t
  /\ \E a \in BOOLEAN : service' = [service EXCEPT ![s].active = a]
  /\ Change /\ UNCHANGED user

\* create_service_catalog: the statement creates nothing when the id is taken.
CreateService(s, t) ==
  /\ service[s].type = None
  /\ service' = [service EXCEPT ![s] = [type |-> t, active |-> TRUE]]
  /\ Change /\ UNCHANGED user

-----------------------------------------------------------------------------
(* Creating a ticket.                                                      *)

Usable(s, t) == service[s].active /\ service[s].type = t
Goto(w, pc) == req' = [req EXCEPT ![w].pc = pc]
Quiet == UNCHANGED <<user, service, changes>>
Reading == Quiet /\ UNCHANGED overtaken

\* _check_catalog_exists
BeginCreate(w, t, s, u) ==
  /\ req[w] = Idle /\ Usable(s, t) /\ Len(tickets) < MaxTickets
  /\ req' = [req EXCEPT ![w] = [op |-> "create", type |-> t, service |-> s, user |-> u, pc |-> "lock"]]
  /\ Reading /\ UNCHANGED <<tickets, lock, failures>>

\* acquire_user_lock
TakeLock(w) ==
  /\ req[w].op = "create" /\ req[w].pc = "lock" /\ lock[req[w].user] = None
  /\ lock' = [lock EXCEPT ![req[w].user] = w]
  /\ Goto(w, "user")
  /\ Reading /\ UNCHANGED <<tickets, failures>>

\* get_by_username; a user who is not there or not active is an HTTP error.
ReadUser(w) ==
  /\ req[w].op = "create" /\ req[w].pc = "user"
  /\ Goto(w, IF user[req[w].user] = "active" THEN "write" ELSE "close")
  /\ Reading /\ UNCHANGED <<tickets, lock, failures>>

Ticket(r) == [type |-> r.type, status |-> "open", service |-> r.service, relation |-> r.service,
              archived |-> FALSE, reason |-> FALSE]

(* _CREATE_TICKET_FOLIO_QUERY: number, ticket and relation in one           *)
(* statement, or an error when the service is not usable (any more).        *)
WriteTicket(w) ==
  /\ req[w].op = "create" /\ req[w].pc = "write"
  /\ IF Usable(req[w].service, req[w].type)
        THEN tickets' = Append(tickets, Ticket(req[w]))
        ELSE UNCHANGED tickets
  /\ Goto(w, "close")
  /\ Reading /\ UNCHANGED <<lock, failures>>

\* session.close(), in the finally clause.
Close(w) ==
  /\ req[w].op = "create" /\ req[w].pc = "close"
  /\ lock' = [lock EXCEPT ![req[w].user] = None]
  /\ req' = [req EXCEPT ![w] = Idle]
  /\ Reading /\ UNCHANGED <<tickets, failures>>

-----------------------------------------------------------------------------
(* Updating a ticket.                                                      *)

Follows(next, status) ==
  \E k \in 1 .. Len(Order) - 1 : Order[k] = status /\ Order[k + 1] = next

(* What update_ticket_folio accepts of a ticket as it reads it.  A null     *)
(* status passes, since it is taken for one that was not given; a reason may *)
(* be given without a status, and empty, but not to close the ticket.       *)
BeginUpdate(w, i, move, s, why) ==
  LET t == tickets[i] IN
  /\ req[w] = Idle /\ i \in DOMAIN tickets /\ <<move, s, why>> # <<None, None, None>>
  /\ t.status # "closed"
  /\ move \in {None, Null} \/ Follows(move, t.status)
  /\ move = "closed" => why = "text"
  /\ req' = [req EXCEPT ![w] = [op |-> "update", ticket |-> i, move |-> move, service |-> s, why |-> why,
                                pc |-> IF s = None THEN "set" ELSE "check"]]
  /\ Reading /\ UNCHANGED <<tickets, lock, failures>>

\* _check_catalog_exists, with the type of the ticket; otherwise an HTTP error.
CheckService(w) ==
  /\ req[w].op = "update" /\ req[w].pc = "check"
  /\ IF Usable(req[w].service, tickets[req[w].ticket].type)
        THEN Goto(w, "set") ELSE req' = [req EXCEPT ![w] = Idle]
  /\ Reading /\ UNCHANGED <<tickets, lock, failures>>

Given(new, old) == IF new = None THEN old ELSE new
Reasoned(r, old) == IF r.why = None THEN old ELSE r.why = "text"
Updated(t, r) ==
  [t EXCEPT !.status = Given(r.move, @), !.service = Given(r.service, @),
            !.archived = @ \/ r.move = "closed", !.reason = Reasoned(r, @)]

\* The update of r has read ticket i and not written it yet.
HasRead(r, i) == r.op = "update" /\ r.pc \in {"check", "set"} /\ r.ticket = i

\* TicketFolioRepository.update: SET of what is given, whatever the ticket is now.
SetTicket(w) ==
  LET i == req[w].ticket IN
  /\ req[w].op = "update" /\ req[w].pc = "set"
  /\ tickets' = [tickets EXCEPT ![i] = Updated(@, req[w])]
  /\ IF req[w].service = None THEN req' = [req EXCEPT ![w] = Idle] ELSE Goto(w, "sync")
  /\ overtaken' = overtaken \union {k \in {i} : \E v \in Workers \ {w} : HasRead(req[v], k)}
  /\ Quiet /\ UNCHANGED <<lock, failures>>

\* sync_service_relationship
SyncRelation(w) ==
  /\ req[w].op = "update" /\ req[w].pc = "sync"
  /\ tickets' = [tickets EXCEPT ![req[w].ticket].relation = req[w].service]
  /\ req' = [req EXCEPT ![w] = Idle]
  /\ Reading /\ UNCHANGED <<lock, failures>>

-----------------------------------------------------------------------------
Failing(w) == failures < MaxFailures /\ failures' = failures + 1 /\ req[w] # Idle /\ Reading /\ UNCHANGED tickets

\* A statement raises: the exception goes up, through the finally of create.
Fail(w) ==
  /\ Failing(w) /\ UNCHANGED lock
  /\ IF req[w].op = "create" /\ req[w].pc # "lock" THEN Goto(w, "close") ELSE req' = [req EXCEPT ![w] = Idle]

\* The worker dies; Postgres ends its session.
Crash(w) ==
  /\ Failing(w) /\ req' = [req EXCEPT ![w] = Idle]
  /\ lock' = [u \in Users |-> IF lock[u] = w THEN None ELSE lock[u]]

Create(w) ==
  \/ \E t \in Types, s \in Services, u \in Users : BeginCreate(w, t, s, u)
  \/ TakeLock(w) \/ ReadUser(w) \/ WriteTicket(w) \/ Close(w)

Update(w) ==
  \/ \E i \in 1 .. MaxTickets, move \in Moves \union {None}, s \in Services \union {None},
       why \in {None, "empty", "text"} :
        BeginUpdate(w, i, move, s, why)
  \/ CheckService(w) \/ SetTicket(w) \/ SyncRelation(w)

Next ==
  \/ \E u \in Users : ChangeUser(u)
  \/ \E s \in Services, t \in Types : UpdateService(s, t) \/ CreateService(s, t)
  \/ \E w \in Workers : Create(w) \/ Update(w) \/ Fail(w) \/ Crash(w)

Spec == Init /\ [][Next]_vars

-----------------------------------------------------------------------------
TypeOK ==
  /\ user \in [Users -> {None, "active", "inactive"}]
  /\ service \in [Services -> [type : Types \union {None}, active : BOOLEAN]]
  /\ \A i \in DOMAIN tickets :
       tickets[i] \in [type : Types, status : {Order[k] : k \in DOMAIN Order} \union {Null},
                       service : Services, relation : Services, archived : BOOLEAN, reason : BOOLEAN]
  /\ lock \in [Users -> Workers \union {None}]
  /\ overtaken \subseteq 1 .. Len(tickets)
  /\ changes \in 0 .. MaxChanges /\ failures \in 0 .. MaxFailures

(* A ticket and the service it names, and the one it is related to, are of  *)
(* one type, although the service is checked before the write and the       *)
(* catalogue goes on changing.                                              *)
TypesAgree ==
  \A i \in DOMAIN tickets :
    LET t == tickets[i] IN service[t.service].type = t.type /\ service[t.relation].type = t.type

\* No lock outlives the request that took it.
LocksAreInUse ==
  \A u \in Users : lock[u] # None => req[lock[u]].op = "create" /\ req[lock[u]].user = u

(* A closed ticket is archived, whoever updates it beside, and has a reason  *)
(* unless an update that had read it was overtaken by another write of it.   *)
ClosedIsArchived ==
  \A i \in DOMAIN tickets :
    tickets[i].status = "closed" => tickets[i].archived /\ (tickets[i].reason \/ i \in overtaken)

(* A ticket is created for a service that is active at that moment, although *)
(* it was looked at before the wait for the lock.                            *)
CreatedOnActive ==
  \A i \in DOMAIN tickets' \ DOMAIN tickets : service[tickets'[i].service].active

(* As long as no update of it was overtaken, a ticket moves one step forward *)
(* at a time (but for a null status), and nothing changes a closed one but   *)
(* the end of its own closing.                                               *)
MovesForward ==
  \A i \in DOMAIN tickets \ overtaken' :
    LET old == tickets[i].status  new == tickets'[i].status IN
    /\ old # new => new = Null \/ Follows(new, old)
    /\ old = "closed" => tickets'[i] = [tickets[i] EXCEPT !.relation = tickets'[i].relation]

DeskHolds == TypeOK /\ TypesAgree /\ LocksAreInUse /\ ClosedIsArchived
DeskSteps == CreatedOnActive /\ MovesForward
=============================================================================
