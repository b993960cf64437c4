------------------------------ MODULE PruneLock ------------------------------
(***************************************************************************)
(* The distributed prune lock: the single row of the table prune_lock, and *)
(* the runs that close RECOVERED events (services/event_service.py,        *)
(* routers/events.py).                                                     *)
(*                                                                         *)
(* acquire_prune_lock is a loop of statements under READ COMMITTED, each   *)
(* of which sees the row as it is then: INSERT .. ON CONFLICT DO NOTHING,  *)
(* SELECT, and UPDATE (the owner's own row) or DELETE (an expired row).    *)
(* Time is what is left until expires_at.                                  *)
(***************************************************************************)
EXTENDS Naturals

CONSTANTS
  Runs,           \* callers: SSE streams, the scheduled job, POST /events/prune
  Kind,           \* [Runs -> "stream", "scheduler" or "manual"]
  Owners,         \* user names, and "scheduler"
  Owner,          \* [Runs -> Owners]
  NoOwner,        \* the table is empty
  TTL,            \* ttl_seconds
  MaxAttempts,    \* max_attempts
  MaxCrashes      \* how many runs may die

ASSUME RunAssumption ==
  /\ Kind \in [Runs -> {"stream", "scheduler", "manual"}]
  /\ Owner \in [Runs -> Owners]
  /\ NoOwner \notin Owners
ASSUME BoundAssumption ==
  /\ TTL \in Nat \ {0}
  /\ MaxAttempts \in Nat \ {0}
  /\ MaxCrashes \in Nat

VARIABLES
  rowOwner,   \* owner column of the row, NoOwner when there is no row
  rowLeft,    \* what is left until expires_at, 0 once it has passed
  pc,         \* [Runs -> control point]
  tries,      \* [Runs -> _attempt, from 1]
  crashes,    \* runs that died so far
  exposed     \* history: live runs that lost the protection of the row, see
              \* ExtendRow, FinishPruning and Tick

row == <<rowOwner, rowLeft>>
vars == <<row, pc, tries, crashes, exposed>>

-----------------------------------------------------------------------------
CallPoints == {"insert", "select", "extend", "expire"}

TypeOK ==
  /\ rowOwner \in Owners \cup {NoOwner}
  /\ rowLeft \in 0 .. TTL
  /\ pc \in [Runs -> CallPoints \cup {"idle", "granted", "pruning"}]
  /\ tries \in [Runs -> 1 .. MaxAttempts]
  /\ crashes \in 0 .. MaxCrashes
  /\ exposed \subseteq Runs

Init ==
  /\ rowOwner = NoOwner
  /\ rowLeft = 0
  /\ pc = [r \in Runs |-> "idle"]
  /\ tries = [r \in Runs |-> 1]
  /\ crashes = 0
  /\ exposed = {}

Goto(r, point) == pc' = [pc EXCEPT ![r] = point]

\* The live runs that the row is for.
Live(o) == {r \in Runs : pc[r] \in {"granted", "pruning"} /\ Kind[r] # "manual" /\ Owner[r] = o}

-----------------------------------------------------------------------------
(* acquire_prune_lock.                                                     *)

CallAcquire(r) ==
  /\ pc[r] = "idle"
  /\ Kind[r] # "manual"
  /\ Goto(r, "insert")
  /\ tries' = [tries EXCEPT ![r] = 1]
  /\ UNCHANGED <<row, crashes, exposed>>

(* Faulty variant of InsertRow: ON CONFLICT DO UPDATE.                     *)
InsertOrTakeOver(r) ==
  /\ pc[r] = "insert"
  /\ rowOwner' = Owner[r]
  /\ rowLeft' = TTL
  /\ Goto(r, "granted")
  /\ UNCHANGED <<tries, crashes, exposed>>

InsertRow(r) ==
  /\ pc[r] = "insert"
  /\ IF rowOwner = NoOwner
     THEN /\ rowOwner' = Owner[r]
          /\ rowLeft' = TTL
          /\ Goto(r, "granted")
     ELSE Goto(r, "select") /\ UNCHANGED row
  /\ UNCHANGED <<tries, crashes, exposed>>

\* The loop goes round again, or the attempts are exhausted: the caller is told
\* FALSE, which is HTTP 409 for a stream and a skipped tick for the scheduler.
TryAgain(r) ==
  IF tries[r] < MaxAttempts
  THEN Goto(r, "insert") /\ tries' = [tries EXCEPT ![r] = @ + 1]
  ELSE Goto(r, "idle") /\ UNCHANGED tries

(* Faulty variant of SelectRow: expires_at is not compared with the clock. *)
SelectIgnoringExpiry(r) ==
  /\ pc[r] = "select"
  /\ UNCHANGED <<row, crashes, exposed>>
  /\ \/ rowOwner = NoOwner /\ TryAgain(r)
     \/ rowOwner = Owner[r] /\ Goto(r, "extend") /\ UNCHANGED tries
     \/ rowOwner \notin {NoOwner, Owner[r]} /\ Goto(r, "idle") /\ UNCHANGED tries

SelectRow(r) ==
  /\ pc[r] = "select"
  /\ UNCHANGED <<row, crashes, exposed>>
  /\ \/ rowOwner = NoOwner /\ TryAgain(r)
     \/ rowOwner = Owner[r] /\ Goto(r, "extend") /\ UNCHANGED tries
     \/ /\ rowOwner \notin {NoOwner, Owner[r]}
        /\ Goto(r, IF rowLeft = 0 THEN "expire" ELSE "idle")
        /\ UNCHANGED tries

(* UPDATE .. WHERE owner = :owner, and TRUE whatever it updated; the row    *)
(* the caller has read may be gone by then.                                *)
ExtendRow(r) ==
  /\ pc[r] = "extend"
  /\ rowLeft' = IF rowOwner = Owner[r] THEN TTL ELSE rowLeft
  /\ Goto(r, "granted")
  /\ exposed' = IF rowOwner = Owner[r] THEN exposed ELSE exposed \cup {r}
  /\ UNCHANGED <<rowOwner, tries, crashes>>

(* Faulty variant of DeleteExpired: DELETE without its condition.          *)
DeleteAnyway(r) ==
  /\ pc[r] = "expire"
  /\ rowOwner' = NoOwner
  /\ TryAgain(r)
  /\ UNCHANGED <<rowLeft, crashes, exposed>>

(* DELETE .. WHERE expires_at < :now.                                      *)
DeleteExpired(r) ==
  /\ pc[r] = "expire"
  /\ rowOwner' = IF rowLeft = 0 THEN NoOwner ELSE rowOwner
  /\ TryAgain(r)
  /\ UNCHANGED <<rowLeft, crashes, exposed>>

-----------------------------------------------------------------------------
(* Runs.                                                                   *)

StartPruning(r) ==
  /\ pc[r] = "granted"
  /\ Goto(r, "pruning")
  /\ UNCHANGED <<row, tries, crashes, exposed>>

(* POST /events/prune closes all recovered events without asking for the lock. *)
StartManual(r) ==
  /\ pc[r] = "idle"
  /\ Kind[r] = "manual"
  /\ Goto(r, "pruning")
  /\ UNCHANGED <<row, tries, crashes, exposed>>

(* The stream endpoint refuses its batch_size parameter, or nobody reads    *)
(* the response: the generator, whose finally releases the row, never runs. *)
AbandonStream(r) ==
  /\ pc[r] = "granted"
  /\ Kind[r] = "stream"
  /\ Goto(r, "idle")
  /\ exposed' = exposed \ {r}
  /\ UNCHANGED <<row, tries, crashes>>

(* The prune is over, or failed: release_prune_lock, in the finally        *)
(* clause, deletes the row if it has the caller's name, which may be the   *)
(* row of another stream of the same user.                                 *)
FinishPruning(r) ==
  /\ pc[r] = "pruning"
  /\ Goto(r, "idle")
  /\ IF Kind[r] # "manual" /\ rowOwner = Owner[r]
     THEN /\ rowOwner' = NoOwner /\ rowLeft' = 0
          /\ exposed' = (exposed \cup Live(Owner[r])) \ {r}
     ELSE exposed' = exposed \ {r} /\ UNCHANGED row
  /\ UNCHANGED <<tries, crashes>>

(* The backend process dies.                                               *)
Crash(r) ==
  /\ pc[r] # "idle"
  /\ crashes < MaxCrashes
  /\ crashes' = crashes + 1
  /\ Goto(r, "idle")
  /\ exposed' = exposed \ {r}
  /\ UNCHANGED <<row, tries>>

(* The clock: a run may outlive its row.                                   *)
Tick ==
  /\ rowLeft > 0
  /\ rowLeft' = rowLeft - 1
  /\ exposed' = IF rowLeft = 1 THEN exposed \cup Live(rowOwner) ELSE exposed
  /\ UNCHANGED <<rowOwner, pc, tries, crashes>>

RunStep(r) ==
  \/ CallAcquire(r)
  \/ InsertRow(r)
  \/ SelectRow(r)
  \/ ExtendRow(r)
  \/ DeleteExpired(r)
  \/ StartPruning(r)
  \/ StartManual(r)
  \/ FinishPruning(r)

Next == Tick \/ \E r \in Runs : RunStep(r) \/ AbandonStream(r) \/ Crash(r)

Spec == Init /\ [][Next]_vars

(* The scheduled job comes back every interval and the clock runs; streams *)
(* need not come, nor come to an end.                                      *)
FairSpec ==
  /\ Spec
  /\ WF_vars(Tick)
  /\ \A r \in Runs : Kind[r] = "scheduler" => WF_vars(RunStep(r))

-----------------------------------------------------------------------------
(* Properties.                                                             *)

(* models/prune_lock.py: only one prune operation can run at a time across *)
(* all operators; of those that ask for the lock, as the manual prune does *)
(* not.  Two runs are in it at once only if they are of one user, or one   *)
(* of them has outlived its row, extended a row that was gone, or had it   *)
(* released by another run of its user.                                    *)
OnePruner ==
  \A q, r \in Runs :
    /\ pc[q] = "pruning" /\ Kind[q] # "manual"
    /\ pc[r] = "pruning" /\ Kind[r] # "manual"
    => Owner[q] = Owner[r] \/ q \in exposed \/ r \in exposed

(* A live run is protected by its own row from the grant to its end: no    *)
(* clean-up or release of another user takes away a row that is not        *)
(* expired, and no attempt to get the lock does.                           *)
GrantHasRow ==
  \A r \in Runs :
    pc[r] \in {"granted", "pruning"} /\ Kind[r] # "manual" /\ r \notin exposed
      => rowOwner = Owner[r] /\ rowLeft > 0

\* The row is there and the run that it was for is gone.
Abandoned(o) == rowOwner = o /\ \A r \in Runs : Owner[r] = o => pc[r] = "idle"

(* A row that its run left behind does not block pruning for ever: it      *)
(* expires, and the scheduled job or a stream takes over.                  *)
AbandonedIsTakenOver == \A o \in Owners : Abandoned(o) ~> ~Abandoned(o)
=============================================================================
