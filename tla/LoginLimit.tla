------------------------------ MODULE LoginLimit ------------------------------
(***************************************************************************)
(* The counter of failed logins of one identity (middleware/rate_limit.py) *)
(* and the login handler that uses it (routers/auth.py).                   *)
(*                                                                         *)
(* Every helper is a transaction of its own on one row, which it selects   *)
(* FOR UPDATE; only the insertion of a missing row can meet another        *)
(* worker's.  A worker runs one login at a time, without an await between  *)
(* the check and the count.                                                *)
(***************************************************************************)
EXTENDS Naturals, FiniteSets

CONSTANTS
  Workers,     \* uvicorn worker processes
  MaxAttempts, \* MAX_ATTEMPTS
  Lockout,     \* LOCKOUT_DURATION
  Retention,   \* ATTEMPT_RETENTION
  MaxTime      \* bound on the clock

VARIABLES
  now,     \* clock
  row,     \* the rate_limit_attempts row of the identity, or NoRow
  pc,      \* [Workers -> "idle", "verify", "count", "insert", "clear"]
  guesses  \* wrong passwords tried since the row was removed or reset; history

vars == <<now, row, pc, guesses>>

NoRow == [count |-> 0, until |-> 0, updated |-> 0, there |-> FALSE]
NewRow == [count |-> 0, until |-> 0, updated |-> now, there |-> TRUE]

TypeOK ==
  /\ now \in 1..MaxTime
  /\ row \in [count : 0..(MaxAttempts + 1), until : 0..(MaxTime + Lockout),
              updated : 0..now, there : BOOLEAN]
  /\ pc \in [Workers -> {"idle", "verify", "count", "insert", "reselect", "clear"}]
  /\ guesses \in Nat

Init ==
  /\ now = 1
  /\ row = NoRow
  /\ pc = [w \in Workers |-> "idle"]
  /\ guesses = 0

-----------------------------------------------------------------------------

(* _prune_expired_attempts: expired locks, and old counters without one.   *)
Pruned(r) ==
  IF r.there /\ (IF r.until > 0 THEN r.until <= now ELSE r.updated + Retention < now)
  THEN NoRow ELSE r

(* increment_attempts on the row it holds: a lock is not extended.         *)
Counted(r) ==
  IF r.until > now THEN r
  ELSE LET n == 1 + (IF r.until > 0 THEN 0 ELSE r.count) IN
       [r EXCEPT !.count = n, !.updated = now,
                 !.until = IF n > MaxAttempts THEN now + Lockout ELSE 0]

Store(r) ==
  /\ row' = r
  /\ guesses' = IF r.there THEN guesses ELSE 0

Goto(w, l) == pc' = [pc EXCEPT ![w] = l]

-----------------------------------------------------------------------------
(* check_rate_limit: a locked identity is turned away (429).               *)
Check(w) ==
  /\ pc[w] = "idle"
  /\ Store(Pruned(row))
  /\ IF row'.until > now THEN UNCHANGED pc ELSE Goto(w, "verify")
  /\ UNCHANGED now

(* verify_password: wrong, right, or right for an inactive user (400).     *)
Verify(w) ==
  /\ pc[w] = "verify"
  /\ \/ Goto(w, "count") /\ guesses' = guesses + 1
     \/ Goto(w, "clear") /\ UNCHANGED guesses
     \/ Goto(w, "idle") /\ UNCHANGED guesses
  /\ UNCHANGED <<now, row>>

(* increment_attempts finds the row, or none.                              *)
Increment(w) ==
  /\ pc[w] = "count"
  /\ LET r == Pruned(row) IN
     IF r.there
     THEN Store(Counted(r)) /\ Goto(w, "idle")
     ELSE Store(r) /\ Goto(w, "insert")
  /\ UNCHANGED now

(* _create_locked_attempt: the row of a faster worker raises               *)
(* IntegrityError, and is selected again after a rollback.                 *)
Insert(w) ==
  /\ pc[w] = "insert"
  /\ IF row.there
     THEN Goto(w, "reselect") /\ UNCHANGED row
     ELSE Goto(w, "idle") /\ row' = Counted(NewRow)
  /\ UNCHANGED <<now, guesses>>

(* If that row is gone in turn, the error goes on and the guess of this    *)
(* request is not counted.                                                 *)
Reselect(w) ==
  /\ pc[w] = "reselect"
  /\ row' = IF row.there THEN Counted(row) ELSE row
  /\ guesses' = IF row.until \in 1..now THEN 1 ELSE guesses
  /\ Goto(w, "idle")
  /\ UNCHANGED now

(* clear_attempts after the right password, whatever the row says by now.  *)
Clear(w) ==
  /\ pc[w] = "clear"
  /\ Store(NoRow)
  /\ Goto(w, "idle")
  /\ UNCHANGED now

Tick ==
  /\ now < MaxTime
  /\ now' = now + 1
  /\ UNCHANGED <<row, pc, guesses>>

Next ==
  \/ Tick
  \/ \E w \in Workers :
       Check(w) \/ Verify(w) \/ Increment(w) \/ Insert(w) \/ Reselect(w)
       \/ Clear(w)

Spec == Init /\ [][Next]_vars

-----------------------------------------------------------------------------
(* Between two resets of the counter no more wrong passwords are tried than  *)
(* MaxAttempts and one for each worker: a lock begins with the failure     *)
(* after MaxAttempts ("After 3 consecutive failed attempts"), logins that  *)
(* passed the check before may still guess, and a lost race for the first  *)
(* row loses no count.                                                     *)
GuessesBounded == guesses <= MaxAttempts + Cardinality(Workers)

(* A lock runs its full time and no longer, unless a login that had passed *)
(* the check before it succeeds: neither later failures nor the pruning    *)
(* move its end.                                                           *)
LockKeepsItsEnd ==
  [][row.until > now => row'.until = row.until \/ \E w \in Workers : pc[w] = "clear"]_vars
=============================================================================
