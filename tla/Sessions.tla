------------------------------- MODULE Sessions -------------------------------
(***************************************************************************)
(* Refresh tokens of one user (services/auth_service.py, routers/auth.py). *)
(*                                                                         *)
(* Login starts a session with one token; /refresh exchanges a token for a *)
(* new one of the same session, and accepts a rotated one again for a      *)
(* while and a few times; every request with an access token moves the     *)
(* session's activity, written at most once in a throttle window.          *)
(*                                                                         *)
(* A handler's body does not await, so a uvicorn worker runs one request   *)
(* at a time, and the interleavings are those of several workers, between  *)
(* commits.  A tick of the clock is longer than a request.  The policy is  *)
(* the standard one: the operational one has neither idle timeout nor      *)
(* activity.                                                               *)
(***************************************************************************)
EXTENDS Naturals, Sequences, FiniteSets

CONSTANTS
  Workers,        \* uvicorn worker processes
  AllSessions,    \* session ids that logins may draw
  AccessTTL,      \* access_token_minutes
  RefreshTTL,     \* refresh_token_days
  IdleTTL,        \* idle_timeout_minutes
  Grace,          \* stale_rotation_grace_seconds
  MaxRecoveries,  \* stale_rotation_max_recoveries
  Throttle,       \* session_activity_write_throttle_seconds
  MaxTokens,      \* bound on issued refresh tokens
  MaxTime,        \* bound on the clock
  MaxCrashes      \* bound on dying workers

VARIABLES
  now,        \* clock
  token,      \* sequence of refresh_tokens rows, in the order of their ids
  delivered,  \* ids of the tokens that a response has handed to a browser
  access,     \* [AllSessions -> expiry of the latest access token], 0 if none
  seen,       \* [AllSessions -> last request of the session]; history
  active,     \* users.is_active
  cache,      \* [Workers -> [AllSessions -> cached_until]]
  req,        \* [Workers -> the request in progress]
  crashes

vars == <<now, token, delivered, access, seen, active, cache, req, crashes>>

Ids == 1..Len(token)
Idle == [pc |-> "idle"]
Statuses == {"live", "rotated", "logout"}

TypeOK ==
  /\ now \in 0..MaxTime
  /\ \A i \in Ids :
       /\ token[i].session \in AllSessions
       /\ token[i].state \in Statuses
       /\ token[i].created \in 0..now /\ token[i].anchor \in token[i].created..now
       /\ token[i].recoveries \in 0..MaxRecoveries
       /\ token[i].parent \in 0..(i - 1)
  /\ delivered \subseteq Ids
  /\ access \in [AllSessions -> 0..(MaxTime + AccessTTL)]
  /\ active \in BOOLEAN
  /\ cache \in [Workers -> [AllSessions -> 0..(MaxTime + Throttle)]]

Init ==
  /\ now = 1
  /\ token = <<>>
  /\ delivered = {}
  /\ access = [s \in AllSessions |-> 0]
  /\ seen = [s \in AllSessions |-> 0]
  /\ active = TRUE
  /\ cache = [w \in Workers |-> [s \in AllSessions |-> 0]]
  /\ req = [w \in Workers |-> Idle]
  /\ crashes = 0

-----------------------------------------------------------------------------

\* The row that create_refresh_token inserts; parent and via are history.
NewToken(s, p, how) ==
  [session |-> s, state |-> "live", created |-> now, anchor |-> now, rotatedAt |-> 0,
   recoveries |-> 0, parent |-> p, via |-> how]

IdleExpired(t) == now - t.anchor > IdleTTL

(* verify_refresh_token: expiry, idleness, then the reason of revocation.  *)
Verify(t) ==
  CASE t.created + RefreshTTL < now -> "expired"
    [] t.created + RefreshTTL >= now /\ IdleExpired(t) -> "idle_expired"
    [] OTHER ->
         CASE t.state = "live" -> "valid"
           [] t.state = "logout" -> "revoked"
           [] t.state = "rotated" ->
                IF now - t.rotatedAt > Grace \/ t.recoveries >= MaxRecoveries
                THEN "stale_rejected" ELSE "stale_recoverable"

(* Faulty variant of Touched: only the latest token of the session.        *)
TouchedLatest(s) ==
  LET own == {i \in Ids : token[i].session = s}
      last == CHOOSE i \in own : \A j \in own : j <= i
  IN [token EXCEPT ![last].anchor = IF @ + Throttle <= now THEN now ELSE @]

(* The conditional UPDATE of record_session_activity: all tokens of the    *)
(* session whose last activity lies a throttle window back.                *)
Touched(s) ==
  [i \in Ids |->
     IF token[i].session = s /\ token[i].anchor + Throttle <= now
     THEN [token[i] EXCEPT !.anchor = now] ELSE token[i]]

\* record_session_activity by worker w: its cache may skip the statement,
\* and is set whether or not the statement found a row.
RecordActivity(w, s) ==
  IF cache[w][s] > now
  THEN UNCHANGED <<token, cache>>
  ELSE /\ token' = Touched(s)
       /\ cache' = [cache EXCEPT ![w][s] = now + Throttle]

Goto(w, r) == req' = [req EXCEPT ![w] = r]

-----------------------------------------------------------------------------
(* login_for_access_token with the right password.                         *)
Login(s) ==
  /\ active
  /\ Len(token) < MaxTokens
  /\ \A i \in Ids : token[i].session # s
  /\ \E w \in Workers : req[w] = Idle
  /\ token' = Append(token, NewToken(s, 0, "login"))
  /\ delivered' = delivered \cup {Len(token) + 1}
  /\ access' = [access EXCEPT ![s] = now + AccessTTL]
  /\ seen' = [seen EXCEPT ![s] = now]
  /\ UNCHANGED <<now, active, cache, req, crashes>>

(* get_current_user: a request with an access token of session s.          *)
Request(w, s) ==
  /\ req[w] = Idle
  /\ now < access[s]
  /\ seen' = [seen EXCEPT ![s] = now]
  /\ RecordActivity(w, s)
  /\ UNCHANGED <<now, delivered, access, active, req, crashes>>

(* refresh_tokens, up to the check of the user.                            *)
RefreshVerify(w, i) ==
  /\ req[w] = Idle
  /\ i \in delivered
  /\ active
  /\ \/ Verify(token[i]) = "valid" /\ Goto(w, [pc |-> "create", id |-> i, via |-> "valid"])
     \/ Verify(token[i]) = "stale_recoverable"
        /\ Goto(w, [pc |-> "recover", id |-> i, via |-> "stale"])
  /\ UNCHANGED <<now, token, delivered, access, seen, active, cache, crashes>>

(* try_increment_refresh_recovery_count: one UPDATE that compares.         *)
RefreshRecover(w) ==
  /\ req[w].pc = "recover"
  /\ LET i == req[w].id IN
     IF token[i].recoveries < MaxRecoveries
     THEN /\ token' = [token EXCEPT ![i].recoveries = @ + 1]
          /\ Goto(w, [req[w] EXCEPT !.pc = "create"])
     ELSE Goto(w, Idle) /\ UNCHANGED token
  /\ UNCHANGED <<now, delivered, access, seen, active, cache, crashes>>

(* create_refresh_token, committed before the old one is rotated.          *)
RefreshCreate(w) ==
  /\ req[w].pc = "create"
  /\ Len(token) < MaxTokens
  /\ token' = Append(token, NewToken(token[req[w].id].session, req[w].id, req[w].via))
  /\ Goto(w, [pc |-> IF req[w].via = "valid" THEN "rotate" ELSE "answer",
              id |-> req[w].id, new |-> Len(token) + 1])
  /\ UNCHANGED <<now, delivered, access, seen, active, cache, crashes>>

(* rotate_refresh_token: whatever the row says by now.                     *)
RefreshRotate(w) ==
  /\ req[w].pc = "rotate"
  /\ token' = [token EXCEPT ![req[w].id].state = "rotated", ![req[w].id].rotatedAt = now]
  /\ Goto(w, [req[w] EXCEPT !.pc = "answer"])
  /\ UNCHANGED <<now, delivered, access, seen, active, cache, crashes>>

(* The access token, the activity of the session and the response.         *)
RefreshAnswer(w) ==
  /\ req[w].pc = "answer"
  /\ LET s == token[req[w].new].session IN
     /\ access' = [access EXCEPT ![s] = now + AccessTTL]
     /\ seen' = [seen EXCEPT ![s] = now]
     /\ RecordActivity(w, s)
  /\ delivered' = delivered \cup {req[w].new}
  /\ Goto(w, Idle)
  /\ UNCHANGED <<now, active, crashes>>

(* logout: revoke_all_user_refresh_tokens selects the rows ...             *)
LogoutRead(w, s) ==
  /\ req[w] = Idle
  /\ active
  /\ now < access[s]
  /\ seen' = [seen EXCEPT ![s] = now]
  /\ RecordActivity(w, s)
  /\ Goto(w, [pc |-> "logout", ids |-> {i \in Ids : token[i].state = "live"}])
  /\ UNCHANGED <<now, delivered, access, active, crashes>>

(* ... and then writes those.                                              *)
LogoutWrite(w) ==
  /\ req[w].pc = "logout"
  /\ token' = [i \in Ids |-> IF i \in req[w].ids THEN [token[i] EXCEPT !.state = "logout"]
                             ELSE token[i]]
  /\ Goto(w, Idle)
  /\ UNCHANGED <<now, delivered, access, seen, active, cache, crashes>>

(* deactivate_user; nothing activates a user again.                        *)
Deactivate ==
  /\ active
  /\ active' = FALSE
  /\ UNCHANGED <<now, token, delivered, access, seen, cache, req, crashes>>

(* A worker dies and is replaced: request and cache are gone.              *)
Crash(w) ==
  /\ req[w] # Idle
  /\ crashes < MaxCrashes
  /\ crashes' = crashes + 1
  /\ Goto(w, Idle)
  /\ cache' = [cache EXCEPT ![w] = [s \in AllSessions |-> 0]]
  /\ UNCHANGED <<now, token, delivered, access, seen, active>>

Tick ==
  /\ now < MaxTime
  /\ \A w \in Workers : req[w] = Idle
  /\ now' = now + 1
  /\ UNCHANGED <<token, delivered, access, seen, active, cache, req, crashes>>

RefreshStep(w) ==
  RefreshRecover(w) \/ RefreshCreate(w) \/ RefreshRotate(w) \/ RefreshAnswer(w)

Next ==
  \/ Tick
  \/ Deactivate
  \/ \E s \in AllSessions : Login(s)
  \/ \E w \in Workers :
       \/ RefreshStep(w)
       \/ LogoutWrite(w)
       \/ Crash(w)
       \/ \E s \in AllSessions : Request(w, s) \/ LogoutRead(w, s)
       \/ \E i \in Ids : RefreshVerify(w, i)

Spec == Init /\ [][Next]_vars

-----------------------------------------------------------------------------
Children(i, how) == {j \in delivered : token[j].parent = i /\ token[j].via = how}

(* "Single-use rotation": a token is exchanged by at most as many requests *)
(* as run at once, and recovered at most MaxRecoveries times, also when    *)
(* workers race or die between the insert and the rotation.                *)
ExchangesBounded ==
  \A i \in Ids :
    /\ Cardinality(Children(i, "valid")) <= Cardinality(Workers)
    /\ Cardinality(Children(i, "stale")) <= MaxRecoveries

(* The recorded activity of a live token never falls two throttle windows  *)
(* behind the session's last request: worker caches and the condition of   *)
(* the UPDATE may each hide one.  So a session that is used at least every *)
(* IdleTTL - 2 * Throttle is not idle-expired.                             *)
ActivityKept ==
  \A i \in Ids :
    token[i].state = "live" => seen[token[i].session] < token[i].anchor + 2 * Throttle

\* Nothing a browser holds refreshes session s, and no refresh is under way.
Dead(s) ==
  /\ \E i \in delivered : token[i].session = s
  /\ \A i \in delivered :
       token[i].session = s => Verify(token[i]) \notin {"valid", "stale_recoverable"}
  /\ \A w \in Workers : req[w] # Idle /\ req[w].pc # "logout" => token[req[w].id].session # s

\* No request of session s moves the activity of a token that is idle-expired.
OutOfReach(s) == access[s] <= now \/ AccessTTL + 2 * Throttle <= IdleTTL

DeadStaysDead ==
  \A s \in AllSessions : Dead(s) /\ OutOfReach(s) => (Dead(s) /\ OutOfReach(s))'

(* A session that has ended, by idleness, expiry or logout, does not come  *)
(* back once its last access token has expired, although the activity      *)
(* UPDATE of a request looks neither at the state of the tokens nor at     *)
(* their idleness; and not before that either, where the idle timeout      *)
(* outlasts an access token by the two throttle windows that activity may  *)
(* go unrecorded.                                                          *)
DeadIsFinal == [][DeadStaysDead]_vars
=============================================================================
