--------------------------- MODULE Services_proofs ---------------------------
(***************************************************************************)
(* Proofs about the services: for each one the inductive invariant, its     *)
(* preservation step by step, and what follows from it; then, at the end,   *)
(* the properties of all of them together.  A definition of a service's     *)
(* module carries the name of its instance.                                 *)
(***************************************************************************)
EXTENDS Services, FiniteSetTheorems, TLAPS

-----------------------------------------------------------------------------
(* MqttStatus: what is reported                                             *)

Up == loop \in {"waiting", "dispatching"}

Columns ==
  /\ loop \in Status!States /\ connected \in BOOLEAN /\ lost \in BOOLEAN
  /\ reason \in {"none", "SHUTDOWN", "MQTT_SUBSCRIBER_CONNECTION_ERROR"}

\* The interval and one dispatch at most keep a heartbeat waiting; the row is
\* never younger than the connection.
Times ==
  /\ age \in 0 .. Stale + 1 /\ gone \in 0 .. Stale + 1
  /\ silent \in 0 .. Status!HeartbeatInterval + MaxDispatch /\ busy \in 0 .. MaxDispatch
  /\ backoff \in 1 .. MaxBackoff /\ wait \in 0 .. MaxBackoff
  /\ Up => gone = 0
  /\ gone <= age
  /\ loop = "waiting" => silent <= Status!HeartbeatInterval
  /\ loop = "dispatching" => silent <= Status!HeartbeatInterval + busy

\* A row whose last write was accepted is as old as the last heartbeat.
Beating == Columns /\ Times /\ (Up /\ ~lost => connected) /\ (Up /\ ~lost => age <= silent)

\* A heartbeat that is due is written before the row is stale, whatever the
\* loop does.
LEMMA StatusStep ==
  ASSUME HeartbeatsFit, Beating, [Status!Next]_Status!vars
  PROVE  Beating'
<1> Status!HeartbeatInterval \in Nat
  BY DEF HeartbeatsFit, Status!HeartbeatInterval
<1> USE DEF HeartbeatsFit, Beating, Columns, Up, Status!States
<1>1. ASSUME Status!Start \/ Status!TakeMessage \/ Status!Crash \/ Status!Tick \/ UNCHANGED Status!vars
      PROVE  Beating'
  <2> USE <1>1 DEF Status!Start, Status!TakeMessage, Status!Crash, Status!Tick, Status!vars
  <2>1. UNCHANGED <<connected, lost, reason>>
    OBVIOUS
  <2>2. Columns' /\ (Up' /\ ~lost' => connected')
    <3>1. loop' \in Status!States /\ (Up' => Up)
      OBVIOUS
    <3> QED BY <2>1, <3>1
  <2>3. Times' /\ (Up' => Up /\ (age <= silent => age' <= silent'))
    BY DEF Times
  <2> QED BY <2>1, <2>2, <2>3
<1>2. ASSUME Status!Connect \/ Status!HeartbeatTimeout \/ Status!EndDispatch PROVE Beating'
  <2> USE <1>2 DEF Status!Connect, Status!HeartbeatTimeout, Status!EndDispatch
  <2>1. Status!RecordHeartbeat /\ silent' = 0 /\ loop' = "waiting"
    BY DEF Status!RecordHeartbeat
  <2>2. age' \in {0, age}
    BY <2>1 DEF Status!RecordHeartbeat, Status!Refused
  <2>3. Times'
    BY <2>1, <2>2 DEF Times
  <2>4. CASE connected' = TRUE /\ reason' = "none" /\ age' = 0 /\ lost' = FALSE
    <3>1. age' <= silent'
      BY <2>1, <2>4
    <3>2. Columns'
      BY <2>1, <2>4
    <3>3. Up' /\ ~lost' => connected'
      BY <2>4
    <3> QED BY <2>3, <3>1, <3>2, <3>3
  <2>5. CASE Status!Refused
    BY <2>1, <2>3, <2>5 DEF Status!Refused
  <2> QED BY <2>1, <2>4, <2>5 DEF Status!RecordHeartbeat
<1>3. ASSUME Status!LoseConnection \/ Status!Shutdown PROVE Beating'
  <2>1. PICK code \in {"SHUTDOWN", "MQTT_SUBSCRIBER_CONNECTION_ERROR"} : Status!RecordDisconnect(code)
    BY <1>3 DEF Status!LoseConnection, Status!Shutdown
  <2>2. UNCHANGED age
    BY <2>1 DEF Status!RecordDisconnect, Status!Refused
  <2>3. Times' /\ ~Up' /\ loop' \in Status!States
    BY <1>3, <2>2 DEF Status!LoseConnection, Status!Shutdown, Times
  <2>4. CASE connected' = FALSE /\ reason' = code /\ lost' = FALSE
    BY <2>3, <2>4
  <2>5. CASE Status!Refused
    BY <2>3, <2>5 DEF Status!Refused
  <2> QED BY <2>1, <2>4, <2>5 DEF Status!RecordDisconnect
<1> QED BY <1>1, <1>2, <1>3 DEF Status!Next

\* Before the first heartbeat the row is stale and says so.
LEMMA StatusInit == ASSUME HeartbeatsFit, Status!Init PROVE Beating
<1> Status!HeartbeatInterval \in Nat
  BY DEF HeartbeatsFit, Status!HeartbeatInterval
<1>1. Times
  BY DEF HeartbeatsFit, Status!Init, Times, Up
<1>2. Columns /\ ~Up
  BY DEF Status!Init, Columns, Up, Status!States
<1> QED BY <1>1, <1>2 DEF Beating

\* What the row says follows from when the loop wrote it last.
LEMMA StatusHolds ==
  ASSUME HeartbeatsFit, Beating
  PROVE  Status!TypeOK /\ Status!LiveIsReported /\ Status!ReportIsRecent
<1> Status!HeartbeatInterval \in Nat
  BY DEF HeartbeatsFit, Status!HeartbeatInterval
<1>1. Status!TypeOK
  BY DEF Beating, Columns, Times, Status!TypeOK
<1>2. Up => (age <= silent => age <= Stale)
  BY DEF HeartbeatsFit, Beating, Times, Up
<1>3. Status!LiveIsReported
  BY <1>2 DEF Beating, Status!LiveIsReported, Status!Reported, Up
<1>4. age <= Stale => gone <= Stale
  BY DEF HeartbeatsFit, Beating, Times
<1> QED BY <1>1, <1>3, <1>4 DEF Status!ReportIsRecent, Status!Reported

-----------------------------------------------------------------------------
(* LoginLimit                                                               *)

\* The instance counts as FiniteSets does.
LEMMA LoginCount == \A S : Login!Cardinality(S) = Cardinality(S)
BY DEF Login!Cardinality, Cardinality

Steps == {"idle", "verify", "count", "insert", "reselect", "clear"}

Standing(L) == {w \in Workers : lPc[w] \in L}
Guessed == {"count", "insert", "reselect"}

RowOK ==
  /\ row.count \in Nat /\ row.count <= MaxAttempts + 1
  /\ row.until \in Nat /\ row.until <= LoginTime + Lockout
  /\ row.updated \in Nat /\ row.updated <= lNow
  /\ row.there \in BOOLEAN
  /\ row \in [count : Nat, until : Nat, updated : Nat, there : BOOLEAN]
  /\ ~row.there => row.until = 0
  /\ row.until = 0 => row.count <= MaxAttempts

\* Without a row nobody's guess is forgotten but those not yet counted; an open
\* row has counted the others; a lock leaves its guesses to those who passed the
\* check before.
LoginInv ==
  /\ lNow \in 1 .. LoginTime /\ guesses \in Nat /\ lPc \in [Workers -> Steps]
  /\ RowOK
  /\ ~row.there => guesses <= Cardinality(Standing({"count", "insert"}))
  /\ row.there /\ row.until = 0 => guesses <= row.count + Cardinality(Standing(Guessed))
  /\ row.until > 0 => guesses + Cardinality(Standing({"verify"})) <= MaxAttempts + Cardinality(Workers)

-----------------------------------------------------------------------------

\* The workers at some steps are finitely many.
LEMMA StandingIsFinite ==
  ASSUME IsFiniteSet(Workers), NEW L
  PROVE  /\ IsFiniteSet(Standing(L)) /\ Cardinality(Standing(L)) \in Nat
         /\ Cardinality(Standing(L)) <= Cardinality(Workers) /\ Cardinality(Workers) \in Nat
<1>1. Standing(L) \subseteq Workers
  BY DEF Standing
<1> QED BY <1>1, FS_Subset, FS_CardinalityType

\* Disjoint places hold all the workers together at most.
LEMMA StandingApart ==
  ASSUME IsFiniteSet(Workers), NEW L, NEW M, L \cap M = {}
  PROVE  Cardinality(Standing(L)) + Cardinality(Standing(M)) <= Cardinality(Workers)
<1>1. Standing(L) \cup Standing(M) \subseteq Workers /\ Standing(L) \cap Standing(M) = {}
  BY DEF Standing
<1>2. IsFiniteSet(Standing(L)) /\ IsFiniteSet(Standing(M))
      /\ Cardinality(Standing(L)) \in Nat /\ Cardinality(Standing(M)) \in Nat
  BY StandingIsFinite
<1>3. Cardinality(Standing(L) \cup Standing(M)) <= Cardinality(Workers)
  BY <1>1, FS_Subset
<1>4. Cardinality(Standing(L) \cup Standing(M))
        = Cardinality(Standing(L)) + Cardinality(Standing(M)) - Cardinality(Standing(L) \cap Standing(M))
  BY <1>2, FS_Union
<1>5. Cardinality(Standing(L) \cap Standing(M)) = 0
  BY <1>1, FS_EmptySet
<1> QED BY <1>2, <1>3, <1>4, <1>5

\* More steps have more workers.
LEMMA StandingGrows ==
  ASSUME IsFiniteSet(Workers), NEW L, NEW M, L \subseteq M
  PROVE  Cardinality(Standing(L)) <= Cardinality(Standing(M))
<1>1. Standing(L) \subseteq Standing(M)
  BY DEF Standing
<1> QED BY <1>1, StandingIsFinite, FS_Subset

\* One worker moves.
LEMMA StandingMoves ==
  ASSUME IsFiniteSet(Workers), lPc \in [Workers -> Steps], NEW w \in Workers, NEW l \in Steps,
         Login!Goto(w, l), NEW L
  PROVE  /\ Cardinality(Standing(L)) \in Nat /\ Cardinality(Standing(L))' \in Nat
         /\ lPc[w] \in L /\ l \in L => Cardinality(Standing(L))' = Cardinality(Standing(L))
         /\ lPc[w] \notin L /\ l \notin L => Cardinality(Standing(L))' = Cardinality(Standing(L))
         /\ lPc[w] \in L /\ l \notin L => Cardinality(Standing(L))' = Cardinality(Standing(L)) - 1
         /\ lPc[w] \notin L /\ l \in L => Cardinality(Standing(L))' = Cardinality(Standing(L)) + 1
<1> DEFINE S == Standing(L)
           T == {v \in Workers : lPc'[v] \in L}
<1>1. Standing(L)' = T
  BY DEF Standing
<1>2. T = IF l \in L THEN S \cup {w} ELSE S \ {w}
  BY DEF Login!Goto, Standing
<1>3. w \in S <=> lPc[w] \in L
  BY DEF Standing
<1>4. IsFiniteSet(S) /\ Cardinality(S) \in Nat
  BY StandingIsFinite
<1>5. Cardinality(S \cup {w}) = IF w \in S THEN Cardinality(S) ELSE Cardinality(S) + 1
  BY <1>4, FS_AddElement
<1>6. Cardinality(S \ {w}) = IF w \in S THEN Cardinality(S) - 1 ELSE Cardinality(S)
  BY <1>4, FS_RemoveElement
<1>7. w \in S => Cardinality(S) - 1 \in Nat
  BY <1>4, <1>6, FS_RemoveElement, FS_CardinalityType
<1>8. Cardinality(Standing(L))' = Cardinality(T)
  BY <1>1
<1> HIDE DEF S, T
<1>9. Cardinality(Standing(L)) = Cardinality(S)
  BY DEF S
<1> QED BY <1>2, <1>3, <1>4, <1>5, <1>6, <1>7, <1>8, <1>9

-----------------------------------------------------------------------------
Rows == [count : Nat, until : Nat, updated : Nat, there : BOOLEAN]

\* What a count makes of a row.
LEMMA CountedRow ==
  ASSUME LimitsAreSet, lNow \in 1 .. LoginTime, NEW r \in Rows, r.until <= lNow, r.count \in Nat
  PROVE  /\ Login!Counted(r) \in Rows /\ Login!Counted(r).there = r.there /\ Login!Counted(r).updated = lNow
         /\ Login!Counted(r).count = 1 + (IF r.until > 0 THEN 0 ELSE r.count)
         /\ Login!Counted(r).until = IF Login!Counted(r).count > MaxAttempts THEN lNow + Lockout ELSE 0
<1> DEFINE n == 1 + (IF r.until > 0 THEN 0 ELSE r.count)
           u == IF n > MaxAttempts THEN lNow + Lockout ELSE 0
<1>1. n \in Nat /\ u \in Nat /\ lNow \in Nat
  BY DEF LimitsAreSet, Rows
<1>2. ~(r.until > lNow)
  BY DEF Rows
<1>3. Login!Counted(r) = [r EXCEPT !.count = n, !.updated = lNow, !.until = u]
  BY <1>2 DEF Login!Counted
<1> HIDE DEF u
<1>4. n = 1 + (IF r.until > 0 THEN 0 ELSE r.count)
  OBVIOUS
<1> HIDE DEF n
<1>5. Login!Counted(r) \in Rows /\ Login!Counted(r).there = r.there /\ Login!Counted(r).updated = lNow
      /\ Login!Counted(r).count = n /\ Login!Counted(r).until = u
  BY <1>1, <1>3 DEF Rows
<1> QED BY <1>4, <1>5 DEF u

\* The pruning keeps a row whose lock runs.
LEMMA PrunedRow ==
  ASSUME RowOK, lNow \in 1 .. LoginTime, LoginTime \in Nat
  PROVE  /\ Login!Pruned(row) = row \/ Login!Pruned(row) = Login!NoRow
         /\ Login!Pruned(row).there /\ row.until > 0 => row.until > lNow
         /\ row.until > lNow => Login!Pruned(row) = row
BY DEF Login!Pruned, RowOK, Login!NoRow

(* A row that goes takes the guesses with it.                              *)
LEMMA Reset ==
  ASSUME LimitsAreSet, LoginInv, Login!Store(Login!NoRow), UNCHANGED lNow, lPc' \in [Workers -> Steps]
  PROVE  LoginInv'
<1>1. row' = Login!NoRow /\ guesses' = 0
  BY DEF Login!Store, Login!NoRow
<1>2. RowOK'
  BY <1>1 DEF RowOK, Login!NoRow, LimitsAreSet, LoginInv
<1>3. Cardinality(Standing({"count", "insert"})') \in Nat
  <2>1. Standing({"count", "insert"})' \subseteq Workers
    BY DEF Standing
  <2> QED BY <2>1, FS_Subset, FS_CardinalityType DEF LimitsAreSet
<1> QED BY <1>1, <1>2, <1>3 DEF LoginInv, Login!NoRow

(* A worker counts its guess on a row that runs no lock.                    *)
LEMMA CountStep ==
  ASSUME LimitsAreSet, LoginInv, NEW w \in Workers, lPc[w] \in {"count", "reselect"},
         row.there, row.until <= lNow, row' = Login!Counted(row), Login!Goto(w, "idle"), UNCHANGED lNow,
         guesses' = IF row.until > 0 THEN 1 ELSE guesses
  PROVE  LoginInv'
<1> USE DEF LimitsAreSet
<1>1. row \in Rows /\ lNow \in Nat /\ lNow >= 1 /\ row.until \in Nat /\ row.count \in Nat
  BY DEF LoginInv, RowOK, Rows
<1>2. /\ row' \in Rows /\ row'.there /\ row'.updated = lNow
      /\ row'.count = 1 + (IF row.until > 0 THEN 0 ELSE row.count)
      /\ row'.until = IF row'.count > MaxAttempts THEN lNow + Lockout ELSE 0
  BY <1>1, CountedRow DEF LoginInv, RowOK
<1>3. row'.count \in Nat /\ row'.until \in Nat /\ row'.updated \in Nat
  BY <1>2 DEF Rows
<1>4. row.until = 0 => row.count <= MaxAttempts
  BY DEF LoginInv, RowOK
<1>5. RowOK'
  BY <1>1, <1>2, <1>3, <1>4 DEF LoginInv, RowOK, Rows
<1>6. lPc' \in [Workers -> Steps] /\ "idle" \in Steps
  BY DEF Login!Goto, Steps, LoginInv
<1>7. /\ Cardinality(Standing(Guessed)) \in Nat
      /\ Cardinality(Standing(Guessed))' = Cardinality(Standing(Guessed)) - 1
      /\ Cardinality(Standing(Guessed))' \in Nat
  BY <1>6, StandingMoves DEF Guessed, LoginInv
<1>8. /\ Cardinality(Standing({"verify"})) \in Nat
      /\ Cardinality(Standing({"verify"}))' = Cardinality(Standing({"verify"}))
  BY <1>6, StandingMoves DEF LoginInv
<1>9. Cardinality(Standing(Guessed)) + Cardinality(Standing({"verify"})) <= Cardinality(Workers)
      /\ Cardinality(Workers) \in Nat
  BY StandingApart, StandingIsFinite DEF Guessed
<1> DEFINE G == Cardinality(Standing(Guessed))
           V == Cardinality(Standing({"verify"}))
           W == Cardinality(Workers)
<1>10. guesses \in Nat /\ (row.until = 0 => guesses <= row.count + G)
  BY DEF LoginInv
<1>11. /\ G \in Nat /\ G' = G - 1 /\ G' \in Nat /\ V \in Nat /\ V' = V /\ G + V <= W /\ W \in Nat
  BY <1>7, <1>8, <1>9
<1> HIDE DEF G, V, W
<1>12. guesses' \in Nat
  BY <1>10
<1>13. row'.until = 0 => guesses' <= row'.count + G'
  BY <1>1, <1>2, <1>3, <1>4, <1>10, <1>11
<1>14. row'.until > 0 => guesses' + V' <= MaxAttempts + W
  BY <1>1, <1>2, <1>3, <1>4, <1>10, <1>11
<1> QED BY <1>2, <1>5, <1>6, <1>12, <1>13, <1>14 DEF LoginInv, G, V, W

\* Who stands where once w has moved from `from` to l.
LEMMA Places ==
  ASSUME LimitsAreSet, LoginInv, NEW w \in Workers, NEW l \in Steps, Login!Goto(w, l)
  PROVE  /\ lPc' \in [Workers -> Steps]
         /\ \A L \in {{"count", "insert"}, Guessed, {"verify"}} :
              /\ Cardinality(Standing(L)) \in Nat /\ Cardinality(Standing(L))' \in Nat
              /\ Cardinality(Standing(L))' = Cardinality(Standing(L))
                   + (IF l \in L THEN 1 ELSE 0) - (IF lPc[w] \in L THEN 1 ELSE 0)
<1>1. lPc' \in [Workers -> Steps]
  BY DEF Login!Goto, LoginInv
<1>2. ASSUME NEW L
      PROVE  /\ Cardinality(Standing(L)) \in Nat /\ Cardinality(Standing(L))' \in Nat
             /\ Cardinality(Standing(L))' = Cardinality(Standing(L))
                   + (IF l \in L THEN 1 ELSE 0) - (IF lPc[w] \in L THEN 1 ELSE 0)
  BY StandingMoves DEF LoginInv, LimitsAreSet
<1> QED BY <1>1, <1>2

\* Every step of a login keeps the invariant.
LEMMA LoginStep ==
  ASSUME LimitsAreSet, LoginInv, [Login!Next]_Login!vars
  PROVE  LoginInv'
<1> USE DEF LimitsAreSet
<1> DEFINE N == Cardinality(Standing({"count", "insert"}))
           G == Cardinality(Standing(Guessed))
           V == Cardinality(Standing({"verify"}))
           W == Cardinality(Workers)
<1>1. N \in Nat /\ G \in Nat /\ V \in Nat /\ W \in Nat /\ G + V <= W /\ N <= G
  BY StandingApart, StandingIsFinite, StandingGrows DEF Guessed
<1>2. /\ lNow \in 1 .. LoginTime /\ guesses \in Nat /\ lPc \in [Workers -> Steps] /\ RowOK
      /\ ~row.there => guesses <= N
      /\ row.there /\ row.until = 0 => guesses <= row.count + G
      /\ row.until > 0 => guesses + V <= MaxAttempts + W
  BY DEF LoginInv
<1>3. ASSUME NEW w \in Workers, NEW l \in Steps, Login!Goto(w, l)
      PROVE  /\ lPc' \in [Workers -> Steps]
             /\ N' \in Nat /\ G' \in Nat /\ V' \in Nat
             /\ N' = N + (IF l \in {"count", "insert"} THEN 1 ELSE 0)
                       - (IF lPc[w] \in {"count", "insert"} THEN 1 ELSE 0)
             /\ G' = G + (IF l \in Guessed THEN 1 ELSE 0) - (IF lPc[w] \in Guessed THEN 1 ELSE 0)
             /\ V' = V + (IF l = "verify" THEN 1 ELSE 0) - (IF lPc[w] = "verify" THEN 1 ELSE 0)
  <2>1. \A L \in {{"count", "insert"}, Guessed, {"verify"}} :
          /\ Cardinality(Standing(L))' \in Nat
          /\ Cardinality(Standing(L))' = Cardinality(Standing(L))
                   + (IF l \in L THEN 1 ELSE 0) - (IF lPc[w] \in L THEN 1 ELSE 0)
    BY <1>3, Places
  <2> QED BY <1>3, <2>1, Places
<1>4. ASSUME /\ lNow' \in 1 .. LoginTime /\ guesses' \in Nat /\ lPc' \in [Workers -> Steps] /\ RowOK'
             /\ ~row'.there => guesses' <= N'
             /\ row'.there /\ row'.until = 0 => guesses' <= row'.count + G'
             /\ row'.until > 0 => guesses' + V' <= MaxAttempts + W
      PROVE  LoginInv'
  BY <1>4 DEF LoginInv
<1> HIDE DEF N, G, V, W
<1>5. CASE UNCHANGED Login!vars
  <2>1. N' = N /\ G' = G /\ V' = V
    BY <1>5 DEF Login!vars, N, G, V, Standing
  <2> QED BY <1>2, <1>4, <1>5, <2>1 DEF Login!vars, RowOK
<1>6. CASE Login!Tick
  <2>1. N' = N /\ G' = G /\ V' = V
    BY <1>6 DEF Login!Tick, N, G, V, Standing
  <2>2. lNow' \in 1 .. LoginTime /\ lNow' > lNow
    BY <1>2, <1>6 DEF Login!Tick
  <2>3. RowOK'
    BY <1>2, <1>6, <2>2 DEF Login!Tick, RowOK
  <2> QED BY <1>2, <1>4, <1>6, <2>1, <2>2, <2>3 DEF Login!Tick
<1>7. ASSUME NEW w \in Workers, Login!Check(w) PROVE LoginInv'
  <2>1. Login!Store(Login!Pruned(row)) /\ UNCHANGED lNow
        /\ (IF row'.until > lNow THEN UNCHANGED lPc ELSE Login!Goto(w, "verify")) /\ lPc[w] = "idle"
    BY <1>7 DEF Login!Check
  <2>2. lPc' \in [Workers -> Steps]
    BY <1>2, <1>3, <2>1 DEF Steps
  <2>3. CASE Login!Pruned(row) = Login!NoRow
    BY <2>1, <2>2, <2>3, Reset
  <2>4. CASE Login!Pruned(row) = row /\ row # Login!NoRow /\ row.there
    <3>1. row' = row /\ guesses' = guesses
      BY <2>1, <2>4 DEF Login!Store
    <3>2. CASE row.until > lNow
      <4>1. UNCHANGED Login!vars
        BY <2>1, <3>1, <3>2 DEF Login!vars
      <4> QED BY <1>5, <4>1
    <3>3. CASE ~(row.until > lNow)
      <4>1. row.until = 0
        BY <1>2, <2>4, <3>3, PrunedRow DEF RowOK
      <4>2. Login!Goto(w, "verify")
        BY <2>1, <3>1, <3>3
      <4>3. N' = N /\ G' = G
        BY <1>1, <1>3, <2>1, <4>2 DEF Steps, Guessed
      <4> QED BY <1>2, <1>4, <2>1, <2>2, <3>1, <4>1, <4>3 DEF RowOK
    <3> QED BY <3>2, <3>3
  <2>5. CASE Login!Pruned(row) = row /\ ~row.there
    <3>1. row' = row /\ guesses' = 0 /\ row.until = 0
      BY <1>2, <2>1, <2>5 DEF Login!Store, RowOK
    <3>2. N' \in Nat
      <4>1. CASE UNCHANGED lPc
        <5>1. N' = N
          BY <4>1 DEF N, Standing
        <5> QED BY <1>1, <5>1
      <4>2. CASE Login!Goto(w, "verify")
        BY <1>3, <4>2 DEF Steps
      <4> QED BY <2>1, <4>1, <4>2
    <3> QED BY <1>2, <1>4, <2>1, <2>2, <2>5, <3>1, <3>2 DEF RowOK
  <2> QED BY <1>2, <2>3, <2>4, <2>5, PrunedRow DEF RowOK
<1>8. ASSUME NEW w \in Workers, Login!Verify(w) PROVE LoginInv'
  <2>1. lPc[w] = "verify" /\ UNCHANGED <<lNow, row>>
        /\ \/ Login!Goto(w, "count") /\ guesses' = guesses + 1
           \/ Login!Goto(w, "clear") /\ guesses' = guesses
           \/ Login!Goto(w, "idle") /\ guesses' = guesses
    BY <1>8 DEF Login!Verify
  <2>2. /\ lPc' \in [Workers -> Steps] /\ guesses' \in Nat /\ N' \in Nat /\ G' \in Nat /\ V' \in Nat
        /\ N' - N = guesses' - guesses /\ G' - G = guesses' - guesses /\ V' = V - 1
    <3>1. CASE Login!Goto(w, "count") /\ guesses' = guesses + 1
      BY <1>1, <1>2, <1>3, <2>1, <3>1 DEF Steps, Guessed
    <3>2. CASE Login!Goto(w, "clear") /\ guesses' = guesses
      BY <1>1, <1>2, <1>3, <2>1, <3>2 DEF Steps, Guessed
    <3>3. CASE Login!Goto(w, "idle") /\ guesses' = guesses
      BY <1>1, <1>2, <1>3, <2>1, <3>3 DEF Steps, Guessed
    <3> QED BY <2>1, <3>1, <3>2, <3>3
  <2>3. guesses' = guesses \/ guesses' = guesses + 1
    BY <2>1
  <2>4. RowOK' /\ row.count \in Nat
    BY <1>2, <2>1 DEF RowOK
  <2>5. (~row.there => guesses' <= N') /\ (row.there /\ row.until = 0 => guesses' <= row.count + G')
    <3>1. guesses <= N => guesses' <= N'
      BY <1>1, <1>2, <2>2
    <3>2. guesses <= row.count + G => guesses' <= row.count + G'
      BY <1>1, <1>2, <2>2, <2>4
    <3> QED BY <1>2, <3>1, <3>2
  <2>6. row.until > 0 => guesses' + V' <= MaxAttempts + W
    <3>1. V' = V - 1 /\ V' \in Nat /\ V \in Nat /\ guesses \in Nat /\ W \in Nat /\ MaxAttempts \in Nat
      BY <1>1, <1>2, <2>2
    <3>2. guesses + V <= MaxAttempts + W => guesses' + V' <= MaxAttempts + W
      BY <2>3, <3>1
    <3> QED BY <1>2, <3>2
  <2> QED BY <1>2, <1>4, <2>1, <2>2, <2>4, <2>5, <2>6
<1>9. ASSUME NEW w \in Workers, Login!Increment(w) PROVE LoginInv'
  <2>1. lPc[w] = "count" /\ UNCHANGED lNow
    BY <1>9 DEF Login!Increment
  <2>2. CASE Login!Pruned(row) = Login!NoRow
    <3>1. Login!Store(Login!NoRow) /\ Login!Goto(w, "insert")
      BY <1>9, <2>2 DEF Login!Increment, Login!NoRow
    <3>2. lPc' \in [Workers -> Steps]
      BY <1>3, <3>1 DEF Steps
    <3> QED BY <2>1, <3>1, <3>2, Reset
  <2>3. CASE Login!Pruned(row) = row /\ row.there
    <3>1. Login!Store(Login!Counted(row)) /\ Login!Goto(w, "idle")
      BY <1>9, <2>3 DEF Login!Increment
    <3>2. CASE row.until > lNow
      <4>1. row' = row /\ guesses' = guesses
        BY <2>3, <3>1, <3>2 DEF Login!Store, Login!Counted
      <4>2. V' = V /\ lPc' \in [Workers -> Steps] /\ row.until > 0
        BY <1>1, <1>2, <1>3, <2>1, <3>1, <3>2 DEF Steps, Guessed, RowOK
      <4> QED BY <1>2, <1>4, <2>1, <2>3, <4>1, <4>2 DEF RowOK
    <3>3. CASE ~(row.until > lNow)
      <4>1. row.until = 0 /\ row.until <= lNow
        BY <1>2, <2>3, <3>3, PrunedRow DEF RowOK
      <4>2. Login!Counted(row).there = row.there
        BY <1>2, <4>1, CountedRow DEF RowOK, Rows
      <4>3. row' = Login!Counted(row) /\ guesses' = guesses
        BY <2>3, <3>1, <4>2 DEF Login!Store
      <4> QED BY <2>1, <2>3, <3>1, <4>1, <4>3, CountStep
    <3> QED BY <3>2, <3>3
  <2>4. CASE Login!Pruned(row) = row /\ ~row.there
    <3>1. Login!Store(row) /\ Login!Goto(w, "insert")
      BY <1>9, <2>4 DEF Login!Increment
    <3>2. row' = row /\ guesses' = 0 /\ row.until = 0
      BY <1>2, <2>4, <3>1 DEF Login!Store, RowOK
    <3>3. lPc' \in [Workers -> Steps] /\ N' \in Nat
      BY <1>3, <3>1 DEF Steps
    <3> QED BY <1>2, <1>4, <2>1, <2>4, <3>2, <3>3 DEF RowOK
  <2> QED BY <1>2, <2>2, <2>3, <2>4, PrunedRow DEF RowOK
<1>10. ASSUME NEW w \in Workers, Login!Insert(w) PROVE LoginInv'
  <2>1. lPc[w] = "insert" /\ UNCHANGED <<lNow, guesses>>
    BY <1>10 DEF Login!Insert
  <2>2. CASE row.there
    <3>1. Login!Goto(w, "reselect") /\ row' = row
      BY <1>10, <2>2 DEF Login!Insert
    <3>2. G' = G /\ V' = V /\ lPc' \in [Workers -> Steps]
      BY <1>1, <1>3, <2>1, <3>1 DEF Steps, Guessed
    <3> QED BY <1>2, <1>4, <2>1, <2>2, <3>1, <3>2 DEF RowOK
  <2>3. CASE ~row.there
    <3>1. Login!Goto(w, "idle") /\ row' = Login!Counted(Login!NewRow)
      BY <1>10, <2>3 DEF Login!Insert
    <3>2. Login!NewRow \in Rows /\ Login!NewRow.until = 0 /\ Login!NewRow.count = 0 /\ Login!NewRow.there = TRUE /\ lNow \in Nat
          /\ Login!NewRow.until <= lNow /\ lNow >= 1
      BY <1>2 DEF Login!NewRow, Rows
    <3>3. /\ row' \in Rows /\ row'.there = TRUE /\ row'.updated = lNow /\ row'.count = 1
          /\ row'.until = IF 1 > MaxAttempts THEN lNow + Lockout ELSE 0
      BY <1>2, <3>1, <3>2, CountedRow
    <3>4. RowOK'
      BY <1>2, <2>1, <3>2, <3>3 DEF RowOK, Rows
    <3>5. G' = G - 1 /\ G' \in Nat /\ V' = V /\ lPc' \in [Workers -> Steps]
      BY <1>1, <1>3, <2>1, <3>1 DEF Steps, Guessed
    <3>6. guesses <= N
      BY <1>2, <2>3
    <3>7. row'.until > 0 => MaxAttempts = 0
      BY <3>3
    <3>8. guesses <= row'.count + G' /\ (row'.until > 0 => guesses + V' <= MaxAttempts + W)
      BY <1>1, <1>2, <3>3, <3>5, <3>6, <3>7
    <3> QED BY <1>2, <1>4, <2>1, <3>3, <3>4, <3>5, <3>8
  <2> QED BY <1>2, <2>2, <2>3 DEF RowOK
<1>11. ASSUME NEW w \in Workers, Login!Reselect(w) PROVE LoginInv'
  <2>1. /\ lPc[w] = "reselect" /\ UNCHANGED lNow /\ Login!Goto(w, "idle")
        /\ row' = IF row.there THEN Login!Counted(row) ELSE row
        /\ guesses' = IF row.until \in 1..lNow THEN 1 ELSE guesses
    BY <1>11 DEF Login!Reselect
  <2>2. lPc' \in [Workers -> Steps] /\ N' = N /\ V' = V
    BY <1>1, <1>3, <2>1 DEF Steps, Guessed
  <2>3. CASE ~row.there
    <3>1. row' = row /\ row.until = 0 /\ guesses' = guesses
      BY <1>2, <2>1, <2>3 DEF RowOK
    <3> QED BY <1>2, <1>4, <2>1, <2>2, <2>3, <3>1 DEF RowOK
  <2>4. CASE row.there /\ row.until > lNow
    <3>1. row' = row /\ guesses' = guesses /\ row.until > 0
      BY <1>2, <2>1, <2>4 DEF RowOK, Login!Counted
    <3> QED BY <1>2, <1>4, <2>1, <2>2, <2>4, <3>1 DEF RowOK
  <2>5. CASE row.there /\ ~(row.until > lNow)
    <3>1. row.until <= lNow /\ (row.until \in 1..lNow <=> row.until > 0)
      BY <1>2, <2>5 DEF RowOK
    <3> QED BY <2>1, <2>5, <3>1, CountStep
  <2> QED BY <1>2, <2>3, <2>4, <2>5 DEF RowOK
<1>12. ASSUME NEW w \in Workers, Login!Clear(w) PROVE LoginInv'
  <2>1. Login!Store(Login!NoRow) /\ Login!Goto(w, "idle") /\ UNCHANGED lNow
    BY <1>12 DEF Login!Clear
  <2>2. lPc' \in [Workers -> Steps]
    BY <1>3, <2>1 DEF Steps
  <2> QED BY <2>1, <2>2, Reset
<1> QED BY <1>5, <1>6, <1>7, <1>8, <1>9, <1>10, <1>11, <1>12 DEF Login!Next

\* Nobody has tried a password at the start.
LEMMA LoginInit == ASSUME LimitsAreSet, Login!Init PROVE LoginInv
<1>1. Standing({"count", "insert"}) = {}
  BY DEF Login!Init, Standing
<1>2. Cardinality(Standing({"count", "insert"})) = 0
  BY <1>1, FS_EmptySet
<1>3. row = Login!NoRow /\ RowOK
  BY DEF Login!Init, Login!NoRow, RowOK, LimitsAreSet
<1> QED BY <1>2, <1>3 DEF Login!Init, LoginInv, LimitsAreSet, Steps, Login!NoRow

\* The guesses are bounded in each of the three states of the row.
LEMMA LoginHolds == ASSUME LimitsAreSet, LoginInv PROVE Login!TypeOK /\ Login!GuessesBounded
<1>1. Login!TypeOK
  BY DEF LoginInv, RowOK, Steps, Login!TypeOK, LimitsAreSet
<1> DEFINE N == Cardinality(Standing({"count", "insert"}))
           G == Cardinality(Standing(Guessed))
           V == Cardinality(Standing({"verify"}))
           W == Cardinality(Workers)
<1>2. /\ N <= W /\ G <= W /\ N \in Nat /\ G \in Nat /\ V \in Nat /\ W \in Nat
  BY StandingIsFinite DEF LimitsAreSet
<1>0. /\ guesses \in Nat /\ row.count \in Nat /\ row.until \in Nat /\ MaxAttempts \in Nat
      /\ row.until = 0 => row.count <= MaxAttempts
      /\ ~row.there => guesses <= N
      /\ row.there /\ row.until = 0 => guesses <= row.count + G
      /\ row.until > 0 => guesses + V <= MaxAttempts + W
  BY DEF LoginInv, RowOK, LimitsAreSet
<1> HIDE DEF N, G, V, W
<1>3. CASE ~row.there
  <2>1. guesses <= N
    BY <1>0, <1>3
  <2>2. guesses <= MaxAttempts + W
    BY <1>0, <1>2, <2>1
  <2> QED BY <1>1, <2>2, LoginCount DEF Login!GuessesBounded, W
<1>4. CASE row.there /\ row.until = 0
  <2>1. guesses <= row.count + G /\ row.count <= MaxAttempts
    BY <1>0, <1>4
  <2>2. guesses <= MaxAttempts + W
    BY <1>0, <1>2, <2>1
  <2> QED BY <1>1, <2>2, LoginCount DEF Login!GuessesBounded, W
<1>5. CASE row.until > 0
  <2>1. guesses <= MaxAttempts + W
    BY <1>0, <1>2, <1>5
  <2> QED BY <1>1, <2>1, LoginCount DEF Login!GuessesBounded, W
<1>6. row.until \in Nat /\ row.there \in BOOLEAN
  BY DEF LoginInv, RowOK
<1> QED BY <1>1, <1>3, <1>4, <1>5, <1>6

\* What LockKeepsItsEnd says of a step.
LockStands == row.until > lNow => row'.until = row.until \/ \E w \in Workers : lPc[w] = "clear"

\* Only a login that succeeds moves the end of a lock that runs.
LEMMA LockStep == ASSUME LimitsAreSet, LoginInv, [Login!Next]_Login!vars PROVE LockStands
<1> SUFFICES ASSUME row.until > lNow PROVE row'.until = row.until \/ \E w \in Workers : lPc[w] = "clear"
  BY DEF LockStands
<1>1. Login!Pruned(row) = row /\ row.there /\ Login!Counted(row) = row
  BY PrunedRow DEF LoginInv, RowOK, LimitsAreSet, Login!Counted
<1>2. CASE Login!Tick \/ UNCHANGED Login!vars
  BY <1>2 DEF Login!Tick, Login!vars
<1>3. ASSUME NEW w \in Workers, Login!Check(w) \/ Login!Verify(w) \/ Login!Increment(w) \/ Login!Insert(w) \/ Login!Reselect(w)
      PROVE  row'.until = row.until
  BY <1>1, <1>3 DEF Login!Check, Login!Verify, Login!Increment, Login!Insert, Login!Reselect,
      Login!Store
<1>4. ASSUME NEW w \in Workers, Login!Clear(w) PROVE lPc[w] = "clear"
  BY <1>4 DEF Login!Clear
<1> QED BY <1>2, <1>3, <1>4 DEF Login!Next

-----------------------------------------------------------------------------
(* CmdbProposal                                                             *)

\* The instance counts as FiniteSets does.
LEMMA CmdbCount == \A S : Cmdb!Cardinality(S) = Cardinality(S)
BY DEF Cmdb!Cardinality, Cardinality

Statuses == {"NONE", "DRAFT", "APPROVED", "REVOKED"}
States == [status : Statuses, version : Nat, by : {"none", "user", "SYSTEM"}]
Acts == {"collide", "commit", "revoke", "auditA", "auditR"}
CmdbRequests == [pc : Acts, id : Proposals, version : Nat, todo : SUBSET Cmdb!CIs, failed : BOOLEAN]

\* Ids are drawn once: a proposal in the listing has a node, any other none.
Listed == \A p \in Proposals : p \in Cmdb!Submitted <=> state[p].status # "NONE"

\* What a review that may still approve has put into the graph.
Committed(w) ==
  cReq[w].pc = "commit" /\ ~cReq[w].failed
    => Manifest[cReq[w].id] \ cReq[w].todo \subseteq wrote[cReq[w].id] \cap live

\* A review that has not written anything has everything to do.
Fresh(w) == cReq[w].pc = "collide" => cReq[w].todo = Manifest[cReq[w].id]

ReviewInv ==
  /\ order \in Seq(Proposals) /\ state \in [Proposals -> States]
  /\ live \subseteq Cmdb!CIs /\ wrote \in [Proposals -> SUBSET Cmdb!CIs]
  /\ cReq \in [Workers -> CmdbRequests \cup {Cmdb!Idle}]
  /\ Listed
  /\ Cmdb!ApprovedIsApplied
  /\ \A w \in Workers : Committed(w) /\ Fresh(w)

\* What DecisionStands says of a step.
ProposalStands ==
  \A p \in Proposals :
    /\ state[p].status = "REVOKED" => state'[p] = state[p]
    /\ state[p].status = "APPROVED" => state'[p].status # "APPROVED" \/ state'[p] = state[p]

(* A step of one worker that writes its request, and adds to the graph at   *)
(* most.                                                                    *)
LEMMA CmdbRequestStep ==
  ASSUME ReviewInv, NEW w \in Workers, NEW r \in CmdbRequests \cup {Cmdb!Idle}, Cmdb!Goto(w, r), UNCHANGED order,
         live' \in SUBSET Cmdb!CIs, live \subseteq live', wrote' \in [Proposals -> SUBSET Cmdb!CIs],
         \A p \in Proposals : wrote[p] \subseteq wrote'[p],
         r.pc = "commit" /\ ~r.failed => Manifest[r.id] \ r.todo \subseteq wrote'[r.id] \cap live',
         r.pc = "collide" => r.todo = Manifest[r.id]
  PROVE  /\ cReq' \in [Workers -> CmdbRequests \cup {Cmdb!Idle}] /\ \A v \in Workers : Committed(v)' /\ Fresh(v)'
         /\ UNCHANGED state => ReviewInv' /\ ProposalStands
<1> USE DEF ReviewInv
<1>1. cReq' = [cReq EXCEPT ![w] = r]
  BY DEF Cmdb!Goto
<1>2. ASSUME NEW v \in Workers PROVE Committed(v)' /\ Fresh(v)'
  <2>1. CASE v = w
    <3>1. cReq'[v] = r
      BY <1>1, <2>1
    <3> QED BY <3>1 DEF Committed, Fresh
  <2>2. CASE v # w
    <3>1. cReq'[v] = cReq[v] /\ Committed(v) /\ Fresh(v) /\ cReq[v] \in CmdbRequests \cup {Cmdb!Idle}
      BY <1>1, <2>2
    <3>2. cReq[v].pc = "commit" => cReq[v].id \in Proposals
      BY <3>1 DEF CmdbRequests, Cmdb!Idle
    <3> QED BY <3>1, <3>2 DEF Committed, Fresh
  <2> QED BY <2>1, <2>2
<1>3. ASSUME UNCHANGED state PROVE ReviewInv' /\ ProposalStands
  <2>1. Listed' /\ ProposalStands
    BY <1>3 DEF Listed, Cmdb!Submitted, ProposalStands
  <2>2. Cmdb!ApprovedIsApplied'
    BY <1>3 DEF Cmdb!ApprovedIsApplied
  <2> QED BY <1>1, <1>2, <1>3, <2>1, <2>2
<1> QED BY <1>1, <1>2, <1>3

(* A step that moves proposals which are drafts, or approved ones out of    *)
(* approval.                                                                *)
LEMMA MoveStep ==
  ASSUME ReviewInv, UNCHANGED <<order, live, wrote>>, state' \in [Proposals -> States],
         cReq' \in [Workers -> CmdbRequests \cup {Cmdb!Idle}], \A v \in Workers : Committed(v)' /\ Fresh(v)',
         \A p \in Proposals : state'[p] # state[p] =>
           \/ state[p].status = "DRAFT" /\ state'[p].status = "REVOKED"
           \/ state[p].status = "APPROVED" /\ state'[p].status = "REVOKED"
           \/ state[p].status = "DRAFT" /\ state'[p].status = "APPROVED" /\ Manifest[p] \subseteq wrote[p] \cap live
  PROVE  ReviewInv' /\ ProposalStands
<1> USE DEF ReviewInv
<1>1. ProposalStands
  BY DEF ProposalStands
<1>2. Listed'
  BY DEF Listed, Cmdb!Submitted
<1>3. Cmdb!ApprovedIsApplied'
  BY DEF Cmdb!ApprovedIsApplied
<1> QED BY <1>1, <1>2, <1>3

(* Every step keeps the invariant, and lets decisions stand.                *)
LEMMA ReviewStep ==
  ASSUME ReviewInv, [Cmdb!Next]_Cmdb!vars
  PROVE  ReviewInv' /\ ProposalStands
<1> USE DEF ReviewInv
<1>1. \A p \in Proposals : Manifest[p] \in SUBSET Cmdb!CIs
  BY DEF Cmdb!CIs
<1>2. Cmdb!Submitted \subseteq Proposals
  BY DEF Cmdb!Submitted
<1>3. ASSUME UNCHANGED <<live, wrote, cReq>> PROVE \A v \in Workers : Committed(v)' /\ Fresh(v)'
  BY <1>3 DEF Committed, Fresh
<1>4. CASE UNCHANGED <<order, state, live, wrote, cReq>>
  BY <1>4 DEF Listed, Cmdb!Submitted, Cmdb!ApprovedIsApplied, Committed, Fresh, ProposalStands
<1>5. ASSUME NEW p \in Proposals, Cmdb!Submit(p) PROVE ReviewInv' /\ ProposalStands
  <2>1. order' = Append(order, p) /\ UNCHANGED <<live, wrote, cReq>> /\ p \notin Cmdb!Submitted
        /\ state' = [state EXCEPT ![p] = [status |-> "DRAFT", version |-> 1, by |-> "none"]]
    BY <1>5 DEF Cmdb!Submit
  <2>2. order' \in Seq(Proposals) /\ \A q : q \in Cmdb!Submitted' <=> q \in Cmdb!Submitted \/ q = p
    BY <2>1 DEF Cmdb!Submitted
  <2>3. state' \in [Proposals -> States]
    BY <2>1 DEF States, Statuses
  <2>4. Listed' /\ state[p].status = "NONE"
    BY <2>1, <2>2 DEF Listed, States, Statuses
  <2>5. ProposalStands /\ Cmdb!ApprovedIsApplied'
    BY <2>1, <2>4 DEF ProposalStands, Cmdb!ApprovedIsApplied
  <2> QED BY <1>3, <2>1, <2>2, <2>3, <2>4, <2>5
<1>6. ASSUME NEW w \in Workers, NEW p \in Cmdb!Submitted, NEW act \in {"approve", "revoke"}, NEW v \in 1..2,
             Cmdb!Review(w, p, act, v)
      PROVE  ReviewInv' /\ ProposalStands
  <2> DEFINE r == [pc |-> IF act = "approve" THEN "collide" ELSE "revoke", id |-> p,
                   version |-> v, todo |-> Manifest[p], failed |-> FALSE]
  <2>1. r \in CmdbRequests /\ r.pc # "commit" /\ r.todo = Manifest[r.id]
    BY <1>1, <1>2 DEF CmdbRequests, Acts
  <2>2. Cmdb!Goto(w, r) /\ UNCHANGED <<order, state, live, wrote>>
    BY <1>6 DEF Cmdb!Review
  <2> HIDE DEF r
  <2> QED BY <2>1, <2>2, CmdbRequestStep
<1>7. ASSUME NEW w \in Workers, Cmdb!Goto(w, Cmdb!Idle), UNCHANGED <<order, state, live, wrote>>
      PROVE  ReviewInv' /\ ProposalStands
  BY <1>7, CmdbRequestStep DEF Cmdb!Idle
<1>8. ASSUME NEW w \in Workers, Cmdb!Collide(w) PROVE ReviewInv' /\ ProposalStands
  <2>1. CASE Cmdb!Goto(w, [cReq[w] EXCEPT !.pc = "commit"])
    <3> DEFINE r == [cReq[w] EXCEPT !.pc = "commit"]
    <3>1. cReq[w] \in CmdbRequests /\ cReq[w].todo = Manifest[cReq[w].id] /\ UNCHANGED <<order, state, live, wrote>>
      BY <1>8 DEF Cmdb!Collide, Cmdb!Idle, Fresh
    <3>2. r \in CmdbRequests /\ r.pc = "commit" /\ r.todo = Manifest[r.id]
      BY <3>1 DEF CmdbRequests, Acts
    <3>3. Cmdb!Goto(w, r)
      BY <2>1
    <3>4. r.pc = "commit" => Manifest[r.id] \ r.todo = {}
      BY <3>2
    <3> HIDE DEF r
    <3> QED BY <3>1, <3>2, <3>3, <3>4, CmdbRequestStep
  <2> QED BY <1>7, <1>8, <2>1 DEF Cmdb!Collide
<1>9. ASSUME NEW w \in Workers, Cmdb!CommitCI(w) PROVE ReviewInv' /\ ProposalStands
  <2> PICK fails \in BOOLEAN, merged \in BOOLEAN, c \in cReq[w].todo :
         /\ ~fails => merged
         /\ live' = IF merged THEN live \cup {c} ELSE live
         /\ wrote' = IF merged THEN [wrote EXCEPT ![cReq[w].id] = @ \cup {c}] ELSE wrote
         /\ Cmdb!Goto(w, [cReq[w] EXCEPT !.todo = @ \ {c}, !.failed = @ \/ fails])
    BY <1>9 DEF Cmdb!CommitCI
  <2> DEFINE r == [cReq[w] EXCEPT !.todo = @ \ {c}, !.failed = @ \/ fails]
  <2>1. cReq[w] \in CmdbRequests /\ cReq[w].pc = "commit" /\ UNCHANGED <<order, state>>
    BY <1>9 DEF Cmdb!CommitCI, Cmdb!Idle
  <2>2. r \in CmdbRequests /\ r.pc = "commit" /\ r.id = cReq[w].id /\ r.todo = cReq[w].todo \ {c}
        /\ r.failed = (cReq[w].failed \/ fails)
    BY <2>1 DEF CmdbRequests
  <2> HIDE DEF r
  <2>3. c \in Cmdb!CIs /\ cReq[w].id \in Proposals
    BY <2>1 DEF CmdbRequests
  <2>4. live' \in SUBSET Cmdb!CIs /\ live \subseteq live' /\ wrote' \in [Proposals -> SUBSET Cmdb!CIs]
        /\ \A p \in Proposals : wrote[p] \subseteq wrote'[p]
    BY <2>3
  <2>5. ~r.failed => Manifest[r.id] \ r.todo \subseteq wrote'[r.id] \cap live'
    BY <2>1, <2>2, <2>3 DEF Committed
  <2>6. Cmdb!Goto(w, r)
    BY DEF r
  <2> QED BY <2>1, <2>2, <2>4, <2>5, <2>6, CmdbRequestStep
<1>10. ASSUME NEW w \in Workers, Cmdb!Approve(w) \/ Cmdb!Revoke(w), cReq[w] \in CmdbRequests, NEW p, p = cReq[w].id,
              NEW status \in {"APPROVED", "REVOKED"}, NEW pc \in {"auditA", "auditR"},
              Cmdb!Move(p, status, "user"), Cmdb!Goto(w, [cReq[w] EXCEPT !.pc = pc]),
              \/ state[p].status \in {"DRAFT", "APPROVED"} /\ status = "REVOKED"
              \/ state[p].status = "DRAFT" /\ status = "APPROVED" /\ Manifest[p] \subseteq wrote[p] \cap live
       PROVE  ReviewInv' /\ ProposalStands
  <2> DEFINE r == [cReq[w] EXCEPT !.pc = pc]
             s == [status |-> status, version |-> state[p].version + 1, by |-> "user"]
  <2>1. p \in Proposals /\ UNCHANGED <<order, live, wrote>>
    BY <1>10 DEF CmdbRequests, Cmdb!Approve, Cmdb!Revoke
  <2>2. r \in CmdbRequests /\ r.pc # "commit" /\ r.pc # "collide"
    BY <1>10 DEF CmdbRequests, Acts
  <2>3. s \in States /\ s.status = status
    BY <1>10, <2>1 DEF States, Statuses
  <2>4. state' = [state EXCEPT ![p] = s] /\ Cmdb!Goto(w, r)
    BY <1>10 DEF Cmdb!Move
  <2> HIDE DEF r, s
  <2>5. cReq' \in [Workers -> CmdbRequests \cup {Cmdb!Idle}] /\ \A v \in Workers : Committed(v)' /\ Fresh(v)'
    BY <2>1, <2>2, <2>4, CmdbRequestStep
  <2>6. state' \in [Proposals -> States]
    BY <2>1, <2>3, <2>4
  <2> QED BY <1>10, <2>1, <2>3, <2>4, <2>5, <2>6, MoveStep
<1>11. ASSUME NEW w \in Workers, Cmdb!Approve(w) PROVE ReviewInv' /\ ProposalStands
  <2>1. CASE Cmdb!Goto(w, Cmdb!Idle) /\ UNCHANGED state
    BY <1>7, <1>11, <2>1 DEF Cmdb!Approve
  <2>2. CASE /\ ~cReq[w].failed /\ state[cReq[w].id].status = "DRAFT"
             /\ Cmdb!Move(cReq[w].id, "APPROVED", "user") /\ Cmdb!Goto(w, [cReq[w] EXCEPT !.pc = "auditA"])
    <3>1. cReq[w] \in CmdbRequests /\ cReq[w].pc = "commit" /\ cReq[w].todo = {}
      BY <1>11 DEF Cmdb!Approve, Cmdb!Idle
    <3>2. Manifest[cReq[w].id] \subseteq wrote[cReq[w].id] \cap live
      BY <2>2, <3>1 DEF Committed
    <3> QED BY <1>10, <1>11, <2>2, <3>1, <3>2
  <2> QED BY <1>11, <2>1, <2>2 DEF Cmdb!Approve
<1>12. ASSUME NEW w \in Workers, Cmdb!Revoke(w) PROVE ReviewInv' /\ ProposalStands
  <2>1. CASE Cmdb!Goto(w, Cmdb!Idle) /\ UNCHANGED state
    BY <1>7, <1>12, <2>1 DEF Cmdb!Revoke
  <2>2. CASE /\ state[cReq[w].id].status \in {"DRAFT", "APPROVED"}
             /\ Cmdb!Move(cReq[w].id, "REVOKED", "user") /\ Cmdb!Goto(w, [cReq[w] EXCEPT !.pc = "auditR"])
    <3>1. cReq[w] \in CmdbRequests
      BY <1>12 DEF Cmdb!Revoke, Cmdb!Idle
    <3> QED BY <1>10, <1>12, <2>2, <3>1
  <2> QED BY <1>12, <2>1, <2>2 DEF Cmdb!Revoke
<1>13. ASSUME NEW n \in 1..Len(order), Cmdb!Sweep(n) PROVE ReviewInv' /\ ProposalStands
  <2> DEFINE old == {p \in {order[i] : i \in 1..n} : state[p].status = "DRAFT"}
             moved == [p \in Proposals |->
                    IF p \in old
                    THEN [status |-> "REVOKED", version |-> state[p].version + 1, by |-> "SYSTEM"]
                    ELSE state[p]]
  <2>1. state' = moved /\ UNCHANGED <<order, live, wrote, cReq>>
    BY <1>13 DEF Cmdb!Sweep
  <2>2. \A p \in old : state[p].status = "DRAFT"
    OBVIOUS
  <2> HIDE DEF old
  <2>3. state' \in [Proposals -> States]
    BY <2>1 DEF States, Statuses
  <2>4. \A p \in Proposals : state'[p] # state[p] => state[p].status = "DRAFT" /\ state'[p].status = "REVOKED"
    BY <2>1, <2>2
  <2>5. \A v \in Workers : Committed(v)' /\ Fresh(v)'
    BY <1>3, <2>1
  <2> QED BY <2>1, <2>3, <2>4, <2>5, MoveStep
<1>14. ASSUME NEW w \in Workers, Cmdb!Audit(w) \/ Cmdb!Crash(w) PROVE ReviewInv' /\ ProposalStands
  BY <1>7, <1>14 DEF Cmdb!Audit, Cmdb!Crash
<1>15. CASE Cmdb!SweepAudits
  BY <1>4, <1>15, CmdbCount DEF Cmdb!SweepAudits
<1>16. CASE UNCHANGED Cmdb!vars
  BY <1>4, <1>16 DEF Cmdb!vars
<1> QED BY <1>5, <1>6, <1>8, <1>9, <1>11, <1>12, <1>13, <1>14, <1>15, <1>16 DEF Cmdb!Next

(* Nothing has been proposed at the start.                                  *)
LEMMA ReviewInit == Cmdb!Init => ReviewInv
<1> SUFFICES ASSUME Cmdb!Init PROVE ReviewInv
  OBVIOUS
<1>1. order \in Seq(Proposals) /\ Cmdb!Submitted = {}
  BY DEF Cmdb!Init, Cmdb!Submitted
<1>2. state \in [Proposals -> States] /\ \A p \in Proposals : state[p].status = "NONE"
  BY DEF Cmdb!Init, Cmdb!NoNode, States, Statuses
<1>3. Listed /\ Cmdb!ApprovedIsApplied
  BY <1>1, <1>2 DEF Listed, Cmdb!ApprovedIsApplied
<1>4. cReq \in [Workers -> CmdbRequests \cup {Cmdb!Idle}] /\ \A w \in Workers : cReq[w].pc = "idle"
  BY DEF Cmdb!Init, Cmdb!Idle
<1>5. \A w \in Workers : Committed(w) /\ Fresh(w)
  BY <1>4 DEF Committed, Fresh
<1> QED BY <1>1, <1>2, <1>3, <1>4, <1>5 DEF Cmdb!Init, ReviewInv

-----------------------------------------------------------------------------
(* An approved proposal has all its CIs in the graph, whatever fails, dies  *)
(* or races between the commits of the CIs and that of the approval         *)
(* (cmdb_proposal_service.py, approve_proposal).                            *)
THEOREM ApprovalsAreApplied == Cmdb!Spec => []Cmdb!ApprovedIsApplied
<1>1. ReviewInv /\ [Cmdb!Next]_Cmdb!vars => ReviewInv'
  BY ReviewStep
<1>2. ReviewInv => Cmdb!ApprovedIsApplied
  BY DEF ReviewInv
<1> QED BY <1>1, <1>2, ReviewInit, PTL DEF Cmdb!Spec

(* No review that read a proposal before it was decided changes a           *)
(* revocation, nor approves an approved one again.                          *)
THEOREM DecisionsStand == Cmdb!Spec => Cmdb!DecisionStands
<1>1. ReviewInv /\ [Cmdb!Next]_Cmdb!vars => ReviewInv' /\ [ProposalStands]_Cmdb!vars
  BY ReviewStep
<1>2. [][ProposalStands]_Cmdb!vars <=> Cmdb!DecisionStands
  BY DEF Cmdb!DecisionStands, ProposalStands
<1> QED BY <1>1, <1>2, ReviewInit, PTL DEF Cmdb!Spec

-----------------------------------------------------------------------------
(* The sweep                                                                *)

\* A proposal is created with version 1 and moves twice at most.
Versions ==
  \A p \in Proposals :
    /\ state[p].status = "DRAFT" => state[p].version = 1
    /\ state[p].status = "APPROVED" => state[p].version = 2
    /\ state[p].version <= 3

Sweeping(p) == sweep # Cmdb!Idle /\ p \in sweep.swept

\* The sweep moves a prefix of the drafts: what it has revoked is older than
\* what a later one revokes, so the newest SYSTEM rows are its own.
Swept(p) ==
  state[p].by = "SYSTEM" =>
    /\ state[p].status = "REVOKED"
    /\ <<p, "REVOKE">> \in audit \/ p \in missed \/ Sweeping(p)
    /\ \A q \in Proposals : state[q].status = "DRAFT" => Cmdb!Before(p, q)
    /\ \A q \in Proposals : Sweeping(q) /\ ~Sweeping(p) => Cmdb!Before(p, q)

SweepInv ==
  /\ ReviewInv
  /\ Cmdb!IsInjective(order)
  /\ Versions
  /\ audit \subseteq Proposals \X {"APPROVE", "REVOKE"}
  /\ sweep = Cmdb!Idle \/ sweep \in [pc : {"audit"}, swept : SUBSET Proposals]
  /\ sweep # Cmdb!Idle => IsFiniteSet(sweep.swept)
  /\ \A p \in Proposals : Sweeping(p) => state[p].by = "SYSTEM"
  /\ \A p \in Proposals : Swept(p)

\* Of two proposals one is the older.
LEMMA OlderIsNotNewer ==
  ASSUME Cmdb!IsInjective(order), order \in Seq(Proposals), NEW p, NEW q, Cmdb!Before(p, q)
  PROVE  ~Cmdb!Before(q, p)
<1> SUFFICES ASSUME Cmdb!Before(q, p) PROVE FALSE
  OBVIOUS
<1>1. PICK i \in DOMAIN order, j \in DOMAIN order : i < j /\ order[i] = p /\ order[j] = q
  BY DEF Cmdb!Before
<1>2. PICK k \in DOMAIN order, l \in DOMAIN order : k < l /\ order[k] = q /\ order[l] = p
  BY DEF Cmdb!Before
<1>3. i = l /\ j = k
  BY <1>1, <1>2 DEF Cmdb!IsInjective
<1>4. i \in Nat /\ j \in Nat
  OBVIOUS
<1> QED BY <1>1, <1>2, <1>3, <1>4

\* Of what was swept last, the audit finds what the page shows.
LEMMA AuditFindsTheSwept ==
  ASSUME SweepInv, sweep # Cmdb!Idle, NEW q \in Proposals, Sweeping(q), NEW n, n = Cardinality(sweep.swept),
         NEW page, page = Cmdb!Newest(Cmdb!Revoked, IF n > Page THEN n ELSE Page), q \in page
  PROVE  q \in Cmdb!Newest({p \in page : state[p].by = "SYSTEM"}, n)
<1> DEFINE system == {p \in page : state[p].by = "SYSTEM"}
<1>1. /\ sweep.swept \subseteq Proposals /\ IsFiniteSet(sweep.swept) /\ n \in Nat /\ q \in sweep.swept
  BY FS_CardinalityType DEF SweepInv, Sweeping
<1>2. state[q].by = "SYSTEM" /\ state[q].status = "REVOKED"
  BY DEF SweepInv, Swept
<1>3. ~Cmdb!Before(q, q)
  BY OlderIsNotNewer DEF SweepInv, ReviewInv
<1>6. \A r \in system : r \in Proposals /\ state[r].by = "SYSTEM"
  BY CmdbCount DEF Cmdb!Newest, Cmdb!Revoked
<1>7. q \in system
  BY <1>2
<1> HIDE DEF system
<1>8. {r \in system : Cmdb!Before(q, r)} \subseteq sweep.swept \ {q}
  <2> SUFFICES ASSUME NEW r \in system, Cmdb!Before(q, r) PROVE r \in sweep.swept /\ r # q
    OBVIOUS
  <2>1. r # q
    BY <1>3
  <2>2. CASE ~Sweeping(r)
    <3>1. Cmdb!Before(r, q)
      BY <1>6, <2>2 DEF SweepInv, Swept
    <3> QED BY <3>1, OlderIsNotNewer DEF SweepInv, ReviewInv
  <2> QED BY <2>1, <2>2 DEF Sweeping
<1>9. Cardinality({r \in system : Cmdb!Before(q, r)}) < n
  <2>1. Cardinality(sweep.swept \ {q}) = Cardinality(sweep.swept) - 1 /\ IsFiniteSet(sweep.swept \ {q})
        /\ Cardinality(sweep.swept \ {q}) \in Nat
    BY <1>1, FS_RemoveElement, FS_CardinalityType
  <2> DEFINE newer == {r \in system : Cmdb!Before(q, r)}
  <2>2. Cardinality(newer) <= Cardinality(sweep.swept \ {q}) /\ Cardinality(newer) \in Nat
    BY <1>8, <2>1, FS_Subset, FS_CardinalityType
  <2> HIDE DEF newer
  <2>3. Cardinality(newer) < n
    BY <1>1, <2>1, <2>2
  <2> QED BY <2>3 DEF newer
<1>10. q \in Cmdb!Newest(system, n)
  BY <1>7, <1>9, CmdbCount DEF Cmdb!Newest
<1> QED BY <1>10 DEF system

\* The audit of a sweep finds what the sweep has revoked.
LEMMA SweepAuditsKeeps ==
  ASSUME SweepInv, Cmdb!SweepAudits
  PROVE  SweepInv'
<1>1. ReviewInv' /\ UNCHANGED <<order, state>> /\ sweep # Cmdb!Idle /\ sweep' = Cmdb!Idle
  BY ReviewStep, CmdbCount DEF Cmdb!SweepAudits, Cmdb!Next, SweepInv
<1> PICK n : n = Cardinality(sweep.swept)
  OBVIOUS
<1> PICK page : page = Cmdb!Newest(Cmdb!Revoked, IF n > Page THEN n ELSE Page)
  OBVIOUS
<1> DEFINE rows == Cmdb!Newest({p \in page : state[p].by = "SYSTEM"}, n)
<1>2. audit' = audit \cup {<<p, "REVOKE">> : p \in rows} /\ missed' = missed \cup (sweep.swept \ page)
  BY CmdbCount DEF Cmdb!SweepAudits
<1>3. rows \subseteq Proposals
  BY CmdbCount DEF Cmdb!Newest, Cmdb!Revoked
<1>4. \A q \in Proposals : Sweeping(q) => q \in rows \/ q \in missed'
  <2> SUFFICES ASSUME NEW q \in Proposals, Sweeping(q), q \in page PROVE q \in rows
    BY <1>2 DEF Sweeping
  <2> QED BY <1>1, AuditFindsTheSwept
<1> HIDE DEF rows
<1>5. \A p \in Proposals : ~Sweeping(p)'
  BY <1>1 DEF Sweeping
<1>6. \A p, q : Cmdb!Before(p, q)' <=> Cmdb!Before(p, q)
  BY <1>1 DEF Cmdb!Before
<1>6a. missed \subseteq missed'
  BY <1>2
<1>7. ASSUME NEW p \in Proposals PROVE Swept(p)'
  <2>1. Swept(p)
    BY DEF SweepInv
  <2> QED BY <1>1, <1>2, <1>4, <1>5, <1>6, <1>6a, <2>1 DEF Swept
<1>8. Cmdb!IsInjective(order)' /\ Versions'
  BY <1>1 DEF SweepInv, Cmdb!IsInjective, Versions
<1>9. audit' \subseteq Proposals \X {"APPROVE", "REVOKE"}
  BY <1>2, <1>3 DEF SweepInv
<1> QED BY <1>1, <1>5, <1>7, <1>8, <1>9 DEF SweepInv

\* What a sweep revokes was a draft, and awaits its audit.
LEMMA SweepKeeps ==
  ASSUME SweepInv, NEW n \in 1..Len(order), Cmdb!Sweep(n)
  PROVE  SweepInv'
<1>1. ReviewInv' /\ UNCHANGED <<order, audit, missed>> /\ sweep = Cmdb!Idle
  BY ReviewStep DEF Cmdb!Sweep, Cmdb!Next, SweepInv
<1> DEFINE old == {p \in {order[i] : i \in 1..n} : state[p].status = "DRAFT"}
<1>2. /\ state' = [p \in Proposals |->
                    IF p \in old
                    THEN [status |-> "REVOKED", version |-> state[p].version + 1, by |-> "SYSTEM"]
                    ELSE state[p]]
      /\ sweep' = [pc |-> "audit", swept |-> old]
  BY DEF Cmdb!Sweep
<1>3. order \in Seq(Proposals) /\ state \in [Proposals -> States] /\ Cmdb!IsInjective(order)
  BY DEF SweepInv, ReviewInv
<1>4. old \subseteq Proposals /\ \A p \in old : state[p].status = "DRAFT" /\ \E i \in 1..n : order[i] = p
  BY <1>3
<1>5. ASSUME NEW p \in old, NEW q \in Proposals, state[q].status = "DRAFT", q \notin old
      PROVE  Cmdb!Before(p, q)
  <2>1. PICK i \in 1..n : order[i] = p
    BY <1>4
  <2>2. q \in Cmdb!Submitted
    BY <1>5 DEF SweepInv, ReviewInv, Listed
  <2>3. PICK j \in DOMAIN order : order[j] = q
    BY <2>2 DEF Cmdb!Submitted
  <2>4. j \notin 1..n
    BY <1>5, <2>3
  <2>5. i \in DOMAIN order /\ i < j
    BY <1>3, <2>4
  <2> QED BY <2>1, <2>3, <2>5 DEF Cmdb!Before
<1> HIDE DEF old
<1>6. \A p, q : Cmdb!Before(p, q)' <=> Cmdb!Before(p, q)
  BY <1>1 DEF Cmdb!Before
<1>7. \A p \in Proposals : Sweeping(p)' <=> p \in old
  BY <1>2 DEF Sweeping, Cmdb!Idle
<1>8. \A p \in Proposals : ~Sweeping(p)
  BY <1>1 DEF Sweeping
<1>9. \A p \in Proposals :
        IF p \in old THEN /\ state'[p].status = "REVOKED" /\ state'[p].by = "SYSTEM"
                          /\ state'[p].version = state[p].version + 1
                     ELSE state'[p] = state[p]
  BY <1>2
<1>10. ASSUME NEW p \in Proposals PROVE Swept(p)'
  <2>1. Swept(p)
    BY DEF SweepInv
  <2>2. ASSUME NEW q \in Proposals, state'[q].status = "DRAFT", state'[p].by = "SYSTEM"
        PROVE  Cmdb!Before(p, q)
    <3>1. q \notin old /\ state[q].status = "DRAFT"
      BY <1>9, <2>2
    <3> QED BY <1>5, <1>9, <2>1, <2>2, <3>1 DEF Swept
  <2>3. ASSUME NEW q \in old, p \notin old, state'[p].by = "SYSTEM"
        PROVE  Cmdb!Before(p, q)
    BY <1>4, <1>9, <2>1, <2>3 DEF Swept
  <2> QED BY <1>1, <1>4, <1>6, <1>7, <1>8, <1>9, <2>1, <2>2, <2>3 DEF Swept
<1>11. Versions'
  <2> SUFFICES ASSUME NEW p \in Proposals
               PROVE  /\ state'[p].status = "DRAFT" => state'[p].version = 1
                      /\ state'[p].status = "APPROVED" => state'[p].version = 2
                      /\ state'[p].version <= 3
    BY DEF Versions
  <2>1. /\ state[p].status = "DRAFT" => state[p].version = 1
        /\ state[p].status = "APPROVED" => state[p].version = 2
        /\ state[p].version <= 3
    BY DEF SweepInv, Versions
  <2> QED BY <1>4, <1>9, <2>1
<1>12. Cmdb!IsInjective(order)' /\ audit' \subseteq Proposals \X {"APPROVE", "REVOKE"}
  BY <1>1, <1>3 DEF SweepInv, Cmdb!IsInjective
<1>13. sweep' \in [pc : {"audit"}, swept : SUBSET Proposals]
  BY <1>2, <1>4
<1>14. IsFiniteSet(old)
  <2>1. IsFiniteSet({order[i] : i \in 1..n})
    <3> DEFINE f == [i \in 1..n |-> order[i]]
    <3>1. f \in Surjection(1..n, {order[i] : i \in 1..n})
      BY DEF Surjection
    <3>2. IsFiniteSet(1..n)
      BY <1>3, FS_Interval
    <3> QED BY <3>1, <3>2, FS_Surjection
  <2> QED BY <2>1, FS_Subset DEF old
<1>15. IsFiniteSet(sweep'.swept)
  BY <1>2, <1>14
<1> QED BY <1>1, <1>7, <1>9, <1>10, <1>11, <1>12, <1>13, <1>15 DEF SweepInv

\* A step of a review moves one proposal at most, and revokes none for the system.
LEMMA ReviewKeepsSweep ==
  ASSUME SweepInv, ReviewInv', UNCHANGED <<order, sweep, missed>>, audit \subseteq audit',
         audit' \subseteq Proposals \X {"APPROVE", "REVOKE"},
         \A p \in Proposals : state'[p] # state[p] =>
           /\ state[p].status \in {"DRAFT", "APPROVED"} /\ state'[p].status \in {"APPROVED", "REVOKED"}
           /\ state'[p].status = "APPROVED" => state[p].status = "DRAFT"
           /\ state'[p].version = state[p].version + 1 /\ state'[p].by = "user"
  PROVE  SweepInv'
<1>1. \A p, q : Cmdb!Before(p, q)' <=> Cmdb!Before(p, q)
  BY DEF Cmdb!Before
<1>2. \A p \in Proposals : Sweeping(p)' <=> Sweeping(p)
  BY DEF Sweeping
<1>3. ASSUME NEW p \in Proposals PROVE Swept(p)' /\ (Sweeping(p)' => state'[p].by = "SYSTEM")
  <2>1. Swept(p) /\ (Sweeping(p) => state[p].by = "SYSTEM")
    BY DEF SweepInv
  <2>2. state[p].by = "SYSTEM" => state'[p] = state[p]
    BY <2>1 DEF Swept
  <2>3. state'[p].by = "SYSTEM" => state[p].by = "SYSTEM"
    OBVIOUS
  <2>4. \A q \in Proposals : state'[q].status = "DRAFT" => state[q].status = "DRAFT"
    OBVIOUS
  <2> QED BY <1>1, <1>2, <2>1, <2>2, <2>3, <2>4 DEF Swept
<1>4. Versions'
  <2> SUFFICES ASSUME NEW p \in Proposals
               PROVE  /\ state'[p].status = "DRAFT" => state'[p].version = 1
                      /\ state'[p].status = "APPROVED" => state'[p].version = 2
                      /\ state'[p].version <= 3
    BY DEF Versions
  <2>1. /\ state[p].status = "DRAFT" => state[p].version = 1
        /\ state[p].status = "APPROVED" => state[p].version = 2
        /\ state[p].version <= 3
    BY DEF SweepInv, Versions
  <2> QED BY <2>1
<1>5. Cmdb!IsInjective(order)'
  BY DEF SweepInv, Cmdb!IsInjective
<1>6. sweep' = Cmdb!Idle \/ sweep' \in [pc : {"audit"}, swept : SUBSET Proposals]
  BY DEF SweepInv
<1> QED BY <1>3, <1>4, <1>5, <1>6 DEF SweepInv

\* A new proposal is no swept one.
LEMMA SubmitKeepsSweep ==
  ASSUME SweepInv, NEW p \in Proposals, Cmdb!Submit(p)
  PROVE  SweepInv'
<1>1. /\ ReviewInv' /\ UNCHANGED <<audit, sweep, missed>> /\ p \notin Cmdb!Submitted /\ order' = Append(order, p)
      /\ state' = [state EXCEPT ![p] = [status |-> "DRAFT", version |-> 1, by |-> "none"]]
  BY ReviewStep DEF Cmdb!Submit, Cmdb!Next, SweepInv
<1>2. order \in Seq(Proposals) /\ state \in [Proposals -> States] /\ Cmdb!IsInjective(order)
  BY DEF SweepInv, ReviewInv
<1>3. /\ DOMAIN order = 1..Len(order) /\ Len(order) \in Nat /\ DOMAIN order' = 1..(Len(order) + 1)
      /\ order'[Len(order) + 1] = p /\ \A i \in DOMAIN order : order'[i] = order[i]
  BY <1>1, <1>2
<1>4. Cmdb!IsInjective(order)'
  <2> SUFFICES ASSUME NEW i \in DOMAIN order', NEW j \in DOMAIN order', order'[i] = order'[j]
               PROVE  i = j
    BY DEF Cmdb!IsInjective
  <2>1. \A k \in DOMAIN order : order[k] # p
    BY <1>1 DEF Cmdb!Submitted
  <2> QED BY <1>2, <1>3, <2>1 DEF Cmdb!IsInjective
<1>5. \A q, r : Cmdb!Before(q, r) => Cmdb!Before(q, r)'
  <2> SUFFICES ASSUME NEW q, NEW r, Cmdb!Before(q, r) PROVE Cmdb!Before(q, r)'
    OBVIOUS
  <2>1. PICK i \in DOMAIN order, j \in DOMAIN order : i < j /\ order[i] = q /\ order[j] = r
    BY DEF Cmdb!Before
  <2>2. i \in DOMAIN order' /\ j \in DOMAIN order' /\ order'[i] = q /\ order'[j] = r
    BY <1>3, <2>1
  <2> QED BY <2>1, <2>2 DEF Cmdb!Before
<1>6. ASSUME NEW q \in Cmdb!Submitted PROVE Cmdb!Before(q, p)'
  <2>1. PICK i \in DOMAIN order : order[i] = q
    BY DEF Cmdb!Submitted
  <2>2. i \in DOMAIN order' /\ order'[i] = q /\ Len(order) + 1 \in DOMAIN order' /\ i < Len(order) + 1
    BY <1>3, <2>1
  <2> QED BY <1>3, <2>2 DEF Cmdb!Before
<1>7. state[p].status = "NONE"
  BY <1>1 DEF SweepInv, ReviewInv, Listed, States, Statuses
<1>8. \A q \in Proposals : IF q = p THEN state'[q] = [status |-> "DRAFT", version |-> 1, by |-> "none"]
                                    ELSE state'[q] = state[q]
  BY <1>1, <1>2
<1>9. \A q \in Proposals : Sweeping(q)' <=> Sweeping(q)
  BY <1>1 DEF Sweeping
<1>10. ASSUME NEW q \in Proposals PROVE Swept(q)' /\ (Sweeping(q)' => state'[q].by = "SYSTEM")
  <2>1. Swept(q) /\ (Sweeping(q) => state[q].by = "SYSTEM") /\ Swept(p) /\ (Sweeping(p) => state[p].by = "SYSTEM")
    BY DEF SweepInv
  <2>2. CASE q = p
    <3>1. state'[q].by = "none" /\ ~Sweeping(q)
      BY <1>7, <1>8, <2>1, <2>2 DEF Swept
    <3> QED BY <1>9, <3>1 DEF Swept
  <2>3. CASE q # p
    <3>1. state'[q] = state[q]
      BY <1>8, <2>3
    <3>2. state[q].by = "SYSTEM" => Cmdb!Before(q, p)'
      <4>1. state[q].by = "SYSTEM" => q \in Cmdb!Submitted
        BY <2>1 DEF Swept, SweepInv, ReviewInv, Listed
      <4> QED BY <1>6, <4>1
    <3>3. state[q].by = "SYSTEM" => \A r \in Proposals : state'[r].status = "DRAFT" => Cmdb!Before(q, r)'
      BY <1>5, <1>8, <2>1, <3>2 DEF Swept
    <3>4. state[q].by = "SYSTEM" => \A r \in Proposals : Sweeping(r)' /\ ~Sweeping(q)' => Cmdb!Before(q, r)'
      BY <1>5, <1>9, <2>1 DEF Swept
    <3> QED BY <1>1, <1>9, <2>1, <3>1, <3>3, <3>4 DEF Swept
  <2> QED BY <2>2, <2>3
<1>11. Versions'
  BY <1>8 DEF SweepInv, Versions
<1> QED BY <1>1, <1>4, <1>10, <1>11 DEF SweepInv

\* Every step keeps the sweep's invariant.
LEMMA SweepStep ==
  ASSUME SweepInv, [Cmdb!Next]_Cmdb!vars
  PROVE  SweepInv'
<1>1. ReviewInv' /\ state \in [Proposals -> States] /\ audit \subseteq Proposals \X {"APPROVE", "REVOKE"}
  BY ReviewStep DEF SweepInv, ReviewInv
<1>2. CASE UNCHANGED <<order, state, audit, sweep, missed>>
  BY <1>1, <1>2, ReviewKeepsSweep
<1>3. ASSUME NEW w \in Workers, Cmdb!Approve(w) \/ Cmdb!Revoke(w) PROVE SweepInv'
  <2>1. UNCHANGED <<order, audit, sweep, missed>> /\ cReq[w] \in CmdbRequests
    BY <1>3 DEF Cmdb!Approve, Cmdb!Revoke, SweepInv, ReviewInv, Cmdb!Idle
  <2>2. CASE UNCHANGED state
    BY <1>2, <2>1, <2>2
  <2>3. PICK p \in Proposals : p = cReq[w].id
    BY <2>1 DEF CmdbRequests
  <2>4. CASE ~UNCHANGED state
    <3>1. PICK status \in {"APPROVED", "REVOKED"} :
            /\ state' = [state EXCEPT ![p] = [status |-> status, version |-> @.version + 1, by |-> "user"]]
            /\ state[p].status \in {"DRAFT", "APPROVED"} /\ (status = "APPROVED" => state[p].status = "DRAFT")
      BY <1>3, <2>3, <2>4 DEF Cmdb!Approve, Cmdb!Revoke, Cmdb!Move
    <3>2. \A q \in Proposals : IF q = p
             THEN state'[q] = [status |-> status, version |-> state[p].version + 1, by |-> "user"]
             ELSE state'[q] = state[q]
      BY <1>1, <3>1
    <3>3. \A q \in Proposals : state'[q] # state[q] =>
           /\ state[q].status \in {"DRAFT", "APPROVED"} /\ state'[q].status \in {"APPROVED", "REVOKED"}
           /\ state'[q].status = "APPROVED" => state[q].status = "DRAFT"
           /\ state'[q].version = state[q].version + 1 /\ state'[q].by = "user"
      BY <3>1, <3>2
    <3> QED BY <1>1, <2>1, <3>3, ReviewKeepsSweep
  <2> QED BY <2>2, <2>4
<1>4. ASSUME NEW w \in Workers, Cmdb!Audit(w) PROVE SweepInv'
  <2>1. cReq[w] \in CmdbRequests /\ UNCHANGED <<order, state, sweep, missed>>
    BY <1>4 DEF Cmdb!Audit, SweepInv, ReviewInv, Cmdb!Idle
  <2>2. cReq[w].id \in Proposals
    BY <2>1 DEF CmdbRequests
  <2>3. audit \subseteq audit' /\ audit' \subseteq Proposals \X {"APPROVE", "REVOKE"}
    BY <1>1, <1>4, <2>2 DEF Cmdb!Audit
  <2> QED BY <1>1, <2>1, <2>3, ReviewKeepsSweep
<1> QED BY <1>2, <1>3, <1>4, SweepAuditsKeeps, SweepKeeps, SubmitKeepsSweep
        DEF Cmdb!Next, Cmdb!vars, Cmdb!Collide, Cmdb!CommitCI, Cmdb!Crash, Cmdb!Review

\* Nothing has been swept at the start.
LEMMA SweepStart == ASSUME Cmdb!Init PROVE SweepInv
<1>1. ReviewInv
  BY ReviewInit
<1>2. \A p \in Proposals : state[p] = Cmdb!NoNode
  BY DEF Cmdb!Init
<1>3. order = <<>> /\ Cmdb!IsInjective(order)
  BY DEF Cmdb!Init, Cmdb!IsInjective
<1>4. sweep = Cmdb!Idle /\ audit = {}
  BY DEF Cmdb!Init
<1> QED BY <1>1, <1>2, <1>3, <1>4 DEF SweepInv, Cmdb!NoNode, Versions, Swept, Sweeping

\* An idle sweep has audited what it revoked.
LEMMA SweepHolds == ASSUME SweepInv PROVE Cmdb!TypeOK /\ Cmdb!ApprovedIsApplied /\ Cmdb!SweptAreAudited
<1>1. state \in [Proposals -> States] /\ Versions /\ Listed
  BY DEF SweepInv, ReviewInv
<1>2. state \in [Proposals -> [status : Statuses, version : 0..3, by : {"none", "user", "SYSTEM"}]]
  <2> SUFFICES ASSUME NEW p \in Proposals
               PROVE  state[p] \in [status : Statuses, version : 0..3, by : {"none", "user", "SYSTEM"}]
    BY <1>1
  <2>1. state[p] \in States /\ state[p].version <= 3
    BY <1>1 DEF Versions
  <2>2. state[p].version \in 0..3
    BY <2>1 DEF States
  <2> QED BY <2>1, <2>2 DEF States
<1>3. \A p \in Proposals : state[p].status = "NONE" <=> p \notin Cmdb!Submitted
  BY <1>1 DEF Listed
<1>4. Cmdb!TypeOK
  BY <1>2, <1>3 DEF Cmdb!TypeOK, Statuses, SweepInv, ReviewInv
<1>5. Cmdb!SweptAreAudited
  BY DEF SweepInv, Swept, Sweeping, Cmdb!SweptAreAudited
<1> QED BY <1>4, <1>5 DEF SweepInv, ReviewInv

-----------------------------------------------------------------------------
(* MqttBridge                                                               *)

\* The instance counts as FiniteSets does.
LEMMA BridgeCount == \A S : Bridge!Cardinality(S) = Cardinality(S)
BY DEF Bridge!Cardinality, Cardinality

-----------------------------------------------------------------------------
(* Mappings                                                                *)

MappingTypes ==
    /\ mapStatus \in [Maps -> Bridge!MapStatuses]
    /\ request \in [Operators -> [kind : Bridge!RequestKinds, map : Maps \union {Bridge!None}]]
    /\ \A o \in Operators : request[o].kind # "idle" =>
         request[o].map \in Maps /\ mapStatus[request[o].map] # Bridge!None

Granted(o) == request[o].kind = "approved"
SameSource(p, q) == SourceOf[p] = SourceOf[q]

\* Of each source one mapping is approved or has its approval under way.
Approvals ==
    /\ \A p, q \in Maps :
         mapStatus[p] = "APPROVED" /\ mapStatus[q] = "APPROVED" /\ SameSource(p, q) => p = q
    /\ \A o \in Operators : Granted(o) =>
         /\ mapStatus[request[o].map] = "DRAFT"
         /\ \A q \in Maps : SameSource(q, request[o].map) => mapStatus[q] # "APPROVED"
    /\ \A o, o2 \in Operators :
         Granted(o) /\ Granted(o2) /\ SameSource(request[o].map, request[o2].map) => o = o2

MappingInv == MappingTypes /\ Approvals

(* The subscribers leave the mappings and the requests alone.               *)
LEMMA SubscribersOnlyRead ==
  ASSUME NEW s \in Subscribers, Bridge!Dispatch(s) \/ Bridge!Nack(s)
  PROVE  UNCHANGED Bridge!mapVars
<1>1. ASSUME Bridge!Store(s) PROVE UNCHANGED Bridge!mapVars
  BY <1>1, BridgeCount DEF Bridge!Store, Bridge!ResolveMapping, Bridge!ReadReceipt, Bridge!WriteMetric,
      Bridge!MarkFailed, Bridge!MarkWritten, Bridge!WriteEvent,
     Bridge!MarkEventWritten, Bridge!MarkEventFailed, Bridge!RecordOutcome, Bridge!BridgeRaises,
     Bridge!EndReading
<1>2. ASSUME Bridge!Deliver(s) \/ Bridge!Parse(s) \/ Bridge!PersistRaw(s) \/ Bridge!Ack(s) \/ Bridge!Nack(s)
      PROVE  UNCHANGED Bridge!mapVars
  BY <1>2 DEF Bridge!Deliver, Bridge!Parse, Bridge!PersistRaw, Bridge!Ack, Bridge!Nack
<1> QED BY <1>1, <1>2 DEF Bridge!Dispatch

(* An approval looks for others of its source under the source's lock and   *)
(* keeps the lock until it commits.                                         *)
LEMMA MappingStepKeepsInv == ASSUME MappingInv, [Bridge!Next]_Bridge!vars PROVE MappingInv'
<1> USE DEF MappingInv, MappingTypes, Approvals, Granted, SameSource, Bridge!MapStatuses,
    Bridge!RequestKinds, Bridge!None
<1>1. CASE UNCHANGED Bridge!vars
  BY <1>1 DEF Bridge!vars, Bridge!mapVars
<1>2. ASSUME NEW p \in Maps, Bridge!CreateDraft(p) PROVE MappingInv'
  BY <1>2 DEF Bridge!CreateDraft
<1>3. ASSUME NEW o \in Operators, NEW p \in Maps, Bridge!ReadMapping(o, p) PROVE MappingInv'
  BY <1>3 DEF Bridge!ReadMapping
<1>4. ASSUME NEW o \in Operators, Bridge!UpdateDraft(o) PROVE MappingInv'
  BY <1>4 DEF Bridge!UpdateDraft, Bridge!Answer, Bridge!NoRequest
<1>5. ASSUME NEW o \in Operators, Bridge!ApproveStatement(o) PROVE MappingInv'
  BY <1>5 DEF Bridge!ApproveStatement, Bridge!Answer, Bridge!NoRequest, Bridge!SourceLocked,
      Bridge!Approving, Bridge!Conflicts
<1>6. ASSUME NEW o \in Operators, Bridge!ApproveCommit(o) PROVE MappingInv'
  BY <1>6 DEF Bridge!ApproveCommit, Bridge!Answer, Bridge!NoRequest
<1>7. ASSUME NEW o \in Operators, Bridge!Revoke(o) PROVE MappingInv'
  BY <1>7 DEF Bridge!Revoke, Bridge!Answer, Bridge!NoRequest, Bridge!Approving
<1>8. ASSUME NEW s \in Subscribers, Bridge!Dispatch(s) \/ Bridge!Nack(s) PROVE MappingInv'
  BY <1>8, SubscribersOnlyRead DEF Bridge!mapVars
<1> QED BY <1>1, <1>2, <1>3, <1>4, <1>5, <1>6, <1>7, <1>8 DEF Bridge!Next, Bridge!MappingStep

(* The mappings' invariant holds at all times.                              *)
LEMMA MappingsAlways == Bridge!Spec => []MappingInv
<1>1. Bridge!Init => MappingInv
  BY DEF Bridge!Init, MappingInv, MappingTypes, Approvals, Granted, Bridge!NoRequest,
      Bridge!MapStatuses, Bridge!RequestKinds, Bridge!None
<1> QED BY <1>1, MappingStepKeepsInv, PTL DEF Bridge!Spec

(* However many operators approve mappings of one source at once, no source *)
(* ever has two approved ones, so that the bridge never stops for           *)
(* BLOCKED_AMBIGUOUS_MAPPING (mqtt_mapping_repo.py, approve).               *)
THEOREM SourcesAreUnambiguous == Bridge!Spec => []Bridge!OneApproved
<1>1. MappingInv => Bridge!OneApproved
  <2> SUFFICES ASSUME MappingInv, NEW metric \in 1 .. MetricCount
               PROVE  Cardinality(Bridge!Approved(metric)) <= 1
    BY BridgeCount DEF Bridge!OneApproved
  <2>1. CASE Bridge!Approved(metric) = {}
    BY <2>1, FS_EmptySet
  <2>2. CASE Bridge!Approved(metric) # {}
    <3>1. PICK p \in Bridge!Approved(metric) : TRUE
      BY <2>2
    <3>2. Bridge!Approved(metric) = {p}
      BY <3>1 DEF Bridge!Approved, MappingInv, Approvals, SameSource
    <3>3. Cardinality({p}) = 1
      BY FS_Singleton
    <3> QED BY <3>2, <3>3
  <2> QED BY <2>1, <2>2
<1> QED BY <1>1, MappingsAlways, PTL

(* A revoked mapping stays revoked, whatever an approval had read before.   *)
THEOREM RevocationsStand == Bridge!Spec => Bridge!RevokedIsFinal
<1> DEFINE Stands == \A p \in Maps : mapStatus[p] = "REVOKED" => mapStatus'[p] = "REVOKED"
<1>1. ASSUME MappingInv, [Bridge!Next]_Bridge!vars PROVE Stands
  <2> USE <1>1 DEF MappingInv, MappingTypes
  <2>1. CASE UNCHANGED Bridge!vars
    BY <2>1 DEF Bridge!vars, Bridge!mapVars
  <2>2. ASSUME NEW p \in Maps, Bridge!CreateDraft(p) PROVE Stands
    BY <2>2 DEF Bridge!CreateDraft, Bridge!None
  <2>3. ASSUME NEW o \in Operators, NEW p \in Maps, Bridge!ReadMapping(o, p) PROVE Stands
    BY <2>3 DEF Bridge!ReadMapping
  <2>4. ASSUME NEW o \in Operators, Bridge!UpdateDraft(o) \/ Bridge!ApproveStatement(o) PROVE Stands
    BY <2>4 DEF Bridge!UpdateDraft, Bridge!ApproveStatement
  <2>5. ASSUME NEW o \in Operators, Bridge!ApproveCommit(o) PROVE Stands
    BY <2>5 DEF Bridge!ApproveCommit, Approvals, Granted
  <2>6. ASSUME NEW o \in Operators, Bridge!Revoke(o) PROVE Stands
    BY <2>6 DEF Bridge!Revoke
  <2>7. ASSUME NEW s \in Subscribers, Bridge!Dispatch(s) \/ Bridge!Nack(s) PROVE Stands
    BY <2>7, SubscribersOnlyRead DEF Bridge!mapVars
  <2> QED BY <1>1, <2>1, <2>2, <2>3, <2>4, <2>5, <2>6, <2>7 DEF Bridge!Next, Bridge!MappingStep
<1>2. MappingInv /\ [Bridge!Next]_Bridge!vars => [Stands]_Bridge!vars
  BY <1>1
<1>3. [][Stands]_Bridge!vars <=> Bridge!RevokedIsFinal
  BY DEF Bridge!RevokedIsFinal, Bridge!vars
<1> QED BY <1>2, MappingsAlways, PTL DEF Bridge!Spec, Bridge!RevokedIsFinal

-----------------------------------------------------------------------------
(* Readings                                                                *)

HasSample(k) == \E x \in samples : x.time = k[3] /\ k[3] \in StampsOf[x.msg]
SampleRows == [target : Samplings, time : Stamps, msg : Messages, metric : 1 .. MetricCount]

\* A row has a time that its reading may have.
Timed == \A x \in samples : x.time \in StampsOf[x.msg]

Bridging == {"receipt", "metric", "mark", "event", "event_written", "event_failed", "failed"}
OnReceipt == {"mark", "event", "event_written", "event_failed"}

\* Where a subscriber stands says what it has in hand and what it has done.
Place(s) ==
    /\ at[s].pc # "idle" => at[s].msg \in Messages
    /\ at[s].pc \in Bridging \union {"bridge", "outcome"} => at[s].metric >= 1 /\ at[s].msg \in raw
    /\ at[s].pc \in Bridging \union {"outcome"} => at[s].metric <= MetricCount
    /\ at[s].pc \in Bridging \union {"raw", "bridge", "outcome"} => at[s].time \in StampsOf[at[s].msg]
    /\ at[s].pc \in Bridging =>
         at[s].map \in Maps /\ at[s].target \in Samplings /\ SourceOf[at[s].map] = at[s].metric
    /\ at[s].pc \in OnReceipt => HasSample(Bridge!Key(s))
    /\ at[s].pc = "event_written" => Bridge!Key(s) \in events
    /\ at[s].pc = "ack" => at[s].msg \in raw \union Malformed

BridgeInv ==
    /\ Bridge!TypeOK /\ MappingTypes /\ Timed /\ Bridge!ReceiptsAreTrue /\ Bridge!AckedIsRaw
    /\ \A p \in Maps : mapStatus[p] # Bridge!None => target[p] \in Samplings
    /\ \A s \in Subscribers : Place(s)

(* Operators change mappings, and never what a reading has stored.          *)
LEMMA MappingStepKeepsBridge ==
  ASSUME ReadingsAreSet, BridgeInv, Bridge!MappingStep
  PROVE  BridgeInv'
<1> USE DEF BridgeInv, Bridge!TypeOK, MappingTypes, Bridge!MapStatuses, Bridge!RequestKinds, ReadingsAreSet
<1>1. UNCHANGED <<pending, at, raw, Bridge!storeVars, acked, mFailures>>
  BY DEF Bridge!MappingStep, Bridge!CreateDraft, Bridge!ReadMapping, Bridge!UpdateDraft,
      Bridge!ApproveStatement, Bridge!ApproveCommit, Bridge!Revoke,
     Bridge!BridgeUnchanged
<1>2. UNCHANGED <<pending, at, raw, receipts, samples, events, acked>>
  BY <1>1 DEF Bridge!storeVars
<1>3. Bridge!ReceiptsAreTrue' /\ Bridge!AckedIsRaw' /\ Timed' /\ \A s \in Subscribers : Place(s)'
  BY <1>2 DEF Bridge!ReceiptsAreTrue, Bridge!AckedIsRaw, Timed, Place, HasSample, Bridge!Key
<1> DEFINE Mapped ==
      /\ mapStatus \in [Maps -> Bridge!MapStatuses] /\ target \in [Maps -> Samplings \union {Bridge!None}]
      /\ request \in [Operators -> [kind : Bridge!RequestKinds, map : Maps \union {Bridge!None}]]
      /\ \A o \in Operators : request[o].kind # "idle" =>
           request[o].map \in Maps /\ mapStatus[request[o].map] # Bridge!None
      /\ \A p \in Maps : mapStatus[p] # Bridge!None => target[p] \in Samplings
<1>0. Mapped
  BY DEF BridgeInv
<1> HIDE DEF BridgeInv, Bridge!TypeOK, MappingTypes
<1>4. Mapped'
  <2>1. ASSUME NEW p \in Maps, Bridge!CreateDraft(p) PROVE Mapped'
    <3>1. PICK t \in Samplings : target' = [target EXCEPT ![p] = t]
      BY <2>1 DEF Bridge!CreateDraft
    <3>2. mapStatus' = [mapStatus EXCEPT ![p] = "DRAFT"] /\ request' = request
      BY <2>1 DEF Bridge!CreateDraft
    <3> QED BY <1>0, <3>1, <3>2 DEF Bridge!None
  <2>2. ASSUME NEW o \in Operators, NEW p \in Maps, Bridge!ReadMapping(o, p) PROVE Mapped'
    BY <1>0, <2>2 DEF Bridge!ReadMapping, Bridge!None
  <2>3. ASSUME NEW o \in Operators, Bridge!UpdateDraft(o) PROVE Mapped'
    BY <1>0, <2>3 DEF Bridge!UpdateDraft, Bridge!Answer, Bridge!NoRequest, Bridge!None
  <2>4. ASSUME NEW o \in Operators, Bridge!ApproveStatement(o) PROVE Mapped'
    <3>1. request' = [request EXCEPT ![o].kind = "approved"] \/ Bridge!Answer(o)
      BY <2>4 DEF Bridge!ApproveStatement
    <3>2. request[o].kind # "idle" /\ UNCHANGED <<mapStatus, target>>
      BY <2>4 DEF Bridge!ApproveStatement
    <3>3. CASE request' = [request EXCEPT ![o].kind = "approved"]
      BY <1>0, <3>2, <3>3 DEF Bridge!None
    <3>4. CASE Bridge!Answer(o)
      BY <1>0, <3>2, <3>4 DEF Bridge!Answer, Bridge!NoRequest, Bridge!None
    <3> QED BY <3>1, <3>3, <3>4
  <2>5. ASSUME NEW o \in Operators, Bridge!ApproveCommit(o) PROVE Mapped'
    BY <1>0, <2>5 DEF Bridge!ApproveCommit, Bridge!Answer, Bridge!NoRequest, Bridge!None
  <2>6. ASSUME NEW o \in Operators, Bridge!Revoke(o) PROVE Mapped'
    BY <1>0, <2>6 DEF Bridge!Revoke, Bridge!Answer, Bridge!NoRequest, Bridge!None
  <2> QED BY <2>1, <2>2, <2>3, <2>4, <2>5, <2>6 DEF Bridge!MappingStep
<1> QED BY <1>2, <1>3, <1>4 DEF BridgeInv, Bridge!TypeOK, MappingTypes

-----------------------------------------------------------------------------
Positions == [pc : Bridge!Points, msg : Messages \union {Bridge!None},
              time : Stamps \union {Bridge!None}, metric : 0 .. MetricCount + 1,
              map : Maps \union {Bridge!None}, target : Samplings \union {Bridge!None}]

\* The stores only grow, and the others stay where they are.
Onward(s) ==
    /\ at' \in [Subscribers -> Positions]
    /\ \A q \in Subscribers \ {s} : at'[q] = at[q]
    /\ raw \subseteq raw' /\ samples \subseteq samples' /\ events \subseteq events'

(* What a place says of a subscriber stays true when another one works.     *)
LEMMA OthersStay ==
  ASSUME NEW s \in Subscribers, \A q \in Subscribers : Place(q), Onward(s), Place(s)'
  PROVE  \A q \in Subscribers : Place(q)'
<1> SUFFICES ASSUME NEW q \in Subscribers, q # s PROVE Place(q)'
  OBVIOUS
<1>1. Place(q) /\ at'[q] = at[q]
  BY DEF Onward
<1>2. HasSample(Bridge!Key(q)) => HasSample(Bridge!Key(q))'
  BY <1>1 DEF HasSample, Bridge!Key, Onward
<1>3. Bridge!Key(q)' = Bridge!Key(q)
  BY <1>1 DEF Bridge!Key
<1> QED BY <1>1, <1>2, <1>3 DEF Place, Onward

(* Goto changes the control point of one subscriber.                        *)
LEMMA GotoMoves ==
  ASSUME at \in [Subscribers -> Positions], NEW s \in Subscribers, NEW pc \in Bridge!Points, Bridge!Goto(s, pc)
  PROVE  /\ at' \in [Subscribers -> Positions]
         /\ \A q \in Subscribers \ {s} : at'[q] = at[q]
         /\ at'[s].pc = pc /\ at'[s].msg = at[s].msg /\ at'[s].metric = at[s].metric
         /\ at'[s].map = at[s].map /\ at'[s].target = at[s].target /\ at'[s].time = at[s].time
<1>1. at[s] \in Positions
  OBVIOUS
<1>2. [at[s] EXCEPT !.pc = pc] \in Positions
  BY <1>1 DEF Positions
<1>3. at' = [at EXCEPT ![s] = [at[s] EXCEPT !.pc = pc]]
  BY DEF Bridge!Goto
<1> QED BY <1>1, <1>2, <1>3 DEF Positions

Stores ==
    /\ receipts \in [Maps \X Messages \X Stamps -> Bridge!ReceiptStatuses]
    /\ samples \subseteq SampleRows /\ Timed
    /\ events \subseteq Maps \X Messages \X Stamps
    /\ raw \subseteq Messages /\ pending \subseteq Messages /\ acked \subseteq Messages
    /\ target \in [Maps -> Samplings \union {Bridge!None}]
    /\ \A p \in Maps : mapStatus[p] # Bridge!None => target[p] \in Samplings
    /\ at \in [Subscribers -> Positions]

(* The part of the invariant that a subscriber's step can disturb.          *)
StoresInv == Stores /\ Bridge!ReceiptsAreTrue /\ Bridge!AckedIsRaw /\ \A s \in Subscribers : Place(s)

\* A delivered message puts a subscriber at the start of its dispatch.
LEMMA Delivered ==
  ASSUME ReadingsAreSet, NEW m \in Messages
  PROVE  LET r == [Bridge!Idle EXCEPT !.pc = "parse", !.msg = m] IN
         r \in Positions /\ r.pc = "parse" /\ r.msg = m
<1>1. 0 \in 0 .. MetricCount + 1
  BY DEF ReadingsAreSet
<1>2. Bridge!Idle \in Positions
  BY <1>1 DEF Bridge!Idle, Positions, Bridge!Points
<1> QED BY <1>2 DEF Positions, Bridge!Points

(* Delivery, the raw nodes and acknowledgements.                            *)
LEMMA DispatchKeepsStores ==
  ASSUME ReadingsAreSet, StoresInv, NEW s \in Subscribers,
         Bridge!Deliver(s) \/ Bridge!Parse(s) \/ Bridge!PersistRaw(s) \/ Bridge!Nack(s) \/ Bridge!Ack(s)
  PROVE  StoresInv'
<1> USE DEF StoresInv, Stores, ReadingsAreSet
<1>0. UNCHANGED <<Bridge!mapVars, receipts, samples, events>> /\ mapStatus' = mapStatus /\ target' = target
  BY DEF Bridge!Deliver, Bridge!Parse, Bridge!PersistRaw, Bridge!Nack, Bridge!Ack, Bridge!storeVars,
      Bridge!mapVars
<1>1. Bridge!ReceiptsAreTrue'
  BY <1>0 DEF Bridge!ReceiptsAreTrue
<1>2. SUFFICES pending' \subseteq Messages /\ acked' \subseteq Messages /\ raw' \subseteq Messages
               /\ Bridge!AckedIsRaw' /\ Onward(s) /\ Place(s)'
  BY <1>0, <1>1, OthersStay DEF Onward, Timed
<1> USE <1>0 DEF Onward, Place, Bridge!AckedIsRaw, Bridging, OnReceipt
<1>3. CASE Bridge!Deliver(s)
  <2>1. PICK m \in pending : at' = [at EXCEPT ![s] = [Bridge!Idle EXCEPT !.pc = "parse", !.msg = m]]
    BY <1>3 DEF Bridge!Deliver
  <2>2. m \in Messages
    BY <2>1
  <2> QED BY <1>3, <2>1, <2>2, Delivered DEF Bridge!Deliver
<1>4. CASE Bridge!Parse(s)
  <2>1. at[s].msg \in Messages /\ at[s] \in Positions /\ "ack" \in Bridge!Points /\ "raw" \in Bridge!Points
    BY <1>4 DEF Bridge!Parse, Bridge!Points
  <2>2. CASE Bridge!Goto(s, "ack") /\ at[s].msg \in Malformed
    BY <1>4, <2>1, <2>2, GotoMoves DEF Bridge!Parse
  <2>3. ASSUME NEW t \in StampsOf[at[s].msg], at' = [at EXCEPT ![s].pc = "raw", ![s].time = t]
        PROVE  Onward(s) /\ Place(s)'
    <3>1. t \in Stamps
      BY <2>1 DEF ReadingsAreSet
    <3>2. [at[s] EXCEPT !.pc = "raw", !.time = t] \in Positions
      BY <2>1, <3>1 DEF Positions
    <3>3. at'[s].pc = "raw" /\ at'[s].time = t /\ at'[s].msg = at[s].msg
      BY <2>1, <2>3 DEF Positions
    <3>4. Onward(s)
      BY <1>4, <2>3, <3>2 DEF Bridge!Parse
    <3> QED BY <2>1, <3>3, <3>4
  <2> QED BY <1>4, <2>2, <2>3 DEF Bridge!Parse
<1>5. CASE Bridge!PersistRaw(s)
  <2>1. at[s].msg \in Messages /\ at[s] \in Positions
    BY <1>5 DEF Bridge!PersistRaw
  <2>2. 1 \in 0 .. MetricCount + 1 /\ "bridge" \in Bridge!Points
    BY DEF Bridge!Points
  <2>3. [at[s] EXCEPT !.pc = "bridge", !.metric = 1] \in Positions
    BY <2>1, <2>2 DEF Positions
  <2> QED BY <1>5, <2>1, <2>3 DEF Bridge!PersistRaw
<1>6. CASE Bridge!Nack(s)
  BY <1>6 DEF Bridge!Nack, Bridge!Requeue, Bridge!Idle, Positions, Bridge!Points, Bridge!None
<1>7. CASE Bridge!Ack(s)
  <2>1. at[s].msg \in Messages /\ at[s].msg \in raw \union Malformed
    BY <1>7 DEF Bridge!Ack
  <2> QED BY <1>7, <2>1 DEF Bridge!Ack, Bridge!Requeue, Bridge!Idle, Positions, Bridge!Points,
      Bridge!None
<1> QED BY <1>3, <1>4, <1>5, <1>6, <1>7

\* What the bridge makes of a reading leaves the message and the raw nodes alone.
LEMMA BridgeOnly ==
  ASSUME NEW s \in Subscribers, Bridge!Store(s)
  PROVE  UNCHANGED <<mapStatus, target, pending, raw, acked>>
BY BridgeCount DEF Bridge!Store, Bridge!ResolveMapping, Bridge!ReadReceipt, Bridge!WriteMetric,
    Bridge!MarkFailed, Bridge!MarkWritten, Bridge!WriteEvent,
   Bridge!MarkEventWritten, Bridge!MarkEventFailed, Bridge!RecordOutcome, Bridge!BridgeRaises,
   Bridge!EndReading, Bridge!mapVars

(* The steps that only move on to the next metric, or give up.              *)
LEMMA MovesKeepStores ==
  ASSUME ReadingsAreSet, StoresInv, NEW s \in Subscribers, Bridge!Store(s),
         Bridge!ResolveMapping(s) \/ Bridge!RecordOutcome(s) \/ Bridge!BridgeRaises(s) \/ Bridge!EndReading(s)
  PROVE  StoresInv'
<1> USE DEF StoresInv, Stores, ReadingsAreSet
<1>0. UNCHANGED <<mapStatus, target, pending, raw, acked, receipts, samples, events>>
  BY BridgeOnly, BridgeCount DEF Bridge!ResolveMapping, Bridge!RecordOutcome, Bridge!BridgeRaises,
      Bridge!EndReading, Bridge!storeVars
<1>1. Bridge!ReceiptsAreTrue' /\ Bridge!AckedIsRaw'
  BY <1>0 DEF Bridge!ReceiptsAreTrue, Bridge!AckedIsRaw
<1>2. SUFFICES Onward(s) /\ Place(s)'
  BY <1>0, <1>1, OthersStay DEF Onward, Timed
<1> USE <1>0 DEF Onward, Place, Bridging, OnReceipt
<1>3. at[s] \in Positions /\ "ack" \in Bridge!Points /\ "outcome" \in Bridge!Points /\ "receipt" \in Bridge!Points /\ "bridge" \in Bridge!Points
  BY DEF Bridge!Points
<1>4. CASE Bridge!ResolveMapping(s)
  <2>1. CASE Bridge!Goto(s, "outcome")
    BY <1>3, <1>4, <2>1, GotoMoves, BridgeCount DEF Bridge!ResolveMapping
  <2>2. ASSUME NEW p \in Bridge!Approved(at[s].metric),
               at' = [at EXCEPT ![s].pc = "receipt", ![s].map = p, ![s].target = target[p]]
        PROVE  Onward(s) /\ Place(s)'
    <3>1. p \in Maps /\ SourceOf[p] = at[s].metric /\ target[p] \in Samplings
      BY <2>2 DEF Bridge!Approved, Bridge!None
    <3>2. [at[s] EXCEPT !.pc = "receipt", !.map = p, !.target = target[p]] \in Positions
      BY <1>3, <3>1 DEF Positions
    <3>3. /\ at'[s].pc = "receipt" /\ at'[s].map = p /\ at'[s].target = target[p]
          /\ at'[s].msg = at[s].msg /\ at'[s].metric = at[s].metric /\ at'[s].time = at[s].time
      BY <1>3, <2>2 DEF Positions
    <3>4. Onward(s)
      BY <2>2, <3>2
    <3>5. /\ at[s].msg \in Messages /\ at[s].msg \in raw /\ at[s].metric >= 1 /\ at[s].metric <= MetricCount
          /\ at[s].time \in StampsOf[at[s].msg]
      BY <1>4, BridgeCount DEF Bridge!ResolveMapping
    <3> QED BY <3>1, <3>3, <3>4, <3>5
  <2> QED BY <1>4, <2>1, <2>2, BridgeCount DEF Bridge!ResolveMapping
<1>5. CASE Bridge!RecordOutcome(s)
  <2>1. at[s].metric + 1 \in 0 .. MetricCount + 1 /\ at[s].metric + 1 >= 1 /\ at[s].msg \in raw
    BY <1>3, <1>5 DEF Bridge!RecordOutcome, Positions
  <2>2. [at[s] EXCEPT !.pc = "bridge", !.metric = at[s].metric + 1, !.map = Bridge!None, !.target = Bridge!None] \in Positions
    BY <1>3, <2>1 DEF Positions
  <2> QED BY <1>3, <1>5, <2>1, <2>2 DEF Bridge!RecordOutcome
<1>6. CASE Bridge!BridgeRaises(s)
  <2>1. at[s].msg \in Messages /\ (at[s].pc \in Bridging \union {"bridge", "outcome"})
    BY <1>6 DEF Bridge!BridgeRaises
  <2> QED BY <1>3, <1>6, <2>1, GotoMoves DEF Bridge!BridgeRaises
<1>7. CASE Bridge!EndReading(s)
  BY <1>3, <1>7, GotoMoves DEF Bridge!EndReading
<1> QED BY <1>4, <1>5, <1>6, <1>7

\* The receipt says no more than what is stored.
Truthful(k) ==
    /\ receipts[k] \in {"PENDING_EVENT", "COMPLETE"} => HasSample(k)
    /\ receipts[k] = "COMPLETE" => k \in events

(* The steps that touch a receipt or a store.                               *)
LEMMA ReceiptStepsKeepStores ==
  ASSUME ReadingsAreSet, StoresInv, NEW s \in Subscribers, Bridge!Store(s),
         \/ Bridge!ReadReceipt(s) \/ Bridge!WriteMetric(s) \/ Bridge!MarkFailed(s) \/ Bridge!MarkWritten(s)
         \/ Bridge!WriteEvent(s) \/ Bridge!MarkEventWritten(s) \/ Bridge!MarkEventFailed(s)
  PROVE  StoresInv'
<1> USE DEF StoresInv, Stores, ReadingsAreSet
<1> PICK key : key = Bridge!Key(s)
  OBVIOUS
<1>0. UNCHANGED <<mapStatus, target, pending, raw, acked>>
  BY BridgeOnly
<1>1. at[s].pc \in Bridging /\ at[s].pc \in Bridge!Points
  BY DEF Bridge!ReadReceipt, Bridge!WriteMetric, Bridge!MarkFailed, Bridge!MarkWritten,
      Bridge!WriteEvent, Bridge!MarkEventWritten, Bridge!MarkEventFailed,
     Bridging, Bridge!Points
<1>2. /\ at[s].msg \in Messages /\ at[s].msg \in raw /\ at[s].map \in Maps /\ at[s].target \in Samplings
      /\ at[s].metric >= 1 /\ at[s].metric <= MetricCount /\ SourceOf[at[s].map] = at[s].metric
      /\ at[s].pc \in OnReceipt => HasSample(key)
      /\ at[s].pc = "event_written" => key \in events
  BY <1>1 DEF Place, Bridging
<1>3. /\ key \in Maps \X Messages \X Stamps /\ at[s].metric \in 1 .. MetricCount
      /\ key[1] = at[s].map /\ key[2] = at[s].msg /\ key[3] = at[s].time /\ at[s].time \in StampsOf[at[s].msg]
  <2>1. at[s].time \in StampsOf[at[s].msg] /\ at[s].time \in Stamps
    BY <1>1, <1>2 DEF Place, ReadingsAreSet
  <2> QED BY <1>2, <2>1 DEF Bridge!Key, Positions, ReadingsAreSet
<1>4. \A k \in Maps \X Messages \X Stamps : Truthful(k)
  BY DEF Bridge!ReceiptsAreTrue, Truthful, HasSample
<1>5. \A k \in events : HasSample(k)
  BY DEF Bridge!ReceiptsAreTrue, HasSample
\* What is left to show once the step has gone to pc.
<1>6. ASSUME NEW pc \in Bridge!Points \ {"idle"}, Bridge!Goto(s, pc),
             samples \subseteq samples', samples' \subseteq SampleRows, Timed',
             events \subseteq events', events' \subseteq Maps \X Messages \X Stamps,
             receipts' \in [Maps \X Messages \X Stamps -> Bridge!ReceiptStatuses],
             \A k \in Maps \X Messages \X Stamps : Truthful(k)', \A k \in events' : HasSample(k)',
             pc \in OnReceipt => HasSample(key)', pc = "event_written" => key \in events'
      PROVE  StoresInv'
  <2>1. /\ at' \in [Subscribers -> Positions] /\ \A q \in Subscribers \ {s} : at'[q] = at[q]
        /\ at'[s].pc = pc /\ at'[s].msg = at[s].msg /\ at'[s].metric = at[s].metric
        /\ at'[s].map = at[s].map /\ at'[s].target = at[s].target /\ at'[s].time = at[s].time
    BY <1>6, GotoMoves
  <2>2. Bridge!Key(s)' = key
    BY <2>1 DEF Bridge!Key
  <2>3. Place(s)'
    BY <1>0, <1>2, <1>3, <1>6, <2>1, <2>2 DEF Place
  <2>4. \A q \in Subscribers : Place(q)'
    BY <1>0, <1>6, <2>1, <2>3, OthersStay DEF Onward
  <2>5. Bridge!ReceiptsAreTrue'
    BY <1>6 DEF Bridge!ReceiptsAreTrue, Truthful, HasSample
  <2> QED BY <1>0, <1>6, <2>1, <2>4, <2>5 DEF Bridge!AckedIsRaw
<1>7. \A k \in Maps \X Messages \X Stamps : samples \subseteq samples' /\ HasSample(k) => HasSample(k)'
  BY DEF HasSample
<1>8. CASE Bridge!ReadReceipt(s)
  <2> DEFINE status == IF receipts[key] = Bridge!None THEN "PENDING_METRIC" ELSE receipts[key]
  <2>1. /\ receipts' \in {receipts, [receipts EXCEPT ![key] = status]}
        /\ \E pc \in {"outcome", "event", "metric", "ack"} :
             Bridge!Goto(s, pc) /\ (pc = "event" => status = "PENDING_EVENT")
        /\ UNCHANGED <<samples, events>>
    BY <1>8 DEF Bridge!ReadReceipt
  <2>2. status \in Bridge!ReceiptStatuses /\ (status \in {"PENDING_EVENT", "COMPLETE"} => receipts[key] = status)
    BY <1>3 DEF Bridge!ReceiptStatuses, Bridge!None
  <2> HIDE DEF status
  <2>3. receipts' \in [Maps \X Messages \X Stamps -> Bridge!ReceiptStatuses]
    BY <1>3, <2>1, <2>2
  <2>4. \A k \in Maps \X Messages \X Stamps : Truthful(k)'
    BY <1>3, <1>4, <2>1, <2>2 DEF Truthful, HasSample
  <2>5. PICK pc \in {"outcome", "event", "metric", "ack"} :
          Bridge!Goto(s, pc) /\ (pc = "event" => status = "PENDING_EVENT")
    BY <2>1
  <2>6. pc = "event" => HasSample(key)'
    BY <1>3, <1>4, <1>7, <2>1, <2>2, <2>5 DEF Truthful
  <2>7. pc \in Bridge!Points \ {"idle"} /\ (pc \in OnReceipt => pc = "event")
    BY DEF Bridge!Points, OnReceipt
  <2>8. \A k \in events' : HasSample(k)'
    BY <1>5, <2>1 DEF HasSample
  <2> QED BY <1>6, <2>1, <2>3, <2>4, <2>5, <2>6, <2>7, <2>8 DEF Timed
<1>9. CASE Bridge!WriteMetric(s)
  <2>1. UNCHANGED <<receipts, events>>
    BY <1>9 DEF Bridge!WriteMetric
  <2>2. CASE /\ samples' = IF Bridge!Taken(s) THEN samples ELSE samples \union {Bridge!Sample(s)}
             /\ Bridge!Goto(s, "mark")
    <3>0. /\ Bridge!Sample(s) \in SampleRows /\ Bridge!Sample(s).time = key[3] /\ Bridge!Sample(s).msg = at[s].msg
          /\ samples \subseteq samples' /\ samples' \subseteq samples \union {Bridge!Sample(s)}
      BY <1>2, <1>3, <2>2 DEF Bridge!Sample, SampleRows
    <3>1. samples' \subseteq SampleRows /\ Timed'
      BY <1>3, <3>0 DEF Timed
    <3>2. HasSample(key)'
      BY <1>3, <2>2, <3>0 DEF HasSample, Bridge!Taken, Timed
    <3>3. \A k \in Maps \X Messages \X Stamps : Truthful(k)'
      BY <1>4, <1>7, <2>1, <3>0 DEF Truthful
    <3>4. \A k \in events' : HasSample(k)'
      BY <1>5, <1>7, <2>1, <3>0
    <3> QED BY <1>6, <2>1, <2>2, <3>0, <3>1, <3>2, <3>3, <3>4 DEF Bridge!Points
  <2>3. CASE UNCHANGED samples /\ Bridge!Goto(s, "failed")
    BY <1>4, <1>5, <1>6, <2>1, <2>3 DEF Bridge!Points, OnReceipt, Truthful, HasSample, Timed
  <2> QED BY <1>9, <2>2, <2>3 DEF Bridge!WriteMetric
\* A receipt is set to a status that is true of what is stored.
<1>10. ASSUME NEW status \in Bridge!ReceiptStatuses, NEW pc \in Bridge!Points \ {"idle"},
              receipts' = [receipts EXCEPT ![key] = status], Bridge!Goto(s, pc),
              UNCHANGED <<samples, events>>,
              status \in {"PENDING_EVENT", "COMPLETE"} => HasSample(key),
              status = "COMPLETE" => key \in events,
              pc \in OnReceipt => HasSample(key), pc # "event_written"
       PROVE  StoresInv'
  <2>1. \A k \in Maps \X Messages \X Stamps : Truthful(k)'
    BY <1>3, <1>4, <1>10 DEF Truthful, HasSample
  <2>2. \A k \in events' : HasSample(k)'
    BY <1>5, <1>10 DEF HasSample
  <2> QED BY <1>3, <1>6, <1>7, <1>10, <2>1, <2>2 DEF Timed
<1>11. CASE Bridge!MarkFailed(s)
  BY <1>10, <1>11 DEF Bridge!MarkFailed, Bridge!Points, Bridge!ReceiptStatuses, OnReceipt
<1>12. CASE Bridge!MarkWritten(s)
  <2>1. HasSample(key) /\ Bridge!Goto(s, "event") /\ UNCHANGED <<samples, events>>
    BY <1>2, <1>12 DEF Bridge!MarkWritten, OnReceipt
  <2>2. CASE receipts' = [receipts EXCEPT ![key] = "PENDING_EVENT"]
    BY <1>10, <2>1, <2>2 DEF Bridge!Points, Bridge!ReceiptStatuses
  <2>3. CASE UNCHANGED receipts
    BY <1>4, <1>5, <1>6, <2>1, <2>3 DEF Bridge!Points, OnReceipt, Truthful, HasSample, Timed
  <2> QED BY <1>12, <2>2, <2>3 DEF Bridge!MarkWritten
<1>13. CASE Bridge!WriteEvent(s)
  <2>1. HasSample(key) /\ UNCHANGED <<samples, receipts>>
    BY <1>2, <1>13 DEF Bridge!WriteEvent, OnReceipt
  <2>2. CASE events' = events \union {key} /\ Bridge!Goto(s, "event_written")
    BY <1>3, <1>4, <1>5, <1>6, <2>1, <2>2 DEF Bridge!Points, OnReceipt, Truthful, HasSample, Timed
  <2>3. CASE UNCHANGED events /\ Bridge!Goto(s, "event_failed")
    BY <1>4, <1>5, <1>6, <2>1, <2>3 DEF Bridge!Points, OnReceipt, Truthful, HasSample, Timed
  <2> QED BY <1>13, <2>2, <2>3 DEF Bridge!WriteEvent
<1>14. CASE Bridge!MarkEventWritten(s)
  <2>1. HasSample(key) /\ key \in events /\ UNCHANGED <<samples, events>>
    BY <1>2, <1>14 DEF Bridge!MarkEventWritten, OnReceipt
  <2>2. CASE receipts' = [receipts EXCEPT ![key] = "COMPLETE"] /\ Bridge!Goto(s, "outcome")
    BY <1>10, <2>1, <2>2 DEF Bridge!Points, Bridge!ReceiptStatuses
  <2>3. CASE UNCHANGED receipts /\ Bridge!Goto(s, "event_failed")
    BY <1>4, <1>5, <1>6, <2>1, <2>3 DEF Bridge!Points, OnReceipt, Truthful, HasSample, Timed
  <2> QED BY <1>14, <2>2, <2>3 DEF Bridge!MarkEventWritten
<1>15. CASE Bridge!MarkEventFailed(s)
  BY <1>2, <1>10, <1>15 DEF Bridge!MarkEventFailed, Bridge!Points, Bridge!ReceiptStatuses, OnReceipt
<1> QED BY <1>8, <1>9, <1>11, <1>12, <1>13, <1>14, <1>15

(* The invariant holds at all times.                                        *)
LEMMA BridgeAlways == ASSUME ReadingsAreSet PROVE Bridge!Spec => []BridgeInv
<1>1. Bridge!Init => BridgeInv
  <2>1. 0 \in 0 .. MetricCount + 1
    BY DEF ReadingsAreSet
  <2> QED BY <2>1 DEF Bridge!Init, BridgeInv, Bridge!TypeOK, MappingTypes, Bridge!ReceiptsAreTrue,
      Bridge!AckedIsRaw, Place, Bridge!Idle,
                      Bridge!NoRequest, Bridge!None, Bridge!MapStatuses, Bridge!RequestKinds,
                      Bridge!Points, Bridge!ReceiptStatuses, Bridging, OnReceipt, Timed, HasSample
<1>2. BridgeInv /\ [Bridge!Next]_Bridge!vars => BridgeInv'
  <2> SUFFICES ASSUME BridgeInv, [Bridge!Next]_Bridge!vars PROVE BridgeInv'
    OBVIOUS
  <2>1. CASE UNCHANGED Bridge!vars
    BY <2>1 DEF Bridge!vars, Bridge!mapVars, Bridge!storeVars, BridgeInv, Bridge!TypeOK, MappingTypes,
        Bridge!ReceiptsAreTrue, Bridge!AckedIsRaw,
                Place, HasSample, Bridge!Key, Timed
  <2>2. CASE Bridge!MappingStep
    BY <2>2, MappingStepKeepsBridge
  <2>3. ASSUME NEW s \in Subscribers, Bridge!Dispatch(s) \/ Bridge!Nack(s) PROVE BridgeInv'
    <3>1. StoresInv
      BY DEF BridgeInv, Bridge!TypeOK, StoresInv, Stores, Positions, SampleRows
    <3>2. StoresInv'
      BY <2>3, <3>1, DispatchKeepsStores, MovesKeepStores, ReceiptStepsKeepStores DEF Bridge!Dispatch,
          Bridge!Store
    <3>3. UNCHANGED <<mapStatus, target, request>>
      BY <2>3, SubscribersOnlyRead DEF Bridge!mapVars
    <3> QED BY <3>2, <3>3 DEF BridgeInv, Bridge!TypeOK, MappingTypes, StoresInv, Stores, Positions, SampleRows
  <2> QED BY <2>1, <2>2, <2>3 DEF Bridge!Next
<1> QED BY <1>1, <1>2, PTL DEF Bridge!Spec

(* Every variable keeps its type.                                           *)
THEOREM BridgeTypeCorrect == ASSUME ReadingsAreSet PROVE Bridge!Spec => []Bridge!TypeOK
<1>1. BridgeInv => Bridge!TypeOK
  BY DEF BridgeInv
<1> QED BY <1>1, BridgeAlways, PTL

(* Whatever fails or is redelivered, and however many subscribers there     *)
(* are, an event is only raised, and a receipt only complete or waiting for  *)
(* its event, when a sample of the reading's time is stored: its own one, or *)
(* the one that was there first (mqtt_bridge_service.py:440-463).            *)
THEOREM ReceiptsTellTheTruth == ASSUME ReadingsAreSet PROVE Bridge!Spec => []Bridge!ReceiptsAreTrue
<1>1. BridgeInv => Bridge!ReceiptsAreTrue
  BY DEF BridgeInv
<1> QED BY <1>1, BridgeAlways, PTL

(* No message is acknowledged before its readings are on the raw nodes.     *)
THEOREM AcknowledgedIsStored == ASSUME ReadingsAreSet PROVE Bridge!Spec => []Bridge!AckedIsRaw
<1>1. BridgeInv => Bridge!AckedIsRaw
  BY DEF BridgeInv
<1> QED BY <1>1, BridgeAlways, PTL

-----------------------------------------------------------------------------
\* One loop: the dedicated process, or the backend's own, and not both.
OneSubscriber == \A s, q \in Subscribers : s = q

Unfinished == {"metric", "mark", "failed", "event", "event_written", "event_failed"}
CompleteInv == \A s \in Subscribers : at[s].pc \in Unfinished => receipts[Bridge!Key(s)] # "COMPLETE"
CompleteStays == \A k \in Maps \X Messages \X Stamps : receipts[k] = "COMPLETE" => receipts'[k] = "COMPLETE"

(* A subscriber that has read a complete receipt skips the reading; the     *)
(* others know that theirs was not complete.                                *)
LEMMA CompleteStep ==
  ASSUME ReadingsAreSet, OneSubscriber, BridgeInv, CompleteInv, [Bridge!Next]_Bridge!vars
  PROVE  CompleteInv' /\ CompleteStays
<1>1. CASE UNCHANGED <<at, receipts>>
  BY <1>1 DEF CompleteInv, CompleteStays, Bridge!Key
<1>2. ASSUME NEW s \in Subscribers, Bridge!Dispatch(s) \/ Bridge!Nack(s)
      PROVE  CompleteInv' /\ CompleteStays
  <2> PICK key : key = Bridge!Key(s)
    OBVIOUS
  <2>1. at \in [Subscribers -> Positions] /\ receipts \in [Maps \X Messages \X Stamps -> Bridge!ReceiptStatuses]
    BY DEF BridgeInv, Bridge!TypeOK, Positions
  <2>2. at[s].pc \in Bridging => key \in Maps \X Messages \X Stamps
    BY DEF BridgeInv, Place, Bridging, Bridge!Key, ReadingsAreSet
  <2>3. at[s].pc \in Unfinished => receipts[key] # "COMPLETE"
    BY DEF CompleteInv
  <2>4. SUFFICES CompleteStays /\ (at'[s].pc \in Unfinished => receipts'[<<at'[s].map, at'[s].msg, at'[s].time>>] # "COMPLETE")
    BY <1>2 DEF OneSubscriber, CompleteInv, Bridge!Key
  <2> USE <2>1, <2>2, <2>3 DEF CompleteStays, Unfinished
  <2>5. ASSUME UNCHANGED receipts, at'[s].pc \notin Unfinished
        PROVE  CompleteStays /\ (at'[s].pc \in Unfinished => receipts'[<<at'[s].map, at'[s].msg, at'[s].time>>] # "COMPLETE")
    BY <2>5
  <2>6. CASE Bridge!Deliver(s)
    <3>1. PICK m \in pending : at' = [at EXCEPT ![s] = [Bridge!Idle EXCEPT !.pc = "parse", !.msg = m]]
      BY <2>6 DEF Bridge!Deliver
    <3>2. m \in Messages
      BY <3>1 DEF BridgeInv, Bridge!TypeOK
    <3>3. at'[s].pc = "parse"
      BY <3>1, <3>2, Delivered
    <3> QED BY <2>5, <2>6, <3>3 DEF Bridge!Deliver, Bridge!storeVars
  <2>7. CASE Bridge!Nack(s) \/ Bridge!Ack(s)
    <3>1. at'[s] = Bridge!Idle /\ UNCHANGED receipts
      BY <2>7 DEF Bridge!Nack, Bridge!Ack, Bridge!Requeue, Bridge!storeVars
    <3> QED BY <2>5, <3>1 DEF Bridge!Idle
  <2>8. CASE Bridge!Parse(s) \/ Bridge!EndReading(s) \/ Bridge!BridgeRaises(s) \/ Bridge!PersistRaw(s) \/ Bridge!RecordOutcome(s) \/ Bridge!ResolveMapping(s)
    <3>1. UNCHANGED receipts
      BY <2>8, BridgeCount DEF Bridge!Parse, Bridge!EndReading, Bridge!BridgeRaises, Bridge!PersistRaw,
          Bridge!RecordOutcome, Bridge!ResolveMapping, Bridge!storeVars
    <3>2. CASE Bridge!Goto(s, "ack") \/ Bridge!Goto(s, "raw") \/ Bridge!Goto(s, "outcome")
      <4>1. at'[s].pc \in {"ack", "raw", "outcome"}
        BY <3>2, GotoMoves DEF Bridge!Points
      <4> QED BY <2>5, <3>1, <4>1
    <3>3. CASE Bridge!PersistRaw(s)
      <4>1. at'[s].pc = "bridge"
        BY <3>3 DEF Bridge!PersistRaw, Positions
      <4> QED BY <2>5, <3>1, <4>1
    <3>4. CASE Bridge!RecordOutcome(s)
      <4>1. at'[s].pc = "bridge"
        BY <3>4 DEF Bridge!RecordOutcome, Positions
      <4> QED BY <2>5, <3>1, <4>1
    <3>5. ASSUME NEW p, at' = [at EXCEPT ![s].pc = "receipt", ![s].map = p, ![s].target = target[p]]
          PROVE  CompleteStays /\ (at'[s].pc \in Unfinished => receipts'[<<at'[s].map, at'[s].msg, at'[s].time>>] # "COMPLETE")
      <4>1. at'[s].pc = "receipt"
        BY <3>5 DEF Positions
      <4> QED BY <2>5, <3>1, <4>1
    <3>6. ASSUME NEW m, at' = [at EXCEPT ![s].pc = "raw", ![s].time = m]
          PROVE  CompleteStays /\ (at'[s].pc \in Unfinished => receipts'[<<at'[s].map, at'[s].msg, at'[s].time>>] # "COMPLETE")
      <4>1. at'[s].pc = "raw"
        BY <3>6 DEF Positions
      <4> QED BY <2>5, <3>1, <4>1
    <3> QED BY <2>8, <3>2, <3>3, <3>4, <3>5, <3>6, BridgeCount DEF Bridge!Parse, Bridge!EndReading,
        Bridge!BridgeRaises, Bridge!ResolveMapping
  \* The step goes to pc and leaves the reading's key.
  <2>9. ASSUME NEW pc \in Bridge!Points, Bridge!Goto(s, pc)
        PROVE  at'[s].pc = pc /\ <<at'[s].map, at'[s].msg, at'[s].time>> = key
    BY <2>9, GotoMoves DEF Bridge!Key
  <2>10. CASE Bridge!ReadReceipt(s)
    <3> DEFINE status == IF receipts[key] = Bridge!None THEN "PENDING_METRIC" ELSE receipts[key]
    <3>1. /\ receipts' \in {receipts, [receipts EXCEPT ![key] = status]}
          /\ \/ Bridge!Goto(s, "outcome") \/ Bridge!Goto(s, "ack")
             \/ Bridge!Goto(s, "event") /\ status = "PENDING_EVENT" /\ receipts' = [receipts EXCEPT ![key] = status]
             \/ Bridge!Goto(s, "metric") /\ status # "COMPLETE" /\ receipts' = [receipts EXCEPT ![key] = status]
      BY <2>10 DEF Bridge!ReadReceipt
    <3>2. key \in Maps \X Messages \X Stamps /\ (receipts[key] = "COMPLETE" => status = "COMPLETE")
      BY <2>10 DEF Bridge!ReadReceipt, Bridging, Bridge!None
    <3> HIDE DEF status
    <3>3. CompleteStays
      BY <3>1, <3>2
    <3>4. at'[s].pc \in Unfinished => receipts'[<<at'[s].map, at'[s].msg, at'[s].time>>] # "COMPLETE"
      BY <2>9, <3>1, <3>2 DEF Bridge!Points
    <3> QED BY <3>3, <3>4
  <2>11. CASE Bridge!WriteMetric(s) \/ Bridge!WriteEvent(s)
    BY <2>9, <2>11 DEF Bridge!WriteMetric, Bridge!WriteEvent, Bridge!Points, Bridging
  <2>12. CASE Bridge!MarkFailed(s)
    BY <2>9, <2>12 DEF Bridge!MarkFailed, Bridge!Points, Bridging
  <2>13. CASE Bridge!MarkWritten(s)
    BY <2>9, <2>13 DEF Bridge!MarkWritten, Bridge!Points, Bridging
  <2>14. CASE Bridge!MarkEventWritten(s) \/ Bridge!MarkEventFailed(s)
    BY <2>9, <2>14 DEF Bridge!MarkEventWritten, Bridge!MarkEventFailed, Bridge!Points, Bridging
  <2> QED BY <1>2, <2>6, <2>7, <2>8, <2>10, <2>11, <2>12, <2>13, <2>14 DEF Bridge!Dispatch, Bridge!Store
<1>3. CASE Bridge!MappingStep
  BY <1>1, <1>3 DEF Bridge!MappingStep, Bridge!CreateDraft, Bridge!ReadMapping, Bridge!UpdateDraft,
      Bridge!ApproveStatement, Bridge!ApproveCommit, Bridge!Revoke,
     Bridge!BridgeUnchanged, Bridge!storeVars
<1>4. CASE UNCHANGED Bridge!vars
  BY <1>1, <1>4 DEF Bridge!vars, Bridge!storeVars
<1> QED BY <1>2, <1>3, <1>4 DEF Bridge!Next

(* With one subscriber a complete receipt stays complete, so that a         *)
(* redelivery never raises its event a second time.                         *)
THEOREM CompleteReceiptsAreFinal ==
  ASSUME ReadingsAreSet, OneSubscriber PROVE Bridge!Spec => Bridge!CompleteIsFinal
<1>1. Bridge!Init => CompleteInv
  BY DEF Bridge!Init, CompleteInv, Bridge!Idle, Unfinished
<1>2. BridgeInv /\ CompleteInv /\ [Bridge!Next]_Bridge!vars => CompleteInv' /\ [CompleteStays]_Bridge!vars
  BY CompleteStep
<1>3. [][CompleteStays]_Bridge!vars <=> Bridge!CompleteIsFinal
  BY DEF Bridge!CompleteIsFinal, CompleteStays
<1> QED BY <1>1, <1>2, <1>3, BridgeAlways, PTL DEF Bridge!Spec

-----------------------------------------------------------------------------
(* Sessions                                                                 *)

\* The instance counts as FiniteSets does.
LEMMA SessCount == \A S : Sess!Cardinality(S) = Cardinality(S)
BY DEF Sess!Cardinality, Cardinality

Tokens == [session : AllSessions, state : Sess!Statuses, created : Nat, anchor : Nat, rotatedAt : Nat,
           recoveries : Nat, parent : Nat, via : {"login", "valid", "stale"}]

\* What create_refresh_token wrote and nothing changes.
SameToken(t, u) == t.session = u.session /\ t.created = u.created /\ t.parent = u.parent /\ t.via = u.via

SessRequests ==
  {Sess!Idle} \cup [pc : {"recover"}, id : Nat, via : {"stale"}]
         \cup [pc : {"create"}, id : Nat, via : {"valid", "stale"}]
         \cup [pc : {"rotate", "answer"}, id : Nat, new : Nat]
         \cup [pc : {"logout"}, ids : SUBSET Nat]

SessClocks ==
  /\ sNow \in Nat /\ 1 <= sNow /\ sNow <= SessionTime /\ sActive \in BOOLEAN
  /\ access \in [AllSessions -> Nat] /\ seen \in [AllSessions -> Nat]
  /\ cache \in [Workers -> [AllSessions -> Nat]]
  /\ \A s \in AllSessions : seen[s] <= sNow /\ access[s] <= seen[s] + AccessTTL
  /\ \A w \in Workers, s \in AllSessions : cache[w][s] <= sNow + Throttle

TokenOK(i) ==
  /\ token[i].created <= token[i].anchor /\ token[i].anchor <= sNow
  /\ token[i].recoveries <= MaxRecoveries
  /\ token[i].parent < i

\* The caches and the condition of the UPDATE hide one throttle window each.
Recorded(i) ==
  /\ seen[token[i].session] < token[i].anchor + 2 * Throttle
  /\ \A w \in Workers : cache[w][token[i].session] < token[i].anchor + 2 * Throttle

\* A refresh knows the token it exchanges, and the new one it has created.
RequestOK(w) ==
  /\ sReq[w].pc \in {"recover", "create"} => sReq[w].id \in Sess!Ids
  /\ sReq[w].pc \in {"rotate", "answer"} =>
       /\ sReq[w].id \in Sess!Ids /\ sReq[w].new \in Sess!Ids
       /\ token[sReq[w].new].parent = sReq[w].id
       /\ token[sReq[w].new].session = token[sReq[w].id].session
  /\ sReq[w].pc = "answer" /\ token[sReq[w].new].via = "valid" => token[sReq[w].id].state # "live"
  /\ sReq[w].pc = "logout" => sReq[w].ids \subseteq Sess!Ids

\* The workers that are about to hand out a child of token i.
Bearing(w, i, how) ==
  \/ sReq[w].pc = "create" /\ sReq[w].id = i /\ sReq[w].via = how
  \/ sReq[w].pc \in {"rotate", "answer"} /\ token[sReq[w].new].parent = i /\ token[sReq[w].new].via = how
Bearers(i, how) == {w \in Workers : Bearing(w, i, how)}

\* A live token has no child yet, and no worker begins to bear one once it has.
Exchanged(i) ==
  /\ token[i].state = "live" => Sess!Children(i, "valid") = {}
  /\ Cardinality(Sess!Children(i, "valid")) + Cardinality(Bearers(i, "valid")) <= Cardinality(Workers)
  /\ Cardinality(Sess!Children(i, "stale")) + Cardinality(Bearers(i, "stale")) <= token[i].recoveries

SessionInv ==
  /\ SessClocks
  /\ token \in Seq(Tokens) /\ delivered \subseteq Sess!Ids
  /\ sReq \in [Workers -> SessRequests]
  /\ \A i \in Sess!Ids : TokenOK(i)
  /\ \A i \in Sess!Ids : Recorded(i)
  /\ \A w \in Workers : RequestOK(w)
  /\ \A i \in Sess!Ids : Exchanged(i)

-----------------------------------------------------------------------------
(* Tokens                                                                  *)

\* A function on 1 .. n is a sequence.
LEMMA SeqOf ==
  ASSUME NEW n \in Nat, NEW S, NEW f \in [1 .. n -> S]
  PROVE  f \in Seq(S) /\ Len(f) = n
OBVIOUS

\* One token is written.
LEMMA WriteToken ==
  ASSUME token \in Seq(Tokens), NEW i \in Sess!Ids, NEW r \in Tokens, token' = [token EXCEPT ![i] = r]
  PROVE  /\ token' \in Seq(Tokens) /\ Sess!Ids' = Sess!Ids
         /\ token'[i] = r /\ \A j \in Sess!Ids : j # i => token'[j] = token[j]
<1>1. Len(token) \in Nat /\ token \in [1 .. Len(token) -> Tokens]
  OBVIOUS
<1>2. token' \in [1 .. Len(token) -> Tokens]
  BY <1>1 DEF Sess!Ids
<1>3. token' \in Seq(Tokens) /\ Len(token') = Len(token)
  BY <1>1, <1>2, SeqOf
<1> QED BY <1>1, <1>3 DEF Sess!Ids

\* Every token is rewritten.
LEMMA WriteTokens ==
  ASSUME token \in Seq(Tokens), DOMAIN token' = Sess!Ids, token' = [i \in Sess!Ids |-> token'[i]],
         \A i \in Sess!Ids : token'[i] \in Tokens
  PROVE  token' \in Seq(Tokens) /\ Sess!Ids' = Sess!Ids
<1>1. Len(token) \in Nat /\ token' \in [1 .. Len(token) -> Tokens]
  BY DEF Sess!Ids
<1>2. token' \in Seq(Tokens) /\ Len(token') = Len(token)
  BY <1>1, SeqOf
<1> QED BY <1>1, <1>2 DEF Sess!Ids

\* A token is issued.
LEMMA AddToken ==
  ASSUME token \in Seq(Tokens), NEW r \in Tokens, token' = Append(token, r)
  PROVE  /\ token' \in Seq(Tokens) /\ Sess!Ids' = Sess!Ids \cup {Len(token) + 1} /\ Len(token) + 1 \notin Sess!Ids
         /\ token'[Len(token) + 1] = r /\ \A j \in Sess!Ids : token'[j] = token[j]
         /\ Len(token) + 1 \in Nat /\ \A j \in Sess!Ids : j \in Nat /\ j < Len(token) + 1
BY DEF Sess!Ids

\* The fields of a row of refresh_tokens.
LEMMA TokenTypes ==
  ASSUME token \in Seq(Tokens), NEW i \in Sess!Ids
  PROVE  /\ token[i] \in Tokens /\ token[i].session \in AllSessions /\ token[i].state \in Sess!Statuses
         /\ token[i].created \in Nat /\ token[i].anchor \in Nat /\ token[i].rotatedAt \in Nat
         /\ token[i].recoveries \in Nat /\ token[i].parent \in Nat
<1>1. token[i] \in Tokens
  BY DEF Sess!Ids
<1> QED BY <1>1 DEF Tokens

(* record_session_activity keeps the tokens and brings their activity up.   *)
LEMMA ActivityRecorded ==
  ASSUME PolicyIsSet, SessionInv, NEW w \in Workers, NEW s \in AllSessions, Sess!RecordActivity(w, s),
         UNCHANGED sNow, seen' = [seen EXCEPT ![s] = sNow]
  PROVE  /\ token' \in Seq(Tokens) /\ Sess!Ids' = Sess!Ids
         /\ cache' \in [Workers -> [AllSessions -> Nat]]
         /\ \A v \in Workers, r \in AllSessions : cache'[v][r] <= sNow' + Throttle
         /\ \A i \in Sess!Ids : /\ SameToken(token'[i], token[i]) /\ token'[i].state = token[i].state
                                /\ token'[i].recoveries = token[i].recoveries
                                /\ token'[i].rotatedAt = token[i].rotatedAt
                                /\ token'[i].anchor = token[i].anchor
                                   \/ (token'[i].anchor = sNow /\ token[i].session = s
                                       /\ token[i].anchor + Throttle <= sNow)
         /\ \A i \in Sess!Ids : TokenOK(i)' /\ Recorded(i)'
<1>0. /\ sNow \in Nat /\ Throttle \in Nat /\ Throttle > 0 /\ token \in Seq(Tokens)
      /\ cache \in [Workers -> [AllSessions -> Nat]] /\ seen \in [AllSessions -> Nat]
      /\ \A v \in Workers, r \in AllSessions : cache[v][r] <= sNow + Throttle
  BY DEF PolicyIsSet, SessionInv, SessClocks
<1>b. \A i \in Sess!Ids : token[i] \in Tokens /\ token[i].anchor \in Nat /\ token[i].session \in AllSessions
  BY <1>0, TokenTypes
<1>a. \A i \in Sess!Ids : TokenOK(i) /\ Recorded(i)
  BY DEF SessionInv
<1>1. CASE cache[w][s] > sNow
  <2>1. UNCHANGED <<token, cache>> /\ Sess!Ids' = Sess!Ids
    BY <1>1 DEF Sess!RecordActivity, Sess!Ids
  <2>2. ASSUME NEW i \in Sess!Ids PROVE TokenOK(i)'
    BY <1>a, <2>1 DEF TokenOK
  <2>3. ASSUME NEW i \in Sess!Ids PROVE Recorded(i)'
    <3>1. CASE token[i].session = s
      <4>1. sNow < token[i].anchor + 2 * Throttle
        BY <1>0, <1>1, <1>a, <1>b, <3>1 DEF Recorded
      <4> QED BY <1>0, <1>a, <1>b, <2>1, <3>1, <4>1 DEF Recorded
    <3>2. CASE token[i].session # s
      BY <1>0, <1>a, <1>b, <2>1, <3>2 DEF Recorded
    <3> QED BY <3>1, <3>2
  <2> QED BY <1>0, <2>1, <2>2, <2>3 DEF SameToken
<1>2. CASE ~(cache[w][s] > sNow)
  <2>1. token' = Sess!Touched(s) /\ cache' = [cache EXCEPT ![w][s] = sNow + Throttle]
    BY <1>2 DEF Sess!RecordActivity
  <2>2. ASSUME NEW i \in Sess!Ids
        PROVE  /\ token'[i] \in Tokens
               /\ SameToken(token'[i], token[i]) /\ token'[i].state = token[i].state
               /\ token'[i].recoveries = token[i].recoveries
               /\ token'[i].rotatedAt = token[i].rotatedAt
               /\ token'[i].anchor = IF token[i].session = s /\ token[i].anchor + Throttle <= sNow
                                     THEN sNow ELSE token[i].anchor
    <3>1. token'[i] = IF token[i].session = s /\ token[i].anchor + Throttle <= sNow
                      THEN [token[i] EXCEPT !.anchor = sNow] ELSE token[i]
      BY <2>1 DEF Sess!Touched
    <3>2. token[i] \in Tokens /\ sNow \in Nat
      BY <1>0, <1>b
    <3> QED BY <3>1, <3>2 DEF Tokens, SameToken
  <2>3. token' \in Seq(Tokens) /\ Sess!Ids' = Sess!Ids
    <3>1. DOMAIN token' = Sess!Ids /\ token' = [i \in Sess!Ids |-> token'[i]]
      BY <2>1 DEF Sess!Touched
    <3> QED BY <1>0, <2>2, <3>1, WriteTokens
  <2>4. /\ cache' \in [Workers -> [AllSessions -> Nat]]
        /\ \A v \in Workers, r \in AllSessions :
             cache'[v][r] = IF v = w /\ r = s THEN sNow + Throttle ELSE cache[v][r]
    BY <1>0, <2>1
  <2>5. ASSUME NEW i \in Sess!Ids PROVE TokenOK(i)'
    <3>1. TokenOK(i) /\ SameToken(token'[i], token[i]) /\ token'[i].recoveries = token[i].recoveries
          /\ token'[i].anchor \in {token[i].anchor, sNow} /\ token[i].created \in Nat /\ token[i].anchor \in Nat
      BY <1>0, <1>a, <2>2, TokenTypes
    <3> QED BY <1>0, <3>1 DEF TokenOK, SameToken
  <2>6. ASSUME NEW i \in Sess!Ids PROVE Recorded(i)'
    <3>0. token'[i].session = token[i].session /\ token'[i].anchor \in Nat
      BY <1>0, <1>b, <2>2 DEF SameToken
    <3>1. CASE token[i].session = s
      <4>0. /\ token[i].anchor \in Nat /\ sNow \in Nat /\ Throttle \in Nat /\ Throttle > 0
            /\ token'[i].anchor = IF token[i].anchor + Throttle <= sNow THEN sNow ELSE token[i].anchor
        BY <1>0, <1>b, <2>2, <3>1
      <4>1. sNow < token'[i].anchor + Throttle
        BY <4>0
      <4>2. token'[i].anchor >= token[i].anchor
        BY <4>0
      <4>3. seen'[s] = sNow
        BY <1>0
      <4>4. ASSUME NEW v \in Workers PROVE cache'[v][s] < token'[i].anchor + 2 * Throttle
        <5>1. CASE v = w
          BY <1>0, <2>4, <3>0, <4>1, <5>1
        <5>2. CASE v # w
          <6>1. cache[v][s] < token[i].anchor + 2 * Throttle /\ cache[v][s] \in Nat
            BY <1>0, <1>a, <1>b, <3>1 DEF Recorded
          <6> QED BY <1>0, <1>b, <2>4, <3>0, <4>2, <5>2, <6>1
        <5> QED BY <5>1, <5>2
      <4> QED BY <1>0, <3>0, <3>1, <4>1, <4>3, <4>4 DEF Recorded
    <3>2. CASE token[i].session # s
      BY <1>0, <1>a, <1>b, <2>2, <2>4, <3>0, <3>2 DEF Recorded
    <3> QED BY <3>1, <3>2
  <2>7. ASSUME NEW v \in Workers, NEW r \in AllSessions PROVE cache'[v][r] <= sNow' + Throttle
    <3>1. sNow' = sNow /\ sNow + Throttle <= sNow + Throttle /\ cache[v][r] <= sNow + Throttle
      BY <1>0
    <3> QED BY <2>4, <3>1
  <2>8. \A i \in Sess!Ids : token'[i].anchor = token[i].anchor
                       \/ (token'[i].anchor = sNow /\ token[i].session = s /\ token[i].anchor + Throttle <= sNow)
    BY <2>2
  <2> QED BY <2>2, <2>3, <2>4, <2>5, <2>6, <2>7, <2>8
<1> QED BY <1>1, <1>2

-----------------------------------------------------------------------------
(* Requests and exchanges                                                   *)

\* Tokens stay what they were issued as, and none comes to life again.
Grown ==
  /\ Sess!Ids \subseteq Sess!Ids'
  /\ \A i \in Sess!Ids : /\ SameToken(token'[i], token[i])
                         /\ token'[i].state = "live" => token[i].state = "live"

OnlyMoves(w) == \A v \in Workers : v # w => sReq'[v] = sReq[v]

\* Requests of other workers are not disturbed by what only grows.
LEMMA OthersRequests ==
  ASSUME SessionInv, Grown, NEW w \in Workers, OnlyMoves(w), RequestOK(w)'
  PROVE  \A v \in Workers : RequestOK(v)'
<1> SUFFICES ASSUME NEW v \in Workers, v # w PROVE RequestOK(v)'
  OBVIOUS
<1>1. RequestOK(v) /\ sReq'[v] = sReq[v]
  BY DEF SessionInv, OnlyMoves
<1> QED BY <1>1 DEF RequestOK, Grown, SameToken

\* Nobody starts to bear an exchange that the moving worker does not.
LEMMA BearersStay ==
  ASSUME SessionInv, Grown, NEW w \in Workers, OnlyMoves(w), NEW i, NEW how,
         Bearing(w, i, how)' => Bearing(w, i, how)
  PROVE  Bearers(i, how)' \subseteq Bearers(i, how)
<1> SUFFICES ASSUME NEW v \in Workers, v # w, Bearing(v, i, how)' PROVE Bearing(v, i, how)
  BY DEF Bearers
<1>1. RequestOK(v) /\ sReq'[v] = sReq[v]
  BY DEF SessionInv, OnlyMoves
<1> QED BY <1>1 DEF RequestOK, Grown, SameToken, Bearing

\* Bearers and exchanged tokens are finitely many.
LEMMA SessCountable ==
  ASSUME PolicyIsSet, SessionInv, NEW i, NEW how
  PROVE  /\ IsFiniteSet(Bearers(i, how)) /\ Cardinality(Bearers(i, how)) \in Nat
         /\ Cardinality(Bearers(i, how)) <= Cardinality(Workers) /\ Cardinality(Workers) \in Nat
         /\ IsFiniteSet(Sess!Children(i, how)) /\ Cardinality(Sess!Children(i, how)) \in Nat
<1>1. Bearers(i, how) \subseteq Workers
  BY DEF Bearers
<1>2. IsFiniteSet(Sess!Ids)
  <2>1. Len(token) \in Nat
    BY DEF SessionInv
  <2> QED BY <2>1, FS_Interval DEF Sess!Ids
<1>3. Sess!Children(i, how) \subseteq Sess!Ids
  BY DEF Sess!Children, SessionInv
<1> QED BY <1>1, <1>2, <1>3, FS_Subset, FS_CardinalityType DEF PolicyIsSet

\* No child is handed out and no worker begins to bear one.
LEMMA ExchangesKept ==
  ASSUME PolicyIsSet, SessionInv, Grown, NEW w \in Workers, OnlyMoves(w), NEW i \in Sess!Ids,
         token'[i].recoveries \in Nat, token'[i].recoveries >= token[i].recoveries,
         \A how \in {"valid", "stale"} : /\ Sess!Children(i, how)' = Sess!Children(i, how)
                                         /\ Bearing(w, i, how)' => Bearing(w, i, how)
  PROVE  Exchanged(i)'
<1>1. Exchanged(i) /\ token[i].recoveries \in Nat
  BY TokenTypes DEF SessionInv
<1>2. ASSUME NEW how \in {"valid", "stale"}
      PROVE  /\ Cardinality(Sess!Children(i, how)') = Cardinality(Sess!Children(i, how))
             /\ Cardinality(Bearers(i, how)') <= Cardinality(Bearers(i, how))
             /\ Cardinality(Bearers(i, how)') \in Nat /\ Cardinality(Bearers(i, how)) \in Nat
             /\ Cardinality(Sess!Children(i, how)) \in Nat
  <2>1. Sess!Children(i, how)' = Sess!Children(i, how)
    OBVIOUS
  <2>2. Bearers(i, how)' \subseteq Bearers(i, how)
    BY BearersStay
  <2> QED BY <2>1, <2>2, SessCountable, FS_Subset, FS_CardinalityType
<1>3. Cardinality(Workers) \in Nat
  BY SessCountable
<1>4. token'[i].state = "live" => Sess!Children(i, "valid")' = {}
  BY <1>1 DEF Exchanged, Grown
<1>5. Cardinality(Sess!Children(i, "valid")') + Cardinality(Bearers(i, "valid")') <= Cardinality(Workers)
  <2>1. Cardinality(Sess!Children(i, "valid")) + Cardinality(Bearers(i, "valid")) <= Cardinality(Workers)
    BY <1>1 DEF Exchanged
  <2> HIDE DEF Sess!Children, Bearers
  <2> QED BY <1>2, <1>3, <2>1
<1>6. Cardinality(Sess!Children(i, "stale")') + Cardinality(Bearers(i, "stale")') <= token'[i].recoveries
  <2>1. Cardinality(Sess!Children(i, "stale")) + Cardinality(Bearers(i, "stale")) <= token[i].recoveries
    BY <1>1 DEF Exchanged
  <2> QED BY <1>1, <1>2, <2>1
<1> QED BY <1>4, <1>5, <1>6 DEF Exchanged

\* Delivered tokens are as old as they were, so that children stay children.
LEMMA ChildrenStay ==
  ASSUME SessionInv, Grown, UNCHANGED delivered, NEW i, NEW how
  PROVE  Sess!Children(i, how)' = Sess!Children(i, how)
BY DEF Sess!Children, SessionInv, Grown, SameToken

\* A new token has no children.
LEMMA NewIsChildless ==
  ASSUME PolicyIsSet, SessionInv, Grown, NEW n, Sess!Ids' = Sess!Ids \cup {n}, n \notin Sess!Ids, n \in Nat, \A i \in Sess!Ids : i < n,
         token'[n].recoveries = 0, token'[n].parent < n, token'[n].parent \in Nat,
         delivered' \subseteq Sess!Ids', \A w \in Workers : RequestOK(w)',
         \A w \in Workers : sReq'[w].pc = "create" => sReq'[w].id \in Sess!Ids
  PROVE  Exchanged(n)'
<1>1. ASSUME NEW j \in Sess!Ids', NEW how PROVE token'[j].parent # n
  <2>1. CASE j \in Sess!Ids
    <3>1. TokenOK(j) /\ token[j].parent \in Nat /\ j \in Nat
      BY <2>1, TokenTypes DEF SessionInv, Sess!Ids
    <3> QED BY <2>1, <3>1 DEF TokenOK, Grown, SameToken
  <2>2. CASE j = n
    BY <2>2
  <2> QED BY <2>1, <2>2
<1>2. \A how : Sess!Children(n, how)' = {}
  BY <1>1 DEF Sess!Children
<1>3. \A how : Bearers(n, how)' = {}
  <2> SUFFICES ASSUME NEW how, NEW w \in Workers, Bearing(w, n, how)' PROVE FALSE
    BY DEF Bearers
  <2>1. RequestOK(w)'
    OBVIOUS
  <2> QED BY <1>1, <2>1 DEF Bearing, RequestOK
<1>4. Cardinality({}) = 0 /\ Cardinality(Workers) \in Nat
  BY FS_EmptySet, FS_CardinalityType DEF PolicyIsSet
<1>5. \A how : Cardinality(Sess!Children(n, how)') = 0 /\ Cardinality(Bearers(n, how)') = 0
  BY <1>2, <1>3, <1>4
<1>6. Sess!Children(n, "valid")' = {}
  BY <1>2
<1> QED BY <1>4, <1>5, <1>6 DEF Exchanged

-----------------------------------------------------------------------------
(* Steps                                                                   *)

\* What a step does to the requests and tokens of SessionInv, but for Exchanged.
Rest ==
  /\ SessClocks
  /\ token \in Seq(Tokens) /\ delivered \subseteq Sess!Ids
  /\ sReq \in [Workers -> SessRequests]
  /\ \A i \in Sess!Ids : TokenOK(i)
  /\ \A i \in Sess!Ids : Recorded(i)
  /\ \A w \in Workers : RequestOK(w)

\* A worker that has answered bears nothing.
LEMMA IdleRequest ==
  ASSUME SessionInv, NEW w \in Workers, Sess!Goto(w, Sess!Idle)
  PROVE  /\ sReq' \in [Workers -> SessRequests] /\ OnlyMoves(w) /\ RequestOK(w)'
         /\ \A i, how : ~Bearing(w, i, how)'
<1>1. sReq' \in [Workers -> SessRequests] /\ OnlyMoves(w) /\ sReq'[w] = Sess!Idle
  BY DEF Sess!Goto, SessionInv, OnlyMoves, SessRequests
<1> QED BY <1>1 DEF Sess!Idle, RequestOK, Bearing

\* Steps that leave the tokens alone and end or leave requests.
LEMMA TokensStay ==
  ASSUME PolicyIsSet, SessionInv, UNCHANGED <<token, delivered>>, SessClocks', sReq' \in [Workers -> SessRequests],
         \A i \in Sess!Ids : TokenOK(i)' /\ Recorded(i)',
         NEW w \in Workers, OnlyMoves(w), RequestOK(w)',
         \A i \in Sess!Ids, how \in {"valid", "stale"} : Bearing(w, i, how)' => Bearing(w, i, how)
  PROVE  SessionInv' /\ Grown
<1>1. Grown /\ Sess!Ids' = Sess!Ids
  BY DEF Grown, SameToken, Sess!Ids
<1>2. \A v \in Workers : RequestOK(v)'
  BY <1>1, OthersRequests
<1>3. ASSUME NEW i \in Sess!Ids PROVE Exchanged(i)'
  <2>1. token'[i].recoveries \in Nat /\ token'[i].recoveries >= token[i].recoveries
    BY TokenTypes DEF SessionInv
  <2>2. \A how \in {"valid", "stale"} : Sess!Children(i, how)' = Sess!Children(i, how)
    BY <1>1, ChildrenStay
  <2> QED BY <1>1, <2>1, <2>2, ExchangesKept
<1> QED BY <1>1, <1>2, <1>3 DEF SessionInv

\* All of the invariant but the exchanges, after a step that records activity.
LEMMA SessRequestStep ==
  ASSUME PolicyIsSet, SessionInv, NEW w \in Workers, NEW s \in AllSessions, Sess!RecordActivity(w, s),
         UNCHANGED <<sNow, sActive>>, seen' = [seen EXCEPT ![s] = sNow], delivered' \subseteq Sess!Ids,
         access' \in [AllSessions -> Nat], \A r \in AllSessions : access'[r] <= seen'[r] + AccessTTL,
         sReq' \in [Workers -> SessRequests], OnlyMoves(w), RequestOK(w)'
  PROVE  Rest' /\ Grown /\ Sess!Ids' = Sess!Ids
<1>1. Grown /\ Sess!Ids' = Sess!Ids
  BY ActivityRecorded DEF Grown
<1>2. SessClocks'
  <2>1. /\ cache' \in [Workers -> [AllSessions -> Nat]]
        /\ \A v \in Workers, r \in AllSessions : cache'[v][r] <= sNow' + Throttle
    BY ActivityRecorded
  <2>2. sNow \in Nat /\ seen \in [AllSessions -> Nat] /\ \A r \in AllSessions : seen[r] <= sNow
    BY DEF SessionInv, SessClocks
  <2>3. seen' \in [AllSessions -> Nat] /\ \A r \in AllSessions : seen'[r] <= sNow
    BY <2>2
  <2> QED BY <2>1, <2>3 DEF SessionInv, SessClocks
<1>3. \A v \in Workers : RequestOK(v)'
  BY <1>1, OthersRequests
<1> QED BY <1>1, <1>2, <1>3, ActivityRecorded DEF SessionInv, Rest

\* Requests of a session that exchange nothing.
LEMMA ActivityStep ==
  ASSUME PolicyIsSet, SessionInv, NEW w \in Workers, NEW s \in AllSessions, Sess!RecordActivity(w, s),
         UNCHANGED <<sNow, sActive, delivered, access>>, seen' = [seen EXCEPT ![s] = sNow],
         sReq' \in [Workers -> SessRequests], OnlyMoves(w), RequestOK(w)',
         \A i \in Sess!Ids, how \in {"valid", "stale"} : Bearing(w, i, how)' => Bearing(w, i, how)
  PROVE  SessionInv'
<1>1. \A r \in AllSessions : access'[r] <= seen'[r] + AccessTTL
  <2> SUFFICES ASSUME NEW r \in AllSessions PROVE access[r] <= seen'[r] + AccessTTL
    OBVIOUS
  <2>1. /\ access[r] \in Nat /\ seen \in [AllSessions -> Nat] /\ sNow \in Nat /\ AccessTTL \in Nat
        /\ access[r] <= seen[r] + AccessTTL /\ seen[r] <= sNow
    BY DEF SessionInv, SessClocks, PolicyIsSet
  <2>2. seen[r] \in Nat /\ seen'[r] = IF r = s THEN sNow ELSE seen[r]
    BY <2>1
  <2> QED BY <2>1, <2>2
<1>2. access' \in [AllSessions -> Nat] /\ delivered' \subseteq Sess!Ids
  BY DEF SessionInv, SessClocks
<1>3. Rest' /\ Grown /\ Sess!Ids' = Sess!Ids
  BY <1>1, <1>2, SessRequestStep
<1>4. ASSUME NEW i \in Sess!Ids PROVE Exchanged(i)'
  <2>1. token'[i].recoveries \in Nat /\ token'[i].recoveries >= token[i].recoveries
    <3>1. token[i].recoveries \in Nat
      BY TokenTypes DEF SessionInv
    <3>2. token'[i].recoveries = token[i].recoveries
      BY ActivityRecorded
    <3> QED BY <3>1, <3>2
  <2>2. \A how \in {"valid", "stale"} : Sess!Children(i, how)' = Sess!Children(i, how)
    BY <1>3, ChildrenStay
  <2> QED BY <1>3, <2>1, <2>2, ExchangesKept
<1> QED BY <1>3, <1>4 DEF SessionInv, Rest

\* A request that verifies its access token.
LEMMA RequestKeeps ==
  ASSUME PolicyIsSet, SessionInv, NEW w \in Workers, NEW s \in AllSessions, Sess!Request(w, s)
  PROVE  SessionInv'
<1>1. /\ Sess!RecordActivity(w, s) /\ seen' = [seen EXCEPT ![s] = sNow]
      /\ UNCHANGED <<sNow, delivered, access, sActive, sReq, deaths>> /\ sReq[w] = Sess!Idle
  BY DEF Sess!Request
<1>2. sReq' \in [Workers -> SessRequests] /\ OnlyMoves(w) /\ sReq'[w] = Sess!Idle
  BY <1>1 DEF SessionInv, OnlyMoves
<1>3. RequestOK(w)' /\ \A i, how : ~Bearing(w, i, how)'
  BY <1>2 DEF Sess!Idle, RequestOK, Bearing
<1> QED BY <1>1, <1>2, <1>3, ActivityStep

\* A logout reads its token.
LEMMA LogoutReadKeeps ==
  ASSUME PolicyIsSet, SessionInv, NEW w \in Workers, NEW s \in AllSessions, Sess!LogoutRead(w, s)
  PROVE  SessionInv'
<1> DEFINE r == [pc |-> "logout", ids |-> {i \in Sess!Ids : token[i].state = "live"}]
<1>1. /\ Sess!RecordActivity(w, s) /\ seen' = [seen EXCEPT ![s] = sNow]
      /\ UNCHANGED <<sNow, delivered, access, sActive>> /\ Sess!Goto(w, r)
  BY DEF Sess!LogoutRead
<1>2. r \in SessRequests /\ r.pc = "logout" /\ r.ids \subseteq Sess!Ids
  BY DEF SessRequests, Sess!Ids
<1> HIDE DEF r
<1>3. sReq' \in [Workers -> SessRequests] /\ OnlyMoves(w) /\ sReq'[w] = r
  BY <1>1, <1>2 DEF Sess!Goto, SessionInv, OnlyMoves
<1>4. Sess!Ids' = Sess!Ids
  BY <1>1, ActivityRecorded
<1>5. RequestOK(w)' /\ \A i, how : ~Bearing(w, i, how)'
  BY <1>2, <1>3, <1>4 DEF RequestOK, Bearing
<1> QED BY <1>1, <1>3, <1>5, ActivityStep

\* A refresh verifies its token.
LEMMA RefreshVerifyKeeps ==
  ASSUME PolicyIsSet, SessionInv, NEW w \in Workers, NEW i \in Sess!Ids, Sess!RefreshVerify(w, i)
  PROVE  SessionInv'
<1>1. /\ UNCHANGED <<sNow, token, delivered, access, seen, sActive, cache>> /\ sReq[w] = Sess!Idle
      /\ i \in Nat /\ Sess!Ids' = Sess!Ids
  BY DEF Sess!RefreshVerify, Sess!Ids
<1>2. SessClocks' /\ \A j \in Sess!Ids : TokenOK(j)' /\ Recorded(j)'
  BY <1>1 DEF SessionInv, SessClocks, TokenOK, Recorded
<1>3. CASE Sess!Goto(w, [pc |-> "recover", id |-> i, via |-> "stale"])
  <2> DEFINE r == [pc |-> "recover", id |-> i, via |-> "stale"]
  <2>1. r \in SessRequests /\ r.pc = "recover" /\ r.id = i
    BY <1>1 DEF SessRequests
  <2> HIDE DEF r
  <2>2. sReq' \in [Workers -> SessRequests] /\ OnlyMoves(w) /\ sReq'[w] = r
    BY <1>3, <2>1 DEF Sess!Goto, SessionInv, OnlyMoves, r
  <2>3. RequestOK(w)' /\ \A j, how : ~Bearing(w, j, how)'
    BY <1>1, <2>1, <2>2 DEF RequestOK, Bearing
  <2> QED BY <1>1, <1>2, <2>2, <2>3, TokensStay
<1>4. CASE Sess!Verify(token[i]) = "valid" /\ Sess!Goto(w, [pc |-> "create", id |-> i, via |-> "valid"])
  <2> DEFINE r == [pc |-> "create", id |-> i, via |-> "valid"]
  <2>1. r \in SessRequests /\ r.pc = "create" /\ r.id = i /\ r.via = "valid"
    BY <1>1 DEF SessRequests
  <2> HIDE DEF r
  <2>2. sReq' \in [Workers -> SessRequests] /\ OnlyMoves(w) /\ sReq'[w] = r
    BY <1>4, <2>1 DEF Sess!Goto, SessionInv, OnlyMoves, r
  <2>3. RequestOK(w)' /\ \A j, how : Bearing(w, j, how)' => j = i /\ how = "valid"
    BY <1>1, <2>1, <2>2 DEF RequestOK, Bearing
  <2>4. Grown
    BY <1>1 DEF Grown, SameToken
  <2>5. \A v \in Workers : RequestOK(v)'
    BY <2>2, <2>3, <2>4, OthersRequests
  <2>6. \A j, how : Sess!Children(j, how)' = Sess!Children(j, how)
    BY <1>1, <2>4, ChildrenStay
  <2>7. ASSUME NEW j \in Sess!Ids, j # i PROVE Exchanged(j)'
    <3>1. token'[j].recoveries \in Nat /\ token'[j].recoveries >= token[j].recoveries
      BY <1>1, TokenTypes DEF SessionInv
    <3> QED BY <2>2, <2>3, <2>4, <2>6, <2>7, <3>1, ExchangesKept
  <2>8. Exchanged(i)'
    <3>1. token[i].state = "live"
      BY <1>4, TokenTypes DEF Sess!Verify, SessionInv, Sess!Statuses
    <3>2. Sess!Children(i, "valid")' = {} /\ Exchanged(i)
      BY <2>6, <3>1 DEF SessionInv, Exchanged
    <3>3. Bearers(i, "valid")' \subseteq Workers /\ IsFiniteSet(Workers)
      BY DEF Bearers, PolicyIsSet
    <3>4. /\ Cardinality(Bearers(i, "valid")') <= Cardinality(Workers)
          /\ Cardinality(Bearers(i, "valid")') \in Nat /\ Cardinality(Workers) \in Nat
      BY <3>3, FS_Subset, FS_CardinalityType
    <3>5. Cardinality(Sess!Children(i, "valid")') = 0
      BY <3>2, FS_EmptySet
    <3>6. Bearers(i, "stale")' \subseteq Bearers(i, "stale")
      BY <2>2, <2>3, <2>4, BearersStay
    <3>7. /\ Cardinality(Bearers(i, "stale")') <= Cardinality(Bearers(i, "stale"))
          /\ Cardinality(Bearers(i, "stale")') \in Nat /\ Cardinality(Bearers(i, "stale")) \in Nat
          /\ Cardinality(Sess!Children(i, "stale")) \in Nat
      BY <3>6, SessCountable, FS_Subset, FS_CardinalityType
    <3>8. Cardinality(Sess!Children(i, "stale")') = Cardinality(Sess!Children(i, "stale"))
      BY <2>6
    <3>9. /\ Cardinality(Sess!Children(i, "stale")) + Cardinality(Bearers(i, "stale")) <= token[i].recoveries
          /\ token[i].recoveries \in Nat /\ token'[i] = token[i]
      BY <1>1, <3>2, TokenTypes DEF Exchanged, SessionInv
    <3>10. Cardinality(Sess!Children(i, "stale")') + Cardinality(Bearers(i, "stale")') <= token'[i].recoveries
      BY <3>7, <3>8, <3>9
    <3>11. Cardinality(Sess!Children(i, "valid")') + Cardinality(Bearers(i, "valid")') <= Cardinality(Workers)
      BY <3>4, <3>5
    <3> QED BY <3>2, <3>10, <3>11 DEF Exchanged
  <2> QED BY <1>1, <1>2, <2>2, <2>5, <2>7, <2>8 DEF SessionInv
<1> QED BY <1>3, <1>4 DEF Sess!RefreshVerify

(* A step that writes a token and its worker's request.                     *)
LEMMA WriteStep ==
  ASSUME PolicyIsSet, SessionInv, UNCHANGED <<sNow, delivered, access, seen, sActive, cache>>,
         token' \in Seq(Tokens), Sess!Ids' = Sess!Ids,
         \A i \in Sess!Ids : /\ SameToken(token'[i], token[i]) /\ token'[i].anchor = token[i].anchor
                             /\ token'[i].recoveries <= MaxRecoveries
                             /\ token'[i].state = "live" => token[i].state = "live",
         sReq' \in [Workers -> SessRequests], NEW w \in Workers, OnlyMoves(w), RequestOK(w)'
  PROVE  Rest' /\ Grown /\ \A i, how : Sess!Children(i, how)' = Sess!Children(i, how)
<1>1. Grown
  BY DEF Grown
<1>2. SessClocks'
  BY DEF SessionInv, SessClocks
<1>3. ASSUME NEW i \in Sess!Ids PROVE TokenOK(i)' /\ Recorded(i)'
  BY TokenTypes DEF SessionInv, TokenOK, Recorded, SameToken
<1>4. \A v \in Workers : RequestOK(v)'
  BY <1>1, OthersRequests
<1>5. \A i, how : Sess!Children(i, how)' = Sess!Children(i, how)
  BY <1>1, ChildrenStay
<1> QED BY <1>1, <1>2, <1>3, <1>4, <1>5 DEF SessionInv, Rest

\* A refresh recovers a rotated token within its grace.
LEMMA RefreshRecoverKeeps ==
  ASSUME PolicyIsSet, SessionInv, NEW w \in Workers, Sess!RefreshRecover(w)
  PROVE  SessionInv'
<1>0. sReq[w].pc = "recover" /\ sReq[w].id \in Sess!Ids
  BY DEF Sess!RefreshRecover, SessionInv, RequestOK
<1> PICK i \in Sess!Ids : i = sReq[w].id
  BY <1>0
<1> DEFINE r == [token[i] EXCEPT !.recoveries = @ + 1]
           q == [sReq[w] EXCEPT !.pc = "create"]
<1>1. /\ UNCHANGED <<sNow, delivered, access, seen, sActive, cache>> /\ sReq[w].pc = "recover"
  BY DEF Sess!RefreshRecover
<1>2. CASE token[i].recoveries < MaxRecoveries /\ token' = [token EXCEPT ![i].recoveries = @ + 1] /\ Sess!Goto(w, q)
  <2>1. r \in Tokens /\ r.recoveries = token[i].recoveries + 1 /\ SameToken(r, token[i])
        /\ r.anchor = token[i].anchor /\ r.state = token[i].state /\ token[i].recoveries \in Nat
    <3>1. token[i] \in Tokens
      BY <1>1, TokenTypes DEF SessionInv
    <3> QED BY <3>1 DEF Tokens, SameToken
  <2>2. token' = [token EXCEPT ![i] = r]
    BY <1>2
  <2>3. q \in SessRequests /\ q.pc = "create" /\ q.id = i /\ q.via = "stale"
    <3>1. sReq[w] \in [pc : {"recover"}, id : Nat, via : {"stale"}]
      BY <1>1 DEF SessionInv, SessRequests, Sess!Idle
    <3> QED BY <3>1 DEF SessRequests
  <2> HIDE DEF r, q
  <2>4. i \in Sess!Ids /\ token \in Seq(Tokens)
    BY <1>1 DEF SessionInv
  <2>4a. sReq' \in [Workers -> SessRequests] /\ OnlyMoves(w) /\ sReq'[w] = q
    BY <1>2, <2>3 DEF Sess!Goto, SessionInv, OnlyMoves
  <2>5. /\ token' \in Seq(Tokens) /\ Sess!Ids' = Sess!Ids
        /\ token'[i] = r /\ \A j \in Sess!Ids : j # i => token'[j] = token[j]
    BY <2>1, <2>2, <2>4, WriteToken
  <2>6. RequestOK(w)' /\ \A j, how : Bearing(w, j, how)' => j = i /\ how = "stale"
    BY <2>3, <2>4, <2>4a, <2>5 DEF RequestOK, Bearing
  <2>7. ASSUME NEW j \in Sess!Ids
        PROVE  /\ SameToken(token'[j], token[j]) /\ token'[j].anchor = token[j].anchor
               /\ token'[j].recoveries <= MaxRecoveries /\ token'[j].recoveries \in Nat
               /\ token'[j].recoveries >= token[j].recoveries
               /\ token'[j].state = token[j].state
    <3>1. token[j].recoveries \in Nat /\ TokenOK(j) /\ MaxRecoveries \in Nat
      BY TokenTypes DEF SessionInv, PolicyIsSet
    <3>2. CASE j = i
      <4>1. token'[j] = r /\ token[j].recoveries < MaxRecoveries /\ r.recoveries = token[j].recoveries + 1
        BY <1>2, <2>1, <2>5, <3>2
      <4>2. r.recoveries \in Nat /\ r.recoveries <= MaxRecoveries /\ r.recoveries >= token[j].recoveries
        BY <3>1, <4>1
      <4> QED BY <2>1, <3>2, <4>1, <4>2
    <3>3. CASE j # i
      BY <2>5, <3>1, <3>3 DEF TokenOK, SameToken
    <3> QED BY <3>2, <3>3
  <2>8. Rest' /\ Grown /\ \A j, how : Sess!Children(j, how)' = Sess!Children(j, how)
    BY <1>1, <2>4a, <2>5, <2>6, <2>7, WriteStep
  <2>9. ASSUME NEW j \in Sess!Ids, j # i PROVE Exchanged(j)'
    BY <2>4a, <2>6, <2>7, <2>8, <2>9, ExchangesKept
  <2>10. Exchanged(i)'
    <3>1. Exchanged(i) /\ token'[i].state = token[i].state /\ token'[i].recoveries = token[i].recoveries + 1
          /\ token[i].recoveries \in Nat
      BY <2>1, <2>4, <2>5, TokenTypes DEF SessionInv
    <3>2. Bearers(i, "valid")' \subseteq Bearers(i, "valid")
      BY <2>4a, <2>6, <2>8, BearersStay
    <3>3. Bearers(i, "stale")' \subseteq Bearers(i, "stale") \cup {w}
      <4> SUFFICES ASSUME NEW v \in Workers, v # w, Bearing(v, i, "stale")' PROVE Bearing(v, i, "stale")
        BY DEF Bearers
      <4>1. RequestOK(v) /\ sReq'[v] = sReq[v]
        BY <2>4a DEF SessionInv, OnlyMoves
      <4> QED BY <2>8, <4>1 DEF RequestOK, Grown, SameToken, Bearing
    <3>4. /\ Cardinality(Bearers(i, "valid")') <= Cardinality(Bearers(i, "valid"))
          /\ Cardinality(Bearers(i, "valid")') \in Nat /\ Cardinality(Bearers(i, "valid")) \in Nat
      BY <3>2, SessCountable, FS_Subset, FS_CardinalityType
    <3>5. /\ Cardinality(Bearers(i, "stale")') <= Cardinality(Bearers(i, "stale")) + 1
          /\ Cardinality(Bearers(i, "stale")') \in Nat /\ Cardinality(Bearers(i, "stale")) \in Nat
      <4>1. IsFiniteSet(Bearers(i, "stale"))
        BY SessCountable
      <4>2. /\ IsFiniteSet(Bearers(i, "stale") \cup {w})
            /\ Cardinality(Bearers(i, "stale") \cup {w}) <= Cardinality(Bearers(i, "stale")) + 1
            /\ Cardinality(Bearers(i, "stale") \cup {w}) \in Nat /\ Cardinality(Bearers(i, "stale")) \in Nat
        <5>1. /\ IsFiniteSet(Bearers(i, "stale") \cup {w}) /\ Cardinality(Bearers(i, "stale")) \in Nat
              /\ Cardinality(Bearers(i, "stale") \cup {w}) \in
                   {Cardinality(Bearers(i, "stale")), Cardinality(Bearers(i, "stale")) + 1}
          BY <4>1, FS_AddElement, FS_CardinalityType
        <5> QED BY <5>1
      <4>3. Cardinality(Bearers(i, "stale")') <= Cardinality(Bearers(i, "stale") \cup {w})
            /\ Cardinality(Bearers(i, "stale")') \in Nat
        <5>1. \A S : S \subseteq Bearers(i, "stale") \cup {w}
                => /\ Cardinality(S) <= Cardinality(Bearers(i, "stale") \cup {w}) /\ Cardinality(S) \in Nat
          BY <4>2, FS_Subset, FS_CardinalityType
        <5> QED BY <3>3, <5>1
      <4> QED BY <4>2, <4>3
    <3>6. /\ Cardinality(Sess!Children(i, "valid")') = Cardinality(Sess!Children(i, "valid"))
          /\ Cardinality(Sess!Children(i, "stale")') = Cardinality(Sess!Children(i, "stale"))
          /\ Cardinality(Sess!Children(i, "valid")) \in Nat /\ Cardinality(Sess!Children(i, "stale")) \in Nat
          /\ Cardinality(Workers) \in Nat
      BY <2>8, SessCountable
    <3>7. Cardinality(Sess!Children(i, "valid")') + Cardinality(Bearers(i, "valid")') <= Cardinality(Workers)
      BY <3>1, <3>4, <3>6 DEF Exchanged
    <3>8. Cardinality(Sess!Children(i, "stale")') + Cardinality(Bearers(i, "stale")') <= token'[i].recoveries
      BY <3>1, <3>5, <3>6 DEF Exchanged
    <3>9. token'[i].state = "live" => Sess!Children(i, "valid")' = {}
      BY <2>8, <3>1 DEF Exchanged
    <3> QED BY <3>7, <3>8, <3>9 DEF Exchanged
  <2> QED BY <2>5, <2>8, <2>9, <2>10 DEF SessionInv, Rest
<1>3. CASE Sess!Goto(w, Sess!Idle) /\ UNCHANGED token
  <2>1. sReq' \in [Workers -> SessRequests] /\ OnlyMoves(w) /\ RequestOK(w)' /\ \A j, how : ~Bearing(w, j, how)'
    BY <1>3, IdleRequest
  <2>2. SessClocks' /\ \A j \in Sess!Ids : TokenOK(j)' /\ Recorded(j)'
    BY <1>1, <1>3 DEF SessionInv, SessClocks, TokenOK, Recorded
  <2> QED BY <1>1, <1>3, <2>1, <2>2, TokensStay
<1> QED BY <1>2, <1>3 DEF Sess!RefreshRecover

\* A refresh rotates the token it has verified.
LEMMA RefreshRotateKeeps ==
  ASSUME PolicyIsSet, SessionInv, NEW w \in Workers, Sess!RefreshRotate(w)
  PROVE  SessionInv'
<1>0. sReq[w].pc = "rotate" /\ sReq[w].id \in Sess!Ids /\ RequestOK(w)
  BY DEF Sess!RefreshRotate, SessionInv, RequestOK
<1> PICK i \in Sess!Ids : i = sReq[w].id
  BY <1>0
<1> DEFINE r == [token[i] EXCEPT !.state = "rotated", !.rotatedAt = sNow]
           q == [sReq[w] EXCEPT !.pc = "answer"]
<1>1. /\ UNCHANGED <<sNow, delivered, access, seen, sActive, cache>> /\ Sess!Goto(w, q)
      /\ token' = [token EXCEPT ![i].state = "rotated", ![i].rotatedAt = sNow]
  BY DEF Sess!RefreshRotate
<1>2. r \in Tokens /\ r.recoveries = token[i].recoveries /\ SameToken(r, token[i])
      /\ r.anchor = token[i].anchor /\ r.state = "rotated"
  <2>1. token[i] \in Tokens /\ sNow \in Nat
    BY TokenTypes DEF SessionInv, SessClocks
  <2> QED BY <2>1 DEF Tokens, SameToken, Sess!Statuses
<1>3. token' = [token EXCEPT ![i] = r]
  BY <1>1
<1>4. q \in SessRequests /\ q.pc = "answer" /\ q.id = i /\ q.new = sReq[w].new
  <2>1. sReq[w] \in [pc : {"rotate", "answer"}, id : Nat, new : Nat]
    BY <1>0 DEF SessionInv, SessRequests, Sess!Idle
  <2> QED BY <2>1 DEF SessRequests
<1> HIDE DEF r, q
<1>5. sReq' \in [Workers -> SessRequests] /\ OnlyMoves(w) /\ sReq'[w] = q
  BY <1>1, <1>4 DEF Sess!Goto, SessionInv, OnlyMoves
<1>6. /\ token' \in Seq(Tokens) /\ Sess!Ids' = Sess!Ids
      /\ token'[i] = r /\ \A j \in Sess!Ids : j # i => token'[j] = token[j]
  BY <1>2, <1>3, WriteToken DEF SessionInv
<1>7. ASSUME NEW j \in Sess!Ids
      PROVE  /\ SameToken(token'[j], token[j]) /\ token'[j].anchor = token[j].anchor
             /\ token'[j].recoveries = token[j].recoveries /\ token'[j].recoveries \in Nat
             /\ token'[j].recoveries <= MaxRecoveries
             /\ token'[j].state = "live" => token[j].state = "live"
  <2>1. token[j].recoveries \in Nat /\ TokenOK(j)
    BY TokenTypes DEF SessionInv
  <2> QED BY <1>2, <1>6, <2>1 DEF TokenOK, SameToken
<1>8. RequestOK(w)' /\ \A j, how : Bearing(w, j, how)' => Bearing(w, j, how)
  <2>1. sReq[w].new \in Sess!Ids /\ token[sReq[w].new].parent = i /\ token[sReq[w].new].session = token[i].session
    BY <1>0 DEF RequestOK
  <2>2. SameToken(token'[sReq[w].new], token[sReq[w].new]) /\ SameToken(token'[i], token[i])
    BY <1>7, <2>1
  <2> QED BY <1>0, <1>2, <1>4, <1>5, <1>6, <2>1, <2>2 DEF RequestOK, Bearing, SameToken
<1>9. Rest' /\ Grown /\ \A j, how : Sess!Children(j, how)' = Sess!Children(j, how)
  BY <1>1, <1>5, <1>6, <1>7, <1>8, WriteStep
<1>10. ASSUME NEW j \in Sess!Ids PROVE Exchanged(j)'
  <2>1. token'[j].recoveries \in Nat /\ token'[j].recoveries >= token[j].recoveries
    BY <1>7
  <2> QED BY <1>5, <1>8, <1>9, <2>1, ExchangesKept
<1> QED BY <1>6, <1>9, <1>10 DEF SessionInv, Rest

\* A logout writes its token.
LEMMA LogoutWriteKeeps ==
  ASSUME PolicyIsSet, SessionInv, NEW w \in Workers, Sess!LogoutWrite(w)
  PROVE  SessionInv'
<1>1. /\ UNCHANGED <<sNow, delivered, access, seen, sActive, cache>> /\ Sess!Goto(w, Sess!Idle)
      /\ token' = [i \in Sess!Ids |-> IF i \in sReq[w].ids THEN [token[i] EXCEPT !.state = "logout"] ELSE token[i]]
  BY DEF Sess!LogoutWrite
<1>2. ASSUME NEW j \in Sess!Ids
      PROVE  /\ token'[j] \in Tokens
             /\ SameToken(token'[j], token[j]) /\ token'[j].anchor = token[j].anchor
             /\ token'[j].recoveries = token[j].recoveries /\ token'[j].recoveries \in Nat
             /\ token'[j].recoveries <= MaxRecoveries
             /\ token'[j].state = "live" => token[j].state = "live"
  <2>1. token[j] \in Tokens /\ token[j].recoveries \in Nat /\ TokenOK(j)
    BY TokenTypes DEF SessionInv
  <2>2. token'[j] = token[j] \/ token'[j] = [token[j] EXCEPT !.state = "logout"]
    BY <1>1
  <2> QED BY <2>1, <2>2 DEF TokenOK, SameToken, Tokens, Sess!Statuses
<1>3. token' \in Seq(Tokens) /\ Sess!Ids' = Sess!Ids
  <2>1. DOMAIN token' = Sess!Ids /\ token' = [i \in Sess!Ids |-> token'[i]]
    BY <1>1
  <2> QED BY <1>2, <2>1, WriteTokens DEF SessionInv
<1>4. sReq' \in [Workers -> SessRequests] /\ OnlyMoves(w) /\ RequestOK(w)' /\ \A j, how : ~Bearing(w, j, how)'
  BY <1>1, IdleRequest
<1>5. Rest' /\ Grown /\ \A j, how : Sess!Children(j, how)' = Sess!Children(j, how)
  BY <1>1, <1>2, <1>3, <1>4, WriteStep
<1>6. ASSUME NEW j \in Sess!Ids PROVE Exchanged(j)'
  <2>1. token'[j].recoveries \in Nat /\ token'[j].recoveries >= token[j].recoveries
    BY <1>2
  <2> QED BY <1>4, <1>5, <2>1, ExchangesKept
<1> QED BY <1>3, <1>5, <1>6 DEF SessionInv, Rest

\* Time, deactivation and dying workers.
LEMMA OtherKeeps ==
  ASSUME PolicyIsSet, SessionInv,
         Sess!Tick \/ Sess!Deactivate \/ (\E w \in Workers : Sess!Crash(w)) \/ UNCHANGED Sess!vars
  PROVE  SessionInv'
<1>1. UNCHANGED <<token, delivered, access, seen>> /\ Grown /\ Sess!Ids' = Sess!Ids
  BY DEF Sess!Tick, Sess!Deactivate, Sess!Crash, Sess!vars, Grown, SameToken, Sess!Ids
<1>2. CASE \E w \in Workers : Sess!Crash(w)
  <2>1. PICK w \in Workers : Sess!Crash(w)
    BY <1>2
  <2>2. /\ UNCHANGED <<sNow, sActive>> /\ Sess!Goto(w, Sess!Idle)
        /\ cache' = [cache EXCEPT ![w] = [s \in AllSessions |-> 0]]
    BY <2>1 DEF Sess!Crash
  <2>3. /\ sReq' \in [Workers -> SessRequests] /\ OnlyMoves(w) /\ RequestOK(w)'
        /\ \A j, how : ~Bearing(w, j, how)'
    BY <2>2, IdleRequest
  <2>4. /\ cache \in [Workers -> [AllSessions -> Nat]] /\ sNow \in Nat /\ Throttle \in Nat /\ Throttle > 0
        /\ \A v \in Workers, s \in AllSessions : cache[v][s] <= sNow + Throttle
    BY DEF SessionInv, SessClocks, PolicyIsSet
  <2>5. /\ cache' \in [Workers -> [AllSessions -> Nat]]
        /\ \A v \in Workers, s \in AllSessions : cache'[v][s] = IF v = w THEN 0 ELSE cache[v][s]
    BY <2>2, <2>4
  <2>6. \A v \in Workers, s \in AllSessions : cache'[v][s] <= sNow + Throttle
    BY <2>4, <2>5
  <2>7. SessClocks'
    BY <1>1, <2>2, <2>5, <2>6 DEF SessionInv, SessClocks
  <2>8. ASSUME NEW i \in Sess!Ids PROVE TokenOK(i)' /\ Recorded(i)'
    <3>1. /\ TokenOK(i) /\ Recorded(i) /\ token[i].session \in AllSessions /\ token[i].anchor \in Nat
          /\ token'[i] = token[i]
      BY <1>1, TokenTypes DEF SessionInv
    <3>2. 0 < token[i].anchor + 2 * Throttle
      BY <2>4, <3>1
    <3> QED BY <1>1, <2>2, <2>5, <3>1, <3>2 DEF TokenOK, Recorded
  <2> QED BY <1>1, <2>3, <2>7, <2>8, TokensStay DEF SessionInv
<1>3. CASE Sess!Tick \/ Sess!Deactivate \/ UNCHANGED Sess!vars
  <2>0. sNow \in Nat /\ SessionTime \in Nat /\ sNow <= SessionTime /\ sActive \in BOOLEAN
    BY DEF SessionInv, SessClocks, PolicyIsSet
  <2>1. UNCHANGED <<cache, sReq>> /\ sNow' \in Nat /\ sNow <= sNow' /\ sNow' <= SessionTime
    BY <1>3, <2>0 DEF Sess!Tick, Sess!Deactivate, Sess!vars
  <2>1a. sActive' \in BOOLEAN
    BY <1>3, <2>0 DEF Sess!Tick, Sess!Deactivate, Sess!vars
  <2>2. sNow \in Nat /\ Throttle \in Nat
    BY DEF SessionInv, SessClocks, PolicyIsSet
  <2>3. SessClocks'
    BY <1>1, <2>1, <2>1a, <2>2 DEF SessionInv, SessClocks
  <2>4. ASSUME NEW i \in Sess!Ids PROVE TokenOK(i)' /\ Recorded(i)'
    <3>1. TokenOK(i) /\ Recorded(i) /\ token[i].anchor \in Nat
      BY TokenTypes DEF SessionInv
    <3> QED BY <1>1, <2>1, <2>2, <3>1 DEF TokenOK, Recorded
  <2>5. ASSUME NEW v \in Workers PROVE RequestOK(v)'
    BY <1>1, <2>1 DEF SessionInv, RequestOK
  <2>6. ASSUME NEW i, NEW how
        PROVE  Bearers(i, how)' = Bearers(i, how) /\ Sess!Children(i, how)' = Sess!Children(i, how)
    BY <1>1, <2>1 DEF Bearers, Bearing, Sess!Children
  <2>7. ASSUME NEW i \in Sess!Ids PROVE Exchanged(i)'
    BY <1>1, <2>6 DEF SessionInv, Exchanged
  <2> QED BY <1>1, <2>1, <2>3, <2>4, <2>5, <2>7 DEF SessionInv
<1> QED BY <1>2, <1>3

(* A token is issued.                                                       *)
LEMMA Issued ==
  ASSUME PolicyIsSet, SessionInv, NEW n, n = Len(token) + 1, NEW r \in Tokens, token' = Append(token, r),
         UNCHANGED <<sNow, sActive, cache>>, r.anchor = sNow, r.created = sNow, r.recoveries = 0,
         r.parent \in Sess!Ids \cup {0}, delivered' \subseteq Sess!Ids',
         access' \in [AllSessions -> Nat], seen' \in [AllSessions -> Nat],
         \A s \in AllSessions : seen'[s] <= sNow /\ access'[s] <= seen'[s] + AccessTTL,
         \A i \in Sess!Ids : seen'[token[i].session] = seen[token[i].session],
         sReq' \in [Workers -> SessRequests], \A w \in Workers : RequestOK(w)',
         \A w \in Workers : sReq'[w].pc = "create" => sReq'[w].id \in Sess!Ids,
         \A i \in Sess!Ids : Exchanged(i)'
  PROVE  SessionInv'
<1>1. /\ sNow \in Nat /\ Throttle \in Nat /\ Throttle > 0 /\ MaxRecoveries \in Nat
      /\ cache \in [Workers -> [AllSessions -> Nat]]
      /\ \A w \in Workers, s \in AllSessions : cache[w][s] <= sNow + Throttle
  BY DEF SessionInv, SessClocks, PolicyIsSet
<1>2. /\ token' \in Seq(Tokens) /\ Sess!Ids' = Sess!Ids \cup {n} /\ n \notin Sess!Ids
      /\ token'[n] = r /\ \A j \in Sess!Ids : token'[j] = token[j]
      /\ n \in Nat /\ \A j \in Sess!Ids : j \in Nat /\ j < n
  BY AddToken DEF SessionInv
<1>3. 0 < n /\ 0 \notin Sess!Ids
  BY DEF Sess!Ids, SessionInv
<1>4. Grown
  BY <1>2 DEF Grown, SameToken
<1>5. SessClocks'
  BY <1>1 DEF SessionInv, SessClocks
<1>6. ASSUME NEW i \in Sess!Ids PROVE TokenOK(i)' /\ Recorded(i)'
  <2>1. TokenOK(i) /\ Recorded(i) /\ token'[i] = token[i]
    BY <1>2 DEF SessionInv
  <2> QED BY <2>1 DEF TokenOK, Recorded
<1>7. TokenOK(n)'
  <2>1. r.parent < n
    BY <1>2, <1>3
  <2> QED BY <1>1, <1>2, <2>1 DEF TokenOK
<1>8. Recorded(n)'
  <2>1. r.session \in AllSessions
    BY DEF Tokens
  <2>2. seen'[r.session] <= sNow /\ seen'[r.session] \in Nat
    BY <2>1
  <2>3. seen'[r.session] < sNow + 2 * Throttle
    BY <1>1, <2>2
  <2>4. ASSUME NEW w \in Workers PROVE cache[w][r.session] < sNow + 2 * Throttle
    <3>1. cache[w][r.session] \in Nat /\ cache[w][r.session] <= sNow + Throttle
      BY <1>1, <2>1
    <3> QED BY <1>1, <3>1
  <2> QED BY <1>2, <2>3, <2>4 DEF Recorded
<1>9. Exchanged(n)'
  <2>1. r.parent \in Nat /\ r.parent < n
    BY <1>2, <1>3
  <2> QED BY <1>2, <1>4, <2>1, NewIsChildless
<1> QED BY <1>2, <1>5, <1>6, <1>7, <1>8, <1>9 DEF SessionInv

\* A login issues the first token of its session.
LEMMA LoginKeeps ==
  ASSUME PolicyIsSet, SessionInv, NEW s \in AllSessions, Sess!Login(s)
  PROVE  SessionInv'
<1> PICK n : n = Len(token) + 1
  OBVIOUS
<1> DEFINE r == Sess!NewToken(s, 0, "login")
<1>1. /\ token' = Append(token, r) /\ delivered' = delivered \cup {n}
      /\ access' = [access EXCEPT ![s] = sNow + AccessTTL] /\ seen' = [seen EXCEPT ![s] = sNow]
      /\ UNCHANGED <<sNow, sActive, cache, sReq>> /\ \A i \in Sess!Ids : token[i].session # s
  BY DEF Sess!Login
<1>2. sNow \in Nat /\ AccessTTL \in Nat /\ access \in [AllSessions -> Nat] /\ seen \in [AllSessions -> Nat]
      /\ \A q \in AllSessions : seen[q] <= sNow /\ access[q] <= seen[q] + AccessTTL
  BY DEF SessionInv, SessClocks, PolicyIsSet
<1>3. /\ r \in Tokens /\ r.session = s /\ r.created = sNow /\ r.anchor = sNow /\ r.recoveries = 0
      /\ r.parent = 0
  BY <1>2 DEF Sess!NewToken, Tokens, Sess!Statuses
<1> HIDE DEF r
<1>4. /\ token' \in Seq(Tokens) /\ Sess!Ids' = Sess!Ids \cup {n} /\ n \notin Sess!Ids
      /\ token'[n] = r /\ \A j \in Sess!Ids : token'[j] = token[j]
  BY <1>1, <1>3, AddToken DEF SessionInv
<1>5. /\ access' \in [AllSessions -> Nat] /\ seen' \in [AllSessions -> Nat]
      /\ \A q \in AllSessions : seen'[q] = IF q = s THEN sNow ELSE seen[q]
      /\ \A q \in AllSessions : access'[q] = IF q = s THEN sNow + AccessTTL ELSE access[q]
  BY <1>1, <1>2
<1>6. \A q \in AllSessions : seen'[q] <= sNow /\ access'[q] <= seen'[q] + AccessTTL
  <2> TAKE q \in AllSessions
  <2>1. sNow + AccessTTL <= sNow + AccessTTL /\ sNow <= sNow
    BY <1>2
  <2> QED BY <1>2, <1>5, <2>1
<1>7. \A i \in Sess!Ids : seen'[token[i].session] = seen[token[i].session]
  BY <1>1, <1>5, TokenTypes DEF SessionInv
<1>8. Grown /\ \A w : OnlyMoves(w)
  BY <1>1, <1>4 DEF Grown, SameToken, OnlyMoves
<1>9. ASSUME NEW w \in Workers
      PROVE  RequestOK(w)' /\ (sReq'[w].pc = "create" => sReq'[w].id \in Sess!Ids)
  <2>1. RequestOK(w) /\ sReq'[w] = sReq[w]
    BY <1>1 DEF SessionInv
  <2> QED BY <1>4, <2>1 DEF RequestOK
<1>10. ASSUME NEW i \in Sess!Ids PROVE Exchanged(i)'
  <2>0. PICK w \in Workers : TRUE
    BY DEF Sess!Login
  <2>1. token'[i].recoveries \in Nat /\ token'[i].recoveries >= token[i].recoveries
    BY <1>4, TokenTypes DEF SessionInv
  <2>2. ASSUME NEW how PROVE Sess!Children(i, how)' = Sess!Children(i, how)
    <3>1. i # 0 /\ delivered \subseteq Sess!Ids
      BY DEF Sess!Ids, SessionInv
    <3> QED BY <1>1, <1>3, <1>4, <3>1 DEF Sess!Children
  <2>3. \A how : Bearing(w, i, how)' => Bearing(w, i, how)
    <3>1. RequestOK(w) /\ sReq'[w] = sReq[w]
      BY <1>1 DEF SessionInv
    <3> QED BY <1>4, <3>1 DEF Bearing, RequestOK
  <2> QED BY <1>8, <2>1, <2>2, <2>3, ExchangesKept
<1>11. delivered' \subseteq Sess!Ids' /\ sReq' \in [Workers -> SessRequests]
  BY <1>1, <1>4 DEF SessionInv
<1> QED BY <1>1, <1>3, <1>5, <1>6, <1>7, <1>9, <1>10, <1>11, Issued

\* A refresh issues the next token.
LEMMA RefreshCreateKeeps ==
  ASSUME PolicyIsSet, SessionInv, NEW w \in Workers, Sess!RefreshCreate(w)
  PROVE  SessionInv'
<1> PICK n : n = Len(token) + 1
  OBVIOUS
<1>0. sReq[w].pc = "create" /\ sReq[w].id \in Sess!Ids
  BY DEF Sess!RefreshCreate, SessionInv, RequestOK
<1> PICK p \in Sess!Ids : p = sReq[w].id
  BY <1>0
<1> PICK how \in {"valid", "stale"} : how = sReq[w].via
  BY <1>0 DEF SessionInv, SessRequests, Sess!Idle
<1> DEFINE r == Sess!NewToken(token[p].session, p, how)
           q == [pc |-> IF how = "valid" THEN "rotate" ELSE "answer", id |-> p, new |-> n]
<1>1. /\ token' = Append(token, r) /\ Sess!Goto(w, q)
      /\ UNCHANGED <<sNow, delivered, access, seen, sActive, cache>>
  BY DEF Sess!RefreshCreate
<1>2. sNow \in Nat /\ p \in Nat
  BY DEF SessionInv, SessClocks, Sess!Ids
<1>3. /\ r \in Tokens /\ r.session = token[p].session /\ r.created = sNow /\ r.anchor = sNow
      /\ r.recoveries = 0 /\ r.parent = p /\ r.via = how
  <2>1. token[p].session \in AllSessions
    BY TokenTypes DEF SessionInv
  <2> QED BY <1>2, <2>1 DEF Sess!NewToken, Tokens, Sess!Statuses
<1> HIDE DEF r
<1>4. /\ token' \in Seq(Tokens) /\ Sess!Ids' = Sess!Ids \cup {n} /\ n \notin Sess!Ids
      /\ token'[n] = r /\ \A j \in Sess!Ids : token'[j] = token[j] /\ n \in Nat
  BY <1>1, <1>3, AddToken DEF SessionInv
<1>5. q \in SessRequests /\ q.id = p /\ q.new = n /\ q.pc \in {"rotate", "answer"} /\ (q.pc = "answer" => how = "stale")
  BY <1>2, <1>4 DEF SessRequests
<1> HIDE DEF q
<1>6. sReq' \in [Workers -> SessRequests] /\ OnlyMoves(w) /\ sReq'[w] = q
  BY <1>1, <1>5 DEF Sess!Goto, SessionInv, OnlyMoves
<1>7. Grown
  BY <1>4 DEF Grown, SameToken
<1>8. RequestOK(w)'
  BY <1>3, <1>4, <1>5, <1>6 DEF RequestOK
<1>9. \A v \in Workers : RequestOK(v)'
  BY <1>6, <1>7, <1>8, OthersRequests
<1>10. \A v \in Workers : sReq'[v].pc = "create" => sReq'[v].id \in Sess!Ids
  BY <1>5, <1>6 DEF SessionInv, RequestOK, OnlyMoves
<1>11. ASSUME NEW i \in Sess!Ids PROVE Exchanged(i)'
  <2>1. token'[i].recoveries \in Nat /\ token'[i].recoveries >= token[i].recoveries
    BY <1>4, TokenTypes DEF SessionInv
  <2>2. \A h : Sess!Children(i, h)' = Sess!Children(i, h)
    BY <1>1, <1>7, ChildrenStay
  <2>3. \A h : Bearing(w, i, h)' => Bearing(w, i, h)
    BY <1>0, <1>3, <1>4, <1>5, <1>6 DEF Bearing
  <2> QED BY <1>6, <1>7, <2>1, <2>2, <2>3, ExchangesKept
<1>12. delivered' \subseteq Sess!Ids' /\ access' \in [AllSessions -> Nat] /\ seen' \in [AllSessions -> Nat]
       /\ \A s \in AllSessions : seen'[s] <= sNow /\ access'[s] <= seen'[s] + AccessTTL
  BY <1>1, <1>4 DEF SessionInv, SessClocks
<1>13. \A i \in Sess!Ids : seen'[token[i].session] = seen[token[i].session]
  BY <1>1
<1> QED BY <1>1, <1>3, <1>6, <1>9, <1>10, <1>11, <1>12, <1>13, Issued

\* A refresh answers with its token.
LEMMA RefreshAnswerKeeps ==
  ASSUME PolicyIsSet, SessionInv, NEW w \in Workers, Sess!RefreshAnswer(w)
  PROVE  SessionInv'
<1>0. sReq[w].pc = "answer" /\ sReq[w].id \in Sess!Ids /\ sReq[w].new \in Sess!Ids /\ RequestOK(w)
  BY DEF Sess!RefreshAnswer, SessionInv, RequestOK
<1> PICK n \in Sess!Ids : n = sReq[w].new
  BY <1>0
<1> PICK s \in AllSessions : s = token[n].session
  BY TokenTypes DEF SessionInv
<1>1. /\ access' = [access EXCEPT ![s] = sNow + AccessTTL] /\ seen' = [seen EXCEPT ![s] = sNow]
      /\ Sess!RecordActivity(w, s) /\ delivered' = delivered \cup {n} /\ Sess!Goto(w, Sess!Idle) /\ UNCHANGED <<sNow, sActive>>
  BY DEF Sess!RefreshAnswer
<1>2. sNow \in Nat /\ AccessTTL \in Nat /\ access \in [AllSessions -> Nat] /\ seen \in [AllSessions -> Nat]
      /\ \A q \in AllSessions : seen[q] <= sNow /\ access[q] <= seen[q] + AccessTTL
  BY DEF SessionInv, SessClocks, PolicyIsSet
<1>3. /\ access' \in [AllSessions -> Nat] /\ seen' \in [AllSessions -> Nat]
      /\ \A q \in AllSessions : seen'[q] = IF q = s THEN sNow ELSE seen[q]
      /\ \A q \in AllSessions : access'[q] = IF q = s THEN sNow + AccessTTL ELSE access[q]
  BY <1>1, <1>2
<1>4. \A q \in AllSessions : access'[q] <= seen'[q] + AccessTTL
  <2> TAKE q \in AllSessions
  <2>1. sNow + AccessTTL <= sNow + AccessTTL
    BY <1>2
  <2> QED BY <1>2, <1>3, <2>1
<1>5. sReq' \in [Workers -> SessRequests] /\ OnlyMoves(w) /\ RequestOK(w)' /\ \A j, how : ~Bearing(w, j, how)'
  BY <1>1, IdleRequest
<1>6. delivered' \subseteq Sess!Ids
  BY <1>1 DEF SessionInv
<1>7. Rest' /\ Grown /\ Sess!Ids' = Sess!Ids
  BY <1>1, <1>3, <1>4, <1>5, <1>6, SessRequestStep
<1>8. ASSUME NEW i \in Sess!Ids
      PROVE  /\ token[i].recoveries \in Nat /\ token'[i].recoveries = token[i].recoveries
             /\ token'[i].state = token[i].state /\ SameToken(token'[i], token[i])
  <2>1. token[i].recoveries \in Nat
    BY TokenTypes DEF SessionInv
  <2> QED BY <1>1, <2>1, ActivityRecorded
<1>9. ASSUME NEW i \in Sess!Ids, NEW how
      PROVE  Sess!Children(i, how)' = IF token[n].parent = i /\ token[n].via = how
                                 THEN Sess!Children(i, how) \cup {n} ELSE Sess!Children(i, how)
  <2>1. \A j \in delivered' : token'[j].parent = token[j].parent /\ token'[j].via = token[j].via
    BY <1>6, <1>8 DEF SameToken
  <2> QED BY <1>1, <2>1 DEF Sess!Children
<1>10. ASSUME NEW i \in Sess!Ids, NEW how
       PROVE  Bearers(i, how)' \subseteq Bearers(i, how) \ {w}
  <2>1. Bearers(i, how)' \subseteq Bearers(i, how)
    BY <1>5, <1>7, BearersStay
  <2> QED BY <1>5, <2>1 DEF Bearers
<1>11. token[n].parent = sReq[w].id /\ (token[n].via = "valid" => token[sReq[w].id].state # "live")
  BY <1>0 DEF RequestOK
<1>12. ASSUME NEW i \in Sess!Ids, NEW how
       PROVE  /\ Cardinality(Sess!Children(i, how)') \in Nat /\ Cardinality(Bearers(i, how)') \in Nat
              /\ Cardinality(Sess!Children(i, how)') + Cardinality(Bearers(i, how)')
                   <= Cardinality(Sess!Children(i, how)) + Cardinality(Bearers(i, how))
              /\ Cardinality(Sess!Children(i, how)) \in Nat /\ Cardinality(Bearers(i, how)) \in Nat
  <2>1. /\ IsFiniteSet(Bearers(i, how)) /\ IsFiniteSet(Sess!Children(i, how))
        /\ Cardinality(Sess!Children(i, how)) \in Nat /\ Cardinality(Bearers(i, how)) \in Nat
    BY SessCountable
  <2>2. CASE token[n].parent = i /\ token[n].via = how
    <3>1. w \in Bearers(i, how)
      BY <1>0, <2>2 DEF Bearers, Bearing
    <3>2. /\ Cardinality(Bearers(i, how) \ {w}) = Cardinality(Bearers(i, how)) - 1
          /\ IsFiniteSet(Bearers(i, how) \ {w}) /\ Cardinality(Bearers(i, how) \ {w}) \in Nat
      BY <2>1, <3>1, FS_RemoveElement, FS_CardinalityType
    <3>3. /\ Cardinality(Bearers(i, how)') <= Cardinality(Bearers(i, how) \ {w})
          /\ Cardinality(Bearers(i, how)') \in Nat
      BY <1>10, <3>2, FS_Subset, FS_CardinalityType
    <3>4. Sess!Children(i, how)' = Sess!Children(i, how) \cup {n}
      BY <1>9, <2>2
    <3>5. Cardinality(Sess!Children(i, how) \cup {n}) \in {Cardinality(Sess!Children(i, how)), Cardinality(Sess!Children(i, how)) + 1}
      BY <2>1, FS_AddElement
    <3>6. Cardinality(Sess!Children(i, how)') = Cardinality(Sess!Children(i, how) \cup {n})
      BY <3>4
    <3> QED BY <2>1, <3>2, <3>3, <3>5, <3>6
  <2>3. CASE ~(token[n].parent = i /\ token[n].via = how)
    <3>1. Cardinality(Sess!Children(i, how)') = Cardinality(Sess!Children(i, how))
      BY <1>9, <2>3
    <3>2. Bearers(i, how)' \subseteq Bearers(i, how)
      BY <1>10
    <3>3. /\ Cardinality(Bearers(i, how)') <= Cardinality(Bearers(i, how))
          /\ Cardinality(Bearers(i, how)') \in Nat
      BY <2>1, <3>2, FS_Subset, FS_CardinalityType
    <3> QED BY <2>1, <3>1, <3>3
  <2> QED BY <2>2, <2>3
<1>13. ASSUME NEW i \in Sess!Ids PROVE Exchanged(i)'
  <2>1. Exchanged(i) /\ Cardinality(Workers) \in Nat
    BY SessCountable DEF SessionInv
  <2>2. Cardinality(Sess!Children(i, "valid")') + Cardinality(Bearers(i, "valid")') <= Cardinality(Workers)
    <3>1. Cardinality(Sess!Children(i, "valid")) + Cardinality(Bearers(i, "valid")) <= Cardinality(Workers)
      BY <2>1 DEF Exchanged
    <3> QED BY <1>12, <2>1, <3>1
  <2>3. Cardinality(Sess!Children(i, "stale")') + Cardinality(Bearers(i, "stale")') <= token'[i].recoveries
    <3>1. Cardinality(Sess!Children(i, "stale")) + Cardinality(Bearers(i, "stale")) <= token[i].recoveries
      BY <2>1 DEF Exchanged
    <3> QED BY <1>8, <1>12, <3>1
  <2>4. token'[i].state = "live" => Sess!Children(i, "valid")' = {}
    BY <1>8, <1>9, <1>11, <2>1 DEF Exchanged
  <2> QED BY <2>2, <2>3, <2>4 DEF Exchanged
<1> QED BY <1>7, <1>13 DEF SessionInv, Rest

\* Every step keeps the sessions' invariant.
LEMMA SessionStep == ASSUME PolicyIsSet, SessionInv, [Sess!Next]_Sess!vars PROVE SessionInv'
BY OtherKeeps, LoginKeeps, RefreshRecoverKeeps, RefreshCreateKeeps, RefreshRotateKeeps, RefreshAnswerKeeps,
   LogoutWriteKeeps, RequestKeeps, LogoutReadKeeps, RefreshVerifyKeeps DEF Sess!Next, Sess!RefreshStep

\* No token has been issued at the start.
LEMMA SessionStart == ASSUME PolicyIsSet, Sess!Init PROVE SessionInv
<1>1. Sess!Ids = {} /\ token \in Seq(Tokens) /\ delivered \subseteq Sess!Ids
  BY DEF Sess!Init, Sess!Ids
<1>2. SessClocks
  <2>1. 1 <= SessionTime /\ AccessTTL \in Nat /\ Throttle \in Nat /\ SessionTime \in Nat
    BY DEF PolicyIsSet
  <2>2. sActive \in BOOLEAN
    BY DEF Sess!Init
  <2> QED BY <2>1, <2>2 DEF Sess!Init, SessClocks
<1>3. sReq \in [Workers -> SessRequests] /\ \A w \in Workers : sReq[w] = Sess!Idle
  BY DEF Sess!Init, SessRequests
<1>4. \A w \in Workers : RequestOK(w)
  BY <1>3 DEF Sess!Idle, RequestOK
<1> QED BY <1>1, <1>2, <1>3, <1>4 DEF SessionInv

\* A session's activity lags behind by less than two throttle windows, and
\* each exchange has its bearer.
LEMMA SessionHolds == ASSUME PolicyIsSet, SessionInv PROVE Sess!TypeOK /\ Sess!ActivityKept /\ Sess!ExchangesBounded
<1>1. Sess!TypeOK
  <2>1. /\ sNow \in 0..SessionTime /\ sActive \in BOOLEAN /\ delivered \subseteq Sess!Ids
        /\ access \in [AllSessions -> 0..(SessionTime + AccessTTL)]
        /\ cache \in [Workers -> [AllSessions -> 0..(SessionTime + Throttle)]]
    <3>1. /\ sNow \in Nat /\ sNow <= SessionTime /\ SessionTime \in Nat /\ AccessTTL \in Nat /\ Throttle \in Nat
          /\ access \in [AllSessions -> Nat] /\ seen \in [AllSessions -> Nat]
          /\ cache \in [Workers -> [AllSessions -> Nat]]
          /\ \A s \in AllSessions : seen[s] <= sNow /\ access[s] <= seen[s] + AccessTTL
          /\ \A w \in Workers, s \in AllSessions : cache[w][s] <= sNow + Throttle
      BY DEF SessionInv, SessClocks, PolicyIsSet
    <3>2. ASSUME NEW s \in AllSessions PROVE access[s] \in 0..(SessionTime + AccessTTL)
      <4>1. access[s] \in Nat /\ seen[s] \in Nat /\ seen[s] <= sNow /\ access[s] <= seen[s] + AccessTTL
        BY <3>1
      <4> QED BY <3>1, <4>1
    <3>3. ASSUME NEW w \in Workers, NEW s \in AllSessions
          PROVE  cache[w][s] \in 0..(SessionTime + Throttle)
      <4>1. cache[w][s] \in Nat /\ cache[w][s] <= sNow + Throttle
        BY <3>1
      <4> QED BY <3>1, <4>1
    <3>4. sNow \in 0..SessionTime
      BY <3>1
    <3>5. sActive \in BOOLEAN /\ delivered \subseteq Sess!Ids
      BY DEF SessionInv, SessClocks
    <3>6. cache \in [Workers -> [AllSessions -> 0..(SessionTime + Throttle)]]
      <4>1. \A w \in Workers : cache[w] \in [AllSessions -> 0..(SessionTime + Throttle)]
        BY <3>1, <3>3
      <4> QED BY <3>1, <4>1
    <3> QED BY <3>1, <3>2, <3>4, <3>5, <3>6
  <2>2. ASSUME NEW i \in Sess!Ids
        PROVE  /\ token[i].session \in AllSessions
               /\ token[i].state \in Sess!Statuses
               /\ token[i].created \in 0..sNow /\ token[i].anchor \in token[i].created..sNow
               /\ token[i].recoveries \in 0..MaxRecoveries
               /\ token[i].parent \in 0..(i - 1)
    <3>1. /\ token[i].session \in AllSessions /\ token[i].state \in Sess!Statuses
          /\ token[i].created \in Nat /\ token[i].anchor \in Nat
          /\ token[i].recoveries \in Nat /\ token[i].parent \in Nat
      BY TokenTypes DEF SessionInv
    <3>2. TokenOK(i) /\ sNow \in Nat /\ MaxRecoveries \in Nat /\ i \in Nat
      BY DEF SessionInv, SessClocks, PolicyIsSet, Sess!Ids
    <3> QED BY <3>1, <3>2 DEF TokenOK
  <2> QED BY <2>1, <2>2 DEF Sess!TypeOK
<1>2. Sess!ActivityKept
  BY DEF SessionInv, Recorded, Sess!ActivityKept
<1>3. Sess!ExchangesBounded
  <2> SUFFICES ASSUME NEW i \in Sess!Ids
               PROVE  /\ Cardinality(Sess!Children(i, "valid")) <= Cardinality(Workers)
                      /\ Cardinality(Sess!Children(i, "stale")) <= MaxRecoveries
    BY SessCount DEF Sess!ExchangesBounded
  <2>1. /\ Exchanged(i) /\ token[i].recoveries \in Nat /\ token[i].recoveries <= MaxRecoveries
        /\ MaxRecoveries \in Nat /\ Cardinality(Workers) \in Nat
    BY TokenTypes, SessCountable DEF SessionInv, TokenOK, PolicyIsSet
  <2>2. \A how : Cardinality(Bearers(i, how)) \in Nat /\ Cardinality(Sess!Children(i, how)) \in Nat
    BY SessCountable
  <2> QED BY <2>1, <2>2 DEF Exchanged
<1> QED BY <1>1, <1>2, <1>3

-----------------------------------------------------------------------------
(* What has ended                                                           *)

\* verify_refresh_token accepts t at time n.
UsableAt(t, n) ==
  /\ t.created + RefreshTTL >= n
  /\ n - t.anchor <= IdleTTL
  /\ \/ t.state = "live"
     \/ t.state = "rotated" /\ n - t.rotatedAt <= Grace /\ t.recoveries < MaxRecoveries

\* What verification accepts now.
LEMMA Usable ==
  ASSUME PolicyIsSet, NEW t \in Tokens, sNow \in Nat
  PROVE  Sess!Verify(t) \in {"valid", "stale_recoverable"} <=> UsableAt(t, sNow)
<1>1. /\ t.created \in Nat /\ t.anchor \in Nat /\ t.rotatedAt \in Nat /\ t.recoveries \in Nat
      /\ t.state \in {"live", "rotated", "logout"}
      /\ RefreshTTL \in Nat /\ IdleTTL \in Nat /\ Grace \in Nat /\ MaxRecoveries \in Nat
  BY DEF Tokens, Sess!Statuses, PolicyIsSet
<1> QED BY <1>1 DEF Sess!Verify, Sess!IdleExpired, UsableAt

\* What verification accepts after the step.
LEMMA UsableNext ==
  ASSUME PolicyIsSet, NEW t \in Tokens, sNow' \in Nat
  PROVE  Sess!Verify(t)' \in {"valid", "stale_recoverable"} <=> UsableAt(t, sNow')
<1>1. /\ t.created \in Nat /\ t.anchor \in Nat /\ t.rotatedAt \in Nat /\ t.recoveries \in Nat
      /\ t.state \in {"live", "rotated", "logout"}
      /\ RefreshTTL \in Nat /\ IdleTTL \in Nat /\ Grace \in Nat /\ MaxRecoveries \in Nat
  BY DEF Tokens, Sess!Statuses, PolicyIsSet
<1> QED BY <1>1 DEF Sess!Verify, Sess!IdleExpired, UsableAt

\* Token i is no better than it was.
Worse(i) ==
  /\ SameToken(token'[i], token[i]) /\ token'[i].anchor = token[i].anchor
  /\ token'[i].rotatedAt = token[i].rotatedAt /\ token'[i].recoveries = token[i].recoveries
  /\ token'[i].state \in {token[i].state, "logout"}

\* A token that only gets older or more spent does not become usable.
LEMMA WorseIsNotUsable ==
  ASSUME PolicyIsSet, SessionInv, SessionInv', sNow' >= sNow, NEW i \in Sess!Ids, i \in Sess!Ids', Worse(i),
         UsableAt(token'[i], sNow')
  PROVE  UsableAt(token[i], sNow)
<1>1. /\ sNow \in Nat /\ sNow' \in Nat /\ RefreshTTL \in Nat /\ IdleTTL \in Nat /\ Grace \in Nat
      /\ MaxRecoveries \in Nat
  BY DEF SessionInv, SessClocks, PolicyIsSet
<1>2. /\ token[i].created \in Nat /\ token[i].anchor \in Nat /\ token[i].rotatedAt \in Nat
      /\ token[i].recoveries \in Nat
  BY TokenTypes DEF SessionInv
<1> QED BY <1>1, <1>2 DEF Worse, SameToken, UsableAt

\* Session s has been used, nothing usable of it is out and no refresh of it is under way.
LEMMA DeadMeans ==
  ASSUME PolicyIsSet, SessionInv, NEW s \in AllSessions
  PROVE  Sess!Dead(s) <=> /\ \E i \in delivered : token[i].session = s
                          /\ \A i \in delivered : token[i].session = s => ~UsableAt(token[i], sNow)
                          /\ \A w \in Workers : sReq[w] = Sess!Idle \/ sReq[w].pc = "logout" \/ token[sReq[w].id].session # s
<1>1. \A i \in delivered : token[i] \in Tokens
  BY TokenTypes DEF SessionInv
<1>2. sNow \in Nat
  BY DEF SessionInv, SessClocks
<1>3. \A i \in delivered : Sess!Verify(token[i]) \in {"valid", "stale_recoverable"} <=> UsableAt(token[i], sNow)
  BY <1>1, <1>2, Usable
<1> QED BY <1>3 DEF Sess!Dead

\* The same after the step.
LEMMA DeadMeansNext ==
  ASSUME PolicyIsSet, SessionInv', NEW s \in AllSessions
  PROVE  Sess!Dead(s)' <=> /\ \E i \in delivered' : token'[i].session = s
                           /\ \A i \in delivered' : token'[i].session = s => ~UsableAt(token'[i], sNow')
                           /\ \A w \in Workers : sReq'[w] = Sess!Idle \/ sReq'[w].pc = "logout" \/ token'[sReq'[w].id].session # s
<1>1. ASSUME NEW i \in delivered' PROVE token'[i] \in Tokens
  BY DEF SessionInv, Sess!Ids
<1>2. sNow' \in Nat
  BY DEF SessionInv, SessClocks
<1>3. ASSUME NEW i \in delivered'
      PROVE  Sess!Verify(token[i])' \in {"valid", "stale_recoverable"} <=> UsableAt(token'[i], sNow')
  <2>1. PICK t \in Tokens : t = token'[i]
    BY <1>1
  <2>2. Sess!Verify(t)' \in {"valid", "stale_recoverable"} <=> UsableAt(t, sNow')
    BY <1>2, UsableNext
  <2>3. Sess!Verify(token[i])' = Sess!Verify(t)'
    BY <2>1 DEF Sess!Verify, Sess!IdleExpired
  <2> QED BY <2>1, <2>2, <2>3
<1> QED BY <1>3 DEF Sess!Dead

\* A session stays dead if no step adds, revives or takes up one of its
\* tokens.
LEMMA StaysDead ==
  ASSUME PolicyIsSet, SessionInv, SessionInv', Grown, NEW s \in AllSessions, Sess!Dead(s),
         delivered \subseteq delivered',
         \A i \in delivered' : token'[i].session = s
            => i \in delivered /\ (UsableAt(token'[i], sNow') => UsableAt(token[i], sNow)),
         \A w \in Workers : sReq'[w] = Sess!Idle \/ sReq'[w].pc = "logout" \/ token'[sReq'[w].id].session # s
  PROVE  Sess!Dead(s)'
<1>1. /\ \E i \in delivered : token[i].session = s
      /\ \A i \in delivered : token[i].session = s => ~UsableAt(token[i], sNow)
  BY DeadMeans
<1>2. \A i \in delivered : token'[i].session = token[i].session
  BY DEF SessionInv, Grown, SameToken
<1> QED BY <1>1, <1>2, DeadMeansNext

\* As long as an access token of s is valid, no token of s is idle-expired.
LEMMA NotIdleYet ==
  ASSUME PolicyIsSet, SessionInv, NEW s \in AllSessions, sNow < access[s],
         AccessTTL + 2 * Throttle <= IdleTTL, NEW i \in Sess!Ids, token[i].session = s
  PROVE  sNow - token[i].anchor <= IdleTTL
<1>1. /\ sNow \in Nat /\ seen[s] \in Nat /\ access[s] \in Nat /\ access[s] <= seen[s] + AccessTTL
      /\ AccessTTL \in Nat /\ Throttle \in Nat /\ IdleTTL \in Nat
  BY DEF SessionInv, SessClocks, PolicyIsSet
<1>2. seen[s] < token[i].anchor + 2 * Throttle
  BY DEF SessionInv, Recorded
<1>3. token[i].anchor \in Nat
  BY TokenTypes DEF SessionInv
<1> QED BY <1>1, <1>2, <1>3

\* record_session_activity for session r, on behalf of a request or a logout of r, or for another session.
LEMMA ActivityRevivesNothing ==
  ASSUME PolicyIsSet, SessionInv, SessionInv', NEW s \in AllSessions, Sess!OutOfReach(s),
         NEW w \in Workers, NEW r \in AllSessions, r = s => sNow < access[s],
         Sess!RecordActivity(w, r), UNCHANGED sNow, seen' = [seen EXCEPT ![r] = sNow],
         NEW i \in Sess!Ids, token[i].session = s, UsableAt(token'[i], sNow')
  PROVE  UsableAt(token[i], sNow)
<1>1. /\ SameToken(token'[i], token[i]) /\ token'[i].state = token[i].state
      /\ token'[i].recoveries = token[i].recoveries /\ token'[i].rotatedAt = token[i].rotatedAt
      /\ token'[i].anchor = token[i].anchor \/ (token[i].session = r)
  BY ActivityRecorded
<1>2. /\ sNow \in Nat /\ access[s] \in Nat /\ AccessTTL \in Nat /\ Throttle \in Nat /\ IdleTTL \in Nat
  BY DEF SessionInv, SessClocks, PolicyIsSet
<1>3. CASE r = s
  <2>1. AccessTTL + 2 * Throttle <= IdleTTL
    BY <1>2, <1>3 DEF Sess!OutOfReach
  <2>2. sNow - token[i].anchor <= IdleTTL
    BY <1>3, <2>1, NotIdleYet
  <2> QED BY <1>1, <2>2 DEF UsableAt, SameToken
<1>4. CASE r # s
  BY <1>1, <1>4 DEF UsableAt, SameToken
<1> QED BY <1>3, <1>4

\* A step that issues nothing, moves no activity and only takes tokens back.
LEMMA OnlyWorse ==
  ASSUME PolicyIsSet, SessionInv, SessionInv', NEW s \in AllSessions, Sess!Dead(s), sNow' >= sNow,
         Sess!Ids' = Sess!Ids, delivered' = delivered,
         \A i \in Sess!Ids : token[i].session = s => Worse(i),
         \A i \in Sess!Ids : /\ SameToken(token'[i], token[i])
                             /\ token'[i].state = "live" => token[i].state = "live",
         \A w \in Workers : sReq'[w] = Sess!Idle \/ sReq'[w].pc = "logout" \/ token[sReq'[w].id].session # s,
         \A w \in Workers : sReq'[w] = Sess!Idle \/ sReq'[w].pc = "logout" \/ sReq'[w].id \in Sess!Ids
  PROVE  Sess!Dead(s)'
<1>1. Grown
  BY DEF Grown
<1>2. \A i \in delivered' : token'[i].session = s
          => i \in delivered /\ (UsableAt(token'[i], sNow') => UsableAt(token[i], sNow))
  <2> SUFFICES ASSUME NEW i \in delivered', token'[i].session = s, UsableAt(token'[i], sNow')
               PROVE  UsableAt(token[i], sNow)
    OBVIOUS
  <2>1. i \in Sess!Ids /\ i \in Sess!Ids'
    BY DEF SessionInv
  <2>2. Worse(i)
    BY <2>1 DEF SameToken
  <2> QED BY <2>1, <2>2, WorseIsNotUsable
<1>3. \A w \in Workers : sReq'[w] = Sess!Idle \/ sReq'[w].pc = "logout" \/ token'[sReq'[w].id].session # s
  BY DEF SameToken
<1> QED BY <1>1, <1>2, <1>3, StaysDead

\* A refresh under way knows the token it exchanges.
LEMMA RequestKnowsItsToken ==
  ASSUME SessionInv, NEW w \in Workers, sReq[w] # Sess!Idle, sReq[w].pc # "logout"
  PROVE  sReq[w].pc \in {"recover", "create", "rotate", "answer"} /\ sReq[w].id \in Sess!Ids
BY DEF SessionInv, SessRequests, RequestOK, Sess!Idle

\* A refresh under way is not of a dead session.
LEMMA RequestsOfOthers ==
  ASSUME PolicyIsSet, SessionInv, NEW s \in AllSessions, Sess!Dead(s), NEW w \in Workers,
         sReq[w] # Sess!Idle, sReq[w].pc # "logout"
  PROVE  sReq[w].id \in Sess!Ids /\ token[sReq[w].id].session # s
BY DeadMeans, RequestKnowsItsToken

\* Time, deactivation and dying workers revive nothing.
LEMMA QuietStaysDead ==
  ASSUME PolicyIsSet, SessionInv, SessionInv', NEW s \in AllSessions, Sess!Dead(s),
         Sess!Tick \/ Sess!Deactivate \/ (\E w \in Workers : Sess!Crash(w)) \/ UNCHANGED Sess!vars
  PROVE  Sess!Dead(s)'
<1>1. UNCHANGED <<token, delivered>> /\ Sess!Ids' = Sess!Ids
  BY DEF Sess!Tick, Sess!Deactivate, Sess!Crash, Sess!vars, Sess!Ids
<1>2. sNow \in Nat /\ sNow' >= sNow
  BY DEF SessionInv, SessClocks, Sess!Tick, Sess!Deactivate, Sess!Crash, Sess!vars
<1>3. \A w \in Workers : sReq'[w] \in {sReq[w], Sess!Idle}
  BY DEF SessionInv, Sess!Tick, Sess!Deactivate, Sess!Crash, Sess!vars, Sess!Goto
<1>4. \A i \in Sess!Ids : Worse(i) /\ SameToken(token'[i], token[i]) /\ token'[i].state = token[i].state
  BY <1>1 DEF Worse, SameToken
<1>5. \A w \in Workers : sReq'[w] = Sess!Idle \/ sReq'[w].pc = "logout"
                         \/ (sReq'[w].id \in Sess!Ids /\ token[sReq'[w].id].session # s)
  BY <1>3, RequestsOfOthers
<1> QED BY <1>1, <1>2, <1>4, <1>5, OnlyWorse

\* A request revives no token that is out of its reach.
LEMMA RequestStaysDead ==
  ASSUME PolicyIsSet, SessionInv, SessionInv', NEW s \in AllSessions, Sess!Dead(s), Sess!OutOfReach(s),
         NEW w \in Workers, NEW r \in AllSessions, Sess!Request(w, r) \/ Sess!LogoutRead(w, r)
  PROVE  Sess!Dead(s)'
<1>1. /\ Sess!RecordActivity(w, r) /\ seen' = [seen EXCEPT ![r] = sNow] /\ UNCHANGED <<sNow, delivered>>
      /\ sNow < access[r]
  BY DEF Sess!Request, Sess!LogoutRead
<1>2. Sess!Ids' = Sess!Ids /\ \A i \in Sess!Ids : SameToken(token'[i], token[i]) /\ token'[i].state = token[i].state
  BY <1>1, ActivityRecorded
<1>3. Grown
  BY <1>2 DEF Grown
<1>4. \A i \in delivered' : token'[i].session = s
          => i \in delivered /\ (UsableAt(token'[i], sNow') => UsableAt(token[i], sNow))
  <2> SUFFICES ASSUME NEW i \in delivered', token'[i].session = s, UsableAt(token'[i], sNow')
               PROVE  UsableAt(token[i], sNow)
    BY <1>1
  <2>1. i \in Sess!Ids /\ token[i].session = s
    BY <1>1, <1>2 DEF SessionInv, SameToken
  <2> QED BY <1>1, <2>1, ActivityRevivesNothing
<1>5. \A v \in Workers : sReq'[v] = sReq[v] \/ sReq'[v].pc = "logout"
  BY DEF Sess!Request, Sess!LogoutRead, Sess!Goto, SessionInv
<1>6. \A v \in Workers : sReq'[v] = Sess!Idle \/ sReq'[v].pc = "logout" \/ token'[sReq'[v].id].session # s
  <2> SUFFICES ASSUME NEW v \in Workers, sReq'[v] = sReq[v], sReq[v] # Sess!Idle, sReq[v].pc # "logout"
               PROVE  token'[sReq'[v].id].session # s
    BY <1>5
  <2> QED BY <1>2, RequestsOfOthers DEF SameToken
<1> QED BY <1>1, <1>3, <1>4, <1>6, StaysDead

\* No refresh of a dead session is taken up.
LEMMA VerifyStaysDead ==
  ASSUME PolicyIsSet, SessionInv, SessionInv', NEW s \in AllSessions, Sess!Dead(s),
         NEW w \in Workers, NEW i \in Sess!Ids, Sess!RefreshVerify(w, i)
  PROVE  Sess!Dead(s)'
<1>1. UNCHANGED <<sNow, token, delivered>> /\ Sess!Ids' = Sess!Ids /\ i \in delivered
  BY DEF Sess!RefreshVerify, Sess!Ids
<1>2. token[i].session # s
  <2>1. Sess!Verify(token[i]) \in {"valid", "stale_recoverable"}
    BY DEF Sess!RefreshVerify
  <2> QED BY <1>1, <2>1 DEF Sess!Dead
<1>3. sNow \in Nat /\ sNow' >= sNow
  BY <1>1 DEF SessionInv, SessClocks
<1>4. \A j \in Sess!Ids : Worse(j) /\ SameToken(token'[j], token[j]) /\ token'[j].state = token[j].state
  BY <1>1 DEF Worse, SameToken
<1>5. \A v \in Workers : sReq'[v] = sReq[v] \/ sReq'[v].id = i
  BY DEF Sess!RefreshVerify, Sess!Goto, SessionInv
<1>6. \A v \in Workers : sReq'[v] = Sess!Idle \/ sReq'[v].pc = "logout"
                         \/ (sReq'[v].id \in Sess!Ids /\ token[sReq'[v].id].session # s)
  BY <1>2, <1>5, RequestsOfOthers
<1> QED BY <1>1, <1>3, <1>4, <1>6, OnlyWorse

\* A logout revives nothing.
LEMMA LogoutWriteStaysDead ==
  ASSUME PolicyIsSet, SessionInv, SessionInv', NEW s \in AllSessions, Sess!Dead(s),
         NEW w \in Workers, Sess!LogoutWrite(w)
  PROVE  Sess!Dead(s)'
<1>1. /\ UNCHANGED <<sNow, delivered>> /\ Sess!Goto(w, Sess!Idle)
      /\ token' = [i \in Sess!Ids |-> IF i \in sReq[w].ids THEN [token[i] EXCEPT !.state = "logout"] ELSE token[i]]
  BY DEF Sess!LogoutWrite
<1>2. Sess!Ids' = Sess!Ids
  <2>1. DOMAIN token' = Sess!Ids /\ token' \in Seq(Tokens)
    BY <1>1 DEF SessionInv
  <2> QED BY <2>1 DEF Sess!Ids
<1>3. ASSUME NEW j \in Sess!Ids
      PROVE  Worse(j) /\ SameToken(token'[j], token[j]) /\ (token'[j].state = "live" => token[j].state = "live")
  <2>1. token[j] \in Tokens
    BY TokenTypes DEF SessionInv
  <2>2. token'[j] \in {[token[j] EXCEPT !.state = "logout"], token[j]}
    BY <1>1
  <2> QED BY <2>1, <2>2 DEF Tokens, Worse, SameToken
<1>4. sNow \in Nat /\ sNow' >= sNow
  BY <1>1 DEF SessionInv, SessClocks
<1>5. \A v \in Workers : sReq'[v] \in {sReq[v], Sess!Idle}
  BY <1>1 DEF Sess!Goto, SessionInv
<1>6. \A v \in Workers : sReq'[v] = Sess!Idle \/ sReq'[v].pc = "logout"
                         \/ (sReq'[v].id \in Sess!Ids /\ token[sReq'[v].id].session # s)
  BY <1>5, RequestsOfOthers
<1> QED BY <1>1, <1>2, <1>3, <1>4, <1>6, OnlyWorse

\* A refresh of another session writes tokens of that session only.
LEMMA RefreshStaysDead ==
  ASSUME PolicyIsSet, SessionInv, SessionInv', NEW s \in AllSessions, Sess!Dead(s),
         NEW w \in Workers, Sess!RefreshRecover(w) \/ Sess!RefreshRotate(w)
  PROVE  Sess!Dead(s)'
<1>1. sReq[w].pc \in {"recover", "rotate"} /\ UNCHANGED <<sNow, delivered>>
  BY DEF Sess!RefreshRecover, Sess!RefreshRotate
<1>2. sReq[w].id \in Sess!Ids /\ token[sReq[w].id].session # s
  BY <1>1, RequestsOfOthers DEF Sess!Idle
<1> PICK i \in Sess!Ids : i = sReq[w].id
  BY <1>2
<1>3. token[i] \in Tokens /\ token \in Seq(Tokens) /\ sNow \in Nat /\ sNow' >= sNow
  BY <1>1, TokenTypes DEF SessionInv, SessClocks
<1>4. PICK r : (token' = token \/ token' = [token EXCEPT ![i] = r])
               /\ SameToken(r, token[i]) /\ r \in Tokens /\ (r.state = "live" => token[i].state = "live")
  <2>1. CASE Sess!RefreshRecover(w)
    <3> DEFINE u == [token[i] EXCEPT !.recoveries = @ + 1]
    <3>1. token' = token \/ token' = [token EXCEPT ![i] = u]
      BY <2>1 DEF Sess!RefreshRecover
    <3>2. u \in Tokens /\ SameToken(u, token[i]) /\ u.state = token[i].state
      <4>1. token[i] \in Tokens
        BY <1>3
      <4> QED BY <4>1 DEF Tokens, SameToken
    <3> HIDE DEF u
    <3> QED BY <3>1, <3>2
  <2>2. CASE Sess!RefreshRotate(w)
    <3>1. token' = [token EXCEPT ![i].state = "rotated", ![i].rotatedAt = sNow]
      BY <2>2 DEF Sess!RefreshRotate
    <3>2. token' = [token EXCEPT ![i] = [token[i] EXCEPT !.state = "rotated", !.rotatedAt = sNow]]
      BY <1>3, <3>1
    <3>3. [token[i] EXCEPT !.state = "rotated", !.rotatedAt = sNow] \in Tokens
          /\ SameToken([token[i] EXCEPT !.state = "rotated", !.rotatedAt = sNow], token[i])
          /\ [token[i] EXCEPT !.state = "rotated", !.rotatedAt = sNow].state = "rotated"
      BY <1>3 DEF Tokens, SameToken, Sess!Statuses
    <3> QED BY <3>2, <3>3
  <2> QED BY <2>1, <2>2
<1>5. Sess!Ids' = Sess!Ids /\ \A j \in Sess!Ids : j # i => token'[j] = token[j]
  BY <1>3, <1>4, WriteToken DEF Sess!Ids
<1>6. token'[i] \in {token[i], r}
  BY <1>3, <1>4, WriteToken
<1>7. \A j \in Sess!Ids : /\ SameToken(token'[j], token[j])
                          /\ token'[j].state = "live" => token[j].state = "live"
  BY <1>4, <1>5, <1>6 DEF SameToken
<1>8. \A j \in Sess!Ids : token[j].session = s => Worse(j)
  BY <1>2, <1>5 DEF Worse, SameToken
<1>9. \A v \in Workers : sReq'[v] \in {sReq[v], Sess!Idle} \/ (v = w /\ sReq'[v].id = i)
  <2>1. sReq[w] \in SessRequests /\ sReq \in [Workers -> SessRequests]
    BY DEF SessionInv
  <2>2. [sReq[w] EXCEPT !.pc = "create"].id = i /\ [sReq[w] EXCEPT !.pc = "answer"].id = i
    BY <1>1, <2>1 DEF SessRequests, Sess!Idle
  <2> QED BY <2>1, <2>2 DEF Sess!RefreshRecover, Sess!RefreshRotate, Sess!Goto
<1>10. \A v \in Workers : sReq'[v] = Sess!Idle \/ sReq'[v].pc = "logout"
                         \/ (sReq'[v].id \in Sess!Ids /\ token[sReq'[v].id].session # s)
  BY <1>2, <1>9, RequestsOfOthers
<1> QED BY <1>1, <1>3, <1>5, <1>7, <1>8, <1>10, OnlyWorse

\* A refresh that answers is of another session.
LEMMA AnswerStaysDead ==
  ASSUME PolicyIsSet, SessionInv, SessionInv', NEW s \in AllSessions, Sess!Dead(s), Sess!OutOfReach(s),
         NEW w \in Workers, Sess!RefreshAnswer(w)
  PROVE  Sess!Dead(s)' /\ access'[s] = access[s] /\ sNow' = sNow
<1>1. sReq[w].pc = "answer" /\ RequestOK(w)
  BY DEF Sess!RefreshAnswer, SessionInv
<1>2. sReq[w].id \in Sess!Ids /\ token[sReq[w].id].session # s
  BY <1>1, RequestsOfOthers DEF Sess!Idle
<1> PICK n \in Sess!Ids : n = sReq[w].new
  BY <1>1 DEF RequestOK
<1> PICK r \in AllSessions : r = token[n].session
  BY TokenTypes DEF SessionInv
<1>3. r # s
  BY <1>1, <1>2 DEF RequestOK
<1>4. /\ access' = [access EXCEPT ![r] = sNow + AccessTTL] /\ seen' = [seen EXCEPT ![r] = sNow]
      /\ Sess!RecordActivity(w, r) /\ delivered' = delivered \cup {n} /\ Sess!Goto(w, Sess!Idle) /\ UNCHANGED sNow
  BY DEF Sess!RefreshAnswer
<1>5. Sess!Ids' = Sess!Ids /\ \A i \in Sess!Ids : SameToken(token'[i], token[i]) /\ token'[i].state = token[i].state
  BY <1>4, ActivityRecorded
<1>6. Grown
  BY <1>5 DEF Grown
<1>7. \A i \in delivered' : token'[i].session = s
          => i \in delivered /\ (UsableAt(token'[i], sNow') => UsableAt(token[i], sNow))
  <2> SUFFICES ASSUME NEW i \in delivered', token'[i].session = s
               PROVE  i \in delivered /\ (UsableAt(token'[i], sNow') => UsableAt(token[i], sNow))
    OBVIOUS
  <2>1. i \in Sess!Ids /\ token[i].session = s
    BY <1>4, <1>5 DEF SessionInv, SameToken
  <2>2. i \in delivered
    BY <1>3, <1>4, <2>1
  <2> QED BY <1>3, <1>4, <2>1, <2>2, ActivityRevivesNothing
<1>8. \A v \in Workers : sReq'[v] \in {sReq[v], Sess!Idle}
  BY <1>4 DEF Sess!Goto, SessionInv
<1>9. \A v \in Workers : sReq'[v] = Sess!Idle \/ sReq'[v].pc = "logout" \/ token'[sReq'[v].id].session # s
  <2> SUFFICES ASSUME NEW v \in Workers, sReq'[v] = sReq[v], sReq[v] # Sess!Idle, sReq[v].pc # "logout"
               PROVE  token'[sReq'[v].id].session # s
    BY <1>8
  <2> QED BY <1>5, RequestsOfOthers DEF SameToken
<1>10. access'[s] = access[s]
  BY <1>3, <1>4 DEF SessionInv, SessClocks
<1> QED BY <1>4, <1>6, <1>7, <1>9, <1>10, StaysDead

\* A token is issued to another session.
LEMMA IssueStaysDead ==
  ASSUME PolicyIsSet, SessionInv, SessionInv', NEW s \in AllSessions, Sess!Dead(s), NEW t \in Tokens,
         token' = Append(token, t), t.session # s, UNCHANGED sNow,
         delivered' \in {delivered, delivered \cup {Len(token) + 1}},
         NEW w \in Workers, \A v \in Workers : sReq'[v] \in {sReq[v], Sess!Idle} \/ (sReq'[v].id = sReq[w].id /\ sReq[w] # Sess!Idle /\ sReq[w].pc # "logout")
  PROVE  Sess!Dead(s)'
<1> PICK n : n = Len(token) + 1
  OBVIOUS
<1>1. /\ Sess!Ids' = Sess!Ids \cup {n} /\ n \notin Sess!Ids /\ token'[n] = t /\ \A j \in Sess!Ids : token'[j] = token[j]
  BY AddToken DEF SessionInv
<1>2. Grown
  BY <1>1 DEF Grown, SameToken
<1>3. delivered \subseteq Sess!Ids /\ delivered' \in {delivered, delivered \cup {n}}
  BY DEF SessionInv
<1>4. \A i \in delivered' : token'[i].session = s
          => i \in delivered /\ (UsableAt(token'[i], sNow') => UsableAt(token[i], sNow))
  BY <1>1, <1>3
<1>5. \A v \in Workers : sReq'[v] = Sess!Idle \/ sReq'[v].pc = "logout" \/ token'[sReq'[v].id].session # s
  <2> SUFFICES ASSUME NEW v \in Workers, sReq'[v] # Sess!Idle, sReq'[v].pc # "logout"
               PROVE  token'[sReq'[v].id].session # s
    OBVIOUS
  <2>1. PICK u \in Workers : sReq'[v].id = sReq[u].id /\ sReq[u] # Sess!Idle /\ sReq[u].pc # "logout"
    OBVIOUS
  <2> QED BY <1>1, <2>1, RequestsOfOthers
<1> QED BY <1>2, <1>3, <1>4, <1>5, StaysDead

\* A refresh that creates is of another session.
LEMMA CreateStaysDead ==
  ASSUME PolicyIsSet, SessionInv, SessionInv', NEW s \in AllSessions, Sess!Dead(s),
         NEW w \in Workers, Sess!RefreshCreate(w)
  PROVE  Sess!Dead(s)'
<1>1. sReq[w].pc = "create" /\ sReq[w] # Sess!Idle /\ sReq[w] \in SessRequests
  BY DEF Sess!RefreshCreate, SessionInv, Sess!Idle
<1>2. sReq[w].id \in Sess!Ids /\ token[sReq[w].id].session # s
  BY <1>1, RequestsOfOthers
<1> PICK i \in Sess!Ids : i = sReq[w].id
  BY <1>2
<1> DEFINE t == Sess!NewToken(token[i].session, i, sReq[w].via)
<1>3. t \in Tokens /\ t.session = token[i].session
  <2>1. sNow \in Nat /\ token[i].session \in AllSessions /\ i \in Nat /\ sReq[w].via \in {"valid", "stale"}
    BY <1>1, TokenTypes DEF SessionInv, SessClocks, Sess!Ids, SessRequests, Sess!Idle
  <2> QED BY <2>1 DEF Sess!NewToken, Tokens, Sess!Statuses
<1>4. token' = Append(token, t) /\ UNCHANGED <<sNow, delivered>>
  BY DEF Sess!RefreshCreate
<1>5. \A v \in Workers : sReq'[v] = sReq[v] \/ sReq'[v].id = sReq[w].id
  BY DEF Sess!RefreshCreate, Sess!Goto, SessionInv
<1> HIDE DEF t
<1> QED BY <1>1, <1>2, <1>3, <1>4, <1>5, IssueStaysDead

\* A login draws a fresh session.
LEMMA LoginStaysDead ==
  ASSUME PolicyIsSet, SessionInv, SessionInv', NEW s \in AllSessions, Sess!Dead(s),
         NEW r \in AllSessions, Sess!Login(r)
  PROVE  Sess!Dead(s)' /\ access'[s] = access[s] /\ sNow' = sNow
<1>1. r # s
  BY DeadMeans DEF Sess!Login, SessionInv
<1>2. /\ token' = Append(token, Sess!NewToken(r, 0, "login")) /\ delivered' = delivered \cup {Len(token) + 1}
      /\ access' = [access EXCEPT ![r] = sNow + AccessTTL] /\ UNCHANGED <<sNow, sReq>>
  BY DEF Sess!Login
<1>3. Sess!NewToken(r, 0, "login") \in Tokens /\ Sess!NewToken(r, 0, "login").session = r
  BY DEF Sess!NewToken, Tokens, Sess!Statuses, SessionInv, SessClocks
<1>4. PICK w \in Workers : TRUE
  BY DEF Sess!Login
<1>5. Sess!Dead(s)'
  BY <1>1, <1>2, <1>3, <1>4, IssueStaysDead
<1> QED BY <1>1, <1>2, <1>5 DEF SessionInv, SessClocks

\* No step revives a session that is dead and out of reach.
LEMMA EndStands == ASSUME PolicyIsSet, SessionInv, SessionInv', [Sess!Next]_Sess!vars PROVE Sess!DeadStaysDead
<1> SUFFICES ASSUME NEW s \in AllSessions, Sess!Dead(s), Sess!OutOfReach(s)
             PROVE  Sess!Dead(s)' /\ Sess!OutOfReach(s)'
  BY DEF Sess!DeadStaysDead
<1>1. sNow \in Nat /\ access[s] \in Nat
  BY DEF SessionInv, SessClocks
<1>2. ASSUME NEW w \in Workers, Sess!RefreshAnswer(w)
      PROVE  Sess!Dead(s)' /\ access'[s] = access[s] /\ sNow' = sNow
  BY <1>2, AnswerStaysDead
<1>3. ASSUME NEW r \in AllSessions, Sess!Login(r)
      PROVE  Sess!Dead(s)' /\ access'[s] = access[s] /\ sNow' = sNow
  BY <1>3, LoginStaysDead
<1>4. CASE Sess!Tick \/ Sess!Deactivate \/ (\E w \in Workers : Sess!Crash(w)) \/ UNCHANGED Sess!vars
  <2>1. Sess!Dead(s)'
    BY <1>4, QuietStaysDead
  <2>2. access' = access /\ sNow' >= sNow /\ sNow' \in Nat
    BY <1>1, <1>4 DEF Sess!Tick, Sess!Deactivate, Sess!Crash, Sess!vars
  <2> QED BY <1>1, <2>1, <2>2 DEF Sess!OutOfReach
<1>5. ASSUME NEW w \in Workers,
             \/ Sess!RefreshRecover(w) \/ Sess!RefreshCreate(w) \/ Sess!RefreshRotate(w) \/ Sess!LogoutWrite(w)
             \/ (\E r \in AllSessions : Sess!Request(w, r) \/ Sess!LogoutRead(w, r))
             \/ (\E i \in Sess!Ids : Sess!RefreshVerify(w, i))
      PROVE  Sess!Dead(s)' /\ access' = access /\ sNow' = sNow
  <2>1. access' = access /\ sNow' = sNow
    BY <1>5 DEF Sess!RefreshRecover, Sess!RefreshCreate, Sess!RefreshRotate, Sess!LogoutWrite,
        Sess!Request, Sess!LogoutRead, Sess!RefreshVerify
  <2>2. Sess!Dead(s)'
    BY <1>5, RefreshStaysDead, CreateStaysDead, LogoutWriteStaysDead, RequestStaysDead, VerifyStaysDead
  <2> QED BY <2>1, <2>2
<1>6. CASE Sess!Next /\ ~(Sess!Tick \/ Sess!Deactivate \/ (\E w \in Workers : Sess!Crash(w)))
  <2>1. Sess!Dead(s)' /\ access'[s] = access[s] /\ sNow' = sNow
    BY <1>2, <1>3, <1>5, <1>6 DEF Sess!Next, Sess!RefreshStep
  <2> QED BY <2>1 DEF Sess!OutOfReach
<1> QED BY <1>4, <1>6

-----------------------------------------------------------------------------
(* AiGuard                                                                  *)

\* The instance counts as FiniteSets does.
LEMMA GuardCount == \A S : Guard!Cardinality(S) = Cardinality(S)
BY DEF Guard!Cardinality, Cardinality

Entries == [op : Ops, target : Targets, result : {"success", "blocked", "escalated", "unlogged"},
            at : Nat, epoch : Nat]

GuardClocks ==
  /\ aNow \in Nat /\ aNow <= AiTime /\ epoch \in Nat /\ epoch <= MaxRestarts
  /\ aFailures \in Nat /\ aFailures <= AiFailures

\* A row counts against the cooldown of what is awaited.
Hit(r, w) == r.result \in Guard!Final(w[1]) /\ r.op = w[1] /\ r.target = w[2]

\* What started a cooldown: what was recorded, and what counts.
Starts(r) == r.result = "success" \/ \E w \in Guard!Awaited : Hit(r, w)

\* An operation of this life of the backend has started its cooldown.
Cools(i) ==
  /\ log[i].at <= aNow /\ log[i].epoch <= epoch
  /\ Starts(log[i]) /\ log[i].epoch = epoch
       => cool[<<log[i].op, log[i].target>>] >= log[i].at + Cooldown[log[i].op]

Unlogged == {i \in DOMAIN log : log[i].result = "unlogged"}

Window(w, s) == s .. s + Cooldown[w[1]] - 1
Repeats(w, s, e) ==
  {i \in DOMAIN log : log[i].result \in Guard!Final(w[1]) /\ log[i].op = w[1]
             /\ log[i].target = w[2] /\ log[i].epoch = e
             /\ log[i].at \in s .. s + Cooldown[w[1]] - 1}
UnderWay(w) == {q \in Requests : w \in ongoing[q]}
Slots(w) == Cardinality(Requests) + (IF w[1] = "diagnose" THEN 1 ELSE 0)

\* Once a window holds one of its operations, only requests that were let in
\* before add to it.
Windowed(w, s, e) ==
  Repeats(w, s, e) # {} =>
    /\ Cardinality(Repeats(w, s, e)) <= Slots(w)
    /\ e = epoch /\ aNow < s + Cooldown[w[1]]
         => Cardinality(Repeats(w, s, e)) + Cardinality(UnderWay(w)) <= Slots(w)

Updates(s) ==
  {i \in DOMAIN log : Guard!Made(i, "ci_metadata_update") /\ log[i].at \in s .. s + UpdateWindow - 1}

\* A request is let in for operations in use.
Batches == SUBSET (Guard!Awaited \cap (Ops \X Targets))

GuardInv ==
  /\ GuardClocks
  /\ log \in Seq(Entries)
  /\ cool \in [Ops \X Targets -> Nat] /\ \A k \in Ops \X Targets : cool[k] <= aNow + Cooldown[k[1]]
  /\ ongoing \in [Requests -> Batches]
  /\ \A i \in DOMAIN log : Cools(i)
  /\ Guard!CooldownKept
  /\ Cardinality(Unlogged) <= aFailures
  /\ \A s \in Nat : Cardinality(Updates(s)) <= MaxUpdates + 1 + aFailures
  /\ \A w \in Guard!Awaited, s \in Nat, e \in Nat : Windowed(w, s, e)

-----------------------------------------------------------------------------
(* The log                                                                  *)

\* A finite set is listed without repetition.
LEMMA SetListed ==
  ASSUME NEW S, IsFiniteSet(S)
  PROVE  /\ Cardinality(S) \in Nat /\ Guard!SetToSeq(S) \in [1..Cardinality(S) -> S]
         /\ \A i, j \in 1..Cardinality(S) : Guard!SetToSeq(S)[i] = Guard!SetToSeq(S)[j] => i = j
<1>1. Cardinality(S) \in Nat /\ ExistsBijection(1..Cardinality(S), S)
  BY FS_CardinalityType
<1>2. \E f \in [1..Cardinality(S) -> S] : Guard!IsInjective(f)
  BY <1>1 DEF ExistsBijection, Bijection, Injection, IsInjective, Guard!IsInjective
<1>3. Guard!SetToSeq(S) \in [1..Cardinality(S) -> S] /\ Guard!IsInjective(Guard!SetToSeq(S))
  BY <1>2, GuardCount DEF Guard!SetToSeq
<1> QED BY <1>1, <1>3 DEF Guard!IsInjective

\* Rows are appended, of this moment and this life of the backend.
Appends(x) ==
  /\ x \in Seq(Entries) /\ log' = log \o x
  /\ \A k \in 1..Len(x) : x[k].at = aNow /\ x[k].epoch = epoch

\* Rows are appended after all others.
LEMMA LogGrows ==
  ASSUME log \in Seq(Entries), NEW x, Appends(x)
  PROVE  /\ log' \in Seq(Entries) /\ DOMAIN log \subseteq DOMAIN log'
         /\ \A i \in DOMAIN log : log'[i] = log[i]
         /\ \A i \in DOMAIN log' \ DOMAIN log :
              /\ i - Len(log) \in 1..Len(x) /\ log'[i] = x[i - Len(log)]
              /\ log'[i].at = aNow /\ log'[i].epoch = epoch
              /\ \A j \in DOMAIN log : j < i
         /\ DOMAIN log' = 1..(Len(log) + Len(x)) /\ Len(log) \in Nat /\ Len(x) \in Nat
<1>1. log' \in Seq(Entries) /\ Len(log') = Len(log) + Len(x) /\ Len(log) \in Nat /\ Len(x) \in Nat
      /\ DOMAIN log = 1..Len(log) /\ DOMAIN log' = 1..(Len(log) + Len(x))
  BY DEF Appends
<1>2. \A i \in DOMAIN log : log'[i] = log[i]
  BY <1>1 DEF Appends
<1>3. ASSUME NEW i \in DOMAIN log' \ DOMAIN log
      PROVE  i - Len(log) \in 1..Len(x) /\ log'[i] = x[i - Len(log)] /\ \A j \in DOMAIN log : j < i
  BY <1>1 DEF Appends
<1> QED BY <1>1, <1>2, <1>3 DEF Appends

\* The fields of a row of the log.
LEMMA RowTypes ==
  ASSUME log \in Seq(Entries), NEW i \in DOMAIN log
  PROVE  /\ log[i] \in Entries /\ log[i].op \in Ops /\ log[i].target \in Targets
         /\ log[i].at \in Nat /\ log[i].epoch \in Nat /\ i \in Nat
<1>1. log[i] \in Entries /\ i \in Nat
  OBVIOUS
<1> QED BY <1>1 DEF Entries

\* Rows are finitely many.
LEMMA LogIsFinite ==
  ASSUME log \in Seq(Entries), NEW S, S \subseteq DOMAIN log
  PROVE  IsFiniteSet(S) /\ Cardinality(S) \in Nat
<1>1. IsFiniteSet(DOMAIN log)
  BY FS_Interval
<1> QED BY <1>1, FS_Subset, FS_CardinalityType

\* What is awaited is an operation on a target.
LEMMA AwaitedIs ==
  ASSUME GuardsAreSet, NEW w \in Guard!Awaited
  PROVE  /\ w = <<w[1], w[2]>> /\ w[1] \in {"diagnose", "close"} /\ w[2] \in Targets
         /\ Cooldown[w[1]] \in Nat
         /\ w[1] = "close" => w[2] \in Critical
BY DEF Guard!Awaited, GuardsAreSet

\* What the invariant counts is finite.
LEMMA GuardCountable ==
  ASSUME GuardsAreSet, GuardInv
  PROVE  /\ \A w, s, e : IsFiniteSet(Repeats(w, s, e)) /\ Cardinality(Repeats(w, s, e)) \in Nat
         /\ \A w : /\ IsFiniteSet(UnderWay(w)) /\ Cardinality(UnderWay(w)) \in Nat
                   /\ Cardinality(UnderWay(w)) <= Cardinality(Requests)
         /\ \A s : IsFiniteSet(Updates(s)) /\ Cardinality(Updates(s)) \in Nat
         /\ IsFiniteSet(Unlogged) /\ Cardinality(Unlogged) \in Nat
         /\ Cardinality(Requests) \in Nat /\ \A w : Slots(w) \in Nat /\ Cardinality(Requests) <= Slots(w)
<1>1. \A w, s, e : Repeats(w, s, e) \subseteq DOMAIN log
  BY DEF Repeats
<1>2. \A s : Updates(s) \subseteq DOMAIN log
  BY DEF Updates
<1>3. Unlogged \subseteq DOMAIN log
  BY DEF Unlogged
<1>4. \A w : UnderWay(w) \subseteq Requests
  BY DEF UnderWay
<1>5. log \in Seq(Entries) /\ IsFiniteSet(Requests)
  BY DEF GuardInv, GuardsAreSet
<1>6. \A w : /\ IsFiniteSet(UnderWay(w)) /\ Cardinality(UnderWay(w)) \in Nat
             /\ Cardinality(UnderWay(w)) <= Cardinality(Requests)
  BY <1>4, <1>5, FS_Subset, FS_CardinalityType
<1>7. \A w : Slots(w) \in Nat /\ Cardinality(Requests) <= Slots(w)
  <2>1. Cardinality(Requests) \in Nat
    BY <1>5, FS_CardinalityType
  <2> QED BY <2>1 DEF Slots
<1> QED BY <1>1, <1>2, <1>3, <1>5, <1>6, <1>7, LogIsFinite, FS_CardinalityType

-----------------------------------------------------------------------------
(* Operations that wait                                                     *)

\* Windows that gain no operation, while no request is let in.
LEMMA WindowKept ==
  ASSUME GuardsAreSet, GuardInv, NEW w \in Guard!Awaited, NEW s \in Nat, NEW e \in Nat,
         Repeats(w, s, e)' = Repeats(w, s, e), UnderWay(w)' \subseteq UnderWay(w),
         aNow' \in Nat, aNow' >= aNow, epoch' \in Nat, e = epoch' => e = epoch
  PROVE  Windowed(w, s, e)'
<1>1. Windowed(w, s, e) /\ aNow \in Nat /\ Cooldown[w[1]] \in Nat
  BY AwaitedIs DEF GuardInv, GuardClocks, GuardsAreSet
<1>2. /\ Cardinality(Repeats(w, s, e)') = Cardinality(Repeats(w, s, e))
      /\ Cardinality(Repeats(w, s, e)) \in Nat /\ Slots(w) \in Nat
  BY GuardCountable
<1>3. Cardinality(UnderWay(w)') <= Cardinality(UnderWay(w)) /\ Cardinality(UnderWay(w)') \in Nat
      /\ Cardinality(UnderWay(w)) \in Nat
  BY GuardCountable, FS_Subset, FS_CardinalityType
<1> HIDE DEF Repeats, UnderWay, Slots
<1>4. CASE Repeats(w, s, e) = {}
  BY <1>4 DEF Windowed
<1>5. CASE Repeats(w, s, e) # {} /\ e = epoch' /\ aNow' < s + Cooldown[w[1]]
  <2>1. Cardinality(Repeats(w, s, e)) + Cardinality(UnderWay(w)) <= Slots(w)
    <3>1. aNow < s + Cooldown[w[1]]
      BY <1>1, <1>5
    <3> QED BY <1>1, <1>5, <3>1 DEF Windowed
  <2>2. Cardinality(Repeats(w, s, e)') + Cardinality(UnderWay(w)') <= Slots(w)
    BY <1>2, <1>3, <2>1
  <2>3. Cardinality(Repeats(w, s, e)') <= Slots(w)
    BY <1>2, <1>3, <2>2
  <2> QED BY <2>2, <2>3 DEF Windowed
<1>6. CASE Repeats(w, s, e) # {} /\ ~(e = epoch' /\ aNow' < s + Cooldown[w[1]])
  <2>1. Cardinality(Repeats(w, s, e)') <= Slots(w)
    BY <1>1, <1>2, <1>6 DEF Windowed
  <2> QED BY <1>6, <2>1 DEF Windowed
<1> QED BY <1>4, <1>5, <1>6

\* As long as its window is open, what was done keeps the next one from being let in.
LEMMA OpenWindowCools ==
  ASSUME GuardsAreSet, GuardInv, NEW w \in Guard!Awaited, NEW s \in Nat,
         Repeats(w, s, epoch) # {}, aNow < s + Cooldown[w[1]]
  PROVE  Guard!Cooling(w[1], w[2])
<1>1. PICK i \in DOMAIN log : Hit(log[i], w) /\ log[i].epoch = epoch /\ log[i].at \in Window(w, s)
  BY DEF Repeats, Hit, Window
<1>2. /\ log[i].op = w[1] /\ log[i].target = w[2] /\ Starts(log[i]) /\ log[i].at \in Nat /\ log[i].op \in Ops
      /\ Cools(i)
  BY <1>1, RowTypes DEF Hit, Starts, GuardInv
<1>3. aNow \in Nat /\ Cooldown[w[1]] \in Nat /\ w[2] \in Targets
  BY AwaitedIs DEF GuardInv, GuardClocks
<1>4. cool[<<w[1], w[2]>>] >= log[i].at + Cooldown[w[1]]
  BY <1>1, <1>2 DEF Cools
<1>5. cool[<<w[1], w[2]>>] \in Nat
  <2>1. <<w[1], w[2]>> \in Ops \X Targets
    BY <1>2, <1>3
  <2> QED BY <2>1 DEF GuardInv
<1>6. log[i].at >= s
  BY <1>1, <1>3 DEF Window
<1> QED BY <1>2, <1>3, <1>4, <1>5, <1>6 DEF Guard!Cooling

\* Rows that do not count leave the windows as they are.
LEMMA NoDiagnosis ==
  ASSUME GuardInv, NEW x, Appends(x), NEW w,
         \A k \in 1..Len(x) : ~Hit(x[k], w)
  PROVE  \A s, e : Repeats(w, s, e)' = Repeats(w, s, e)
<1>1. log \in Seq(Entries)
  BY DEF GuardInv
<1>2. DOMAIN log \subseteq DOMAIN log' /\ \A i \in DOMAIN log : log'[i] = log[i]
  BY <1>1, LogGrows
<1>3. \A i \in DOMAIN log' \ DOMAIN log : ~Hit(log'[i], w)
  BY <1>1, LogGrows
<1> QED BY <1>2, <1>3 DEF Repeats, Hit

\* One row at most counts.
LEMMA OneDiagnosis ==
  ASSUME GuardInv, NEW x, Appends(x), NEW w, NEW k \in 1..Len(x),
         Hit(x[k], w),
         \A j \in 1..Len(x) : j # k => ~Hit(x[j], w),
         NEW s, NEW e
  PROVE  /\ (e = epoch /\ aNow \in Window(w, s)) => Repeats(w, s, e)' = Repeats(w, s, e) \cup {Len(log) + k}
         /\ ~(e = epoch /\ aNow \in Window(w, s)) => Repeats(w, s, e)' = Repeats(w, s, e)
<1>1. log \in Seq(Entries)
  BY DEF GuardInv
<1>2. /\ DOMAIN log \subseteq DOMAIN log' /\ DOMAIN log' = 1..(Len(log) + Len(x)) /\ Len(log) \in Nat /\ Len(x) \in Nat
      /\ \A i \in DOMAIN log : log'[i] = log[i]
  BY <1>1, LogGrows
<1>3. Len(log) + k \in DOMAIN log' /\ Len(log) + k \notin DOMAIN log /\ k \in Nat
  BY <1>1, <1>2
<1>4. /\ log'[Len(log) + k] = x[k] /\ x[k].at = aNow /\ x[k].epoch = epoch
  <2>1. (Len(log) + k) - Len(log) = k
    BY <1>2, <1>3
  <2> QED BY <1>1, <1>3, <2>1, LogGrows DEF Appends
<1>5. ASSUME NEW i \in DOMAIN log', i \notin DOMAIN log, i # Len(log) + k
      PROVE  ~Hit(log'[i], w)
  <2>1. i - Len(log) \in 1..Len(x) /\ log'[i] = x[i - Len(log)]
    BY <1>1, <1>5, LogGrows
  <2>2. i - Len(log) # k
    BY <1>2, <1>5, <2>1
  <2> QED BY <2>1, <2>2
<1> QED BY <1>2, <1>3, <1>4, <1>5 DEF Repeats, Hit, Window

\* The route makes a diagnosis: the window had none.
LEMMA RouteDiagnosis ==
  ASSUME GuardsAreSet, GuardInv, NEW x, Appends(x), NEW w \in Guard!Awaited, NEW k \in 1..Len(x),
         Hit(x[k], w),
         \A j \in 1..Len(x) : j # k => ~Hit(x[j], w),
         w[1] = "diagnose", ~Guard!Cooling(w[1], w[2]), UNCHANGED <<aNow, epoch, ongoing>>, NEW s \in Nat, NEW e \in Nat
  PROVE  Windowed(w, s, e)'
<1>0. aNow \in Nat /\ epoch \in Nat /\ Cooldown[w[1]] \in Nat
  BY AwaitedIs DEF GuardInv, GuardClocks, GuardsAreSet
<1>1. UnderWay(w)' = UnderWay(w)
  BY DEF UnderWay
<1>2. CASE e = epoch /\ aNow \in Window(w, s)
  <2>1. Repeats(w, s, e) = {}
    <3>1. aNow < s + Cooldown[w[1]]
      BY <1>0, <1>2 DEF Window
    <3> QED BY <1>2, <3>1, OpenWindowCools
  <2>2. Repeats(w, s, e)' = {Len(log) + k}
    <3>1. Repeats(w, s, e)' = Repeats(w, s, e) \cup {Len(log) + k}
      BY <1>2, OneDiagnosis
    <3> QED BY <2>1, <3>1
  <2>3. Cardinality(Repeats(w, s, e)') = 1
    BY <2>2, FS_Singleton
  <2>4. /\ Cardinality(UnderWay(w)') \in Nat /\ Cardinality(Requests) \in Nat
        /\ Cardinality(UnderWay(w)') <= Cardinality(Requests)
    BY <1>1, GuardCountable
  <2> HIDE DEF Repeats, UnderWay
  <2>5. Cardinality(Repeats(w, s, e)') + Cardinality(UnderWay(w)') <= Slots(w)
    BY <2>3, <2>4 DEF Slots
  <2>6. Cardinality(Repeats(w, s, e)') <= Slots(w)
    BY <2>3, <2>4 DEF Slots
  <2> QED BY <2>5, <2>6 DEF Windowed
<1>3. CASE ~(e = epoch /\ aNow \in Window(w, s))
  <2>1. Repeats(w, s, e)' = Repeats(w, s, e)
    BY <1>3, OneDiagnosis
  <2>2. aNow' >= aNow /\ aNow' \in Nat /\ epoch' \in Nat
    BY <1>0
  <2> QED BY <1>1, <2>1, <2>2, WindowKept
<1> QED BY <1>2, <1>3

\* A request comes back with its operation: it counts no longer as under way.
LEMMA RequestRepeats ==
  ASSUME GuardsAreSet, GuardInv, NEW x, Appends(x), NEW w \in Guard!Awaited, NEW k \in 1..Len(x),
         Hit(x[k], w),
         \A j \in 1..Len(x) : j # k => ~Hit(x[j], w),
         NEW c \in Requests, w \in ongoing[c], ongoing' = [ongoing EXCEPT ![c] = {}],
         UNCHANGED <<aNow, epoch>>, NEW s \in Nat, NEW e \in Nat
  PROVE  Windowed(w, s, e)'
<1>0. aNow \in Nat /\ epoch \in Nat /\ Cooldown[w[1]] \in Nat
  BY AwaitedIs DEF GuardInv, GuardClocks, GuardsAreSet
<1>1. UnderWay(w)' = UnderWay(w) \ {c} /\ c \in UnderWay(w)
  BY DEF UnderWay, GuardInv
<1>2. /\ IsFiniteSet(UnderWay(w)) /\ Cardinality(UnderWay(w)) \in Nat /\ Slots(w) \in Nat
      /\ Cardinality(UnderWay(w)) <= Slots(w)
      /\ IsFiniteSet(Repeats(w, s, e)) /\ Cardinality(Repeats(w, s, e)) \in Nat
  <2>1. /\ Cardinality(UnderWay(w)) <= Cardinality(Requests) /\ Cardinality(Requests) <= Slots(w)
        /\ Cardinality(UnderWay(w)) \in Nat /\ Cardinality(Requests) \in Nat /\ Slots(w) \in Nat
    BY GuardCountable
  <2>2. Cardinality(UnderWay(w)) <= Slots(w)
    BY <2>1
  <2> QED BY <2>1, <2>2, GuardCountable
<1>3. Cardinality(UnderWay(w)') = Cardinality(UnderWay(w)) - 1
  <2>1. Cardinality(UnderWay(w) \ {c}) = Cardinality(UnderWay(w)) - 1
    BY <1>1, <1>2, FS_RemoveElement
  <2> QED BY <1>1, <2>1
<1>4. CASE e = epoch /\ aNow \in Window(w, s)
  <2>1. Repeats(w, s, e)' = Repeats(w, s, e) \cup {Len(log) + k}
    BY <1>4, OneDiagnosis
  <2>2. aNow < s + Cooldown[w[1]]
    BY <1>0, <1>4 DEF Window
  <2>3. Cardinality(Repeats(w, s, e)') + Cardinality(UnderWay(w)') <= Slots(w)
        /\ Cardinality(Repeats(w, s, e)') \in Nat /\ Cardinality(UnderWay(w)') \in Nat
    <3>0. Cardinality(UnderWay(w)') \in Nat
      BY <1>1, <1>2, FS_RemoveElement, FS_CardinalityType
    <3>1. CASE Repeats(w, s, e) = {}
      <4>1. Cardinality(Repeats(w, s, e)') = 1
        BY <2>1, <3>1, FS_Singleton
      <4> HIDE DEF Repeats, UnderWay, Slots
      <4> QED BY <1>2, <1>3, <3>0, <4>1
    <3>2. CASE Repeats(w, s, e) # {}
      <4>1. Cardinality(Repeats(w, s, e)) + Cardinality(UnderWay(w)) <= Slots(w)
        BY <1>4, <2>2, <3>2 DEF Windowed, GuardInv
      <4>2. Cardinality(Repeats(w, s, e) \cup {Len(log) + k})
              \in {Cardinality(Repeats(w, s, e)), Cardinality(Repeats(w, s, e)) + 1}
        BY <1>2, FS_AddElement
      <4>3. Cardinality(Repeats(w, s, e)') \in {Cardinality(Repeats(w, s, e)), Cardinality(Repeats(w, s, e)) + 1}
        BY <2>1, <4>2
      <4> HIDE DEF Repeats, UnderWay, Slots
      <4> QED BY <1>2, <1>3, <3>0, <4>1, <4>3
    <3> QED BY <3>1, <3>2
  <2> HIDE DEF Repeats, UnderWay, Slots
  <2>4. Cardinality(Repeats(w, s, e)') <= Slots(w)
    BY <1>2, <2>3
  <2> QED BY <2>3, <2>4 DEF Windowed
<1>5. CASE ~(e = epoch /\ aNow \in Window(w, s))
  <2>1. Repeats(w, s, e)' = Repeats(w, s, e)
    BY <1>5, OneDiagnosis
  <2>2. aNow' >= aNow /\ aNow' \in Nat /\ epoch' \in Nat /\ UnderWay(w)' \subseteq UnderWay(w)
    BY <1>0, <1>1
  <2> QED BY <2>1, <2>2, WindowKept
<1> QED BY <1>4, <1>5

-----------------------------------------------------------------------------
(* Cooldowns                                                                *)

\* A cooldown is set, and no other one is shortened.
LEMMA Cooled ==
  ASSUME GuardsAreSet, GuardInv, NEW op \in Ops, NEW T, cool' = Guard!SetCooldown(op, T), UNCHANGED aNow
  PROVE  /\ cool' \in [Ops \X Targets -> Nat] /\ \A k \in Ops \X Targets : cool'[k] <= aNow + Cooldown[k[1]]
         /\ \A k \in Ops \X Targets : cool'[k] >= cool[k]
         /\ \A t \in T \cap Targets : cool'[<<op, t>>] = aNow + Cooldown[op]
<1>1. /\ cool \in [Ops \X Targets -> Nat] /\ aNow \in Nat
      /\ \A k \in Ops \X Targets : cool[k] <= aNow + Cooldown[k[1]]
      /\ \A o \in Ops : Cooldown[o] \in Nat
  BY DEF GuardInv, GuardClocks, GuardsAreSet
<1>2. \A k \in Ops \X Targets : /\ k[1] \in Ops
                                /\ cool'[k] = IF k[1] = op /\ k[2] \in T THEN aNow + Cooldown[op] ELSE cool[k]
  BY <1>1 DEF Guard!SetCooldown
<1>3. ASSUME NEW k \in Ops \X Targets
      PROVE  cool'[k] \in Nat /\ cool'[k] <= aNow + Cooldown[k[1]] /\ cool'[k] >= cool[k]
  <2>1. /\ cool[k] \in Nat /\ cool[k] <= aNow + Cooldown[k[1]] /\ Cooldown[k[1]] \in Nat /\ aNow \in Nat
        /\ cool'[k] = aNow + Cooldown[k[1]] \/ cool'[k] = cool[k]
    BY <1>1, <1>2
  <2> QED BY <2>1
<1>4. DOMAIN cool' = Ops \X Targets /\ cool' = [k \in Ops \X Targets |-> cool'[k]]
  BY <1>1 DEF Guard!SetCooldown
<1>5. cool' \in [Ops \X Targets -> Nat]
  BY <1>3, <1>4
<1>6. ASSUME NEW t \in T \cap Targets PROVE cool'[<<op, t>>] = aNow + Cooldown[op]
  <2>1. <<op, t>> \in Ops \X Targets /\ <<op, t>>[1] = op /\ <<op, t>>[2] \in T
    OBVIOUS
  <2> QED BY <1>2, <2>1
<1> QED BY <1>3, <1>5, <1>6

\* Rows are appended whose cooldowns have been started.
LEMMA CoolsStep ==
  ASSUME GuardsAreSet, GuardInv, NEW x, Appends(x), UNCHANGED <<aNow, epoch>>,
         cool' \in [Ops \X Targets -> Nat], \A k \in Ops \X Targets : cool'[k] >= cool[k],
         \A k \in 1..Len(x) : Starts(x[k])
             => cool'[<<x[k].op, x[k].target>>] >= aNow + Cooldown[x[k].op]
  PROVE  \A i \in DOMAIN log' : Cools(i)'
<1> SUFFICES ASSUME NEW i \in DOMAIN log' PROVE Cools(i)'
  OBVIOUS
<1>0. log \in Seq(Entries) /\ aNow \in Nat /\ epoch \in Nat
  BY DEF GuardInv, GuardClocks
<1>1. CASE i \in DOMAIN log
  <2>1. log'[i] = log[i] /\ Cools(i)
    BY <1>0, <1>1, LogGrows DEF GuardInv
  <2>2. <<log[i].op, log[i].target>> \in Ops \X Targets /\ log[i].at \in Nat /\ log[i].op \in Ops
    BY <1>0, <1>1, RowTypes
  <2>3. /\ cool[<<log[i].op, log[i].target>>] \in Nat /\ cool'[<<log[i].op, log[i].target>>] \in Nat
        /\ cool'[<<log[i].op, log[i].target>>] >= cool[<<log[i].op, log[i].target>>]
        /\ Cooldown[log[i].op] \in Nat
    BY <2>2 DEF GuardInv, GuardsAreSet
  <2>4. (Starts(log[i]) /\ log[i].epoch = epoch)
           => cool'[<<log[i].op, log[i].target>>] >= log[i].at + Cooldown[log[i].op]
    BY <2>1, <2>2, <2>3 DEF Cools
  <2> QED BY <2>1, <2>4 DEF Cools, Starts, Hit
<1>2. CASE i \notin DOMAIN log
  <2>1. i - Len(log) \in 1..Len(x) /\ log'[i] = x[i - Len(log)] /\ log'[i].at = aNow /\ log'[i].epoch = epoch
    BY <1>0, <1>2, LogGrows
  <2>2. PICK k \in 1..Len(x) : log'[i] = x[k]
    BY <2>1
  <2>3. Starts(log'[i]) => cool'[<<log'[i].op, log'[i].target>>] >= log'[i].at + Cooldown[log'[i].op]
    BY <2>1, <2>2
  <2>4. aNow <= aNow /\ epoch <= epoch
    BY <1>0
  <2> QED BY <2>1, <2>3, <2>4 DEF Cools, Starts, Hit
<1> QED BY <1>1, <1>2

MadeRow(r) ==
  r.result \in {"success", "unlogged"} /\ r.op # "diagnose" /\ <<r.op, r.target>> \notin Guard!Awaited

\* One row at most is an operation that the cooldown let through.
LEMMA CooldownStep ==
  ASSUME GuardsAreSet, GuardInv, NEW x, Appends(x), UNCHANGED <<aNow, epoch>>,
         \A k \in 1..Len(x) : MadeRow(x[k]) => ~Guard!Cooling(x[k].op, x[k].target),
         \A j, k \in 1..Len(x) : MadeRow(x[j]) /\ MadeRow(x[k]) => j = k
  PROVE  Guard!CooldownKept'
<1> SUFFICES ASSUME NEW i \in DOMAIN log', NEW j \in DOMAIN log', NEW op \in Ops \ {"diagnose"},
                    i < j, Guard!Made(i, op)', log'[i].result = "success", Guard!Made(j, op)',
                    log'[i].target = log'[j].target, log'[i].epoch = log'[j].epoch,
                    <<op, log'[i].target>> \notin Guard!Awaited
             PROVE  log'[j].at >= log'[i].at + Cooldown[op]
  BY DEF Guard!CooldownKept, Guard!Awaited
<1>0. log \in Seq(Entries) /\ aNow \in Nat /\ epoch \in Nat
  BY DEF GuardInv, GuardClocks
<1>1. CASE j \in DOMAIN log
  <2>1. i \in DOMAIN log
    <3>1. i \notin DOMAIN log => j < i
      BY <1>0, <1>1, LogGrows
    <3>2. i \in Nat /\ j \in Nat
      BY <1>0, LogGrows
    <3> QED BY <3>1, <3>2
  <2>2. log'[i] = log[i] /\ log'[j] = log[j]
    BY <1>0, <1>1, <2>1, LogGrows
  <2>3. Guard!CooldownKept
    BY DEF GuardInv
  <2> QED BY <1>1, <2>1, <2>2, <2>3 DEF Guard!CooldownKept, Guard!Made, Guard!Awaited
<1>2. CASE j \notin DOMAIN log
  <2>1. PICK k \in 1..Len(x) : k = j - Len(log) /\ log'[j] = x[k] /\ log'[j].at = aNow /\ log'[j].epoch = epoch
    BY <1>0, <1>2, LogGrows
  <2>2. MadeRow(x[k]) /\ x[k].op = op
    BY <2>1 DEF Guard!Made, MadeRow
  <2>3. CASE i \in DOMAIN log
    <3>1. log'[i] = log[i] /\ Cools(i)
      BY <1>0, <2>3, LogGrows DEF GuardInv
    <3>2. log[i].at \in Nat /\ log[i].op = op /\ log[i].target \in Targets
      <4>1. log'[i].op = op
        BY DEF Guard!Made
      <4> QED BY <1>0, <2>3, <3>1, <4>1, RowTypes
    <3>3. cool[<<op, log[i].target>>] >= log[i].at + Cooldown[op]
      BY <2>1, <3>1, <3>2 DEF Cools, Starts
    <3>4. ~(cool[<<op, log[i].target>>] > aNow)
      BY <2>1, <2>2, <3>1 DEF Guard!Cooling
    <3>5. cool[<<op, log[i].target>>] \in Nat /\ Cooldown[op] \in Nat
      <4>1. <<op, log[i].target>> \in Ops \X Targets
        BY <3>2
      <4> QED BY <4>1 DEF GuardInv, GuardsAreSet
    <3> QED BY <1>0, <2>1, <3>1, <3>2, <3>3, <3>4, <3>5
  <2>4. CASE i \notin DOMAIN log
    <3>1. PICK l \in 1..Len(x) : l = i - Len(log) /\ log'[i] = x[l]
      <4>1. i - Len(log) \in 1..Len(x) /\ log'[i] = x[i - Len(log)]
        BY <1>0, <2>4, LogGrows
      <4> QED BY <4>1
    <3>2. MadeRow(x[l])
      BY <3>1 DEF Guard!Made, MadeRow
    <3>3. l = k
      BY <2>2, <3>2
    <3>4. i = j
      <4>1. i \in Nat /\ j \in Nat /\ Len(log) \in Nat
        BY <1>0, LogGrows
      <4> QED BY <2>1, <3>1, <3>3, <4>1
    <3>5. i \in Nat
      BY <1>0, LogGrows
    <3> QED BY <3>4, <3>5
  <2> QED BY <2>3, <2>4
<1> QED BY <1>1, <1>2

-----------------------------------------------------------------------------
(* Updates and failures                                                     *)

\* Rows that are recorded leave the failures as they are.
LEMMA NothingUnlogged ==
  ASSUME GuardsAreSet, GuardInv, NEW x, Appends(x), \A k \in 1..Len(x) : x[k].result # "unlogged"
  PROVE  Cardinality(Unlogged)' = Cardinality(Unlogged)
<1>1. Unlogged' = Unlogged
  BY LogGrows DEF Unlogged, GuardInv
<1> QED BY <1>1

IsUnlogged(r) == r.result = "unlogged"

\* One row that is not recorded counts as one failure.
LEMMA OneUnlogged ==
  ASSUME GuardsAreSet, GuardInv, NEW x, Appends(x), NEW k \in 1..Len(x),
         \A j \in 1..Len(x) : j # k => ~IsUnlogged(x[j])
  PROVE  Cardinality(Unlogged)' \in Nat /\ Cardinality(Unlogged)' <= Cardinality(Unlogged) + 1
<1>1. log \in Seq(Entries)
  BY DEF GuardInv
<1>2. Unlogged' \subseteq Unlogged \cup {Len(log) + k}
  <2> SUFFICES ASSUME NEW i \in Unlogged', i \notin DOMAIN log PROVE i = Len(log) + k
    BY <1>1, LogGrows DEF Unlogged
  <2>1. i - Len(log) \in 1..Len(x) /\ log'[i] = x[i - Len(log)] /\ i \in DOMAIN log'
    BY <1>1, LogGrows DEF Unlogged
  <2>2. i - Len(log) = k
    BY <2>1 DEF Unlogged, IsUnlogged
  <2>3. i \in Nat /\ Len(log) \in Nat /\ k \in Nat
    BY <1>1, <2>1, LogGrows
  <2> QED BY <2>2, <2>3
<1>3. IsFiniteSet(Unlogged) /\ Cardinality(Unlogged) \in Nat
  BY GuardCountable
<1>4. IsFiniteSet(Unlogged \cup {Len(log) + k})
      /\ Cardinality(Unlogged \cup {Len(log) + k}) \in {Cardinality(Unlogged), Cardinality(Unlogged) + 1}
  BY <1>3, FS_AddElement
<1>5. Cardinality(Unlogged') <= Cardinality(Unlogged \cup {Len(log) + k}) /\ Cardinality(Unlogged') \in Nat
  BY <1>2, <1>4, FS_Subset, FS_CardinalityType
<1>6. Cardinality(Unlogged)' = Cardinality(Unlogged')
  OBVIOUS
<1> QED BY <1>3, <1>4, <1>5, <1>6

IsUpdate(r) == r.op = "ci_metadata_update" /\ r.result \in {"success", "unlogged"}

\* Rows of other operations leave the updates as they are.
LEMMA NoUpdate ==
  ASSUME GuardsAreSet, GuardInv, NEW x, Appends(x), \A k \in 1..Len(x) : ~IsUpdate(x[k]),
         aFailures' \in Nat, aFailures' >= aFailures, NEW s \in Nat
  PROVE  Cardinality(Updates(s))' <= MaxUpdates + 1 + aFailures'
<1>1. Updates(s)' = Updates(s)
  BY LogGrows DEF GuardInv, Updates, Guard!Made, IsUpdate
<1>2. Cardinality(Updates(s)') = Cardinality(Updates(s)) /\ Cardinality(Updates(s)) \in Nat
      /\ Cardinality(Updates(s)) <= MaxUpdates + 1 + aFailures /\ MaxUpdates \in Nat /\ aFailures \in Nat
  BY <1>1, GuardCountable DEF GuardInv, GuardsAreSet, GuardClocks
<1> QED BY <1>2

\* An update that is no stampede: the window held MaxUpdates logged ones at most.
LEMMA OneUpdate ==
  ASSUME GuardsAreSet, GuardInv, NEW x, Appends(x), NEW k \in 1..Len(x),
         \A j \in 1..Len(x) : j # k => ~IsUpdate(x[j]), ~Guard!Stampede("ci_metadata_update"),
         aFailures' \in Nat, aFailures' >= aFailures, NEW s \in Nat
  PROVE  Cardinality(Updates(s))' <= MaxUpdates + 1 + aFailures'
<1>0. /\ log \in Seq(Entries) /\ aNow \in Nat /\ aFailures \in Nat /\ MaxUpdates \in Nat /\ UpdateWindow \in Nat
      /\ Cardinality(Unlogged) <= aFailures
      /\ Cardinality(Updates(s)) <= MaxUpdates + 1 + aFailures
  BY DEF GuardInv, GuardClocks, GuardsAreSet
<1>1. IsFiniteSet(Updates(s)) /\ Cardinality(Updates(s)) \in Nat /\ IsFiniteSet(Unlogged) /\ Cardinality(Unlogged) \in Nat
  BY GuardCountable
<1>2. ASSUME NEW i \in Updates(s)', i \notin Updates(s)
      PROVE  i = Len(log) + k /\ aNow \in s .. s + UpdateWindow - 1
  <2>1. i \in DOMAIN log' \ DOMAIN log
    BY <1>0, <1>2, LogGrows DEF Updates, Guard!Made
  <2>2. i - Len(log) \in 1..Len(x) /\ log'[i] = x[i - Len(log)] /\ log'[i].at = aNow
    BY <1>0, <2>1, LogGrows
  <2>3. IsUpdate(log'[i]) /\ log'[i].at \in s .. s + UpdateWindow - 1
    BY DEF Updates, Guard!Made, IsUpdate
  <2>4. i - Len(log) = k
    BY <2>2, <2>3
  <2>5. i \in Nat /\ Len(log) \in Nat /\ k \in Nat
    BY <1>0, <2>1, LogGrows
  <2> QED BY <2>2, <2>3, <2>4, <2>5
<1>3. CASE aNow \in s .. s + UpdateWindow - 1
  <2> DEFINE logged == Guard!Rows(aNow - UpdateWindow, "ci_metadata_update", {"success"})
  <2>1. Updates(s) \subseteq logged \cup Unlogged
    <3> SUFFICES ASSUME NEW i \in Updates(s), log[i].result # "unlogged" PROVE i \in logged
      BY DEF Updates, Unlogged
    <3>1. i \in DOMAIN log /\ log[i].op = "ci_metadata_update" /\ log[i].result = "success" /\ log[i].at >= s
      BY DEF Updates, Guard!Made
    <3>2. log[i].at \in Nat
      BY <1>0, <3>1, RowTypes
    <3>3. log[i].at > aNow - UpdateWindow
      BY <1>0, <1>3, <3>1, <3>2
    <3> QED BY <3>1, <3>3 DEF Guard!Rows
  <2>2. logged \subseteq DOMAIN log
    BY DEF Guard!Rows
  <2>3. IsFiniteSet(logged) /\ Cardinality(logged) \in Nat
    BY <1>0, <2>2, LogIsFinite
  <2>4. Cardinality(logged) <= MaxUpdates
    BY <1>0, <2>3, GuardCount DEF Guard!Stampede
  <2> HIDE DEF logged
  <2>5. /\ IsFiniteSet(logged \cup Unlogged) /\ Cardinality(logged \cup Unlogged) \in Nat
        /\ Cardinality(logged \cup Unlogged) <= Cardinality(logged) + Cardinality(Unlogged)
    <3>1. /\ IsFiniteSet(logged \cup Unlogged)
          /\ Cardinality(logged \cup Unlogged) =
               Cardinality(logged) + Cardinality(Unlogged) - Cardinality(logged \cap Unlogged)
      BY <1>1, <2>3, FS_Union
    <3>2. Cardinality(logged \cap Unlogged) \in Nat
      BY <1>1, FS_Subset, FS_CardinalityType
    <3>3. Cardinality(logged \cup Unlogged) \in Nat
      BY <3>1, FS_CardinalityType
    <3> QED BY <1>1, <2>3, <3>1, <3>2, <3>3
  <2>6. Updates(s)' \subseteq (logged \cup Unlogged) \cup {Len(log) + k}
    BY <1>2, <2>1
  <2>7. /\ IsFiniteSet((logged \cup Unlogged) \cup {Len(log) + k})
        /\ Cardinality((logged \cup Unlogged) \cup {Len(log) + k})
             \in {Cardinality(logged \cup Unlogged), Cardinality(logged \cup Unlogged) + 1}
    BY <2>5, FS_AddElement
  <2>8. /\ Cardinality(Updates(s)') <= Cardinality((logged \cup Unlogged) \cup {Len(log) + k})
        /\ Cardinality(Updates(s)') \in Nat
    BY <2>6, <2>7, FS_Subset, FS_CardinalityType
  <2> HIDE DEF Updates, Unlogged
  <2> QED BY <1>0, <1>1, <2>3, <2>4, <2>5, <2>7, <2>8
<1>4. CASE aNow \notin s .. s + UpdateWindow - 1
  <2>1. Updates(s)' \subseteq Updates(s)
    BY <1>2, <1>4
  <2>2. Cardinality(Updates(s)') <= Cardinality(Updates(s)) /\ Cardinality(Updates(s)') \in Nat
    BY <1>1, <2>1, FS_Subset, FS_CardinalityType
  <2> HIDE DEF Updates
  <2> QED BY <1>0, <1>1, <2>2
<1> QED BY <1>3, <1>4
-----------------------------------------------------------------------------
(* Steps                                                                    *)

\* What a step that records nothing and starts no cooldown leaves alone.
LEMMA QuietStep ==
  ASSUME GuardsAreSet, GuardInv, UNCHANGED <<epoch, cool, log, aFailures>>, aNow' \in Nat, aNow' >= aNow, aNow' <= AiTime,
         ongoing' \in [Requests -> Batches],
         \A w \in Guard!Awaited : UnderWay(w)' \subseteq UnderWay(w)
                            \/ \A s \in Nat : aNow' < s + Cooldown[w[1]] => Repeats(w, s, epoch) = {}
  PROVE  GuardInv'
<1>0. /\ aNow \in Nat /\ epoch \in Nat /\ log \in Seq(Entries) /\ \A o \in Ops : Cooldown[o] \in Nat
      /\ \A w \in Guard!Awaited : Cooldown[w[1]] \in Nat
  BY AwaitedIs DEF GuardInv, GuardClocks, GuardsAreSet
<1>1. \A w, s, e : Repeats(w, s, e)' = Repeats(w, s, e)
  BY DEF Repeats
<1>2. Unlogged' = Unlogged /\ \A s : Updates(s)' = Updates(s)
  BY DEF Updates, Unlogged, Guard!Made
<1>3. ASSUME NEW w \in Guard!Awaited, NEW s \in Nat, NEW e \in Nat PROVE Windowed(w, s, e)'
  <2>1. CASE UnderWay(w)' \subseteq UnderWay(w)
    BY <1>0, <1>1, <2>1, WindowKept
  <2>2. CASE \A r \in Nat : aNow' < r + Cooldown[w[1]] => Repeats(w, r, epoch) = {}
    <3>1. Windowed(w, s, e)
      BY DEF GuardInv
    <3> QED BY <1>1, <2>2, <3>1 DEF Windowed
  <2> QED BY <2>1, <2>2
<1>4. ASSUME NEW i \in DOMAIN log' PROVE Cools(i)'
  <2>1. Cools(i) /\ log[i].at \in Nat
    BY <1>0, RowTypes DEF GuardInv
  <2>2. log[i].at <= aNow'
    BY <1>0, <2>1 DEF Cools
  <2> QED BY <2>1, <2>2 DEF Cools, Starts, Hit
<1>5. ASSUME NEW k \in Ops \X Targets PROVE cool'[k] <= aNow' + Cooldown[k[1]]
  <2>1. cool[k] \in Nat /\ cool[k] <= aNow + Cooldown[k[1]] /\ k[1] \in Ops
    BY DEF GuardInv
  <2> QED BY <1>0, <2>1
<1>6. Guard!CooldownKept'
  BY DEF GuardInv, Guard!CooldownKept, Guard!Made, Guard!Awaited
<1>7. \A s \in Nat : Cardinality(Updates(s))' <= MaxUpdates + 1 + aFailures'
  BY <1>2 DEF GuardInv
<1>8. GuardClocks' /\ cool' \in [Ops \X Targets -> Nat] /\ log' \in Seq(Entries) /\ Cardinality(Unlogged)' <= aFailures'
  BY <1>2 DEF GuardInv, GuardClocks
<1> QED BY <1>3, <1>4, <1>5, <1>6, <1>7, <1>8 DEF GuardInv

\* Time passes.
LEMMA TickKeeps == ASSUME GuardsAreSet, GuardInv, Guard!Tick \/ UNCHANGED Guard!vars PROVE GuardInv'
<1>1. /\ UNCHANGED <<epoch, cool, log, aFailures, ongoing>> /\ aNow' \in Nat /\ aNow' >= aNow /\ aNow' <= AiTime
  BY DEF GuardInv, GuardClocks, GuardsAreSet, Guard!Tick, Guard!vars
<1>2. \A w : UnderWay(w)' = UnderWay(w)
  BY <1>1 DEF UnderWay
<1>3. ongoing' \in [Requests -> Batches]
  BY <1>1 DEF GuardInv
<1> QED BY <1>1, <1>2, <1>3, QuietStep

\* A request that raises records nothing.
LEMMA RequestFailsKeeps == ASSUME GuardsAreSet, GuardInv, NEW c \in Requests, Guard!RequestFails(c) PROVE GuardInv'
<1>1. /\ UNCHANGED <<aNow, epoch, cool, log, aFailures>> /\ ongoing' = [ongoing EXCEPT ![c] = {}]
      /\ aNow' \in Nat /\ aNow' >= aNow /\ aNow' <= AiTime
  BY DEF GuardInv, GuardClocks, Guard!RequestFails
<1>2. ongoing' \in [Requests -> Batches] /\ \A w : UnderWay(w)' \subseteq UnderWay(w)
  BY <1>1 DEF UnderWay, GuardInv, Batches
<1> QED BY <1>1, <1>2, QuietStep

\* A request that passes the guard finds nothing of its own within the cooldown.
LEMMA AwaitKeeps ==
  ASSUME GuardsAreSet, GuardInv, NEW q \in Requests, NEW K \in SUBSET Guard!Awaited, Guard!Await(q, K)
  PROVE  GuardInv'
<1>1. /\ UNCHANGED <<aNow, epoch, cool, log, aFailures>> /\ ongoing' = [ongoing EXCEPT ![q] = K]
      /\ aNow' \in Nat /\ aNow' >= aNow /\ aNow' <= AiTime
      /\ \A w \in K : w[1] \in Ops /\ ~Guard!Cooling(w[1], w[2])
  BY DEF GuardInv, GuardClocks, Guard!Await, Guard!Denied
<1>2. K \in Batches
  <2>1. \A w \in K : w \in Ops \X Targets
    <3> SUFFICES ASSUME NEW w \in K PROVE w \in Ops \X Targets
      OBVIOUS
    <3>1. w = <<w[1], w[2]>> /\ w[2] \in Targets /\ w[1] \in Ops
      BY <1>1, AwaitedIs
    <3>2. <<w[1], w[2]>> \in Ops \X Targets
      BY <3>1
    <3> QED BY <3>1, <3>2
  <2> QED BY <2>1 DEF Batches
<1>3. ongoing' \in [Requests -> Batches] /\ \A w : w \notin K => UnderWay(w)' \subseteq UnderWay(w)
  BY <1>1, <1>2 DEF UnderWay, GuardInv
<1>4. \A w \in K, s \in Nat : aNow' < s + Cooldown[w[1]] => Repeats(w, s, epoch) = {}
  BY <1>1, OpenWindowCools
<1> QED BY <1>1, <1>3, <1>4, QuietStep

\* A chat is let in.
LEMMA ChatGuardKeeps ==
  ASSUME GuardsAreSet, GuardInv, NEW q \in Requests, NEW T \in SUBSET Targets, Guard!ChatGuard(q, T)
  PROVE  GuardInv'
<1>1. {"diagnose"} \X T \subseteq Guard!Awaited
  BY DEF Guard!Awaited
<1> QED BY <1>1, AwaitKeeps DEF Guard!ChatGuard

\* The close of a critical event is let in.
LEMMA CloseGuardKeeps ==
  ASSUME GuardsAreSet, GuardInv, NEW q \in Requests, NEW t \in Targets, Guard!CloseGuard(q, t)
  PROVE  GuardInv'
<1>1. {<<"close", t>>} \subseteq Guard!Awaited
  BY DEF Guard!Awaited, Guard!CloseGuard
<1> QED BY <1>1, AwaitKeeps DEF Guard!CloseGuard

\* A restart forgets cooldowns and requests, and begins an epoch without rows.
LEMMA RestartKeeps == ASSUME GuardsAreSet, GuardInv, Guard!Restart PROVE GuardInv'
<1>0. /\ aNow \in Nat /\ epoch \in Nat /\ log \in Seq(Entries) /\ \A o \in Ops : Cooldown[o] \in Nat
  BY DEF GuardInv, GuardClocks, GuardsAreSet
<1>1. /\ UNCHANGED <<aNow, log, aFailures>> /\ ongoing' = [q \in Requests |-> {}] /\ epoch' = epoch + 1
      /\ epoch < MaxRestarts /\ cool' = [k \in DOMAIN cool |-> 0]
  BY DEF Guard!Restart
<1>2. \A w, s, e : Repeats(w, s, e)' = Repeats(w, s, e)
  BY <1>1 DEF Repeats
<1>3. Unlogged' = Unlogged /\ \A s : Updates(s)' = Updates(s)
  BY <1>1 DEF Updates, Unlogged, Guard!Made
<1>4. \A i \in DOMAIN log : log[i].epoch <= epoch /\ log[i].at <= aNow /\ log[i].epoch \in Nat
  BY <1>0, RowTypes DEF GuardInv, Cools
<1>5. ASSUME NEW w \in Guard!Awaited, NEW s \in Nat, NEW e \in Nat PROVE Windowed(w, s, e)'
  <2>1. CASE e = epoch + 1
    <3>1. \A i \in DOMAIN log : log[i].epoch # e
      BY <1>0, <1>4, <2>1
    <3>2. Repeats(w, s, e) = {}
      BY <3>1 DEF Repeats
    <3> QED BY <1>2, <3>2 DEF Windowed
  <2>2. CASE e # epoch + 1
    <3>1. UnderWay(w)' \subseteq UnderWay(w)
      BY <1>1 DEF UnderWay
    <3>2. aNow' \in Nat /\ aNow' >= aNow /\ epoch' \in Nat /\ e # epoch'
      BY <1>0, <1>1, <2>2
    <3> QED BY <1>2, <3>1, <3>2, WindowKept
  <2> QED BY <2>1, <2>2
<1>6. ASSUME NEW i \in DOMAIN log' PROVE Cools(i)'
  <2>1. log[i].epoch <= epoch' /\ log[i].epoch # epoch'
    BY <1>0, <1>1, <1>4
  <2> QED BY <1>1, <1>4, <2>1 DEF Cools
<1>7. /\ cool' \in [Ops \X Targets -> Nat] /\ \A k \in Ops \X Targets : cool'[k] <= aNow' + Cooldown[k[1]]
  <2>1. cool' \in [Ops \X Targets -> Nat] /\ \A k \in Ops \X Targets : cool'[k] = 0
    BY <1>1 DEF GuardInv
  <2>2. \A k \in Ops \X Targets : k[1] \in Ops /\ 0 <= aNow + Cooldown[k[1]]
    BY <1>0
  <2> QED BY <1>1, <2>1, <2>2
<1>8. Guard!CooldownKept'
  BY <1>1 DEF GuardInv, Guard!CooldownKept, Guard!Made, Guard!Awaited
<1>9. \A s \in Nat : Cardinality(Updates(s))' <= MaxUpdates + 1 + aFailures'
  BY <1>1, <1>3 DEF GuardInv
<1>10. GuardClocks'
  BY <1>0, <1>1 DEF GuardInv, GuardClocks, GuardsAreSet
<1>11. ongoing' \in [Requests -> Batches] /\ log' \in Seq(Entries) /\ Cardinality(Unlogged)' <= aFailures'
  BY <1>1, <1>3 DEF GuardInv, Batches
<1> QED BY <1>5, <1>6, <1>7, <1>8, <1>9, <1>10, <1>11 DEF GuardInv

\* The conclusions about a step that appends rows, put together.
LEMMA RecordStep ==
  ASSUME GuardsAreSet, GuardInv, NEW x, Appends(x), UNCHANGED <<aNow, epoch>>,
         aFailures' \in Nat, aFailures' <= AiFailures, ongoing' \in [Requests -> Batches],
         cool' \in [Ops \X Targets -> Nat],
         \A k \in Ops \X Targets : cool'[k] >= cool[k] /\ cool'[k] <= aNow + Cooldown[k[1]],
         \A k \in 1..Len(x) : Starts(x[k])
             => cool'[<<x[k].op, x[k].target>>] >= aNow + Cooldown[x[k].op],
         Guard!CooldownKept', Cardinality(Unlogged)' <= aFailures',
         \A s \in Nat : Cardinality(Updates(s))' <= MaxUpdates + 1 + aFailures',
         \A w \in Guard!Awaited, s \in Nat, e \in Nat : Windowed(w, s, e)'
  PROVE  GuardInv'
<1>1. \A i \in DOMAIN log' : Cools(i)'
  BY CoolsStep
<1>2. log' \in Seq(Entries)
  BY LogGrows DEF GuardInv
<1>3. GuardClocks'
  BY DEF GuardInv, GuardClocks
<1> QED BY <1>1, <1>2, <1>3 DEF GuardInv

\* A refusal is recorded.
LEMMA ChatDeniedKeeps ==
  ASSUME GuardsAreSet, GuardInv, NEW c \in Requests, NEW T \in SUBSET Targets, Guard!ChatDenied(c, T)
  PROVE  GuardInv'
<1>0. aNow \in Nat /\ epoch \in Nat /\ aFailures \in Nat /\ aFailures <= AiFailures /\ log \in Seq(Entries)
      /\ Cardinality(Unlogged) <= aFailures /\ \A o \in Ops : Cooldown[o] \in Nat
  BY DEF GuardInv, GuardClocks, GuardsAreSet
<1> PICK t \in T, r \in {"blocked", "escalated"} : log' = Append(log, Guard!Entry("diagnose", t, r))
  BY GuardCount DEF Guard!ChatDenied
<1>1. UNCHANGED <<aNow, epoch, cool, ongoing, aFailures>> /\ "diagnose" \in Ops
  BY GuardCount DEF Guard!ChatDenied
<1> DEFINE e0 == Guard!Entry("diagnose", t, r)
<1>2. e0 \in Entries /\ e0.at = aNow /\ e0.epoch = epoch /\ e0.result = r /\ e0.op = "diagnose"
  BY <1>0, <1>1 DEF Guard!Entry, Entries
<1> HIDE DEF e0
<1>3. /\ Appends(<<e0>>) /\ Len(<<e0>>) = 1 /\ \A k \in 1..Len(<<e0>>) : <<e0>>[k] = e0
  <2>1. log' = log \o <<e0>>
    BY <1>0, <1>2 DEF e0
  <2>2. <<e0>> \in Seq(Entries) /\ Len(<<e0>>) = 1 /\ \A k \in 1..1 : <<e0>>[k] = e0
    BY <1>2
  <2> QED BY <1>2, <2>1, <2>2 DEF Appends
<1> PICK x : x = <<e0>>
  OBVIOUS
<1>4. /\ Appends(x)
      /\ \A k \in 1..Len(x) : x[k].result \notin {"success", "unlogged"} /\ ~Starts(x[k])
  BY <1>2, <1>3 DEF Starts, Hit, Guard!Final
<1>5. Guard!CooldownKept'
  BY <1>1, <1>4, CooldownStep DEF MadeRow
<1>6. Cardinality(Unlogged)' <= aFailures'
  BY <1>0, <1>1, <1>4, NothingUnlogged
<1>7. \A s \in Nat : Cardinality(Updates(s))' <= MaxUpdates + 1 + aFailures'
  <2>1. aFailures' \in Nat /\ aFailures' >= aFailures
    BY <1>0, <1>1
  <2> QED BY <1>4, <2>1, NoUpdate DEF IsUpdate
<1>8. ASSUME NEW w \in Guard!Awaited, NEW s \in Nat, NEW e \in Nat PROVE Windowed(w, s, e)'
  <2>1. Repeats(w, s, e)' = Repeats(w, s, e)
    BY <1>4, NoDiagnosis DEF Hit, Guard!Final
  <2>2. UnderWay(w)' = UnderWay(w) /\ aNow' \in Nat /\ aNow' >= aNow /\ epoch' \in Nat
    BY <1>0, <1>1 DEF UnderWay
  <2> QED BY <1>1, <2>1, <2>2, WindowKept
<1>9. /\ cool' \in [Ops \X Targets -> Nat] /\ ongoing' \in [Requests -> Batches]
      /\ \A k \in Ops \X Targets : cool'[k] >= cool[k] /\ cool'[k] <= aNow + Cooldown[k[1]]
  <2>1. \A k \in Ops \X Targets : cool[k] \in Nat /\ cool[k] <= aNow + Cooldown[k[1]]
    BY DEF GuardInv
  <2>2. \A k \in Ops \X Targets : cool[k] >= cool[k]
    BY <2>1
  <2> QED BY <1>1, <2>1, <2>2 DEF GuardInv
<1> QED BY <1>0, <1>1, <1>4, <1>5, <1>6, <1>7, <1>8, <1>9, RecordStep

\* A chat records its diagnoses and sets their cooldown.
LEMMA ChatDoneKeeps ==
  ASSUME GuardsAreSet, GuardInv, NEW c \in Requests, Guard!ChatDone(c)
  PROVE  GuardInv'
<1>0. aNow \in Nat /\ epoch \in Nat /\ aFailures \in Nat /\ aFailures <= AiFailures /\ log \in Seq(Entries)
      /\ Cardinality(Unlogged) <= aFailures /\ "diagnose" \in Ops
  <2>1. ongoing[c] \subseteq Ops \X Targets /\ \E t \in Targets : <<"diagnose", t>> \in ongoing[c]
    BY GuardCount DEF GuardInv, Guard!ChatDone, Batches
  <2>2. "diagnose" \in Ops
    BY <2>1
  <2> QED BY <2>2 DEF GuardInv, GuardClocks
<1> PICK T \in SUBSET Targets : T = {t \in Targets : <<"diagnose", t>> \in ongoing[c]}
  OBVIOUS
<1> DEFINE n == Cardinality(T)
           f == Guard!SetToSeq(T)
           y == [i \in 1 .. n |-> Guard!Entry("diagnose", f[i], "success")]
<1>1. /\ UNCHANGED <<aNow, epoch, aFailures>> /\ ongoing' = [ongoing EXCEPT ![c] = {}] /\ log' = log \o y
      /\ cool' = Guard!SetCooldown("diagnose", T)
  BY GuardCount DEF Guard!ChatDone
<1>2. /\ n \in Nat /\ f \in [1..n -> T] /\ \A i, j \in 1..n : f[i] = f[j] => i = j
  <2>1. IsFiniteSet(T)
    BY FS_Subset DEF GuardsAreSet
  <2> QED BY <2>1, SetListed
<1> HIDE DEF n, f
<1>3. \A i \in 1..n : y[i] \in Entries /\ y[i].at = aNow /\ y[i].epoch = epoch /\ y[i].op = "diagnose"
                      /\ y[i].result = "success" /\ y[i].target = f[i]
  BY <1>0, <1>2 DEF Guard!Entry, Entries
<1>4. y \in Seq(Entries) /\ Len(y) = n
  <2>1. y \in [1..n -> Entries]
    BY <1>3
  <2> QED BY <1>2, <2>1
<1> PICK x : x = y
  OBVIOUS
<1>5. /\ Appends(x) /\ Len(x) = n /\ \A i \in 1..Len(x) : x[i].op = "diagnose"
                      /\ x[i].result = "success" /\ x[i].target = f[i] /\ f[i] \in T
  BY <1>1, <1>2, <1>3, <1>4 DEF Appends
<1>6. Guard!CooldownKept'
  BY <1>1, <1>5, CooldownStep DEF MadeRow
<1>7. Cardinality(Unlogged)' <= aFailures'
  BY <1>0, <1>1, <1>5, NothingUnlogged
<1>8. \A s \in Nat : Cardinality(Updates(s))' <= MaxUpdates + 1 + aFailures'
  <2>1. aFailures' \in Nat /\ aFailures' >= aFailures
    BY <1>0, <1>1
  <2> QED BY <1>5, <2>1, NoUpdate DEF IsUpdate
<1>9. ASSUME NEW w \in Guard!Awaited, NEW s \in Nat, NEW e \in Nat PROVE Windowed(w, s, e)'
  <2>0. w = <<w[1], w[2]>>
    BY AwaitedIs
  <2>1. CASE \E k \in 1..Len(x) : Hit(x[k], w)
    <3>1. PICK k \in 1..Len(x) : Hit(x[k], w)
      BY <2>1
    <3>2. w[1] = "diagnose" /\ w[2] = f[k]
      BY <1>5, <3>1 DEF Hit
    <3>3. w \in ongoing[c]
      BY <1>5, <2>0, <3>2
    <3>4. ASSUME NEW j \in 1..Len(x), Hit(x[j], w) PROVE j = k
      <4>1. f[j] = f[k]
        BY <1>5, <3>2, <3>4 DEF Hit
      <4> QED BY <1>2, <1>5, <4>1
    <3> QED BY <1>1, <1>5, <3>1, <3>3, <3>4, RequestRepeats
  <2>2. CASE \A k \in 1..Len(x) : ~Hit(x[k], w)
    <3>1. Repeats(w, s, e)' = Repeats(w, s, e)
      BY <1>5, <2>2, NoDiagnosis
    <3>2. UnderWay(w)' \subseteq UnderWay(w) /\ aNow' \in Nat /\ aNow' >= aNow /\ epoch' \in Nat
      BY <1>0, <1>1 DEF UnderWay, GuardInv
    <3> QED BY <1>1, <3>1, <3>2, WindowKept
  <2> QED BY <2>1, <2>2
<1>10. /\ cool' \in [Ops \X Targets -> Nat]
       /\ \A k \in Ops \X Targets : cool'[k] >= cool[k] /\ cool'[k] <= aNow + Cooldown[k[1]]
       /\ \A t \in T : cool'[<<"diagnose", t>>] = aNow + Cooldown["diagnose"]
  BY <1>0, <1>1, Cooled
<1>11. \A k \in 1..Len(x) : Starts(x[k])
             => cool'[<<x[k].op, x[k].target>>] >= aNow + Cooldown[x[k].op]
  <2>1. aNow + Cooldown["diagnose"] >= aNow + Cooldown["diagnose"]
    BY <1>0 DEF GuardsAreSet
  <2> SUFFICES ASSUME NEW k \in 1..Len(x)
               PROVE  cool'[<<x[k].op, x[k].target>>] >= aNow + Cooldown[x[k].op]
    OBVIOUS
  <2>2. x[k].op = "diagnose" /\ x[k].target \in T
    BY <1>5
  <2> QED BY <1>10, <2>1, <2>2
<1>12. ongoing' \in [Requests -> Batches]
  BY <1>1 DEF GuardInv, Batches
<1> QED BY <1>0, <1>1, <1>5, <1>6, <1>7, <1>8, <1>9, <1>10, <1>11, <1>12, RecordStep

\* A route records its operation, or fails to.
LEMMA OperateKeeps ==
  ASSUME GuardsAreSet, GuardInv, NEW op \in Ops, NEW t \in Targets, Guard!Operate(op, t)
  PROVE  GuardInv'
<1>0. aNow \in Nat /\ epoch \in Nat /\ aFailures \in Nat /\ aFailures <= AiFailures /\ log \in Seq(Entries)
      /\ Cardinality(Unlogged) <= aFailures /\ Cooldown[op] \in Nat /\ Cardinality(Unlogged) \in Nat
      /\ AiFailures \in Nat
  BY GuardCountable DEF GuardInv, GuardClocks, GuardsAreSet
<1>1. /\ UNCHANGED <<aNow, epoch, ongoing>> /\ ~Guard!Cooling(op, t) /\ (op = "ci_metadata_update" => ~Guard!Stampede("ci_metadata_update"))
  BY DEF Guard!Operate, Guard!Denied
<1>t. op = "close" => t \notin Critical
  BY DEF Guard!Operate
<1> PICK r \in {"success", "unlogged"} :
      /\ log' = Append(log, Guard!Entry(op, t, r))
      /\ r = "success" => cool' = Guard!SetCooldown(op, {t}) /\ aFailures' = aFailures
      /\ r = "unlogged" => cool' \in {cool, Guard!SetCooldown(op, {t})} /\ aFailures' = aFailures + 1 /\ aFailures < AiFailures
  BY DEF Guard!Operate
<1> PICK b : b = Guard!Entry(op, t, r)
  OBVIOUS
<1>4. b \in Entries /\ b.at = aNow /\ b.epoch = epoch /\ b.op = op /\ b.target = t /\ b.result = r
  BY <1>0 DEF Guard!Entry, Entries
<1> PICK x : x = <<b>>
  OBVIOUS
<1> PICK n : n = 1
  OBVIOUS
<1>6. Appends(x)
  <2>1. log' = log \o x
    BY <1>0, <1>4
  <2>2. x \in Seq(Entries) /\ Len(x) = 1 /\ x[1] = b
    BY <1>4
  <2> QED BY <1>4, <2>1, <2>2 DEF Appends
<1>7. /\ n \in 1..Len(x) /\ x[n] = b /\ \A k \in 1..Len(x) : k = n
  BY <1>4
<1>8. Guard!CooldownKept'
  <2>1. \A k \in 1..Len(x) : MadeRow(x[k]) => k = n
    BY <1>7 DEF MadeRow
  <2>2. \A k \in 1..Len(x) : MadeRow(x[k]) => ~Guard!Cooling(x[k].op, x[k].target)
    BY <1>1, <1>4, <1>7, <2>1
  <2> QED BY <1>1, <1>6, <2>1, <2>2, CooldownStep
<1>9. aFailures' \in Nat /\ aFailures' >= aFailures /\ aFailures' <= AiFailures
  BY <1>0
<1>10. Cardinality(Unlogged)' <= aFailures'
  <2>1. CASE r = "success"
    <3>1. \A k \in 1..Len(x) : x[k].result # "unlogged"
      BY <1>4, <1>7, <2>1
    <3> QED BY <1>0, <1>6, <2>1, <3>1, NothingUnlogged
  <2>2. CASE r = "unlogged"
    <3>1. Cardinality(Unlogged)' \in Nat /\ Cardinality(Unlogged)' <= Cardinality(Unlogged) + 1
      <4>1. \A k \in 1..Len(x) : k # n => ~IsUnlogged(x[k])
        BY <1>7 DEF IsUnlogged
      <4>2. n \in 1..Len(x)
        BY <1>7
      <4> QED BY <1>6, <4>1, <4>2, OneUnlogged
    <3> HIDE DEF Unlogged
    <3> QED BY <1>0, <2>2, <3>1
  <2> QED BY <2>1, <2>2
<1>11. \A s \in Nat : Cardinality(Updates(s))' <= MaxUpdates + 1 + aFailures'
  <2>1. \A k \in 1..Len(x) : k # n => ~IsUpdate(x[k])
    BY <1>7 DEF IsUpdate
  <2>2. CASE op = "ci_metadata_update"
    <3>1. ~Guard!Stampede("ci_metadata_update") /\ n \in 1..Len(x)
      BY <1>1, <1>7, <2>2
    <3> QED BY <1>6, <1>9, <2>1, <3>1, OneUpdate
  <2>3. CASE op # "ci_metadata_update"
    <3>1. \A k \in 1..Len(x) : ~IsUpdate(x[k])
      BY <1>4, <1>7, <2>1, <2>3 DEF IsUpdate
    <3> QED BY <1>6, <1>9, <3>1, NoUpdate
  <2> QED BY <2>2, <2>3
<1>12. ASSUME NEW w \in Guard!Awaited, NEW s \in Nat, NEW e \in Nat PROVE Windowed(w, s, e)'
  <2>1. \A k \in 1..Len(x) : k # n => ~Hit(x[k], w)
    BY <1>7 DEF Hit
  <2>2. CASE Hit(b, w)
    <3>1. w[1] = op /\ w[2] = t
      BY <1>4, <2>2 DEF Hit
    <3>2. w[1] = "diagnose"
      BY <1>t, <3>1, AwaitedIs
    <3>3. n \in 1..Len(x) /\ Hit(x[n], w) /\ ~Guard!Cooling(w[1], w[2])
      BY <1>1, <1>7, <2>2, <3>1
    <3> QED BY <1>1, <1>6, <2>1, <3>2, <3>3, RouteDiagnosis
  <2>3. CASE ~Hit(b, w)
    <3>1. \A k \in 1..Len(x) : ~Hit(x[k], w)
      BY <1>7, <2>3
    <3>2. Repeats(w, s, e)' = Repeats(w, s, e)
      BY <1>6, <3>1, NoDiagnosis
    <3>3. UnderWay(w)' = UnderWay(w) /\ aNow' \in Nat /\ aNow' >= aNow /\ epoch' \in Nat
      BY <1>0, <1>1 DEF UnderWay
    <3> QED BY <1>1, <3>2, <3>3, WindowKept
  <2> QED BY <2>2, <2>3
<1>13. /\ cool' \in [Ops \X Targets -> Nat]
       /\ \A k \in Ops \X Targets : cool'[k] >= cool[k] /\ cool'[k] <= aNow + Cooldown[k[1]]
       /\ r = "success" => cool'[<<op, t>>] = aNow + Cooldown[op]
  <2>1. CASE cool' = Guard!SetCooldown(op, {t})
    BY <1>1, <2>1, Cooled
  <2>2. CASE cool' = cool /\ r # "success"
    <3>1. \A k \in Ops \X Targets : cool[k] \in Nat /\ cool[k] <= aNow + Cooldown[k[1]]
      BY DEF GuardInv
    <3>2. \A k \in Ops \X Targets : cool[k] >= cool[k]
      BY <3>1
    <3> QED BY <2>2, <3>1, <3>2 DEF GuardInv
  <2> QED BY <2>1, <2>2
<1>14. ASSUME NEW k \in 1..Len(x), Starts(x[k])
       PROVE  cool'[<<x[k].op, x[k].target>>] >= aNow + Cooldown[x[k].op]
  <2>0. x[k] = b
    BY <1>7
  <2>1. r = "success"
    <3> SUFFICES ASSUME r = "unlogged" PROVE FALSE
      OBVIOUS
    <3>1. PICK w \in Guard!Awaited : Hit(b, w)
      BY <1>4, <1>14, <2>0 DEF Starts
    <3>2. w[1] = op /\ w[2] = t /\ w[1] = "close"
      BY <1>4, <3>1 DEF Hit, Guard!Final
    <3> QED BY <1>t, <3>2, AwaitedIs
  <2>2. x[k].op = op /\ x[k].target = t /\ cool'[<<op, t>>] = aNow + Cooldown[op]
    BY <1>4, <1>13, <2>0, <2>1
  <2>3. aNow + Cooldown[op] >= aNow + Cooldown[op]
    BY <1>0
  <2> QED BY <2>2, <2>3
<1>15. ongoing' \in [Requests -> Batches]
  BY <1>1 DEF GuardInv
<1> QED BY <1>1, <1>6, <1>8, <1>9, <1>10, <1>11, <1>12, <1>13, <1>14, <1>15, RecordStep

\* The close of a critical event comes back: the escalation is recorded, and then
\* the close, which may fail.
LEMMA CloseCriticalKeeps ==
  ASSUME GuardsAreSet, GuardInv, NEW c \in Requests, Guard!CloseCritical(c)
  PROVE  GuardInv'
<1>0. aNow \in Nat /\ epoch \in Nat /\ aFailures \in Nat /\ aFailures <= AiFailures /\ log \in Seq(Entries)
      /\ Cardinality(Unlogged) <= aFailures /\ Cardinality(Unlogged) \in Nat /\ AiFailures \in Nat
  BY GuardCountable DEF GuardInv, GuardClocks, GuardsAreSet
<1> DEFINE E(t) == Guard!Entry("close", t, "escalated")
           R(t, r) == Guard!Entry("close", t, r)
<1>1. UNCHANGED <<aNow, epoch>> /\ ongoing' = [ongoing EXCEPT ![c] = {}]
  BY DEF Guard!CloseCritical
<1> PICK t \in Critical, r \in {"escalated", "success", "unlogged"} :
      /\ ongoing[c] = {<<"close", t>>} /\ cool' = Guard!SetCooldown("close", {t})
      /\ r = "escalated" => log' = Append(log, E(t))
      /\ r # "escalated" => log' = log \o <<E(t), R(t, r)>>
      /\ r # "unlogged" => aFailures' = aFailures
      /\ r = "unlogged" => aFailures' = aFailures + 1 /\ aFailures < AiFailures
  BY DEF Guard!CloseCritical
<1>2. "close" \in Ops /\ t \in Targets /\ Cooldown["close"] \in Nat
  <2>1. ongoing[c] \subseteq Ops \X Targets
    BY DEF GuardInv, Batches
  <2> QED BY <2>1 DEF GuardsAreSet
<1> PICK w \in Guard!Awaited : w = <<"close", t>>
  BY DEF Guard!Awaited
<1>3. /\ E(t) \in Entries /\ E(t).at = aNow /\ E(t).epoch = epoch /\ E(t).op = "close" /\ E(t).target = t
      /\ E(t).result = "escalated"
      /\ R(t, r) \in Entries /\ R(t, r).at = aNow /\ R(t, r).epoch = epoch /\ R(t, r).op = "close"
      /\ R(t, r).target = t /\ R(t, r).result = r
  BY <1>0, <1>2 DEF Guard!Entry, Entries
<1> HIDE DEF E, R
<1> PICK x : x = IF r = "escalated" THEN <<E(t)>> ELSE <<E(t), R(t, r)>>
  OBVIOUS
<1> PICK n : n = IF r = "escalated" THEN 1 ELSE 2
  OBVIOUS
<1>4. /\ x \in Seq(Entries) /\ Len(x) = n /\ n \in 1..Len(x) /\ log' = log \o x
      /\ \A k \in 1..Len(x) : x[k].at = aNow /\ x[k].epoch = epoch /\ x[k].op = "close" /\ x[k].target = t
      /\ \A k \in 1..Len(x) : k # n => x[k].result = "escalated"
      /\ x[n].result = r
  <2>1. CASE r = "escalated"
    <3>1. x = <<E(t)>> /\ n = 1 /\ log' = log \o x
      BY <1>0, <1>3, <2>1
    <3> QED BY <1>3, <2>1, <3>1
  <2>2. CASE r # "escalated"
    <3>1. x = <<E(t), R(t, r)>> /\ n = 2 /\ log' = log \o x
      BY <2>2
    <3>2. Len(x) = 2 /\ x[1] = E(t) /\ x[2] = R(t, r) /\ x \in Seq(Entries)
      BY <1>3, <3>1
    <3>3. \A k \in 1..Len(x) : k = 1 \/ k = 2
      BY <3>2
    <3> QED BY <1>3, <3>1, <3>2, <3>3
  <2> QED BY <2>1, <2>2
<1>5. Appends(x)
  BY <1>4 DEF Appends
<1>6. Guard!CooldownKept'
  <2>1. \A k \in 1..Len(x) : ~MadeRow(x[k])
    BY <1>4 DEF MadeRow
  <2> QED BY <1>1, <1>5, <2>1, CooldownStep
<1>7. aFailures' \in Nat /\ aFailures' >= aFailures /\ aFailures' <= AiFailures
  BY <1>0
<1>8. Cardinality(Unlogged)' <= aFailures'
  <2>1. CASE r # "unlogged"
    <3>1. \A k \in 1..Len(x) : x[k].result # "unlogged"
      BY <1>4, <2>1
    <3> QED BY <1>0, <1>5, <2>1, <3>1, NothingUnlogged
  <2>2. CASE r = "unlogged"
    <3>1. \A k \in 1..Len(x) : k # n => ~IsUnlogged(x[k])
      BY <1>4 DEF IsUnlogged
    <3>2. Cardinality(Unlogged)' \in Nat /\ Cardinality(Unlogged)' <= Cardinality(Unlogged) + 1
      BY <1>4, <1>5, <3>1, OneUnlogged
    <3> HIDE DEF Unlogged
    <3> QED BY <1>0, <2>2, <3>2
  <2> QED BY <2>1, <2>2
<1>9. \A s \in Nat : Cardinality(Updates(s))' <= MaxUpdates + 1 + aFailures'
  <2>1. \A k \in 1..Len(x) : ~IsUpdate(x[k])
    BY <1>4 DEF IsUpdate
  <2> QED BY <1>5, <1>7, <2>1, NoUpdate
<1>10. ASSUME NEW v \in Guard!Awaited, NEW s \in Nat, NEW e \in Nat PROVE Windowed(v, s, e)'
  <2>0. \A k \in 1..Len(x) : k # n => ~Hit(x[k], v)
    BY <1>4, AwaitedIs DEF Hit, Guard!Final
  <2>1. CASE Hit(x[n], v)
    <3>1. v[1] = "close" /\ v[2] = t /\ v = <<v[1], v[2]>>
      BY <1>4, <2>1, AwaitedIs DEF Hit
    <3>2. v \in ongoing[c] /\ n \in 1..Len(x)
      BY <1>4, <3>1
    <3> QED BY <1>1, <1>5, <2>0, <2>1, <3>2, RequestRepeats
  <2>2. CASE ~Hit(x[n], v)
    <3>1. \A k \in 1..Len(x) : ~Hit(x[k], v)
      BY <2>0, <2>2
    <3>2. Repeats(v, s, e)' = Repeats(v, s, e)
      BY <1>5, <3>1, NoDiagnosis
    <3>3. UnderWay(v)' \subseteq UnderWay(v) /\ aNow' \in Nat /\ aNow' >= aNow /\ epoch' \in Nat
      BY <1>0, <1>1 DEF UnderWay, GuardInv
    <3> QED BY <1>1, <3>2, <3>3, WindowKept
  <2> QED BY <2>1, <2>2
<1>11. /\ cool' \in [Ops \X Targets -> Nat]
       /\ \A k \in Ops \X Targets : cool'[k] >= cool[k] /\ cool'[k] <= aNow + Cooldown[k[1]]
       /\ cool'[<<"close", t>>] = aNow + Cooldown["close"]
  BY <1>1, <1>2, Cooled
<1>12. \A k \in 1..Len(x) : Starts(x[k])
             => cool'[<<x[k].op, x[k].target>>] >= aNow + Cooldown[x[k].op]
  <2>1. aNow + Cooldown["close"] >= aNow + Cooldown["close"]
    BY <1>0, <1>2
  <2> QED BY <1>4, <1>11, <2>1
<1>13. ongoing' \in [Requests -> Batches]
  BY <1>1 DEF GuardInv, Batches
<1> QED BY <1>1, <1>5, <1>6, <1>7, <1>8, <1>9, <1>10, <1>11, <1>12, <1>13, RecordStep

-----------------------------------------------------------------------------

\* Every step of the guard keeps the invariant.
LEMMA GuardStep == ASSUME GuardsAreSet, GuardInv, [Guard!Next]_Guard!vars PROVE GuardInv'
BY TickKeeps, RestartKeeps, OperateKeeps, ChatDeniedKeeps, ChatGuardKeeps, ChatDoneKeeps, CloseGuardKeeps,
   CloseCriticalKeeps, RequestFailsKeeps
   DEF Guard!Next

\* Nothing has been recorded at the start.
LEMMA GuardStart == ASSUME GuardsAreSet, Guard!Init PROVE GuardInv
<1>0. \A o \in Ops : Cooldown[o] \in Nat
  BY DEF GuardsAreSet
<1>1. log = <<>> /\ log \in Seq(Entries) /\ DOMAIN log = {}
  BY DEF Guard!Init
<1>2. \A w, s, e : Repeats(w, s, e) = {}
  BY <1>1 DEF Repeats
<1>3. Unlogged = {} /\ \A s : Updates(s) = {}
  BY <1>1 DEF Unlogged, Updates
<1>4. \A S : S = {} => Cardinality(S) = 0
  BY FS_EmptySet
<1>5. /\ cool \in [Ops \X Targets -> Nat] /\ \A k \in Ops \X Targets : cool[k] <= aNow + Cooldown[k[1]]
  <2>1. \A k \in Ops \X Targets : k[1] \in Ops /\ cool[k] = 0 /\ aNow = 0
    BY DEF Guard!Init
  <2> QED BY <1>0, <2>1 DEF Guard!Init
<1>6. GuardClocks /\ ongoing \in [Requests -> Batches]
  BY DEF Guard!Init, GuardClocks, GuardsAreSet, Batches
<1>7. Guard!CooldownKept
  BY <1>1 DEF Guard!CooldownKept
<1>8. Cardinality(Unlogged) <= aFailures /\ \A s \in Nat : Cardinality(Updates(s)) <= MaxUpdates + 1 + aFailures
  <2>1. Cardinality(Unlogged) = 0 /\ \A s : Cardinality(Updates(s)) = 0
    BY <1>3, <1>4
  <2>2. aFailures = 0 /\ MaxUpdates \in Nat
    BY DEF Guard!Init, GuardsAreSet
  <2> QED BY <2>1, <2>2
<1>9. \A w \in Guard!Awaited, s \in Nat, e \in Nat : Windowed(w, s, e)
  BY <1>2 DEF Windowed
<1> QED BY <1>1, <1>5, <1>6, <1>7, <1>8, <1>9 DEF GuardInv

\* The properties follow from the invariant's windows.
LEMMA GuardHolds ==
  ASSUME GuardsAreSet, GuardInv
  PROVE  Guard!TypeOK /\ Guard!CooldownKept /\ Guard!RepeatsBounded /\ Guard!StampedeBounded
<1>1. Guard!TypeOK
  <2>1. aNow \in 0 .. AiTime /\ epoch \in 0 .. MaxRestarts /\ aFailures \in 0 .. AiFailures
    BY DEF GuardInv, GuardClocks, GuardsAreSet
  <2>2. ASSUME NEW k \in Ops \X Targets PROVE cool[k] \in 0 .. AiTime + Cooldown[k[1]]
    <3>1. /\ cool[k] \in Nat /\ cool[k] <= aNow + Cooldown[k[1]] /\ aNow \in Nat /\ aNow <= AiTime /\ AiTime \in Nat
          /\ Cooldown[k[1]] \in Nat
      <4>1. k[1] \in Ops
        OBVIOUS
      <4> QED BY <4>1 DEF GuardInv, GuardClocks, GuardsAreSet
    <3> QED BY <3>1
  <2>3. \A i \in DOMAIN log : log[i].op \in Ops /\ log[i].target \in Targets
    BY RowTypes DEF GuardInv
  <2>4. \A c \in Requests : ongoing[c] \subseteq Guard!Awaited
    BY DEF GuardInv, Batches
  <2> QED BY <2>1, <2>2, <2>3, <2>4 DEF Guard!TypeOK
<1>2. Guard!RepeatsBounded
  <2> SUFFICES ASSUME NEW w \in Guard!Awaited, NEW s \in 0 .. AiTime, NEW e \in 0 .. MaxRestarts
               PROVE  Cardinality(Repeats(w, s, e)) <= Slots(w)
    BY GuardCount DEF Guard!RepeatsBounded, Repeats, Slots
  <2>1. Windowed(w, s, e)
    BY DEF GuardInv
  <2>2. CASE Repeats(w, s, e) = {}
    <3>1. Cardinality(Repeats(w, s, e)) = 0
      BY <2>2, FS_EmptySet
    <3>2. Slots(w) \in Nat
      BY GuardCountable
    <3> QED BY <3>1, <3>2
  <2> QED BY <2>1, <2>2 DEF Windowed
<1>3. Guard!StampedeBounded
  <2>1. \A s \in 0 .. AiTime : Cardinality(Updates(s)) <= MaxUpdates + 1 + aFailures
    BY DEF GuardInv
  <2> QED BY <2>1, GuardCount DEF Guard!StampedeBounded, Updates
<1> QED BY <1>1, <1>2, <1>3 DEF GuardInv

-----------------------------------------------------------------------------
(* All the services. The other services leave a service's variables alone,  *)
(* so that each runs as if it were by itself.                               *)

\* Each service runs as its own specification says.
LEMMA EachRuns ==
  Spec => Sess!Spec /\ Login!Spec /\ Cmdb!Spec /\ Guard!Spec /\ Bridge!Spec /\ Status!Spec
<1> USE DEF SessNext, LoginNext, CmdbNext, GuardNext, BridgeNext, StatusNext, vars,
            sVars, lVars, cVars, aVars, mVars, uVars
<1>1. [Next]_vars => [Sess!Next]_Sess!vars
  BY DEF Next, Sess!vars
<1>2. [Next]_vars => [Login!Next]_Login!vars
  BY DEF Next, Login!vars
<1>3. [Next]_vars => [Cmdb!Next]_Cmdb!vars
  BY DEF Next, Cmdb!vars
<1>4. [Next]_vars => [Guard!Next]_Guard!vars
  BY DEF Next, Guard!vars
<1>5. [Next]_vars => [Bridge!Next]_Bridge!vars
  BY DEF Next, Bridge!vars, Bridge!mapVars, Bridge!storeVars
<1>6. [Next]_vars => [Status!Next]_Status!vars
  BY DEF Next, Status!vars
<1>7. Init => Sess!Init /\ Login!Init /\ Cmdb!Init /\ Guard!Init /\ Bridge!Init /\ Status!Init
  BY DEF Init
<1> QED BY <1>1, <1>2, <1>3, <1>4, <1>5, <1>6, <1>7, PTL
        DEF Spec, Sess!Spec, Login!Spec, Cmdb!Spec, Guard!Spec, Bridge!Spec, Status!Spec

\* The invariants of sessions and logins hold at all times.
LEMMA AccountsInv == Spec => []SessionInv /\ []LoginInv
<1>1. Sess!Init => SessionInv
  BY SessionStart, SettingsAssumption
<1>2. SessionInv /\ [Sess!Next]_Sess!vars => SessionInv'
  BY SessionStep, SettingsAssumption
<1>3. Login!Init => LoginInv
  BY LoginInit, SettingsAssumption
<1>4. LoginInv /\ [Login!Next]_Login!vars => LoginInv'
  BY LoginStep, SettingsAssumption
<1> QED BY <1>1, <1>2, <1>3, <1>4, EachRuns, PTL DEF Sess!Spec, Login!Spec

(* However many workers serve however many sessions: a session in use does  *)
(* not expire as idle, a refresh token is exchanged by each worker once at  *)
(* most and recovered a bounded number of times, and a lock is never more   *)
(* than the limit and the workers' guesses away.                            *)
THEOREM AccountsAlwaysHold == Spec => []AccountsHold
<1>1. SessionInv /\ LoginInv => AccountsHold
  BY SessionHolds, LoginHolds, SettingsAssumption DEF AccountsHold
<1> QED BY <1>1, AccountsInv, PTL

(* An approved proposal has its CIs whatever failed on the way, and the     *)
(* sweep audits what it revokes and its page shows, whoever else revokes.   *)
THEOREM ProposalsAlwaysHold == Spec => []ProposalsHold
<1>1. Cmdb!Init => SweepInv
  BY SweepStart
<1>2. SweepInv /\ [Cmdb!Next]_Cmdb!vars => SweepInv'
  BY SweepStep
<1>3. SweepInv => ProposalsHold
  BY SweepHolds DEF ProposalsHold
<1> QED BY <1>1, <1>2, <1>3, EachRuns, PTL DEF Cmdb!Spec

(* Whatever the limits and windows, and however often the backend restarts: *)
(* no operation is repeated within its cooldown in one life of the backend, *)
(* but for what is checked before an await and recorded after it, which the *)
(* requests under way bound, and no window of the log holds more updates    *)
(* than the limit and one besides those whose record failed.                *)
THEOREM GuardsAlwaysHold == Spec => []GuardsHold
<1>1. Guard!Init => GuardInv
  BY GuardStart, SettingsAssumption
<1>2. GuardInv /\ [Guard!Next]_Guard!vars => GuardInv'
  BY GuardStep, SettingsAssumption
<1>3. GuardInv => GuardsHold
  BY GuardHolds, SettingsAssumption DEF GuardsHold
<1> QED BY <1>1, <1>2, <1>3, EachRuns, PTL DEF Guard!Spec

(* For any number of subscribers and mapping requests: receipts are true,   *)
(* sources unambiguous, acknowledged messages stored; and a subscriber that *)
(* is up is reported as such, by a row that is not stale unless its writes  *)
(* were refused, when a dispatch leaves a heartbeat its time.               *)
THEOREM MqttAlwaysHolds == ASSUME HeartbeatsFit PROVE Spec => []MqttHolds
<1>1. Status!Init => Beating
  BY StatusInit
<1>2. Beating /\ [Status!Next]_Status!vars => Beating'
  BY StatusStep
<1>3. Beating => Status!TypeOK /\ Status!LiveIsReported /\ Status!ReportIsRecent
  BY StatusHolds
<1>4. Status!Spec => []Beating
  BY <1>1, <1>2, PTL DEF Status!Spec
<1>5. ReadingsAreSet
  BY SettingsAssumption
<1>6. Bridge!Spec => []Bridge!OneApproved /\ []Bridge!ReceiptsAreTrue /\ []Bridge!AckedIsRaw /\ []Bridge!TypeOK
  BY <1>5, SourcesAreUnambiguous, ReceiptsTellTheTruth, AcknowledgedIsStored, BridgeTypeCorrect, PTL
<1>7. /\ Bridge!TypeOK /\ Bridge!OneApproved /\ Bridge!ReceiptsAreTrue /\ Bridge!AckedIsRaw
      /\ Status!TypeOK /\ Status!LiveIsReported /\ Status!ReportIsRecent
      => MqttHolds
  BY DEF MqttHolds
<1> QED BY <1>3, <1>4, <1>6, <1>7, EachRuns, PTL

(* What is settled stays settled, with one subscriber loop at a time for    *)
(* the receipts.                                                            *)
THEOREM SettledStaysFinal == ASSUME OneSubscriber PROVE Spec => SettledIsFinal
<1>1. SessionInv /\ SessionInv' /\ [Sess!Next]_Sess!vars => Sess!DeadStaysDead
  BY EndStands, SettingsAssumption
<1>2. Spec => Sess!DeadIsFinal
  BY <1>1, AccountsInv, EachRuns, PTL DEF Sess!Spec, Sess!DeadIsFinal
<1>3. LoginInv /\ [Login!Next]_Login!vars => LockStands
  BY LockStep, SettingsAssumption
<1>4. [][LockStands]_Login!vars <=> Login!LockKeepsItsEnd
  BY DEF LockStands, Login!LockKeepsItsEnd
<1>5. Spec => Login!LockKeepsItsEnd
  BY <1>3, <1>4, AccountsInv, EachRuns, PTL DEF Login!Spec
<1>6. ReadingsAreSet
  BY SettingsAssumption
<1>7. Bridge!Spec => Bridge!CompleteIsFinal
  BY <1>6, CompleteReceiptsAreFinal
<1> QED BY <1>2, <1>5, <1>7, DecisionsStand, RevocationsStand, EachRuns, PTL DEF SettledIsFinal
=============================================================================
