------------------------ MODULE EventLifecycle_proofs ------------------------
(***************************************************************************)
(* Proofs about EventLifecycle for every set of events and writers.        *)
(***************************************************************************)
EXTENDS EventLifecycle, TLAPS

(* A run is inside its session only while it holds the lock.               *)
LockInv ==
  \A w \in Writers : pc[w] # "idle" => lock = w /\ kind[w] \in Kinds

(* A recovery sets RECOVERED what was closed since its match: where S has  *)
(* RECOVERED those events are not counted.                                 *)
Counted(S) == IF S = Unclosed THEN Events \ revived ELSE Events

(* At most one of the counted events has a status in S; and between its    *)
(* lookup and its write a run has that event in hand, or there is none, or *)
(* what it has in hand does not count.                                     *)
SoleInv(S) ==
  /\ \A d, e \in Counted(S) : status[d] \in S /\ status[e] \in S => d = e
  /\ \A w \in Writers : pc[w] = "write" /\ found[w] \in Counted(S) \cup {NoEvent} =>
       \A e \in Counted(S) : status[e] \in S => e = found[w]

USE DEF eventVars, pendingVars, runVars, Kinds, AckableStatuses

-----------------------------------------------------------------------------
LEMMA TypeStep == TypeOK /\ [Next]_vars => TypeOK'
<1> SUFFICES ASSUME TypeOK, [Next]_vars PROVE TypeOK'
  OBVIOUS
<1> USE DEF TypeOK, Statuses, Unclosed, Active
<1>1. ASSUME NEW w \in Writers, NEW k \in Kinds, AcquireLock(w, k) PROVE TypeOK'
  BY <1>1, KindAssumption DEF AcquireLock
<1>2. ASSUME NEW w \in Writers, MatchEvent(w) PROVE TypeOK'
  BY <1>2 DEF MatchEvent
<1>3. ASSUME NEW w \in Writers, BreachWrite(w) PROVE TypeOK'
  <2> USE DEF Writes
  <2>1. CASE CreateEvent(w)
    BY <2>1 DEF CreateEvent
  <2>2. CASE ReopenEvent(w)
    BY <2>2 DEF ReopenEvent
  <2>3. CASE RefreshEvent(w)
    <3>1. found[w] \in Events /\ (status[found[w]] = "ACK" /\ ack[found[w]]) \in BOOLEAN
      BY <2>3 DEF RefreshEvent
    <3> QED
      BY <2>3, <3>1 DEF RefreshEvent
  <2>4. CASE ReopenKeepingAck(w)
    BY <2>4 DEF ReopenKeepingAck
  <2> QED
    BY <1>3, <2>1, <2>2, <2>3, <2>4 DEF BreachWrite
<1>4. ASSUME NEW w \in Writers, ReleaseLock(w) PROVE TypeOK'
  BY <1>4 DEF ReleaseLock
<1>5. ASSUME NEW e \in Events, EventStep(e) PROVE TypeOK'
  BY <1>5 DEF EventStep, MatchRecovery, SetRecovered, AckEvent, CheckClose, CloseEvent, MatchPrune,
              ClosePruned
<1>6. CASE UNCHANGED vars
  BY <1>6 DEF vars
<1> QED
  BY <1>1, <1>2, <1>3, <1>4, <1>5, <1>6 DEF Next, WriterStep

(* Every variable keeps its type, whatever the collectors, the operators   *)
(* and the pruner do.                                                      *)
THEOREM EventsTypeCorrect == Spec => []TypeOK
<1>1. Init => TypeOK
  BY DEF Init, TypeOK, Statuses, Unclosed
<1> QED
  BY <1>1, TypeStep, PTL DEF Spec

-----------------------------------------------------------------------------
LEMMA LockStep == TypeOK /\ LockInv /\ [Next]_vars => LockInv'
<1> SUFFICES ASSUME TypeOK, LockInv, [Next]_vars PROVE LockInv'
  OBVIOUS
<1> USE DEF LockInv, TypeOK
<1>1. ASSUME NEW w \in Writers, NEW k \in Kinds, AcquireLock(w, k) PROVE LockInv'
  BY <1>1, NoneAssumption DEF AcquireLock
<1>2. ASSUME NEW w \in Writers, MatchEvent(w) PROVE LockInv'
  BY <1>2 DEF MatchEvent
<1>3. ASSUME NEW w \in Writers, BreachWrite(w) PROVE LockInv'
  BY <1>3 DEF BreachWrite, Writes, CreateEvent, ReopenEvent, RefreshEvent, ReopenKeepingAck
<1>4. ASSUME NEW w \in Writers, ReleaseLock(w) PROVE LockInv'
  BY <1>4 DEF ReleaseLock
<1>5. ASSUME NEW e \in Events, EventStep(e) PROVE LockInv'
  BY <1>5 DEF EventStep, MatchRecovery, SetRecovered, AckEvent, CheckClose, CloseEvent, MatchPrune,
              ClosePruned
<1>6. CASE UNCHANGED vars
  BY <1>6 DEF vars
<1> QED
  BY <1>1, <1>2, <1>3, <1>4, <1>5, <1>6 DEF Next, WriterStep

LEMMA LockAlways == Spec => [](TypeOK /\ LockInv)
<1>1. Init => LockInv
  BY DEF Init, LockInv
<1> QED
  BY <1>1, LockStep, EventsTypeCorrect, PTL DEF Spec

-----------------------------------------------------------------------------
(* The argument for at most one event with a status in S, where S is what  *)
(* every upsert recognises: a lookup under the lock finds that event, and  *)
(* only the holder of the lock creates or reopens one.                     *)
LEMMA SoleStep ==
  ASSUME NEW S, S = Active \/ S = Unclosed,
         \A k \in Kinds : Matched(k) = S,
         AckableStatuses \subseteq S,
         TypeOK, LockInv, SoleInv(S), [Next]_vars
  PROVE  SoleInv(S)'
<1> DEFINE C == Counted(S)
           Sole == /\ \A d, e \in C : status'[d] \in S /\ status'[e] \in S => d = e
                   /\ \A w \in Writers : pc'[w] = "write" /\ found'[w] \in C \cup {NoEvent} =>
                        \A e \in C : status'[e] \in S => e = found'[w]
<1> USE DEF TypeOK
<1>s. "OPEN" \in S /\ "ACK" \in S /\ "absent" \notin S /\ "CLOSED" \notin S
  BY DEF Active, Unclosed
<1>c. C \subseteq Events
  BY DEF Counted
<1>i. /\ \A d, e \in C : status[d] \in S /\ status[e] \in S => d = e
      /\ \A w \in Writers : pc[w] = "write" /\ found[w] \in C \cup {NoEvent} =>
           \A e \in C : status[e] \in S => e = found[w]
  BY DEF SoleInv
<1>h. \A v, w \in Writers : pc[v] # "idle" /\ pc[w] # "idle" => v = w
  BY DEF LockInv
<1>k. \A w \in Writers : pc[w] = "match" => Matched(kind[w]) = S
  BY DEF LockInv
<1>t. SoleInv(S)' <=> /\ \A d, e \in Counted(S)' : status'[d] \in S /\ status'[e] \in S => d = e
                      /\ \A w \in Writers : pc'[w] = "write" /\ found'[w] \in Counted(S)' \cup {NoEvent} =>
                           \A e \in Counted(S)' : status'[e] \in S => e = found'[w]
  BY DEF SoleInv
<1>g. ASSUME Sole, revived \subseteq revived' PROVE SoleInv(S)'
  <2>1. Counted(S)' \subseteq C
    BY <1>g DEF Counted
  <2> QED
    BY <1>g, <1>t, <2>1
<1>5. ASSUME revived \subseteq revived', UNCHANGED <<pc, found>>,
             \A e \in Counted(S)' : status'[e] \in S => status[e] \in S
      PROVE SoleInv(S)'
  <2>1. Counted(S)' \subseteq C
    BY <1>5 DEF Counted
  <2> QED
    BY <1>5, <1>i, <1>t, <2>1
<1> HIDE DEF C
<1>1. ASSUME NEW w \in Writers, NEW k \in Kinds, AcquireLock(w, k) PROVE SoleInv(S)'
  <2>1. Sole
    BY <1>1, <1>i DEF AcquireLock
  <2> QED
    BY <1>1, <1>g, <2>1 DEF AcquireLock
<1>2. ASSUME NEW w \in Writers, MatchEvent(w) PROVE SoleInv(S)'
  <2>1. UNCHANGED <<status, revived>>
    BY <1>2 DEF MatchEvent
  <2>2. \A v \in Writers \ {w} : pc'[v] = pc[v] /\ found'[v] = found[v]
    BY <1>2 DEF MatchEvent
  <2>3. found'[w] = NoEvent => \A e \in Events : status[e] \notin S
    BY <1>2, <1>k, NoneAssumption DEF MatchEvent
  <2>4. found'[w] # NoEvent => status[found'[w]] \in S
    BY <1>2, <1>k DEF MatchEvent
  <2>5. ASSUME found'[w] \in C \cup {NoEvent}, NEW e \in C, status[e] \in S
        PROVE  e = found'[w]
    BY <1>c, <1>i, <2>3, <2>4, <2>5
  <2> QED
    BY <1>g, <1>i, <2>1, <2>2, <2>5
<1>3. ASSUME NEW w \in Writers, BreachWrite(w) PROVE SoleInv(S)'
  <2>1. /\ pc[w] = "write" /\ pc' = [pc EXCEPT ![w] = "held"]
        /\ UNCHANGED <<found, revived>>
    BY <1>3 DEF BreachWrite, Writes, CreateEvent, ReopenEvent, RefreshEvent, ReopenKeepingAck
  <2>2. \A v \in Writers : pc'[v] # "write"
    BY <1>h, <2>1
  <2>3. SUFFICES \A d, e \in C : status'[d] \in S /\ status'[e] \in S => d = e
    BY <1>g, <2>1, <2>2
  <2>4. CASE CreateEvent(w)
    <3>1. \A e \in C : status[e] \notin S
      BY <1>c, <1>i, <2>1, <2>4, NoneAssumption DEF CreateEvent
    <3> QED
      BY <1>c, <2>4, <3>1 DEF CreateEvent
  <2>5. CASE ReopenEvent(w) \/ ReopenKeepingAck(w)
    <3>1. status' = [status EXCEPT ![found[w]] = "OPEN"]
      BY <2>5 DEF ReopenEvent, ReopenKeepingAck
    <3>2. CASE found[w] \in C
      <4>1. \A e \in C : status'[e] \in S => e = found[w]
        BY <1>c, <1>i, <2>1, <3>1, <3>2
      <4> QED
        BY <4>1
    <3>3. CASE found[w] \notin C
      BY <1>c, <1>i, <3>1, <3>3
    <3> QED
      BY <3>2, <3>3
  <2>6. CASE RefreshEvent(w)
    BY <1>i, <2>6 DEF RefreshEvent
  <2> QED
    BY <1>3, <2>4, <2>5, <2>6 DEF BreachWrite
<1>4. ASSUME NEW w \in Writers, ReleaseLock(w) PROVE SoleInv(S)'
  <2>1. Sole
    BY <1>4, <1>i DEF ReleaseLock
  <2> QED
    BY <1>4, <1>g, <2>1 DEF ReleaseLock
<1>6. ASSUME NEW e \in Events, SetRecovered(e) PROVE SoleInv(S)'
  <2>1. revived \subseteq revived' /\ UNCHANGED <<pc, found>>
    BY <1>6 DEF SetRecovered
  <2>2. ASSUME NEW d \in Counted(S)', status'[d] \in S PROVE status[d] \in S
    <3>1. d \in Events /\ (S = Unclosed => d \notin revived')
      BY <2>2 DEF Counted
    <3>2. CASE d # e
      BY <1>6, <2>2, <3>1, <3>2 DEF SetRecovered
    <3>3. CASE d = e
      <4>1. status'[e] = "RECOVERED"
        BY <1>6 DEF SetRecovered
      <4>2. S = Unclosed
        BY <2>2, <3>3, <4>1 DEF Active
      <4> QED
        BY <1>6, <3>1, <3>3, <4>2 DEF SetRecovered
    <3> QED
      BY <3>2, <3>3
  <2> QED
    BY <1>5, <2>1, <2>2
<1>7. ASSUME NEW e \in Events, EventStep(e), ~SetRecovered(e) PROVE SoleInv(S)'
  <2>1. \A d \in Events : status'[d] \in S => status[d] \in S
    BY <1>s, <1>7 DEF EventStep, MatchRecovery, AckEvent, CheckClose, CloseEvent, MatchPrune, ClosePruned
  <2>2. UNCHANGED <<pc, found, revived>>
    BY <1>7 DEF EventStep, MatchRecovery, AckEvent, CheckClose, CloseEvent, MatchPrune, ClosePruned
  <2>3. Counted(S)' \subseteq Events
    BY DEF Counted
  <2> QED
    BY <1>5, <2>1, <2>2, <2>3
<1>8. CASE UNCHANGED vars
  BY <1>5, <1>8 DEF vars
<1> QED
  BY <1>1, <1>2, <1>3, <1>4, <1>6, <1>7, <1>8 DEF Next, WriterStep

LEMMA SoleInit == Init => SoleInv(Active) /\ SoleInv(Unclosed)
BY DEF Init, SoleInv, Counted, Active, Unclosed

(* The type of a triplet never changes, nor what depends on it alone.      *)
LEMMA TypeStays == [Next]_vars => type' = type
BY DEF Next, WriterStep, AcquireLock, MatchEvent, BreachWrite, Writes, CreateEvent, ReopenEvent,
       RefreshEvent, ReopenKeepingAck, ReleaseLock, EventStep, MatchRecovery, SetRecovered, AckEvent,
       CheckClose, CloseEvent, MatchPrune, ClosePruned, vars

(* Where the polling result writers alone write, and operators acknowledge *)
(* active events only; and where the engine and the legacy service alone   *)
(* write, and no closed event is acknowledged.                             *)
OnlyBatch == Kinds \subseteq BatchKinds /\ AckableStatuses \subseteq Active
OnlyReusing == Kinds \cap BatchKinds = {} /\ AckableStatuses \subseteq Unclosed

(* A triplet of the first sort has at most one active event.               *)
THEOREM BatchWritersKeepOneActive == Spec => []OneActiveEvent
<1> DEFINE BatchInv == OnlyBatch => SoleInv(Active)
<1>1. Init => BatchInv
  BY SoleInit
<1>2. ASSUME TypeOK, LockInv, BatchInv, [Next]_vars PROVE BatchInv'
  <2>1. SUFFICES ASSUME OnlyBatch' PROVE SoleInv(Active)'
    OBVIOUS
  <2>2. OnlyBatch
    BY <1>2, <2>1, TypeStays DEF OnlyBatch
  <2>3. \A k \in Kinds : Matched(k) = Active
    BY <2>2 DEF OnlyBatch, Matched
  <2> QED
    BY <1>2, <2>2, <2>3, SoleStep DEF OnlyBatch
<1>3. BatchInv => OneActiveEvent
  BY DEF OnlyBatch, SoleInv, Counted, OneActiveEvent, Active, Unclosed
<1> HIDE DEF BatchInv
<1> QED
  BY <1>1, <1>2, <1>3, LockAlways, PTL DEF Spec

(* A triplet of the second sort has at most one event that is not closed,  *)
(* but for those that a recovery set after they had been closed.           *)
THEOREM ReusingWritersKeepOneLifecycle == Spec => []OneLifecycle
<1> DEFINE ReusingInv == OnlyReusing => SoleInv(Unclosed)
<1>1. Init => ReusingInv
  BY SoleInit
<1>2. ASSUME TypeOK, LockInv, ReusingInv, [Next]_vars PROVE ReusingInv'
  <2>1. SUFFICES ASSUME OnlyReusing' PROVE SoleInv(Unclosed)'
    OBVIOUS
  <2>2. OnlyReusing
    BY <1>2, <2>1, TypeStays DEF OnlyReusing
  <2>3. \A k \in Kinds : Matched(k) = Unclosed
    BY <2>2 DEF OnlyReusing, Matched
  <2> QED
    BY <1>2, <2>2, <2>3, SoleStep DEF OnlyReusing
<1>3. ReusingInv => OneLifecycle
  BY DEF OnlyReusing, SoleInv, Counted, OneLifecycle
<1> HIDE DEF ReusingInv
<1> QED
  BY <1>1, <1>2, <1>3, LockAlways, PTL DEF Spec

=============================================================================
