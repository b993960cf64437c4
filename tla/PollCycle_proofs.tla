---------------------------- MODULE PollCycle_proofs ----------------------------
(***************************************************************************)
(* Proofs about PollCycle, for any CIs and relations between them: the     *)
(* debounce, the order of insert and publication, and the events along the *)
(* topology.                                                               *)
(***************************************************************************)
EXTENDS PollCycle, TLAPS

(* The constants: what is polled how, and the bounds.                       *)
Topology ==
  /\ Snmp \subseteq CIs /\ Jittery \subseteq CIs
  /\ Debounce \in Nat \ {0}
  /\ AckableStatuses \subseteq {"OPEN", "ACK"}
  /\ MaxFlips \in Nat /\ MaxFailures \in Nat /\ MaxClosings \in Nat /\ MaxRestarts \in Nat

EventStatuses == {"none", "OPEN", "ACK", "RECOVERED", "CLOSED"}
Events == [number : Nat, status : EventStatuses, affected : SUBSET CIs]

(* Every variable keeps its type, and candidates are among what fails.      *)
Shapes ==
  /\ fails \in [Icmp -> 0 .. Debounce] /\ streak \in [Icmp -> 0 .. Debounce]
  /\ shown \in [Keys -> {"none", "ok", "fail"}] /\ stored \in [Keys -> {"none", "ok", "fail"}]
  /\ obs \in [Keys -> {"none", "ok", "fail"}]
  /\ root \in [Keys -> Events]
  /\ cache \in [Keys -> {NoParent} \union (Keys \X Nat)]
  /\ children \subseteq [key : Keys, from : Keys \X Nat, status : {"OPEN", "RECOVERED"}]
  /\ cands \subseteq Failing /\ (pc \in {"idle", "polled"} => cands = {})
  /\ \A k \in Failing : k[2] = "main"
  /\ pc \in {"idle", "polled", "pass2a", "insert", "publish", "pass2b", "recover", "rebuild", "pass3"}

(* Events are numbered one by one: a new one needs that the last is closed. *)
Numbers ==
  /\ closings \in 0 .. MaxClosings
  /\ \A k \in Keys :
       /\ root[k].number <= closings + 1
       /\ root[k].status = "CLOSED" => root[k].number <= closings
       /\ root[k].status = "none" => root[k].number = 0

(* The engine never counts more failures than there were in a row.          *)
Debounced == \A c \in Icmp : fails[c] <= streak[c] /\ (obs[Main(c)] = "fail" => streak[c] >= Debounce)

(* The insert comes before the publication of the same samples.             *)
InsertedFirst == pc = "publish" => \A k \in Sampled : stored[k] = obs[k]

(* A candidate has no active and no failing metric upstream until the pass  *)
(* that writes it, nor has a failing metric without parent an active one in  *)
(* the last pass, unless a query for parents failed.                        *)
Up(q, k) == q[1] \in Upstream(k[1])
Quiet ==
  /\ pc \in {"pass2a", "insert", "publish", "pass2b"} /\ ~blind =>
       \A k \in cands, q \in Keys : Up(q, k) => ~Active(q) /\ q \notin Failing
  /\ pc = "pass3" /\ ~blind =>
       \A k \in Failing, q \in Keys : cache[k] = NoParent /\ Up(q, k) => ~Active(q)

(* Neither an open child nor, in the last pass, the cache hangs on an event  *)
(* that is over.                                                            *)
Over(f) == root[f[1]].number = f[2] /\ root[f[1]].status = "RECOVERED"
Followed ==
  /\ \A ch \in children : ch.status = "OPEN" => ~Over(ch.from)
  /\ pc = "pass3" => \A k \in Keys : cache[k] # NoParent => ~Over(cache[k])

CycleInv == Shapes /\ Numbers /\ Debounced /\ InsertedFirst /\ Quiet /\ Followed

-----------------------------------------------------------------------------
LEMMA KeysAreMetrics ==
  ASSUME Topology
  PROVE  /\ \A k \in Keys : k[1] \in CIs /\ k[2] \in {"main", "jitter"}
         /\ \A c \in CIs : Main(c) \in Keys /\ Main(c)[1] = c /\ Main(c)[2] = "main"
         /\ \A k \in Keys : k[2] = "main" => k = Main(k[1])
         /\ \A c \in Jittery : Jitter(c) \in Keys /\ Jitter(c)[2] = "jitter"
         /\ \A k \in Keys : k # NoParent
         /\ Icmp \subseteq CIs
BY DEF Topology, Keys, Main, Jitter, Icmp, NoParent

LEMMA CapOfCount ==
  ASSUME Topology, NEW n \in 0 .. Debounce
  PROVE  /\ Min({n + 1, Debounce}) \in 0 .. Debounce
         /\ Min({n + 1, Debounce}) = IF n + 1 <= Debounce THEN n + 1 ELSE Debounce
<1> DEFINE m == IF n + 1 <= Debounce THEN n + 1 ELSE Debounce
<1> Debounce \in Nat
  BY DEF Topology
<1>1. m \in {n + 1, Debounce} /\ \A y \in {n + 1, Debounce} : m =< y
  OBVIOUS
<1>2. \A x \in {n + 1, Debounce} : (\A y \in {n + 1, Debounce} : x =< y) => x = m
  OBVIOUS
<1>3. Min({n + 1, Debounce}) = m
  BY <1>1, <1>2 DEF Min
<1> QED BY <1>3

LEMMA RewrittenEvent ==
  ASSUME NEW r \in Events
  PROVE  /\ \A st \in EventStatuses : /\ [r EXCEPT !.status = st] \in Events
                                      /\ [r EXCEPT !.status = st].status = st
                                      /\ [r EXCEPT !.status = st].number = r.number
                                      /\ [r EXCEPT !.status = st].affected = r.affected
         /\ \A A \in SUBSET CIs : /\ [r EXCEPT !.affected = @ \union A] \in Events
                                 /\ [r EXCEPT !.affected = @ \union A].status = r.status
                                 /\ [r EXCEPT !.affected = @ \union A].number = r.number
                                 /\ [r EXCEPT !.affected = @ \union A].affected = r.affected \union A
BY DEF Events

(* What a cache of open parents holds.                                      *)
LEMMA CacheOfParents ==
  ASSUME Topology, Shapes, NEW f \in Caches
  PROVE  /\ f \in [Keys -> {NoParent} \union (Keys \X Nat)]
         /\ \A k \in Keys : f[k] # NoParent => ~Over(f[k])
         /\ \A k \in Failing, q \in Keys : f[k] = NoParent /\ Up(q, k) => ~Active(q)
<1>1. \A k \in Keys : \A e \in ParentEvents(k) :
        e \in Keys \X Nat /\ ~Over(e) /\ e # NoParent
  BY DEF ParentEvents, Shapes, Events, Over, Active, NoParent
<1>2. /\ f \in [Keys -> {NoParent} \union UNION {ParentEvents(k) : k \in Failing}]
      /\ \A k \in Keys : IF k \in Failing /\ ParentEvents(k) # {}
                         THEN f[k] \in ParentEvents(k) ELSE f[k] = NoParent
  BY DEF Caches
<1>3. Failing \subseteq Keys
  BY DEF Failing
<1>4. \A k \in Keys : f[k] \in {NoParent} \union (Keys \X Nat) /\ (f[k] # NoParent => ~Over(f[k]))
  BY <1>1, <1>2, <1>3
<1>5. f \in [Keys -> {NoParent} \union (Keys \X Nat)]
  BY <1>2, <1>4
<1>6. \A k \in Failing, q \in Keys : f[k] = NoParent /\ Up(q, k) => ~Active(q)
  <2> SUFFICES ASSUME NEW k \in Failing, NEW q \in Keys, f[k] = NoParent, Up(q, k), Active(q)
               PROVE  FALSE
    OBVIOUS
  <2>1. <<q, root[q].number>> \in ParentEvents(k)
    BY DEF ParentEvents, Up
  <2> QED BY <1>1, <1>2, <1>3, <2>1
<1> QED BY <1>4, <1>5, <1>6

(* The upsert leaves no event that is over where it found none.              *)
LEMMA UpsertedEvent ==
  ASSUME Topology, Shapes, Numbers, NEW k \in Keys
  PROVE  /\ Upserted(k) \in Events
         /\ Upserted(k).number <= closings + 1
         /\ Upserted(k).status \notin {"CLOSED", "none"}
         /\ Upserted(k).status = "RECOVERED" => Upserted(k) = root[k]
         /\ Upserted(k).number = root[k].number => Upserted(k).affected = root[k].affected
         /\ Upserted(k).number # root[k].number => Upserted(k).status = "OPEN"
         /\ Upserted(k).number = root[k].number /\ root[k].status # "RECOVERED" => Upserted(k).status # "RECOVERED"
<1> DEFINE r == root[k]
<1>1. /\ r \in Events
      /\ r.number <= closings + 1 /\ (r.status \in {"CLOSED", "none"} => r.number <= closings)
      /\ closings \in Nat
  BY DEF Shapes, Numbers
<1>2. CASE r.status \in {"none", "CLOSED"}
  <2>1. Upserted(k) = [number |-> r.number + 1, status |-> "OPEN", affected |-> {}]
    BY <1>2 DEF Upserted
  <2> QED BY <1>1, <1>2, <2>1 DEF EventStatuses, Events
<1>3. CASE r.status \notin {"none", "CLOSED"} /\ k[2] = "jitter"
  <2>1. Upserted(k) = r
    BY <1>3 DEF Upserted
  <2> QED BY <1>1, <1>3, <2>1 DEF EventStatuses, Events
<1>4. CASE r.status \notin {"none", "CLOSED"} /\ k[2] # "jitter"
  <2>1. Upserted(k) = [r EXCEPT !.status = "OPEN"]
    BY <1>4 DEF Upserted
  <2> QED BY <1>1, <1>4, <2>1 DEF EventStatuses, Events
<1> QED BY <1>2, <1>3, <1>4

LEMMA EndCycleShapes ==
  ASSUME Topology, EndCycle
  PROVE  /\ obs' \in [Keys -> {"none", "ok", "fail"}] /\ cache' \in [Keys -> {NoParent} \union (Keys \X Nat)]
         /\ Failing' = {} /\ cands' = {} /\ pc' = "idle"
         /\ \A c \in Icmp : obs'[Main(c)] # "fail"
BY KeysAreMetrics DEF EndCycle, Failing

LEMMA PollOutcome ==
  ASSUME Topology, Shapes, NEW due \in SUBSET Keys, Poll(due)
  PROVE  /\ obs' \in [Keys -> {"none", "ok", "fail"}]
         /\ \A k \in Keys : obs'[k] = "fail" => k[2] = "main"
         /\ \A c \in Icmp : obs'[Main(c)] = "fail" => Pinged(c, due) /\ Counted(c) >= Debounce /\ ~up[c]
<1>1. \A k \in Keys : obs'[k] = Outcome(k, due)
  BY DEF Poll
<1>2. \A k \in Keys : Outcome(k, due) \in {"none", "ok", "fail"} /\ (Outcome(k, due) = "fail" => k[2] = "main")
  <2> SUFFICES ASSUME NEW k \in Keys
               PROVE Outcome(k, due) \in {"none", "ok", "fail"} /\ (Outcome(k, due) = "fail" => k[2] = "main")
    OBVIOUS
  <2> QED BY DEF Outcome
<1>3. obs' \in [Keys -> {"none", "ok", "fail"}]
  BY <1>1, <1>2 DEF Poll
<1>4. ASSUME NEW c \in Icmp, Outcome(Main(c), due) = "fail"
      PROVE  Pinged(c, due) /\ Counted(c) >= Debounce /\ ~up[c]
  <2>1. Main(c)[1] = c /\ Main(c)[2] = "main" /\ c \notin Snmp
    BY KeysAreMetrics DEF Icmp
  <2>2. Main(c) \in due /\ ~up[c] /\ Counted(c) >= Debounce
    BY <1>4, <2>1 DEF Outcome
  <2> QED BY <2>2 DEF Pinged
<1> QED BY <1>1, <1>2, <1>3, <1>4, KeysAreMetrics

(* The parts of the state that the steps between two polls leave alone.     *)
LEMMA WorldSteps ==
  ASSUME Topology, Shapes, Numbers
  PROVE  /\ \A c \in CIs : Flip(c) => UNCHANGED <<data, pc, cycle, closings>>
         /\ \A k \in Keys : AckEvent(k) =>
              /\ UNCHANGED <<fails, streak, shown, stored, children, pc, cycle, closings>>
              /\ root[k].status \in {"OPEN", "ACK"}
              /\ root' = [root EXCEPT ![k].status = "ACK"]
         /\ \A k \in Keys : CloseEvent(k) =>
              /\ UNCHANGED <<fails, streak, shown, stored, children, pc, cycle>>
              /\ root' = [root EXCEPT ![k].status = "CLOSED"]
              /\ closings' = closings + 1 /\ closings < MaxClosings
              /\ root[k].status \in {"OPEN", "ACK", "RECOVERED"}
BY DEF Flip, AckEvent, CloseEvent, data, cycle, bounds, Topology

LEMMA FailingIsOfObs == ASSUME obs' = obs PROVE Failing' = Failing /\ Sampled' = Sampled
BY DEF Failing, Sampled

(* What a pass does to the events.                                          *)
LEMMA PassStep ==
  ASSUME Topology, Shapes, Numbers, Pass2a \/ Pass2b
  PROVE  /\ UNCHANGED <<fails, streak, shown, stored, children, cycle, closings>>
         /\ (pc = "pass2a" /\ pc' = "insert") \/ (pc = "pass2b" /\ pc' = "recover")
         /\ root' \in [Keys -> Events]
         /\ \A k \in Keys : root'[k] = root[k] \/ (k \in cands /\ root'[k] = Upserted(k))
<1>1. PICK K \in {{k \in cands : k[1] \in Snmp}, {k \in cands : k[1] \in Icmp}} :
        \/ Materialize("pass2a", "insert", K)
        \/ Materialize("pass2b", "recover", K)
  BY DEF Pass2a, Pass2b
<1>2. K \subseteq cands
  OBVIOUS
<1>3. /\ UNCHANGED <<fails, streak, shown, stored, children, cycle, closings>>
      /\ (pc = "pass2a" /\ pc' = "insert") \/ (pc = "pass2b" /\ pc' = "recover")
      /\ root' = Upsert(K) \/ root' = root
  BY <1>1 DEF Materialize
<1>4. \A k \in Keys : Upsert(K)[k] = root[k] \/ (k \in cands /\ Upsert(K)[k] = Upserted(k))
  BY <1>2 DEF Upsert
<1>5. Upsert(K) \in [Keys -> Events]
  BY <1>4, UpsertedEvent DEF Upsert, Shapes
<1> QED BY <1>3, <1>4, <1>5 DEF Shapes

LEMMA RecoverStep ==
  ASSUME Topology, Shapes, Numbers, Recover
  PROVE  /\ UNCHANGED <<fails, streak, shown, stored, cycle, closings>> /\ pc = "recover" /\ pc' = "rebuild"
         /\ root' \in [Keys -> Events]
         /\ \A k \in Keys : \/ root'[k] = root[k] /\ k \notin Answered
                            \/ root'[k] = [root[k] EXCEPT !.status = "RECOVERED"] /\ k \in Answered
         /\ \A ch \in children' : \E old \in children :
              ch = IF old.from[1] \in Answered THEN Recovered(old.from[1], old) ELSE old
<1>1. Answered \subseteq Keys
  BY DEF Answered
<1>2. \A k \in Keys : root'[k] = IF k \in Answered THEN [root[k] EXCEPT !.status = "RECOVERED"] ELSE root[k]
  BY DEF Recover
<1>3. root' \in [Keys -> Events]
  <2>1. ASSUME NEW k \in Keys PROVE root'[k] \in Events
    <3> root[k] \in Events /\ "RECOVERED" \in EventStatuses
      BY DEF Shapes, EventStatuses
    <3>1. [root[k] EXCEPT !.status = "RECOVERED"] \in Events
      BY RewrittenEvent
    <3> QED BY <1>2, <3>1
  <2> QED BY <2>1 DEF Recover
<1> QED BY <1>2, <1>3, Zenon DEF Recover, bounds

LEMMA Pass3Step ==
  ASSUME Topology, Shapes, Numbers, Pass3
  PROVE  /\ UNCHANGED <<fails, streak, shown, stored, closings>> /\ pc = "pass3" /\ EndCycle
         /\ root' \in [Keys -> Events]
         /\ \A k \in Keys :
              \E r \in {root[k], Upserted(k)} :
                 /\ root'[k] = [r EXCEPT !.affected = @ \union Attached(k)]
                 /\ r # root[k] => k \in ((Failing \ cands) \ Dependents) \union Synthetic
         /\ \A ch \in children' : ch \in children \/ ch \in Degraded
         /\ \A k \in Keys : Attached(k) \subseteq CIs
<1>0. \A k \in Keys : Attached(k) \subseteq CIs
  BY KeysAreMetrics DEF Attached, Dependents, Failing
<1> DEFINE chosen(k) == IF k \in ((Failing \ cands) \ Dependents) \union Synthetic
                        THEN Upserted(k) ELSE root[k]
<1>1. \A k \in Keys : root'[k] = [chosen(k) EXCEPT !.affected = @ \union Attached(k)]
  BY DEF Pass3
<1>2. \A k \in Keys : chosen(k) \in Events
  BY UpsertedEvent DEF Shapes
<1>3. root' \in [Keys -> Events]
  <2>1. \A k \in Keys : root'[k] \in Events
    <3> SUFFICES ASSUME NEW k \in Keys
                 PROVE root'[k] \in Events
      OBVIOUS
    <3>1. PICK r \in Events : r = chosen(k)
      BY <1>2
    <3>2. [r EXCEPT !.affected = @ \union Attached(k)] \in Events
      BY <1>0, RewrittenEvent
    <3>3. root'[k] = [r EXCEPT !.affected = @ \union Attached(k)]
      BY <1>1, <3>1
    <3> QED BY <3>2, <3>3
  <2> QED BY <2>1 DEF Pass3
<1>4. \A k \in Keys :
         \E r \in {root[k], Upserted(k)} :
            /\ root'[k] = [r EXCEPT !.affected = @ \union Attached(k)]
            /\ r # root[k] => k \in ((Failing \ cands) \ Dependents) \union Synthetic
  BY <1>1
<1> QED BY <1>0, <1>3, <1>4 DEF Pass3, bounds

(* A child written in the last pass hangs on what the cache gave its metric. *)
LEMMA DegradedChild ==
  ASSUME Topology, Shapes, NEW ch \in Degraded
  PROVE  \E k \in Keys : /\ k \in Failing /\ cache[k] # NoParent
                         /\ ch = [key |-> k, from |-> cache[k], status |-> "OPEN"]
                         /\ cache[k] \in Keys \X Nat
BY DEF Degraded, Dependents, Failing, Shapes

LEMMA ShapesStep ==
  ASSUME Topology, Shapes, Numbers, [Next]_vars
  PROVE  Shapes'
<1>0. Debounce \in Nat \ {0}
  BY DEF Topology
<1>1. ASSUME UNCHANGED <<data, pc, cycle>> PROVE Shapes'
  BY <1>1, FailingIsOfObs DEF data, cycle, Shapes
<1>2. ASSUME EndCycle, UNCHANGED <<streak, shown, stored, children>>,
             fails' \in [Icmp -> 0 .. Debounce], root' \in [Keys -> Events]
      PROVE Shapes'
  BY <1>2, EndCycleShapes DEF Shapes
<1>3. CASE UNCHANGED vars
  BY <1>1, <1>3 DEF vars, data, cycle
<1>4. CASE BuildCache
  <2>1. cache' \in [Keys -> {NoParent} \union (Keys \X Nat)]
    <3>1. CASE cache' \in Caches
      BY <3>1, CacheOfParents
    <3> QED BY <1>4, <3>1 DEF BuildCache
  <2>2. cands' \subseteq Failing
    BY <1>4 DEF BuildCache, CycleRootCandidates
  <2>3. /\ UNCHANGED <<fails, streak, shown, stored, root, children, obs>>
        /\ pc' = "pass2a" /\ Failing' = Failing
    BY <1>4 DEF BuildCache, data, Failing
  <2> QED BY <2>1, <2>2, <2>3 DEF Shapes
<1>5. CASE Pass2a \/ Pass2b
  <2>1. /\ UNCHANGED <<fails, streak, shown, stored, children, cycle>>
        /\ root' \in [Keys -> Events] /\ pc' \in {"insert", "recover"}
    BY <1>5, PassStep
  <2> QED BY <2>1, FailingIsOfObs DEF Shapes, cycle
<1>6. CASE Insert
  <2>1. UNCHANGED <<fails, streak, shown, root, children, cycle>> /\ pc' = "publish"
    BY <1>6 DEF Insert
  <2>2. stored' \in [Keys -> {"none", "ok", "fail"}]
    BY <1>6 DEF Insert, Shapes
  <2> QED BY <2>1, <2>2, FailingIsOfObs DEF Shapes, cycle
<1>7. CASE InsertFails
  <2> UNCHANGED data /\ EndCycle
    BY <1>7 DEF InsertFails
  <2> QED BY <1>2 DEF data, Shapes
<1>8. CASE Publish
  <2>1. UNCHANGED <<streak, stored, root, children, cycle>> /\ pc' = "pass2b"
    BY <1>8 DEF Publish
  <2>2. shown' \in [Keys -> {"none", "ok", "fail"}] /\ fails' \in [Icmp -> 0 .. Debounce]
    BY <1>0, <1>8 DEF Publish, Shapes
  <2> QED BY <2>1, <2>2, FailingIsOfObs DEF Shapes, cycle
<1>9. CASE SnmpRecoveryRefused \/ Abort
  <2> UNCHANGED data /\ EndCycle
    BY <1>9 DEF SnmpRecoveryRefused, Abort
  <2> QED BY <1>2 DEF data, Shapes
<1>10. CASE Recover
  <2>1. children' \subseteq [key : Keys, from : Keys \X Nat, status : {"OPEN", "RECOVERED"}]
    <3> SUFFICES ASSUME NEW ch \in children'
                 PROVE  ch \in [key : Keys, from : Keys \X Nat, status : {"OPEN", "RECOVERED"}]
      OBVIOUS
    <3>1. PICK old \in children :
            ch = IF old.from[1] \in Answered THEN Recovered(old.from[1], old) ELSE old
      BY <1>10, RecoverStep
    <3>2. old \in [key : Keys, from : Keys \X Nat, status : {"OPEN", "RECOVERED"}]
      BY DEF Shapes
    <3>3. [old EXCEPT !.status = "RECOVERED"] \in [key : Keys, from : Keys \X Nat, status : {"OPEN", "RECOVERED"}]
      BY <3>2
    <3> QED BY <3>1, <3>2, <3>3 DEF Recovered
  <2>2. UNCHANGED <<fails, streak, shown, stored, cycle>> /\ root' \in [Keys -> Events] /\ pc' = "rebuild"
    BY <1>10, RecoverStep
  <2> QED BY <2>1, <2>2, FailingIsOfObs DEF Shapes, cycle
<1>11. CASE Rebuild
  <2>1. cache' \in [Keys -> {NoParent} \union (Keys \X Nat)]
    <3>1. CASE cache' \in Caches
      BY <3>1, CacheOfParents
    <3> QED BY <1>11, <3>1 DEF Rebuild
  <2>2. UNCHANGED <<data, obs, cands>> /\ pc' = "pass3"
    BY <1>11 DEF Rebuild
  <2> QED BY <2>1, <2>2, FailingIsOfObs DEF Shapes, data
<1>12. CASE Pass3
  <2>1. children' \subseteq [key : Keys, from : Keys \X Nat, status : {"OPEN", "RECOVERED"}]
    <3> SUFFICES ASSUME NEW ch \in children'
                 PROVE  ch \in [key : Keys, from : Keys \X Nat, status : {"OPEN", "RECOVERED"}]
      OBVIOUS
    <3> QED BY <1>12, Pass3Step, DegradedChild DEF Shapes
  <2>2. UNCHANGED <<fails, streak, shown, stored>> /\ EndCycle /\ root' \in [Keys -> Events]
    BY <1>12, Pass3Step
  <2> QED BY <2>1, <2>2, EndCycleShapes DEF Shapes
<1>13. CASE Restart
  <2>1. UNCHANGED <<streak, shown, stored, root, children>> /\ EndCycle /\ fails' = [c \in Icmp |-> 0]
    BY <1>13 DEF Restart
  <2>2. fails' \in [Icmp -> 0 .. Debounce]
    BY <1>0, <2>1
  <2> QED BY <1>2, <2>1, <2>2 DEF Shapes
<1>14. ASSUME NEW due \in SUBSET Keys, Poll(due) PROVE Shapes'
  <2>1. ASSUME NEW c \in Icmp
        PROVE  Counted(c) \in 0 .. Debounce /\ Min({streak[c] + 1, Debounce}) \in 0 .. Debounce
    <3> fails[c] \in 0 .. Debounce /\ streak[c] \in 0 .. Debounce
      BY DEF Shapes
    <3>1. Min({streak[c] + 1, Debounce}) \in 0 .. Debounce /\ Min({fails[c] + 1, Debounce}) \in 0 .. Debounce
      BY CapOfCount
    <3> QED BY <1>0, <3>1 DEF Counted
  <2>2. fails' \in [Icmp -> 0 .. Debounce] /\ streak' \in [Icmp -> 0 .. Debounce]
    <3> DEFINE f(c) == IF Pinged(c, due) THEN Counted(c) ELSE fails[c]
               s(c) == IF ~Pinged(c, due) THEN streak[c]
                       ELSE IF up[c] THEN 0 ELSE Min({streak[c] + 1, Debounce})
    <3>0. 0 \in 0 .. Debounce
      BY <1>0
    <3>1. ASSUME NEW c \in Icmp PROVE f(c) \in 0 .. Debounce /\ s(c) \in 0 .. Debounce
      <4> fails[c] \in 0 .. Debounce /\ streak[c] \in 0 .. Debounce
        BY DEF Shapes
      <4> QED BY <2>1, <3>0, Zenon
    <3>2. fails' = [c \in Icmp |-> f(c)] /\ streak' = [c \in Icmp |-> s(c)]
      BY <1>14 DEF Poll
    <3> HIDE DEF f, s
    <3> QED BY <3>1, <3>2
  <2>3. obs' \in [Keys -> {"none", "ok", "fail"}] /\ \A k \in Keys : obs'[k] = "fail" => k[2] = "main"
    BY <1>14, PollOutcome
  <2>4. cands' = {}
    BY <1>14 DEF Poll, Shapes
  <2> QED BY <1>14, <2>1, <2>2, <2>3, <2>4 DEF Poll, Shapes, Failing
<1>15. ASSUME NEW c \in CIs, Flip(c) PROVE Shapes'
  BY <1>1, <1>15, WorldSteps
<1>16. ASSUME NEW k \in Keys, AckEvent(k) \/ CloseEvent(k) PROVE Shapes'
  <2>1. UNCHANGED <<fails, streak, shown, stored, children, pc, cycle>>
    BY <1>16, WorldSteps
  <2>2. PICK st \in {"ACK", "CLOSED"} : root' = [root EXCEPT ![k].status = st]
    BY <1>16, WorldSteps
  <2>3. [root[k] EXCEPT !.status = st] \in Events
    BY RewrittenEvent DEF Shapes, EventStatuses
  <2>4. root' \in [Keys -> Events]
    BY <2>2, <2>3 DEF Shapes
  <2> QED BY <2>1, <2>4, FailingIsOfObs DEF Shapes, cycle
<1> QED BY <1>3, <1>4, <1>5, <1>6, <1>7, <1>8, <1>9, <1>10, <1>11, <1>12, <1>13, <1>14, <1>15, <1>16
        DEF Next, Cycle

(* What a step makes of one event.                                           *)
Reopens(k) == (Pass2a \/ Pass2b) /\ k \in cands /\ root'[k] = Upserted(k)
Ends(k, st) == /\ root'[k].status = st /\ root'[k].number = root[k].number
               /\ root'[k].affected = root[k].affected
Attaches(k) ==
  /\ Pass3
  /\ \E r \in {root[k], Upserted(k)} :
       /\ root'[k].status = r.status /\ root'[k].number = r.number
       /\ root'[k].affected = r.affected \union Attached(k)
       /\ r # root[k] => k \in ((Failing \ cands) \ Dependents) \union Synthetic

LEMMA RootStep ==
  ASSUME Topology, Shapes, Numbers, [Next]_vars, NEW k \in Keys
  PROVE  \/ root'[k] = root[k]
         \/ Reopens(k)
         \/ Recover /\ k \in Answered /\ Ends(k, "RECOVERED")
         \/ Attaches(k)
         \/ AckEvent(k) /\ root[k].status \in {"OPEN", "ACK"} /\ Ends(k, "ACK")
         \/ CloseEvent(k) /\ Ends(k, "CLOSED")
<1>0. root \in [Keys -> Events] /\ root[k] \in Events
  BY DEF Shapes
<1>1. ASSUME UNCHANGED data PROVE root'[k] = root[k]
  BY <1>1 DEF data
<1>2. CASE UNCHANGED vars \/ BuildCache \/ InsertFails \/ SnmpRecoveryRefused \/ Abort \/ Rebuild
  <2> UNCHANGED data
    BY <1>2 DEF vars, BuildCache, InsertFails, SnmpRecoveryRefused, Abort, Rebuild, data
  <2> QED BY <1>1
<1>3. CASE Insert \/ Publish \/ Restart
  BY <1>3 DEF Insert, Publish, Restart
<1>4. ASSUME NEW due \in SUBSET Keys, Poll(due) PROVE root'[k] = root[k]
  BY <1>4 DEF Poll
<1>5. ASSUME NEW c \in CIs, Flip(c) PROVE root'[k] = root[k]
  BY <1>1, <1>5, WorldSteps
<1>6. CASE Pass2a \/ Pass2b
  BY <1>6, PassStep DEF Reopens
<1>7. CASE Recover
  <2>1. \/ root'[k] = root[k]
        \/ root'[k] = [root[k] EXCEPT !.status = "RECOVERED"] /\ k \in Answered
    BY <1>7, RecoverStep
  <2>2. ASSUME root'[k] = [root[k] EXCEPT !.status = "RECOVERED"] PROVE Ends(k, "RECOVERED")
    BY <1>0, <2>2 DEF Ends, Events
  <2> QED BY <1>7, <2>1, <2>2
<1>8. CASE Pass3
  <2>1. PICK r \in {root[k], Upserted(k)} :
          /\ root'[k] = [r EXCEPT !.affected = @ \union Attached(k)]
          /\ r # root[k] => k \in ((Failing \ cands) \ Dependents) \union Synthetic
    BY <1>8, Pass3Step
  <2>2. r \in Events
    BY <1>0, UpsertedEvent
  <2>3. /\ root'[k].status = r.status /\ root'[k].number = r.number
        /\ root'[k].affected = r.affected \union Attached(k)
    BY <2>1, <2>2 DEF Events
  <2> QED BY <1>8, <2>1, <2>3 DEF Attaches
<1>9. ASSUME NEW q \in Keys, AckEvent(q)
      PROVE  root'[k] = root[k] \/ (AckEvent(k) /\ root[k].status \in {"OPEN", "ACK"} /\ Ends(k, "ACK"))
  <2>1. root' = [root EXCEPT ![q].status = "ACK"] /\ root[q].status \in {"OPEN", "ACK"}
    BY <1>9, WorldSteps
  <2>2. CASE q # k
    BY <1>0, <2>1, <2>2
  <2>3. CASE q = k
    <3>1. root'[k] = [root[k] EXCEPT !.status = "ACK"]
      BY <1>0, <2>1, <2>3
    <3>2. Ends(k, "ACK")
      BY <1>0, <3>1 DEF Ends, Events
    <3> QED BY <1>9, <2>1, <2>3, <3>2
  <2> QED BY <2>2, <2>3
<1>10. ASSUME NEW q \in Keys, CloseEvent(q)
       PROVE  root'[k] = root[k] \/ (CloseEvent(k) /\ Ends(k, "CLOSED"))
  <2>1. root' = [root EXCEPT ![q].status = "CLOSED"]
    BY <1>10, WorldSteps
  <2>2. CASE q # k
    BY <1>0, <2>1, <2>2
  <2>3. CASE q = k
    <3>1. root'[k] = [root[k] EXCEPT !.status = "CLOSED"]
      BY <1>0, <2>1, <2>3
    <3>2. Ends(k, "CLOSED")
      BY <1>0, <3>1 DEF Ends, Events
    <3> QED BY <1>10, <2>3, <3>2
  <2> QED BY <2>2, <2>3
<1> QED BY <1>2, <1>3, <1>4, <1>5, <1>6, <1>7, <1>8, <1>9, <1>10 DEF Next, Cycle

LEMMA ClosingsStep ==
  ASSUME Topology, Shapes, Numbers, [Next]_vars
  PROVE  \/ closings' = closings /\ ~\E k \in Keys : CloseEvent(k)
         \/ closings' = closings + 1 /\ closings < MaxClosings
<1> closings \in Nat
  BY DEF Numbers
<1>1. ASSUME NEW k \in Keys, CloseEvent(k) PROVE closings' = closings + 1 /\ closings < MaxClosings
  BY <1>1, WorldSteps
<1>2. ASSUME ~\E k \in Keys : CloseEvent(k) PROVE closings' = closings
  BY <1>2 DEF Next, Cycle, vars, bounds, BuildCache, InsertFails, SnmpRecoveryRefused, Abort, Rebuild,
     Insert, Publish, Restart, Poll, Flip, Pass2a, Pass2b, Materialize, Recover, Pass3, AckEvent
<1> QED BY <1>1, <1>2

LEMMA NumbersStep ==
  ASSUME Topology, Shapes, Numbers, [Next]_vars
  PROVE  Numbers'
<1>0. closings \in 0 .. MaxClosings /\ MaxClosings \in Nat
  BY DEF Numbers, Topology
<1>1. closings' \in 0 .. MaxClosings /\ closings <= closings'
  BY <1>0, ClosingsStep
<1>2. ASSUME NEW k \in Keys
      PROVE  /\ root'[k].number <= closings' + 1
             /\ root'[k].status = "CLOSED" => root'[k].number <= closings'
             /\ root'[k].status = "none" => root'[k].number = 0
  <2>0. /\ root[k].number <= closings + 1 /\ root[k].number \in Nat
        /\ root[k].status = "CLOSED" => root[k].number <= closings
        /\ root[k].status = "none" => root[k].number = 0
    BY DEF Numbers, Shapes, Events
  <2>1. /\ Upserted(k) \in Events /\ Upserted(k).number <= closings + 1
        /\ Upserted(k).status \notin {"CLOSED", "none"}
    BY UpsertedEvent
  <2>2. CASE root'[k] = root[k] \/ Reopens(k)
    BY <1>0, <1>1, <2>0, <2>1, <2>2 DEF Reopens, Events
  <2>3. CASE Ends(k, "RECOVERED") \/ Ends(k, "ACK")
    BY <1>0, <1>1, <2>0, <2>3 DEF Ends
  <2>4. CASE Attaches(k)
    BY <1>0, <1>1, <2>0, <2>1, <2>4 DEF Attaches, Events
  <2>5. CASE CloseEvent(k) /\ Ends(k, "CLOSED")
    BY <1>0, <2>0, <2>5, ClosingsStep DEF Ends
  <2> QED BY <2>2, <2>3, <2>4, <2>5, RootStep
<1> QED BY <1>1, <1>2 DEF Numbers

(* Poll counts at most what failed in a row; nothing else adds to the count.  *)
LEMMA DebouncedStep ==
  ASSUME Topology, Shapes, Numbers, Debounced, [Next]_vars
  PROVE  Debounced'
<1> USE DEF Debounced
<1>0. /\ Debounce \in Nat \ {0}
      /\ \A c \in Icmp : fails[c] \in 0 .. Debounce /\ streak[c] \in 0 .. Debounce
  BY DEF Topology, Shapes
<1>1. ASSUME UNCHANGED <<fails, streak>>, EndCycle \/ UNCHANGED obs PROVE Debounced'
  BY <1>1, EndCycleShapes
<1>2. CASE UNCHANGED vars \/ BuildCache \/ Insert \/ Rebuild
  BY <1>1, <1>2 DEF vars, data, cycle, BuildCache, Insert, Rebuild
<1>3. CASE Pass2a \/ Pass2b
  BY <1>1, <1>3, PassStep DEF cycle
<1>4. CASE InsertFails \/ Abort \/ SnmpRecoveryRefused
  BY <1>1, <1>4 DEF InsertFails, Abort, SnmpRecoveryRefused, data
<1>5. CASE Recover
  BY <1>1, <1>5, RecoverStep DEF cycle
<1>6. CASE Pass3
  BY <1>1, <1>6, Pass3Step
<1>7. CASE Publish
  BY <1>0, <1>7 DEF Publish, cycle
<1>8. CASE Restart
  <2>1. EndCycle /\ streak' = streak /\ \A c \in Icmp : fails'[c] = 0
    BY <1>8 DEF Restart
  <2> QED BY <1>0, <2>1, EndCycleShapes
<1>9. ASSUME NEW due \in SUBSET Keys, Poll(due), NEW c \in Icmp
      PROVE  fails'[c] <= streak'[c] /\ (obs'[Main(c)] = "fail" => streak'[c] >= Debounce)
  <2>0. /\ fails'[c] = IF Pinged(c, due) THEN Counted(c) ELSE fails[c]
        /\ streak'[c] = IF ~Pinged(c, due) THEN streak[c]
                        ELSE IF up[c] THEN 0 ELSE Min({streak[c] + 1, Debounce})
    BY <1>9 DEF Poll
  <2>1. Min({fails[c] + 1, Debounce}) <= Min({streak[c] + 1, Debounce})
        /\ Min({streak[c] + 1, Debounce}) \in Nat /\ Min({fails[c] + 1, Debounce}) \in Nat
    <3>1. /\ Min({fails[c] + 1, Debounce}) = IF fails[c] + 1 <= Debounce THEN fails[c] + 1 ELSE Debounce
          /\ Min({streak[c] + 1, Debounce}) = IF streak[c] + 1 <= Debounce THEN streak[c] + 1 ELSE Debounce
      BY <1>0, CapOfCount
    <3> QED BY <1>0, <3>1
  <2>2. CASE ~Pinged(c, due)
    <3>1. fails'[c] = fails[c] /\ streak'[c] = streak[c] /\ obs'[Main(c)] # "fail"
      BY <1>9, <2>0, <2>2, PollOutcome
    <3> QED BY <3>1
  <2>3. CASE Pinged(c, due) /\ up[c]
    <3>1. fails'[c] = 0 /\ streak'[c] = 0 /\ obs'[Main(c)] # "fail"
      BY <1>9, <2>0, <2>3, PollOutcome DEF Counted
    <3> QED BY <3>1
  <2>4. CASE Pinged(c, due) /\ ~up[c]
    <3>1. /\ fails'[c] = Min({fails[c] + 1, Debounce}) /\ streak'[c] = Min({streak[c] + 1, Debounce})
          /\ Counted(c) = Min({fails[c] + 1, Debounce})
      BY <2>0, <2>4 DEF Counted
    <3>2. obs'[Main(c)] = "fail" => Counted(c) >= Debounce
      BY <1>9, PollOutcome
    <3> QED BY <1>0, <2>1, <3>1, <3>2
  <2> QED BY <2>2, <2>3, <2>4
<1>10. ASSUME NEW c \in CIs, Flip(c) PROVE Debounced'
  BY <1>1, <1>10, WorldSteps DEF data, cycle
<1>11. ASSUME NEW k \in Keys, AckEvent(k) \/ CloseEvent(k) PROVE Debounced'
  BY <1>1, <1>11, WorldSteps DEF cycle
<1> QED BY <1>2, <1>3, <1>4, <1>5, <1>6, <1>7, <1>8, <1>9, <1>10, <1>11 DEF Next, Cycle

(* How the cycle comes to its control points.                                *)
LEMMA ControlStep ==
  ASSUME Topology, Shapes, Numbers, [Next]_vars
  PROVE  /\ pc' = "publish" => Insert \/ (pc = "publish" /\ UNCHANGED <<obs, stored>>)
         /\ pc' = "pass3" => (Rebuild /\ UNCHANGED root) \/ (pc = "pass3" /\ UNCHANGED cycle /\ children' = children)
         /\ pc' = "pass2a" => (BuildCache /\ UNCHANGED root) \/ (pc = "pass2a" /\ UNCHANGED cycle)
         /\ pc' \in {"insert", "publish", "pass2b"} =>
              pc \in {"pass2a", "insert", "publish", "pass2b"} /\ UNCHANGED cycle
<1>1. CASE UNCHANGED vars \/ InsertFails \/ Abort \/ SnmpRecoveryRefused \/ Restart \/ Pass3
  BY <1>1, Pass3Step DEF vars, data, cycle, InsertFails, Abort, SnmpRecoveryRefused, Restart, EndCycle
<1>2. CASE BuildCache \/ Insert \/ Rebuild \/ Publish
  BY <1>2 DEF data, cycle, BuildCache, Insert, Rebuild, Publish
<1>3. CASE Pass2a \/ Pass2b \/ Recover
  BY <1>3, PassStep, RecoverStep DEF cycle
<1>4. ASSUME NEW due \in SUBSET Keys, Poll(due) PROVE pc' = "polled"
  BY <1>4 DEF Poll
<1>5. ASSUME NEW c \in CIs, NEW k \in Keys, Flip(c) \/ AckEvent(k) \/ CloseEvent(k)
      PROVE  UNCHANGED <<obs, stored, pc, cycle, children>>
  BY <1>5, WorldSteps DEF data, cycle
<1> QED BY <1>1, <1>2, <1>3, <1>4, <1>5, KeysAreMetrics DEF Next, Cycle

LEMMA InsertedStep ==
  ASSUME Topology, Shapes, Numbers, InsertedFirst, [Next]_vars
  PROVE  InsertedFirst'
<1> SUFFICES ASSUME pc' = "publish" PROVE \A k \in Sampled' : stored'[k] = obs'[k]
  BY DEF InsertedFirst
<1>1. CASE Insert
  <2>1. obs' = obs /\ \A k \in Sampled : stored'[k] = obs[k]
    BY <1>1 DEF Insert, cycle, Sampled
  <2> QED BY <2>1, FailingIsOfObs
<1>2. CASE pc = "publish" /\ UNCHANGED <<obs, stored>>
  BY <1>2, FailingIsOfObs DEF InsertedFirst
<1> QED BY <1>1, <1>2, ControlStep

(* A step makes an event active only by an upsert, and over only by recovering it. *)
LEMMA ActiveStep ==
  ASSUME Topology, Shapes, Numbers, [Next]_vars, NEW k \in Keys
  PROVE  /\ Active(k)' => Active(k) \/ Reopens(k) \/ Attaches(k)
         /\ \A n \in Nat : Over(<<k, n>>)' =>
              Over(<<k, n>>) \/ (Recover /\ k \in Answered /\ root[k].number = n)
<1>0. /\ Upserted(k).status = "RECOVERED" => Upserted(k) = root[k]
  BY UpsertedEvent
<1>1. CASE root'[k] = root[k]
  BY <1>1 DEF Active, Over
<1>2. CASE Reopens(k)
  BY <1>0, <1>2 DEF Reopens, Over
<1>3. CASE Recover /\ k \in Answered /\ Ends(k, "RECOVERED")
  BY <1>3 DEF Ends, Active, Over
<1>4. CASE Attaches(k)
  BY <1>0, <1>4 DEF Attaches, Over
<1>5. CASE (root[k].status \in {"OPEN", "ACK"} /\ Ends(k, "ACK")) \/ Ends(k, "CLOSED")
  BY <1>5 DEF Ends, Active, Over
<1> QED BY <1>1, <1>2, <1>3, <1>4, <1>5, RootStep

LEMMA QuietStep ==
  ASSUME Topology, Shapes, Numbers, Quiet, [Next]_vars
  PROVE  Quiet'
<1>1. ASSUME pc' \in {"pass2a", "insert", "publish", "pass2b"}, ~blind',
             NEW k \in cands', NEW q \in Keys, Up(q, k)
      PROVE  ~Active(q)' /\ q \notin Failing'
  <2>1. CASE BuildCache /\ UNCHANGED root
    <3>1. cache' \in Caches /\ cands' = CycleRootCandidates(cache', TRUE) /\ obs' = obs
      BY <1>1, <2>1 DEF BuildCache
    <3>2. k \in Failing /\ cache'[k] = NoParent /\ q \notin Failing
      BY <1>1, <3>1 DEF CycleRootCandidates, Up
    <3>3. ~Active(q)
      BY <1>1, <3>1, <3>2, CacheOfParents
    <3> QED BY <2>1, <3>1, <3>2, <3>3, FailingIsOfObs DEF Active
  <2>2. CASE pc \in {"pass2a", "insert", "publish", "pass2b"} /\ UNCHANGED cycle
    <3>1. cands' = cands /\ obs' = obs /\ ~blind
      BY <1>1, <2>2 DEF cycle
    <3>2. k \in cands /\ ~Active(q) /\ q \notin Failing /\ Failing' = Failing
      BY <1>1, <2>2, <3>1, FailingIsOfObs DEF Quiet
    <3>3. ~Reopens(q)
      BY <3>2 DEF Reopens, Shapes
    <3>4. ~Attaches(q)
      BY <2>2, Pass3Step DEF Attaches
    <3> QED BY <3>2, <3>3, <3>4, ActiveStep
  <2> QED BY <1>1, <2>1, <2>2, ControlStep
<1>2. ASSUME pc' = "pass3", ~blind', NEW k \in Failing', NEW q \in Keys, cache'[k] = NoParent, Up(q, k)
      PROVE  ~Active(q)'
  <2>1. CASE Rebuild /\ UNCHANGED root
    <3>1. cache' \in Caches /\ obs' = obs
      BY <1>2, <2>1 DEF Rebuild
    <3>2. ~Active(q)
      BY <1>2, <3>1, CacheOfParents, FailingIsOfObs
    <3> QED BY <2>1, <3>2 DEF Active
  <2>2. CASE pc = "pass3" /\ UNCHANGED cycle
    <3>1. cache' = cache /\ obs' = obs /\ ~blind
      BY <1>2, <2>2 DEF cycle
    <3>2. ~Active(q)
      BY <1>2, <2>2, <3>1, FailingIsOfObs DEF Quiet
    <3>3. ~Reopens(q)
      BY <2>2, PassStep DEF Reopens
    <3>4. ~Attaches(q)
      BY <1>2, Pass3Step, EndCycleShapes DEF Attaches
    <3> QED BY <3>2, <3>3, <3>4, ActiveStep
  <2> QED BY <1>2, <2>1, <2>2, ControlStep
<1> QED BY <1>1, <1>2 DEF Quiet, Up

LEMMA FollowedStep ==
  ASSUME Topology, Shapes, Numbers, Followed, [Next]_vars
  PROVE  Followed'
<1>0. /\ children \subseteq [key : Keys, from : Keys \X Nat, status : {"OPEN", "RECOVERED"}]
      /\ cache \in [Keys -> {NoParent} \union (Keys \X Nat)]
  BY DEF Shapes
<1>1. ASSUME NEW f \in Keys \X Nat, ~Over(f), ~(Recover /\ f[1] \in Answered /\ root[f[1]].number = f[2])
      PROVE  ~Over(f)'
  BY <1>1, ActiveStep DEF Over
<1>2. ASSUME NEW ch \in children', ch.status = "OPEN" PROVE ~Over(ch.from)'
  <2>1. CASE Recover
    <3>1. PICK old \in children :
            ch = IF old.from[1] \in Answered THEN Recovered(old.from[1], old) ELSE old
      BY <2>1, RecoverStep
    <3>2. old.from \in Keys \X Nat
      BY <1>0
    <3>3. ch = old /\ ~(old.from[1] \in Answered /\ root[old.from[1]].number = old.from[2])
      <4>1. CASE old.from[1] \notin Answered
        BY <3>1, <4>1
      <4>2. CASE old.from[1] \in Answered /\ root[old.from[1]].number = old.from[2]
        <5>1. old.from = <<old.from[1], root[old.from[1]].number>>
          BY <3>2, <4>2
        <5>2. ch.status # "OPEN"
          BY <1>0, <3>1, <4>2, <5>1 DEF Recovered
        <5> QED BY <1>2, <5>2
      <4>3. CASE old.from[1] \in Answered /\ root[old.from[1]].number # old.from[2]
        BY <3>1, <3>2, <4>3 DEF Recovered
      <4> QED BY <4>1, <4>2, <4>3
    <3>4. ~Over(ch.from)
      BY <1>2, <3>3 DEF Followed
    <3> QED BY <1>1, <3>2, <3>3, <3>4
  <2>2. CASE Pass3
    <3>1. ch \in children \/ ch \in Degraded
      BY <2>2, Pass3Step
    <3>2. ~Recover /\ pc = "pass3"
      BY <2>2 DEF Pass3, Recover
    <3>3. ch.from \in Keys \X Nat /\ ~Over(ch.from)
      <4>1. CASE ch \in children
        BY <1>0, <1>2, <4>1 DEF Followed
      <4>2. CASE ch \in Degraded
        BY <3>2, <4>2, DegradedChild DEF Followed
      <4> QED BY <3>1, <4>1, <4>2
    <3> QED BY <1>1, <3>2, <3>3
  <2>3. CASE children' = children /\ ~Recover
    <3>1. ~Over(ch.from) /\ ch.from \in Keys \X Nat
      BY <1>0, <1>2, <2>3 DEF Followed
    <3> QED BY <1>1, <2>3, <3>1
  <2>4. children' = children \/ Recover \/ Pass3
    BY WorldSteps, PassStep DEF Next, Cycle, vars, data, BuildCache, InsertFails, SnmpRecoveryRefused,
       Abort, Rebuild, Insert, Publish, Restart, Poll
  <2> QED BY <2>1, <2>2, <2>3, <2>4
<1>3. ASSUME pc' = "pass3", NEW k \in Keys, cache'[k] # NoParent
      PROVE  ~(root'[cache'[k][1]].number = cache'[k][2] /\ root'[cache'[k][1]].status = "RECOVERED")
  <2>1. CASE Rebuild /\ UNCHANGED root
    <3>1. CASE cache' \in Caches
      <4>1. ~Over(cache'[k])
        BY <1>3, <3>1, CacheOfParents
      <4> QED BY <2>1, <4>1 DEF Over
    <3> QED BY <1>3, <2>1, <3>1 DEF Rebuild
  <2>2. CASE pc = "pass3" /\ UNCHANGED cycle
    <3>1. cache' = cache /\ ~Over(cache[k])
      BY <1>3, <2>2 DEF cycle, Followed
    <3>2. PICK f \in Keys \X Nat : f = cache[k]
      BY <1>0, <1>3, <3>1
    <3>3. ~Recover
      BY <2>2 DEF Recover
    <3>4. ~Over(f)'
      BY <1>1, <3>1, <3>2, <3>3
    <3> QED BY <3>1, <3>2, <3>4 DEF Over
  <2> QED BY <1>3, <2>1, <2>2, ControlStep
<1> QED BY <1>2, <1>3 DEF Followed, Over

-----------------------------------------------------------------------------
LEMMA CycleInit == ASSUME Topology, Init PROVE CycleInv
<1> Debounce \in Nat \ {0} /\ MaxClosings \in Nat
  BY DEF Topology
<1>1. Shapes
  <2>1. fails \in [Icmp -> 0 .. Debounce] /\ streak \in [Icmp -> 0 .. Debounce]
    <3> 0 \in 0 .. Debounce
      OBVIOUS
    <3> QED BY DEF Init
  <2>2. NoEvent \in Events
    BY DEF NoEvent, Events, EventStatuses
  <2>3. root \in [Keys -> Events]
    BY <2>2 DEF Init
  <2>4. Failing = {}
    BY DEF Init, Failing
  <2> QED BY <2>1, <2>3, <2>4 DEF Init, Shapes
<1>2. Numbers
  BY DEF Init, Numbers, NoEvent
<1>3. Debounced
  BY KeysAreMetrics DEF Init, Debounced
<1>4. InsertedFirst /\ Quiet /\ Followed
  BY DEF Init, InsertedFirst, Quiet, Followed
<1> QED BY <1>1, <1>2, <1>3, <1>4 DEF CycleInv

LEMMA CycleStep == ASSUME Topology, CycleInv, [Next]_vars PROVE CycleInv'
BY ShapesStep, NumbersStep, DebouncedStep, InsertedStep, QuietStep, FollowedStep DEF CycleInv

LEMMA CycleHolds == ASSUME Topology PROVE Spec => []CycleInv
<1>1. Init => CycleInv
  BY CycleInit
<1>2. CycleInv /\ [Next]_vars => CycleInv'
  BY CycleStep
<1> QED BY <1>1, <1>2, PTL DEF Spec

(* Counters, samples, events and the locals of a cycle keep their types, and *)
(* what the engine takes for down has failed as often in a row as the        *)
(* debounce asks for, through inserts that fail and restarts.                *)
THEOREM DownOnlyAfterDebounce == ASSUME Topology PROVE Spec => []CountsAreSound
<1>1. CycleInv => CountsAreSound
  <2> SUFFICES ASSUME CycleInv PROVE CountsAreSound
    OBVIOUS
  <2>1. DownIsDebounced
    BY DEF CycleInv, Debounced, DownIsDebounced
  <2>2. \A k \in Keys : root[k].number \in 0 .. MaxClosings + 1
    BY DEF CycleInv, Shapes, Numbers, Events, Topology
  <2>3. \A k \in Keys : root[k].status \in EventStatuses /\ root[k].affected \subseteq CIs
    BY DEF CycleInv, Shapes, Events
  <2>4. \A c \in Icmp : fails[c] \in 0 .. Debounce /\ streak[c] \in 0 .. Debounce
    BY DEF CycleInv, Shapes
  <2>5. \A k \in Keys : {shown[k], stored[k], obs[k]} \subseteq {"none", "ok", "fail"}
    BY DEF CycleInv, Shapes
  <2>6. cands \subseteq Keys
    BY DEF CycleInv, Shapes, Failing
  <2>7. \A ch \in children : ch.key \in Keys /\ ch.status \in {"OPEN", "RECOVERED"}
    BY DEF CycleInv, Shapes
  <2>8. pc \in {"idle", "polled", "pass2a", "insert", "publish", "pass2b", "recover", "rebuild", "pass3"}
    BY DEF CycleInv, Shapes
  <2> QED BY <2>1, <2>2, <2>3, <2>4, <2>5, <2>6, <2>7, <2>8 DEF CountsAreSound, TypeOK, EventStatuses
<1> QED BY <1>1, CycleHolds, PTL

(* The graph shows a sample only after the insert that stored it.            *)
THEOREM ShownOnlyIfStored == ASSUME Topology PROVE Spec => ShownIsStored
<1>1. CycleInv /\ [Next]_vars => [ShowsStored]_vars
  <2> SUFFICES ASSUME CycleInv, Next PROVE ShowsStored
    BY DEF vars
  <2>0. Topology /\ Shapes /\ Numbers /\ InsertedFirst
    BY DEF CycleInv
  <2>1. CASE Publish
    <3>1. /\ pc = "publish" /\ stored' = stored
          /\ shown' = [k \in Keys |-> IF k \in Sampled THEN obs[k] ELSE shown[k]]
      BY <2>1 DEF Publish
    <3> QED BY <2>0, <3>1 DEF InsertedFirst, ShowsStored
  <2>2. shown' = shown \/ Publish
    BY <2>0, WorldSteps, PassStep DEF Next, Cycle, vars, data, BuildCache, InsertFails, SnmpRecoveryRefused,
       Abort, Rebuild, Insert, Recover, Pass3, Restart, Poll
  <2> QED BY <2>1, <2>2 DEF ShowsStored
<1> QED BY <1>1, CycleHolds, PTL DEF Spec, ShownIsStored

(* The parts of the topology property, step by step.                         *)
LEMMA OpensQuietlyStep == ASSUME Topology, CycleInv, [Next]_vars PROVE [OpensQuietly]_vars
<1> SUFFICES ASSUME NEW k \in Keys, Opened(k), ~blind, k[2] = "main",
                    NEW q \in Keys, q[1] \in Upstream(k[1]), q[2] = "main"
             PROVE  ~Active(q) /\ (pc \in {"pass2a", "pass2b"} => ~Opened(q))
  BY DEF OpensQuietly
<1>0. Shapes /\ Numbers /\ Quiet /\ Up(q, k)
  BY DEF CycleInv, Up
<1>1. Reopens(k) \/ Attaches(k)
  <2>1. Active(k)'
    BY DEF Opened, Active
  <2> QED BY <1>0, <2>1, ActiveStep DEF Opened
<1>2. CASE Reopens(k)
  <2>1. pc \in {"pass2a", "pass2b"} /\ k \in cands
    BY <1>0, <1>2, PassStep DEF Reopens
  <2>2. ~Active(q) /\ q \notin cands
    BY <1>0, <2>1 DEF Quiet, Shapes
  <2>3. ~Reopens(q) /\ ~Attaches(q)
    BY <2>1, <2>2, <1>0, Pass3Step DEF Reopens, Attaches
  <2>4. ~Active(q)'
    BY <1>0, <2>2, <2>3, ActiveStep
  <2> QED BY <2>2, <2>4 DEF Opened, Active
<1>3. CASE Attaches(k)
  <2>1. pc = "pass3"
    BY <1>0, <1>3, Pass3Step DEF Attaches
  <2>2. k \in (Failing \ cands) \ Dependents
    <3>1. k \notin Synthetic
      BY DEF Synthetic, Jitter
    <3> QED BY <1>3, <3>1 DEF Attaches, Opened, Active
  <2>3. ~Active(q)
    BY <1>0, <2>1, <2>2 DEF Quiet, Dependents
  <2> QED BY <2>1, <2>3
<1> QED BY <1>1, <1>2, <1>3

LEMMA AttachesStep == ASSUME Topology, CycleInv, [Next]_vars PROVE [AttachesToActive]_vars
<1> SUFFICES ASSUME NEW k \in Keys, root'[k].number = root[k].number, root'[k].affected # root[k].affected
             PROVE  Active(k)
  BY DEF AttachesToActive
<1>0. Shapes /\ Numbers /\ Followed
  BY DEF CycleInv
<1>1. Upserted(k).number = root[k].number => Upserted(k).affected = root[k].affected
  BY <1>0, UpsertedEvent
<1>2. Attaches(k)
  BY <1>0, <1>1, RootStep DEF Reopens, Ends
<1>3. pc = "pass3" /\ Attached(k) # {}
  <2>1. PICK r \in {root[k], Upserted(k)} :
          root'[k].number = r.number /\ root'[k].affected = r.affected \union Attached(k)
    BY <1>2 DEF Attaches
  <2>2. r.affected = root[k].affected
    BY <1>1, <2>1
  <2> QED BY <1>0, <1>2, <2>1, <2>2, Pass3Step DEF Attaches
<1>4. PICK q \in Dependents : /\ cache[q] = <<k, root[k].number>>
                              /\ root[k].status \in {"OPEN", "ACK", "RECOVERED"}
  BY <1>3 DEF Attached
<1>5. q \in Keys /\ cache[q] # NoParent
  BY DEF Dependents, Failing
<1>6. ~Over(cache[q])
  BY <1>0, <1>3, <1>5 DEF Followed
<1> QED BY <1>4, <1>6 DEF Over, Active

(* Events follow the topology: no root event for a failure that an upstream  *)
(* event or failure explains, nobody attached to an event that is over, and  *)
(* no degraded child open under a recovered root.                            *)
THEOREM EventsFollowTopology == ASSUME Topology PROVE Spec => FollowsTopology
<1>1. CycleInv => ChildrenFollow
  BY DEF CycleInv, Followed, Over, ChildrenFollow
<1>2. CycleInv /\ [Next]_vars => [OpensQuietly]_vars
  BY OpensQuietlyStep
<1>3. CycleInv /\ [Next]_vars => [AttachesToActive]_vars
  BY AttachesStep
<1> QED BY <1>1, <1>2, <1>3, CycleHolds, PTL DEF Spec, FollowsTopology
=============================================================================
