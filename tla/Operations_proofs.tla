------------------------- MODULE Operations_proofs -------------------------
(***************************************************************************)
(* Operations: what each of the eight parts promises, proved for any number *)
(* of threads, workers, users, roles, metrics, CIs and links.  The parts    *)
(* are proved one after the other, each for its own specification, which   *)
(* the whole implements since no part writes a variable of another.         *)
(***************************************************************************)
EXTENDS Operations, FiniteSetTheorems, WellFoundedInduction, TLAPS

-----------------------------------------------------------------------------
(* Backup                                                                   *)

Finishing == {"record", "emit", "clean"}
RunTypes == [pc : {"idle", "dump", "record", "emit", "clean", "failed"},
             name : 0 .. BackupTime, retention : Retentions \union {0}]

\* A file is named after the time its dump began, and was written since.
Files ==
  /\ DOMAIN dump \subseteq 1 .. bNow
  /\ \A n \in DOMAIN dump : dump[n] \in [whole : BOOLEAN, at : 1 .. bNow]
  /\ \A n \in DOMAIN dump : n <= dump[n].at

\* A run finds the file it writes, which is whole once pg_dump has ended, and
\* cleans up in the tick after that at the latest.
FileOf(r) ==
  /\ run[r].pc = "dump" => run[r].name \in DOMAIN dump
  /\ run[r].pc \in Finishing =>
       Dumps!Restorable(run[r].name) /\ bNow <= dump[run[r].name].at + 1
  /\ run[r].pc # "idle" => run[r].retention \in Retentions

\* A run that goes on to what it may do with its file as it is, or ends.
Onward(r) ==
  \/ run'[r] = run[r]
  \/ run'[r] = Dumps!Idle
  \/ run[r].pc # "idle" /\ run'[r] = [run[r] EXCEPT !.pc = "failed"]
  \/ run[r].pc = "emit" /\ run'[r] = [run[r] EXCEPT !.pc = "clean"]

BackupInv ==
  /\ Dumps!TypeOK /\ Files /\ \A r \in Dumps!Runs : FileOf(r)
  /\ Dumps!SomeDumpRemains /\ Dumps!SuccessIsRestorable

\* Min is the least retention.
LEMMA ShortestRetention ==
  ASSUME Retentions \subseteq Nat, NEW n \in Retentions
  PROVE  Dumps!Min(Retentions) \in Nat /\ Dumps!Min(Retentions) <= n
<1>1. PICK x \in Retentions : \A y \in Retentions : ~(<<y, x>> \in OpToRel(<, Nat))
  BY NatLessThanWellFounded, WFMin
<1>2. \A y \in Retentions : x <= y
  <2> SUFFICES ASSUME NEW y \in Retentions, y < x PROVE FALSE
    OBVIOUS
  <2>1. <<y, x>> \in {ss \in Nat \X Nat : ss[1] < ss[2]}
    OBVIOUS
  <2> QED BY <1>1, <2>1 DEF OpToRel
<1>3. Dumps!Min(Retentions) \in Retentions /\ \A y \in Retentions : Dumps!Min(Retentions) <= y
  BY <1>2 DEF Dumps!Min
<1> QED BY <1>3

\* A step that only adds files, or makes them whole, keeps what the history says.
LEMMA DumpsOnlyAdded ==
  ASSUME BackupsAreSet, BackupInv, bNow' \in Nat, bNow <= bNow', UNCHANGED history,
         \A n \in DOMAIN dump : n \in DOMAIN dump' /\ (dump[n].whole => dump'[n].whole)
  PROVE  (Dumps!SomeDumpRemains /\ Dumps!SuccessIsRestorable)'
<1> USE DEF BackupInv
<1>1. Dumps!Successes' = Dumps!Successes /\ Dumps!Successes \subseteq Nat
  BY DEF Dumps!Successes, Dumps!TypeOK, BackupsAreSet
<1>2. Dumps!SomeDumpRemains'
  BY <1>1 DEF Dumps!SomeDumpRemains
<1>3. ASSUME NEW n \in Dumps!Successes, n + Dumps!Min(Retentions) >= bNow' PROVE Dumps!Restorable(n)'
  <2>1. n + Dumps!Min(Retentions) >= bNow
    <3>1. bNow \in Nat /\ config.retention \in Retentions
      BY DEF Dumps!TypeOK, BackupsAreSet
    <3>2. Dumps!Min(Retentions) \in Nat
      BY <3>1, ShortestRetention DEF BackupsAreSet
    <3> HIDE DEF BackupInv
    <3> QED BY <1>1, <1>3, <3>1, <3>2
  <2> QED BY <1>3, <2>1 DEF Dumps!SuccessIsRestorable, Dumps!Restorable
<1> QED BY <1>1, <1>2, <1>3 DEF Dumps!SuccessIsRestorable

\* Every step.
LEMMA BackupStep ==
  ASSUME BackupsAreSet, DumpsApart, BackupInv, [Dumps!Next]_Dumps!vars
  PROVE  BackupInv'
<1> USE DEF BackupsAreSet, DumpsApart
<1>0. /\ bNow \in Nat /\ 1 <= bNow /\ bNow <= BackupTime /\ BackupTime \in Nat
      /\ run \in [Dumps!Runs -> RunTypes]
      /\ DOMAIN dump \subseteq 1 .. bNow /\ \A n \in DOMAIN dump : n <= dump[n].at
      /\ \A n \in DOMAIN dump : dump[n] \in [whole : BOOLEAN, at : 1 .. bNow]
      /\ config \in [enabled : BOOLEAN, time : Times, retention : Retentions]
      /\ \A r \in Dumps!Runs : FileOf(r)
      /\ Dumps!TypeOK
  BY DEF BackupInv, Files, Dumps!TypeOK, RunTypes
\* What leaves files and history alone, and ends, fails or starts no run.
<1>1. ASSUME UNCHANGED <<bNow, dump, history>>, Dumps!TypeOK',
             \A r \in Dumps!Runs : Onward(r)
      PROVE  BackupInv'
  <2>1. \A r \in Dumps!Runs : FileOf(r)'
    <3> SUFFICES ASSUME NEW r \in Dumps!Runs PROVE FileOf(r)'
      OBVIOUS
    <3>1. FileOf(r) /\ run[r] \in RunTypes /\ Onward(r)
      BY <1>0, <1>1
    <3>2. \/ run'[r] = run[r]
          \/ run'[r].pc = "idle"
          \/ run[r].pc # "idle" /\ run'[r].pc = "failed" /\ run'[r].retention = run[r].retention
          \/ /\ run[r].pc = "emit" /\ run'[r].pc = "clean" /\ run'[r].name = run[r].name
             /\ run'[r].retention = run[r].retention
      BY <3>1 DEF Onward, Dumps!Idle, RunTypes
    <3> QED BY <1>1, <3>1, <3>2 DEF FileOf, Finishing, Dumps!Restorable
  <2>2. Files'
    BY <1>0, <1>1 DEF Files
  <2>3. (Dumps!SomeDumpRemains /\ Dumps!SuccessIsRestorable)'
    BY <1>1, <1>0 DEF BackupInv, Dumps!SomeDumpRemains, Dumps!SuccessIsRestorable, Dumps!Successes,
        Dumps!Restorable
  <2> QED BY <1>1, <2>1, <2>2, <2>3 DEF BackupInv
<1>2. ASSUME NEW c \in [enabled : BOOLEAN, time : Times, retention : Retentions], Dumps!UpdateConfig(c)
      PROVE  BackupInv'
  <2>1. Dumps!TypeOK'
    BY <1>0, <1>2 DEF Dumps!TypeOK, Dumps!UpdateConfig, Dumps!Scheduled
  <2> QED BY <1>1, <1>2, <2>1 DEF Dumps!UpdateConfig, Onward
<1>3. CASE Dumps!Crash
  <2>1. Dumps!TypeOK'
    <3>1. run' \in [Dumps!Runs -> RunTypes]
      BY <1>3 DEF Dumps!Crash, Dumps!Idle, RunTypes
    <3>2. faults' \in 0 .. BackupFaults
      BY <1>0, <1>3 DEF Dumps!TypeOK, Dumps!Crash, Dumps!Fault
    <3>3. up' \in BOOLEAN
      BY <1>3 DEF Dumps!Crash
    <3> QED BY <1>0, <1>3, <3>1, <3>2, <3>3 DEF Dumps!TypeOK, Dumps!Crash, RunTypes
  <2> QED BY <1>1, <1>3, <2>1 DEF Dumps!Crash, Onward
<1>4. CASE Dumps!Restart
  <2>1. Dumps!TypeOK'
    BY <1>0, <1>4 DEF Dumps!TypeOK, Dumps!Restart, Dumps!Scheduled
  <2> QED BY <1>1, <1>4, <2>1 DEF Dumps!Restart, Onward
<1>5. CASE Dumps!Tick
  <2>1. Dumps!TypeOK'
    BY <1>0, <1>5 DEF Dumps!TypeOK, Dumps!Tick
  <2>2. Files'
    BY <1>0, <1>5 DEF Files, Dumps!Tick
  <2>3. \A r \in Dumps!Runs : FileOf(r)'
    BY <1>0, <1>5 DEF FileOf, Finishing, Dumps!Tick, Dumps!Restorable
  <2>4. (Dumps!SomeDumpRemains /\ Dumps!SuccessIsRestorable)'
    BY <1>0, <1>5, DumpsOnlyAdded DEF Dumps!Tick
  <2> QED BY <2>1, <2>2, <2>3, <2>4 DEF BackupInv
<1>6. CASE UNCHANGED Dumps!vars
  <2>1. Dumps!TypeOK'
    BY <1>0, <1>6 DEF Dumps!TypeOK, Dumps!vars
  <2> QED BY <1>1, <1>6, <2>1 DEF Dumps!vars, Onward
<1>7. ASSUME NEW r \in Dumps!Runs, Dumps!Start(r) PROVE BackupInv'
  <2> DEFINE new == [pc |-> "dump", name |-> bNow, retention |-> config.retention]
  <2>1. /\ run' = [run EXCEPT ![r] = new] /\ new \in RunTypes
        /\ bNow \notin DOMAIN dump
        /\ dump' = [n \in DOMAIN dump \union {bNow} |->
                      IF n = bNow THEN [whole |-> FALSE, at |-> bNow] ELSE dump[n]]
        /\ UNCHANGED <<up, bNow, config, job, history, faults, bChanges>>
    BY <1>0, <1>7 DEF Dumps!Start, RunTypes
  <2>2. Files'
    BY <1>0, <2>1 DEF Files
  <2>3. \A n \in DOMAIN dump : n \in DOMAIN dump' /\ dump'[n] = dump[n]
    BY <2>1
  <2>4. \A q \in Dumps!Runs : FileOf(q)'
    BY <1>0, <2>1, <2>3 DEF FileOf, Finishing, Dumps!Restorable
  <2>5. Dumps!TypeOK'
    <3>1. run' \in [Dumps!Runs -> RunTypes]
      BY <1>0, <2>1
    <3> QED BY <1>0, <2>1, <2>2, <3>1 DEF Dumps!TypeOK, Files, RunTypes
  <2>6. (Dumps!SomeDumpRemains /\ Dumps!SuccessIsRestorable)'
    BY <1>0, <2>1, <2>3, DumpsOnlyAdded
  <2> QED BY <2>2, <2>4, <2>5, <2>6 DEF BackupInv
<1>8. ASSUME NEW r \in Dumps!Runs, Dumps!DumpEnds(r) PROVE BackupInv'
  <2>1. /\ run' = [run EXCEPT ![r] = [run[r] EXCEPT !.pc = "record"]] /\ run[r].pc = "dump"
        /\ dump' = [n \in DOMAIN dump |->
                      IF n = run[r].name THEN [whole |-> TRUE, at |-> bNow] ELSE dump[n]]
        /\ UNCHANGED <<up, bNow, config, job, history, faults, bChanges>>
    BY <1>8 DEF Dumps!DumpEnds, Dumps!Goto
  <2>2. Files'
    BY <1>0, <2>1 DEF Files
  <2>3. /\ run[r].name \in DOMAIN dump' /\ dump'[run[r].name] = [whole |-> TRUE, at |-> bNow]
        /\ DOMAIN dump' = DOMAIN dump
        /\ \A n \in DOMAIN dump : dump[n].at <= dump'[n].at /\ (dump[n].whole => dump'[n].whole)
    BY <1>0, <2>1 DEF FileOf
  <2>4. \A q \in Dumps!Runs : FileOf(q)'
    <3>1. [run[r] EXCEPT !.pc = "record"] \in RunTypes /\ run'[r].name = run[r].name
          /\ run'[r].retention = run[r].retention /\ run'[r].pc = "record"
      BY <1>0, <2>1 DEF RunTypes
    <3>2. FileOf(r)'
      BY <1>0, <2>1, <2>3, <3>1 DEF FileOf, Finishing, Dumps!Restorable
    <3>3. ASSUME NEW q \in Dumps!Runs \ {r} PROVE FileOf(q)'
      <4>1. run'[q] = run[q] /\ FileOf(q) /\ run[q].name \in Nat
        BY <1>0, <2>1 DEF RunTypes
      <4>2. CASE run[q].pc \in Finishing
        <5>1. run[q].name \in DOMAIN dump /\ dump[run[q].name].whole /\ bNow <= dump[run[q].name].at + 1
          BY <4>1, <4>2 DEF FileOf, Dumps!Restorable
        <5>2. dump'[run[q].name].whole /\ bNow <= dump'[run[q].name].at + 1
          <6>1. dump'[run[q].name].at \in Nat /\ dump[run[q].name].at \in Nat
            BY <1>0, <5>1, <2>2, <2>3 DEF Files
          <6> QED BY <1>0, <5>1, <2>3, <6>1
        <5> QED BY <4>1, <4>2, <5>1, <5>2, <2>1, <2>3 DEF FileOf, Dumps!Restorable, Finishing
      <4>3. CASE run[q].pc \notin Finishing
        BY <4>1, <4>3, <2>3 DEF FileOf
      <4> QED BY <4>2, <4>3
    <3> QED BY <3>2, <3>3
  <2>5. Dumps!TypeOK'
    <3>1. run' \in [Dumps!Runs -> RunTypes]
      BY <1>0, <2>1 DEF RunTypes
    <3> QED BY <1>0, <2>1, <2>2, <3>1 DEF Dumps!TypeOK, Files, RunTypes
  <2>6. (Dumps!SomeDumpRemains /\ Dumps!SuccessIsRestorable)'
    BY <1>0, <2>1, <2>3, DumpsOnlyAdded
  <2> QED BY <2>2, <2>4, <2>5, <2>6 DEF BackupInv
<1>9. ASSUME NEW r \in Dumps!Runs, Dumps!Record(r) PROVE BackupInv'
  <2>1. /\ run' = [run EXCEPT ![r] = [run[r] EXCEPT !.pc = "emit"]] /\ run[r].pc = "record"
        /\ history' = history \union {[status |-> "SUCCESS", name |-> run[r].name]}
        /\ UNCHANGED <<up, bNow, config, job, dump, faults, bChanges>>
    BY <1>9 DEF Dumps!Record, Dumps!Goto
  <2>2. Files'
    BY <1>0, <2>1 DEF Files
  <2>3. \A q \in Dumps!Runs : FileOf(q)'
    BY <1>0, <2>1 DEF FileOf, Finishing, Dumps!Restorable, RunTypes
  <2>4. Dumps!Restorable(run[r].name)
    BY <1>0, <2>1 DEF FileOf, Finishing
  <2>5. Dumps!Successes' = Dumps!Successes \union {run[r].name}
    <3> DEFINE old == {g \in history : g.status = "SUCCESS"}
               new == [status |-> "SUCCESS", name |-> run[r].name]
    <3>1. {g \in history' : g.status = "SUCCESS"} = old \union {new}
      BY <2>1
    <3>2. Dumps!Successes = {h.name : h \in old} /\ Dumps!Successes' = {h.name : h \in old \union {new}}
      BY <3>1 DEF Dumps!Successes
    <3>3. new.name = run[r].name
      OBVIOUS
    <3> HIDE DEF old, new
    <3>4. {h.name : h \in old \union {new}} = {h.name : h \in old} \union {new.name}
      OBVIOUS
    <3> QED BY <3>2, <3>3, <3>4
  <2>6. (Dumps!SomeDumpRemains /\ Dumps!SuccessIsRestorable)'
    BY <2>1, <2>4, <2>5 DEF BackupInv, Dumps!SomeDumpRemains, Dumps!SuccessIsRestorable,
        Dumps!Restorable
  <2>7. Dumps!TypeOK'
    <3>1. run' \in [Dumps!Runs -> RunTypes] /\ run[r].name \in 0 .. BackupTime
      BY <1>0, <2>1 DEF RunTypes
    <3>2. history' \subseteq [status : {"SUCCESS", "FAILURE"}, name : 0 .. BackupTime]
      BY <1>0, <2>1, <3>1 DEF Dumps!TypeOK
    <3> QED BY <1>0, <2>1, <3>1, <3>2 DEF Dumps!TypeOK, RunTypes
  <2> QED BY <2>2, <2>3, <2>6, <2>7 DEF BackupInv
<1>10. ASSUME NEW r \in Dumps!Runs, Dumps!Emit(r) PROVE BackupInv'
  <2>1. Dumps!TypeOK'
    BY <1>0, <1>10 DEF Dumps!TypeOK, Dumps!Emit, Dumps!Goto
  <2>2. \A q \in Dumps!Runs : Onward(q)
    BY <1>0, <1>10 DEF Dumps!Emit, Dumps!Goto, Onward
  <2> QED BY <1>1, <1>10, <2>1, <2>2 DEF Dumps!Emit
<1>11. ASSUME NEW r \in Dumps!Runs, Dumps!StepFails(r) PROVE BackupInv'
  <2>1. Dumps!TypeOK'
    BY <1>0, <1>11 DEF Dumps!TypeOK, Dumps!StepFails, Dumps!Goto, Dumps!Fault
  <2>2. \A q \in Dumps!Runs : Onward(q)
    BY <1>0, <1>11 DEF Dumps!StepFails, Dumps!Goto, Onward
  <2> QED BY <1>1, <1>11, <2>1, <2>2 DEF Dumps!StepFails
<1>12. ASSUME NEW r \in Dumps!Runs, Dumps!Fail(r) PROVE BackupInv'
  <2>1. /\ run' = [run EXCEPT ![r] = Dumps!Idle]
        /\ history' \in {history, history \union {[status |-> "FAILURE", name |-> 0]}}
        /\ UNCHANGED <<up, bNow, config, job, dump, faults, bChanges>>
    BY <1>12 DEF Dumps!Fail, Dumps!FailRow
  <2>2. Files'
    BY <1>0, <2>1 DEF Files
  <2>3. \A q \in Dumps!Runs : FileOf(q)'
    BY <1>0, <2>1 DEF FileOf, Finishing, Dumps!Restorable, Dumps!Idle
  <2>4. Dumps!Successes' = Dumps!Successes
    <3>1. {g \in history' : g.status = "SUCCESS"} = {g \in history : g.status = "SUCCESS"}
      <4>1. [status |-> "FAILURE", name |-> 0].status # "SUCCESS"
        OBVIOUS
      <4>2. CASE history' = history
        BY <4>2
      <4>3. CASE history' = history \union {[status |-> "FAILURE", name |-> 0]}
        BY <4>1, <4>3
      <4> QED BY <2>1, <4>2, <4>3
    <3> QED BY <3>1 DEF Dumps!Successes
  <2>5. (Dumps!SomeDumpRemains /\ Dumps!SuccessIsRestorable)'
    BY <2>1, <2>4 DEF BackupInv, Dumps!SomeDumpRemains, Dumps!SuccessIsRestorable, Dumps!Restorable
  <2>6. Dumps!TypeOK'
    <3>1. run' \in [Dumps!Runs -> RunTypes]
      BY <1>0, <2>1 DEF RunTypes, Dumps!Idle
    <3> QED BY <1>0, <2>1, <3>1 DEF Dumps!TypeOK, RunTypes
  <2> QED BY <2>2, <2>3, <2>5, <2>6 DEF BackupInv
<1>13. ASSUME NEW r \in Dumps!Runs, Dumps!Clean(r) PROVE BackupInv'
  <2> DEFINE ret == run[r].retention
  <2>1. /\ run' = [run EXCEPT ![r] = Dumps!Idle] /\ run[r].pc = "clean"
        /\ dump' = [n \in {m \in DOMAIN dump : ~Dumps!Expired(m, ret)} |-> dump[n]]
        /\ UNCHANGED <<up, bNow, config, job, history, faults, bChanges>>
    BY <1>13 DEF Dumps!Clean, Dumps!Cleaned
  <2>2. ret \in Retentions /\ ret \in Nat \ {0}
    BY <1>0, <2>1 DEF FileOf
  <2>3. \A n \in DOMAIN dump : /\ Dumps!Written(n) \in Nat /\ dump[n].at <= Dumps!Written(n)
                               /\ Dumps!Expired(n, ret) => Dumps!Written(n) + ret < bNow
    <3> SUFFICES ASSUME NEW n \in DOMAIN dump
                 PROVE  /\ Dumps!Written(n) \in Nat /\ dump[n].at <= Dumps!Written(n)
                        /\ Dumps!Expired(n, ret) => Dumps!Written(n) + ret < bNow
      OBVIOUS
    <3>1. dump[n].at \in Nat /\ dump[n].at <= bNow
      BY <1>0
    <3>2. Dumps!Written(n) \in {bNow, dump[n].at}
      BY DEF Dumps!Written
    <3> HIDE DEF ret
    <3> QED BY <1>0, <3>1, <3>2, <2>2 DEF Dumps!Expired
  <2>4. ASSUME NEW n \in DOMAIN dump, bNow <= dump[n].at + 1
        PROVE  n \in DOMAIN dump' /\ dump'[n] = dump[n]
    <3>1. dump[n].at \in Nat /\ Dumps!Written(n) \in Nat /\ dump[n].at <= Dumps!Written(n)
      BY <1>0, <2>3
    <3> HIDE DEF ret
    <3>2. ~(Dumps!Written(n) + ret < bNow)
      BY <1>0, <2>2, <2>4, <3>1
    <3> QED BY <2>1, <2>3, <3>2
  <2>5. Files'
    BY <1>0, <2>1 DEF Files
  <2>6. ASSUME NEW q \in Dumps!Runs PROVE FileOf(q)'
    <3>1. CASE q = r
      BY <1>0, <2>1, <3>1 DEF FileOf, Dumps!Idle, Finishing
    <3>2. ASSUME q # r, run[q].pc = "dump" PROVE FileOf(q)'
      <4>1. run'[q] = run[q] /\ run[q].name \in DOMAIN dump
        BY <1>0, <2>1, <3>2 DEF FileOf
      <4>2. Dumps!Written(run[q].name) = bNow
        BY <3>2 DEF Dumps!Written
      <4>3. ~Dumps!Expired(run[q].name, ret)
        <5> HIDE DEF ret
        <5> QED BY <1>0, <2>2, <4>2 DEF Dumps!Expired
      <4> QED BY <1>0, <2>1, <3>2, <4>1, <4>3 DEF FileOf, Finishing
    <3>3. ASSUME q # r, run[q].pc # "dump" PROVE FileOf(q)'
      BY <1>0, <2>1, <2>4, <3>3 DEF FileOf, Dumps!Restorable
    <3> QED BY <3>1, <3>2, <3>3
  <2>7. Dumps!TypeOK'
    <3>1. run' \in [Dumps!Runs -> RunTypes]
      BY <1>0, <2>1 DEF RunTypes, Dumps!Idle
    <3> QED BY <1>0, <2>1, <2>5, <3>1 DEF Dumps!TypeOK, RunTypes, Files
  <2>8. Dumps!SomeDumpRemains'
    <3>1. Dumps!Restorable(run[r].name) /\ bNow <= dump[run[r].name].at + 1
      BY <1>0, <2>1 DEF FileOf, Finishing
    <3>2. run[r].name \in DOMAIN dump' /\ dump'[run[r].name].whole
      BY <2>4, <3>1 DEF Dumps!Restorable
    <3> QED BY <3>2 DEF Dumps!SomeDumpRemains
  <2>9. Dumps!SuccessIsRestorable'
    <3>1. Dumps!Successes' = Dumps!Successes /\ Dumps!Successes \subseteq Nat
      BY <1>0, <2>1 DEF Dumps!Successes, Dumps!TypeOK
    <3>2. Dumps!Min(Retentions) \in Nat /\ Dumps!Min(Retentions) <= ret
      BY <2>2, ShortestRetention
    <3>3. ASSUME NEW n \in Dumps!Successes, n + Dumps!Min(Retentions) >= bNow PROVE Dumps!Restorable(n)'
      <4>1. n \in DOMAIN dump /\ dump[n].whole
        BY <3>3 DEF BackupInv, Dumps!SuccessIsRestorable, Dumps!Restorable
      <4>2. n <= Dumps!Written(n) /\ Dumps!Written(n) \in Nat
        <5>1. dump[n].at \in Nat /\ n <= dump[n].at /\ n \in Nat
          BY <1>0, <4>1
        <5> QED BY <2>3, <4>1, <5>1
      <4>3. ~(Dumps!Written(n) + ret < bNow)
        <5> HIDE DEF ret
        <5> QED BY <1>0, <2>2, <3>1, <3>2, <3>3, <4>2
      <4>4. ~Dumps!Expired(n, ret)
        BY <2>3, <4>1, <4>3
      <4> QED BY <2>1, <4>1, <4>4 DEF Dumps!Restorable
    <3> QED BY <2>1, <3>1, <3>3 DEF Dumps!SuccessIsRestorable
  <2> QED BY <2>5, <2>6, <2>7, <2>8, <2>9 DEF BackupInv
<1> QED BY <1>2, <1>3, <1>4, <1>5, <1>6, <1>7, <1>8, <1>9, <1>10, <1>11, <1>12, <1>13
        DEF Dumps!Next, Dumps!RunStep

\* Without a dump nothing is promised.
LEMMA BackupStart == ASSUME BackupsAreSet, Dumps!Init PROVE BackupInv
<1>1. dump = <<>> /\ history = {} /\ run = [r \in Dumps!Runs |-> Dumps!Idle] /\ bNow = 1
        /\ DOMAIN dump = {}
  BY DEF Dumps!Init
<1>2. Dumps!TypeOK
  <2>1. run \in [Dumps!Runs -> RunTypes]
    BY <1>1 DEF Dumps!Idle, RunTypes, BackupsAreSet
  <2>2. config \in [enabled : BOOLEAN, time : Times, retention : Retentions] /\ up \in BOOLEAN
    BY DEF Dumps!Init
  <2>3. job \in (Times \ Dumps!Unfit) \union {Dumps!None}
    BY DEF Dumps!Init
  <2> QED BY <1>1, <2>1, <2>2, <2>3 DEF Dumps!Init, Dumps!TypeOK, BackupsAreSet, RunTypes
<1>3. Files /\ \A r \in Dumps!Runs : FileOf(r)
  BY <1>1 DEF Files, FileOf, Dumps!Idle, Finishing
<1>4. Dumps!SomeDumpRemains /\ Dumps!SuccessIsRestorable
  BY <1>1 DEF Dumps!SomeDumpRemains, Dumps!SuccessIsRestorable, Dumps!Successes
<1> QED BY <1>2, <1>3, <1>4 DEF BackupInv

-----------------------------------------------------------------------------
(* TicketDesk                                                               *)

Statuses == {Desk!Order[k] : k \in DOMAIN Desk!Order} \union {Desk!Null}
TicketTypes == [type : Desk!Types, status : Statuses, service : Services, relation : Services,
                archived : BOOLEAN, reason : BOOLEAN]
CreateTypes == [op : {"create"}, type : Desk!Types, service : Services, user : Staff,
                pc : {"lock", "user", "write", "close"}]
UpdateTypes == [op : {"update"}, ticket : Nat, move : Statuses \union {Desk!None},
                service : Services \union {Desk!None}, why : {Desk!None, "empty", "text"},
                pc : {"check", "set", "sync"}]
RequestTypes == {Desk!Idle} \union CreateTypes \union UpdateTypes

\* A ticket, the service it names and the one it is related to are of one type;
\* a closed one is archived.
Agrees(t) ==
  /\ service[t.service].type = t.type /\ service[t.relation].type = t.type
  /\ t.status = "closed" => t.archived

\* An update is about a ticket that is there and, once the service has been
\* looked at, gives it a service of its type.
Fits(r) ==
  r.op = "update" =>
    /\ r.ticket \in DOMAIN tickets
    /\ r.pc \in {"check", "sync"} => r.service \in Services \ {Desk!None}
    /\ r.pc # "check" /\ r.service # Desk!None => service[r.service].type = tickets[r.ticket].type

\* A request that holds the lock of u.
Holding(r, u) == r \in CreateTypes /\ r.user = u /\ r.pc # "lock"

DeskInv ==
  /\ Desk!TypeOK /\ tickets \in Seq(TicketTypes) /\ tReq \in [Workers -> RequestTypes]
  /\ \A i \in DOMAIN tickets : Agrees(tickets[i])
  /\ \A w \in Workers : Fits(tReq[w])
  /\ \A u \in Staff : lock[u] # Desk!None => Holding(tReq[lock[u]], u)

\* No update names a closed status by another name, and a request is of one kind.
LEMMA DeskKinds ==
  /\ Statuses = {"open", "in_progress", "in_validation", "resolved", "closed", "null"}
  /\ Desk!Idle.op = "idle" /\ \A r \in CreateTypes : r.op = "create"
     /\ r.pc \in {"lock", "user", "write", "close"}
  /\ \A r \in UpdateTypes : r.op = "update"
<1>1. DOMAIN Desk!Order = 1 .. 5
  BY DEF Desk!Order
<1>2. Statuses = {"open", "in_progress", "in_validation", "resolved", "closed", "null"}
  BY <1>1 DEF Statuses, Desk!Order, Desk!Null
<1> QED BY <1>2 DEF Desk!Idle, CreateTypes, UpdateTypes

\* A step of the request of w, which may write tickets of the types they had,
\* and take or free the lock that is its own.
LEMMA RequestMoves ==
  ASSUME DeskIsSet, DeskInv, NEW w \in Workers, NEW r \in RequestTypes, Fits(r),
         tReq' = [tReq EXCEPT ![w] = r],
         UNCHANGED <<user, service, tChanges>>, tFailures' \in 0 .. DeskFailures,
         lock' \in [Staff -> Workers \union {Desk!None}],
         \A u \in Staff : lock'[u] \in {lock[u], w, Desk!None} /\ (lock'[u] = w => Holding(r, u)),
         tickets' \in Seq(TicketTypes), Len(tickets) <= Len(tickets'),
         \A i \in DOMAIN tickets : tickets'[i].type = tickets[i].type,
         \A i \in DOMAIN tickets' : Agrees(tickets'[i]),
         overtaken' \subseteq 1 .. Len(tickets')
  PROVE  DeskInv'
<1>1. \A i \in DOMAIN tickets' : tickets'[i] \in TicketTypes
  OBVIOUS
<1>2. Desk!TypeOK'
  BY <1>1 DEF DeskInv, Desk!TypeOK, TicketTypes, Statuses
<1>3. \A v \in Workers : Fits(tReq'[v])
  BY DEF DeskInv
<1>4. DOMAIN tickets \subseteq DOMAIN tickets'
  BY DEF DeskInv
<1>5. ASSUME NEW v \in Workers PROVE Fits(tReq[v])'
  BY <1>3, <1>4 DEF Fits
<1>6. \A i \in DOMAIN tickets' : Agrees(tickets[i])'
  BY DEF Agrees
<1>7. ASSUME NEW u \in Staff, lock'[u] # Desk!None PROVE Holding(tReq[lock[u]], u)'
  <2>1. CASE lock'[u] = w
    BY <2>1 DEF DeskInv, Holding
  <2>2. CASE lock'[u] # w
    <3>1. lock'[u] = lock[u] /\ lock[u] \in Workers
      BY <1>7, <2>2 DEF DeskInv, Desk!TypeOK
    <3> QED BY <1>7, <2>2, <3>1 DEF DeskInv, Holding
  <2> QED BY <2>1, <2>2
<1>8. tReq' \in [Workers -> RequestTypes]
  BY DEF DeskInv
<1> QED BY <1>2, <1>5, <1>6, <1>7, <1>8 DEF DeskInv

\* A step of the request of w that writes nothing.
LEMMA RequestReads ==
  ASSUME DeskIsSet, DeskInv, NEW w \in Workers, NEW r \in RequestTypes, Fits(r),
         tReq' = [tReq EXCEPT ![w] = r],
         UNCHANGED <<user, service, tickets, overtaken, tChanges>>, tFailures' \in 0 .. DeskFailures,
         lock' \in [Staff -> Workers \union {Desk!None}],
         \A u \in Staff : lock'[u] \in {lock[u], w, Desk!None} /\ (lock'[u] = w => Holding(r, u))
  PROVE  DeskInv'
<1>1. /\ tickets' \in Seq(TicketTypes) /\ Len(tickets) <= Len(tickets')
      /\ overtaken' \subseteq 1 .. Len(tickets')
  BY DEF DeskInv, Desk!TypeOK
<1>2. /\ \A i \in DOMAIN tickets : tickets'[i].type = tickets[i].type
      /\ \A i \in DOMAIN tickets' : Agrees(tickets'[i])
  BY DEF DeskInv
<1> QED BY <1>1, <1>2, RequestMoves

\* Users come and go, and a service keeps its type for good.
LEMMA CatalogueKeepsDesk ==
  ASSUME DeskIsSet, DeskInv,
         \/ \E u \in Staff : Desk!ChangeUser(u)
         \/ \E s \in Services, t \in Desk!Types : Desk!UpdateService(s, t) \/ Desk!CreateService(s, t)
         \/ UNCHANGED Desk!vars
  PROVE  DeskInv'
<1>1. /\ UNCHANGED <<tickets, lock, tReq, overtaken, tFailures>> /\ tChanges' \in 0 .. DeskChanges
  BY DEF DeskIsSet, DeskInv, Desk!TypeOK, Desk!ChangeUser, Desk!UpdateService, Desk!CreateService,
      Desk!Change, Desk!vars
<1>2. user' \in [Staff -> {Desk!None, "active", "inactive"}]
  BY DEF DeskInv, Desk!TypeOK, Desk!ChangeUser, Desk!UpdateService, Desk!CreateService, Desk!vars
<1>3. /\ service' \in [Services -> [type : Desk!Types \union {Desk!None}, active : BOOLEAN]]
      /\ \A s \in Services : service[s].type # Desk!None => service'[s].type = service[s].type
  <2>1. CASE UNCHANGED service
    BY <2>1 DEF DeskInv, Desk!TypeOK
  <2>2. ASSUME NEW s \in Services, NEW t \in Desk!Types, Desk!UpdateService(s, t) PROVE <1>3
    <3>1. PICK a \in BOOLEAN : service' = [service EXCEPT ![s].active = a]
      BY <2>2 DEF Desk!UpdateService
    <3>2. \A x \in Services : service[x] \in [type : Desk!Types \union {Desk!None}, active : BOOLEAN]
      BY DEF DeskInv, Desk!TypeOK
    <3>3. service' = [service EXCEPT ![s] = [service[s] EXCEPT !.active = a]]
      BY <3>1
    <3>4. /\ [service[s] EXCEPT !.active = a] \in [type : Desk!Types \union {Desk!None},
             active : BOOLEAN]
          /\ [service[s] EXCEPT !.active = a].type = service[s].type
      BY <3>2
    <3> QED BY <3>3, <3>4 DEF DeskInv, Desk!TypeOK
  <2>3. ASSUME NEW s \in Services, NEW t \in Desk!Types, Desk!CreateService(s, t) PROVE <1>3
    BY <2>3 DEF Desk!CreateService, DeskInv, Desk!TypeOK
  <2> QED BY <2>1, <2>2, <2>3 DEF Desk!ChangeUser, Desk!vars
<1>4. Desk!None \notin Desk!Types
  BY DEF Desk!None, Desk!Types
<1>5. \A i \in DOMAIN tickets : tickets[i] \in TicketTypes
  BY DEF DeskInv
<1>6. ASSUME NEW i \in DOMAIN tickets PROVE Agrees(tickets[i])'
  BY <1>1, <1>3, <1>4, <1>5 DEF DeskInv, Agrees, TicketTypes
<1>7. ASSUME NEW w \in Workers PROVE Fits(tReq[w])'
  <2>1. tReq[w] \in RequestTypes /\ Fits(tReq[w])
    BY DEF DeskInv
  <2>2. CASE tReq[w].op = "update"
    <3>1. tReq[w] \in UpdateTypes
      BY <2>1, <2>2, DeskKinds DEF RequestTypes
    <3>2. tickets[tReq[w].ticket].type \in Desk!Types
      BY <1>5, <2>1, <2>2 DEF Fits, TicketTypes
    <3> QED BY <1>1, <1>3, <1>4, <2>1, <2>2, <3>1, <3>2 DEF Fits, UpdateTypes
  <2>3. CASE tReq[w].op # "update"
    BY <1>1, <2>3 DEF Fits
  <2> QED BY <2>2, <2>3
<1>8. Desk!TypeOK'
  BY <1>1, <1>2, <1>3 DEF DeskInv, Desk!TypeOK
<1>9. \A u \in Staff : lock'[u] # Desk!None => Holding(tReq'[lock'[u]], u)
  BY <1>1 DEF DeskInv
<1> QED BY <1>1, <1>6, <1>7, <1>8, <1>9 DEF DeskInv, Holding

\* Creating a ticket.
LEMMA CreateKeepsDesk ==
  ASSUME DeskIsSet, DeskInv, NEW w \in Workers, Desk!Create(w)
  PROVE  DeskInv'
<1> USE DEF DeskIsSet
<1>1. /\ tReq[w] \in RequestTypes /\ Fits(tReq[w]) /\ tFailures \in 0 .. DeskFailures
      /\ lock \in [Staff -> Workers \union {Desk!None}] /\ tReq \in [Workers -> RequestTypes]
      /\ \A u \in Staff : lock[u] = w => Holding(tReq[w], u)
  BY DEF DeskInv, Desk!TypeOK
<1>2. ASSUME NEW t \in Desk!Types, NEW s \in Services, NEW u \in Staff, Desk!BeginCreate(w, t, s, u)
      PROVE  DeskInv'
  <2> DEFINE r == [op |-> "create", type |-> t, service |-> s, user |-> u, pc |-> "lock"]
  <2>1. r \in RequestTypes /\ r.op # "update"
    BY DEF RequestTypes, CreateTypes
  <2>2. /\ tReq' = [tReq EXCEPT ![w] = r] /\ tReq[w] = Desk!Idle
        /\ UNCHANGED <<user, service, tickets, lock, overtaken, tChanges, tFailures>>
    BY <1>2 DEF Desk!BeginCreate, Desk!Reading, Desk!Quiet
  <2> HIDE DEF r
  <2>3. \A v \in Staff : lock[v] # w
    BY <1>1, <2>2, DeskKinds DEF Holding
  <2> QED BY <1>1, <2>1, <2>2, <2>3, RequestReads DEF Fits
\* A request to create goes on to p.
<1>3. ASSUME tReq[w].op = "create", NEW p \in {"user", "write", "close"}
      PROVE  LET r == [tReq[w] EXCEPT !.pc = p] IN
               /\ r \in RequestTypes /\ Fits(r) /\ \A u \in Staff : tReq[w].user = u => Holding(r, u)
  <2>1. tReq[w] \in CreateTypes
    BY <1>1, <1>3, DeskKinds DEF RequestTypes
  <2>2. /\ [tReq[w] EXCEPT !.pc = p] \in CreateTypes /\ [tReq[w] EXCEPT !.pc = p].pc = p
        /\ [tReq[w] EXCEPT !.pc = p].user = tReq[w].user /\ [tReq[w] EXCEPT !.pc = p].op = "create"
    BY <2>1 DEF CreateTypes
  <2> QED BY <2>2 DEF RequestTypes, Fits, Holding
<1>4. ASSUME tReq[w].op = "create"
      PROVE  tReq[w] \in CreateTypes /\ tReq[w].user \in Staff /\ tReq[w].service \in Services
        /\ tReq[w].type \in Desk!Types
  <2>1. tReq[w] \in CreateTypes
    BY <1>1, <1>4, DeskKinds DEF RequestTypes
  <2> QED BY <2>1 DEF CreateTypes
<1>5. CASE Desk!TakeLock(w)
  <2> DEFINE r == [tReq[w] EXCEPT !.pc = "user"]
  <2>1. /\ tReq[w].op = "create" /\ tReq' = [tReq EXCEPT ![w] = r]
           /\ lock' = [lock EXCEPT ![tReq[w].user] = w]
        /\ UNCHANGED <<user, service, tickets, overtaken, tChanges, tFailures>> /\ tReq[w].pc = "lock"
    BY <1>1, <1>5 DEF Desk!TakeLock, Desk!Goto, Desk!Reading, Desk!Quiet
  <2>2. r \in RequestTypes /\ Fits(r) /\ Holding(r, tReq[w].user)
    BY <1>3, <1>4, <2>1
  <2> HIDE DEF r
  <2>3. \A u \in Staff : lock[u] # w
    BY <1>1, <2>1 DEF Holding
  <2>4. lock' \in [Staff -> Workers \union {Desk!None}]
    BY <1>1, <2>1
  <2>5. \A u \in Staff : lock'[u] \in {lock[u], w, Desk!None} /\ (lock'[u] = w => Holding(r, u))
    BY <1>1, <1>4, <2>1, <2>2, <2>3
  <2> QED BY <1>1, <2>1, <2>2, <2>4, <2>5, RequestReads
<1>6. CASE Desk!ReadUser(w)
  <2> DEFINE p == IF user[tReq[w].user] = "active" THEN "write" ELSE "close"
             r == [tReq[w] EXCEPT !.pc = p]
  <2>1. /\ tReq[w].op = "create" /\ tReq' = [tReq EXCEPT ![w] = r]
        /\ UNCHANGED <<user, service, tickets, lock, overtaken, tChanges, tFailures>>
    BY <1>1, <1>6 DEF Desk!ReadUser, Desk!Goto, Desk!Reading, Desk!Quiet
  <2>2. p \in {"user", "write", "close"}
    OBVIOUS
  <2> HIDE DEF p
  <2>3. r \in RequestTypes /\ Fits(r) /\ \A u \in Staff : tReq[w].user = u => Holding(r, u)
    BY <1>3, <2>1, <2>2
  <2> HIDE DEF r
  <2>4. \A u \in Staff : lock[u] = w => Holding(r, u)
    BY <1>1, <2>3 DEF Holding
  <2> QED BY <1>1, <2>1, <2>3, <2>4, RequestReads
<1>7. CASE Desk!WriteTicket(w)
  <2> DEFINE r == [tReq[w] EXCEPT !.pc = "close"]
             q == tReq[w]
  <2>1. /\ q.op = "create" /\ tReq' = [tReq EXCEPT ![w] = r]
        /\ UNCHANGED <<user, service, lock, overtaken, tChanges, tFailures>>
        /\ IF Desk!Usable(q.service, q.type)
           THEN tickets' = Append(tickets, Desk!Ticket(q)) ELSE UNCHANGED tickets
    BY <1>1, <1>7 DEF Desk!WriteTicket, Desk!Goto, Desk!Reading, Desk!Quiet
  <2>2. r \in RequestTypes /\ Fits(r) /\ \A u \in Staff : q.user = u => Holding(r, u)
    BY <1>3, <2>1
  <2> HIDE DEF r
  <2>3. \A u \in Staff : lock[u] = w => Holding(r, u)
    BY <1>1, <2>2 DEF Holding
  <2>4. CASE Desk!Usable(q.service, q.type)
    <3> DEFINE t == Desk!Ticket(q)
    <3>1. t \in TicketTypes
      BY <1>4, <2>1, DeskKinds DEF Desk!Ticket, TicketTypes
    <3>2. Agrees(t)
      BY <2>4 DEF Desk!Ticket, Desk!Usable, Agrees
    <3>3. tickets' = Append(tickets, t) /\ tickets \in Seq(TicketTypes)
      BY <2>1, <2>4 DEF DeskInv
    <3> HIDE DEF t
    <3>4. /\ tickets' \in Seq(TicketTypes) /\ Len(tickets') = Len(tickets) + 1 /\ Len(tickets) \in Nat
          /\ \A i \in 1 .. Len(tickets) : tickets'[i] = tickets[i]
          /\ tickets'[Len(tickets) + 1] = t
      BY <3>1, <3>3
    <3>5. /\ Len(tickets) <= Len(tickets')
             /\ \A i \in DOMAIN tickets : tickets'[i].type = tickets[i].type
      BY <3>3, <3>4
    <3>6. \A i \in DOMAIN tickets' : i \in DOMAIN tickets \/ i = Len(tickets) + 1
      BY <3>3, <3>4
    <3>7. \A i \in DOMAIN tickets' : Agrees(tickets'[i])
      BY <3>2, <3>3, <3>4, <3>6 DEF DeskInv
    <3>8. overtaken' \subseteq 1 .. Len(tickets')
      BY <2>1, <3>4 DEF DeskInv, Desk!TypeOK
    <3> QED BY <1>1, <2>1, <2>2, <2>3, <3>4, <3>5, <3>7, <3>8, RequestMoves
  <2>5. CASE ~Desk!Usable(q.service, q.type)
    BY <1>1, <2>1, <2>2, <2>3, <2>5, RequestReads
  <2> QED BY <2>4, <2>5
<1>8. CASE Desk!Close(w)
  <2>1. /\ tReq[w].op = "create" /\ tReq' = [tReq EXCEPT ![w] = Desk!Idle]
        /\ lock' = [lock EXCEPT ![tReq[w].user] = Desk!None]
        /\ UNCHANGED <<user, service, tickets, overtaken, tChanges, tFailures>>
    BY <1>8 DEF Desk!Close, Desk!Reading, Desk!Quiet
  <2>2. Desk!Idle \in RequestTypes /\ Fits(Desk!Idle)
    BY DeskKinds DEF RequestTypes, Fits
  <2>3. lock' \in [Staff -> Workers \union {Desk!None}]
    BY <1>1, <2>1
  <2>4. \A u \in Staff : lock'[u] \in {lock[u], Desk!None} /\ lock'[u] # w
    BY <1>1, <1>4, <2>1 DEF Holding
  <2> QED BY <1>1, <2>1, <2>2, <2>3, <2>4, RequestReads
<1> QED BY <1>2, <1>5, <1>6, <1>7, <1>8 DEF Desk!Create

\* Updating a ticket.
LEMMA UpdateKeepsDesk ==
  ASSUME DeskIsSet, DeskInv, NEW w \in Workers, Desk!Update(w)
  PROVE  DeskInv'
<1> USE DEF DeskIsSet
<1> DEFINE q == tReq[w]
<1>1. /\ q \in RequestTypes /\ Fits(q) /\ tFailures \in 0 .. DeskFailures
      /\ lock \in [Staff -> Workers \union {Desk!None}] /\ tReq \in [Workers -> RequestTypes]
      /\ \A u \in Staff : lock[u] = w => Holding(q, u)
      /\ tickets \in Seq(TicketTypes) /\ \A i \in DOMAIN tickets : tickets[i] \in TicketTypes
         /\ Agrees(tickets[i])
      /\ \A s \in Services : service[s].type \in Desk!Types \union {Desk!None}
  BY DEF DeskInv, Desk!TypeOK
<1>2. Desk!Idle \in RequestTypes /\ Fits(Desk!Idle)
  BY DeskKinds DEF RequestTypes, Fits
<1>3. ASSUME q.op # "create" PROVE \A u \in Staff : lock[u] # w
  BY <1>1, <1>3, DeskKinds DEF Holding
<1>4. ASSUME q.op = "update"
      PROVE  q \in UpdateTypes /\ q.ticket \in DOMAIN tickets /\ q.move \in Statuses \union {Desk!None}
             /\ q.service \in Services \union {Desk!None}
  <2>1. q \in UpdateTypes
    BY <1>1, <1>4, DeskKinds DEF RequestTypes
  <2> QED BY <1>1, <1>4, <2>1 DEF UpdateTypes, Fits
<1>5. ASSUME NEW i \in 1 .. MaxTickets, NEW move \in Transitions \union {Desk!None},
             NEW s \in Services \union {Desk!None}, NEW why \in {Desk!None, "empty", "text"},
             Desk!BeginUpdate(w, i, move, s, why)
      PROVE  DeskInv'
  <2> DEFINE p == IF s = Desk!None THEN "set" ELSE "check"
             r == [op |-> "update", ticket |-> i, move |-> move, service |-> s, why |-> why, pc |-> p]
  <2>1. /\ tReq' = [tReq EXCEPT ![w] = r] /\ q = Desk!Idle /\ i \in DOMAIN tickets
        /\ move \in {Desk!None, Desk!Null} \/ Desk!Follows(move, tickets[i].status)
        /\ UNCHANGED <<user, service, tickets, lock, overtaken, tChanges, tFailures>>
    BY <1>5 DEF Desk!BeginUpdate, Desk!Reading, Desk!Quiet
  <2>2. move \in Statuses \union {Desk!None}
    BY <2>1 DEF Statuses, Desk!Follows, Desk!Order
  <2>3. r \in RequestTypes
    BY <2>2 DEF RequestTypes, UpdateTypes
  <2>4. Fits(r)
    BY <2>1 DEF Fits
  <2> HIDE DEF r
  <2> QED BY <1>1, <1>3, <2>1, <2>3, <2>4, DeskKinds, RequestReads
\* A request to update goes on to p.
<1>6. ASSUME q.op = "update", NEW p \in {"set", "sync"},
             q.service # Desk!None => service[q.service].type = tickets[q.ticket].type,
             p = "sync" => q.service # Desk!None
      PROVE  [q EXCEPT !.pc = p] \in RequestTypes /\ Fits([q EXCEPT !.pc = p])
  <2>1. /\ [q EXCEPT !.pc = p] \in UpdateTypes /\ [q EXCEPT !.pc = p].pc = p
        /\ [q EXCEPT !.pc = p].service = q.service /\ [q EXCEPT !.pc = p].ticket = q.ticket
    BY <1>4, <1>6 DEF UpdateTypes
  <2> QED BY <1>4, <1>6, <2>1 DEF RequestTypes, Fits
<1>7. CASE Desk!CheckService(w)
  <2>1. /\ q.op = "update" /\ UNCHANGED <<user, service, tickets, lock, overtaken, tChanges, tFailures>>
        /\ IF Desk!Usable(q.service, tickets[q.ticket].type)
           THEN tReq' = [tReq EXCEPT ![w] = [q EXCEPT !.pc = "set"]]
             ELSE tReq' = [tReq EXCEPT ![w] = Desk!Idle]
    BY <1>1, <1>7 DEF Desk!CheckService, Desk!Goto, Desk!Reading, Desk!Quiet
  <2>2. CASE Desk!Usable(q.service, tickets[q.ticket].type)
    <3> DEFINE r == [q EXCEPT !.pc = "set"]
    <3>1. r \in RequestTypes /\ Fits(r) /\ tReq' = [tReq EXCEPT ![w] = r]
      BY <1>6, <2>1, <2>2 DEF Desk!Usable
    <3> HIDE DEF r
    <3> QED BY <1>1, <1>3, <2>1, <3>1, RequestReads
  <2>3. CASE ~Desk!Usable(q.service, tickets[q.ticket].type)
    BY <1>1, <1>2, <1>3, <2>1, <2>3, RequestReads
  <2> QED BY <2>2, <2>3
\* A ticket is written.
<1>8. ASSUME q.op = "update", NEW r \in RequestTypes, Fits(r), tReq' = [tReq EXCEPT ![w] = r],
             NEW t \in TicketTypes, tickets' = [tickets EXCEPT ![q.ticket] = t],
             t.type = tickets[q.ticket].type, Agrees(t), overtaken' \subseteq overtaken \union {q.ticket},
             UNCHANGED <<user, service, lock, tChanges, tFailures>>
      PROVE  DeskInv'
  <2>1. /\ tickets' \in Seq(TicketTypes) /\ Len(tickets') = Len(tickets)
           /\ DOMAIN tickets' = DOMAIN tickets
        /\ Len(tickets) <= Len(tickets')
    BY <1>1, <1>4, <1>8
  <2>2. tickets'[q.ticket] = t /\ \A i \in DOMAIN tickets \ {q.ticket} : tickets'[i] = tickets[i]
    BY <1>1, <1>4, <1>8
  <2>3. /\ \A i \in DOMAIN tickets : tickets'[i].type = tickets[i].type
        /\ \A i \in DOMAIN tickets' : Agrees(tickets'[i])
    BY <1>1, <1>8, <2>1, <2>2
  <2>4. overtaken' \subseteq 1 .. Len(tickets')
    BY <1>4, <1>8, <2>1 DEF DeskInv, Desk!TypeOK
  <2> QED BY <1>1, <1>3, <1>8, <2>1, <2>3, <2>4, RequestMoves
<1>9. CASE Desk!SetTicket(w)
  <2> DEFINE old == tickets[q.ticket]
             t == Desk!Updated(old, q)
             r == IF q.service = Desk!None THEN Desk!Idle ELSE [q EXCEPT !.pc = "sync"]
  <2>1. /\ q.op = "update" /\ q.pc = "set" /\ tickets' = [tickets EXCEPT ![q.ticket] = t]
        /\ tReq' = [tReq EXCEPT ![w] = r] /\ UNCHANGED <<user, service, lock, tChanges, tFailures>>
        /\ overtaken' \subseteq overtaken \union {q.ticket}
    BY <1>1, <1>9 DEF Desk!SetTicket, Desk!Goto, Desk!Reading, Desk!Quiet
  <2>2. q.service # Desk!None => service[q.service].type = old.type
    BY <1>1, <2>1 DEF Fits
  <2>3. r \in RequestTypes /\ Fits(r)
    BY <1>2, <1>6, <2>1, <2>2
  <2> HIDE DEF r
  <2>4. old \in TicketTypes /\ Agrees(old)
    BY <1>1, <1>4, <2>1
  <2> DEFINE s == Desk!Given(q.move, old.status)
             n == Desk!Given(q.service, old.service)
             a == old.archived \/ q.move = "closed"
             b == Desk!Reasoned(q, old.reason)
  <2>5. /\ t.type = old.type /\ t.status = s /\ t.service = n /\ t.relation = old.relation
        /\ t.archived = a /\ t.reason = b
        /\ t = [type |-> t.type, status |-> t.status, service |-> t.service, relation |-> t.relation,
                archived |-> t.archived, reason |-> t.reason]
    <3>1. t = [old EXCEPT !.status = s, !.service = n, !.archived = a, !.reason = b]
      BY DEF Desk!Updated
    <3>2. old = [type |-> old.type, status |-> old.status, service |-> old.service,
            relation |-> old.relation,
                 archived |-> old.archived, reason |-> old.reason]
      BY <2>4 DEF TicketTypes
    <3> HIDE DEF t, s, n, a, b, old
    <3>3. t = [type |-> old.type, status |-> s, service |-> n, relation |-> old.relation,
            archived |-> a,
            reason |-> b]
      BY <3>1, <3>2
    <3> QED BY <3>3
  <2>6. /\ t.type \in Desk!Types /\ t.status \in Statuses /\ t.service \in Services
           /\ t.relation \in Services
    BY <1>4, <2>1, <2>4, <2>5 DEF Desk!Given, TicketTypes
  <2>7. t.archived \in BOOLEAN /\ t.reason \in BOOLEAN
    BY <2>4, <2>5 DEF Desk!Reasoned, TicketTypes
  <2>8. Agrees(t)
    <3>1. service[t.service].type = t.type /\ service[t.relation].type = t.type
      BY <2>2, <2>4, <2>5 DEF Desk!Given, Agrees
    <3>2. ASSUME t.status = "closed" PROVE old.archived \/ q.move = "closed"
      BY <2>4, <2>5, <3>2 DEF Desk!Given, Agrees
    <3>3. t.status = "closed" => t.archived
      BY <2>5, <3>2
    <3> QED BY <3>1, <3>3 DEF Agrees
  <2> HIDE DEF t
  <2>9. t \in TicketTypes
    BY <2>5, <2>6, <2>7 DEF TicketTypes
  <2> QED BY <1>8, <2>1, <2>3, <2>5, <2>8, <2>9
<1>10. CASE Desk!SyncRelation(w)
  <2> DEFINE old == tickets[q.ticket]
             t == [old EXCEPT !.relation = q.service]
  <2>1. /\ q.op = "update" /\ q.pc = "sync" /\ tickets' = [tickets EXCEPT ![q.ticket] = t]
        /\ tReq' = [tReq EXCEPT ![w] = Desk!Idle]
           /\ UNCHANGED <<user, service, lock, overtaken, tChanges, tFailures>>
    BY <1>1, <1>4, <1>10 DEF Desk!SyncRelation, Desk!Reading, Desk!Quiet
  <2>2. q.service \in Services \ {Desk!None} /\ old \in TicketTypes /\ Agrees(old)
    BY <1>1, <1>4, <2>1 DEF Fits
  <2>3. service[q.service].type = old.type
    BY <1>1, <2>1, <2>2 DEF Fits
  <2>4. /\ t \in TicketTypes /\ t.type = old.type /\ t.status = old.status /\ t.service = old.service
        /\ t.relation = q.service /\ t.archived = old.archived /\ t.reason = old.reason
    BY <2>2 DEF TicketTypes
  <2> HIDE DEF t
  <2>5. Agrees(t)
    <3>1. t.status = "closed" => t.archived
      BY <2>2, <2>4 DEF Agrees
    <3> QED BY <2>2, <2>3, <2>4, <3>1 DEF Agrees
  <2> QED BY <1>2, <1>8, <2>1, <2>4, <2>5
<1> QED BY <1>5, <1>7, <1>9, <1>10 DEF Desk!Update

\* A statement that raises, or a worker that dies.
LEMMA FailureKeepsDesk ==
  ASSUME DeskIsSet, DeskInv, NEW w \in Workers, Desk!Fail(w) \/ Desk!Crash(w)
  PROVE  DeskInv'
<1> USE DEF DeskIsSet
<1> DEFINE q == tReq[w]
<1>1. /\ q \in RequestTypes /\ lock \in [Staff -> Workers \union {Desk!None}]
         /\ tReq \in [Workers -> RequestTypes]
      /\ \A u \in Staff : lock[u] = w => Holding(q, u)
  BY DEF DeskInv, Desk!TypeOK
<1>2. Desk!Idle \in RequestTypes /\ Fits(Desk!Idle)
  BY DeskKinds DEF RequestTypes, Fits
<1>3. UNCHANGED <<user, service, tickets, overtaken, tChanges>> /\ tFailures' \in 0 .. DeskFailures
  BY DEF Desk!Fail, Desk!Crash, Desk!Failing, Desk!Reading, Desk!Quiet, DeskInv, Desk!TypeOK
<1>4. CASE Desk!Fail(w)
  <2>1. CASE q.op = "create" /\ q.pc # "lock"
    <3> DEFINE r == [q EXCEPT !.pc = "close"]
    <3>1. tReq' = [tReq EXCEPT ![w] = r] /\ lock' = lock
      BY <1>1, <1>4, <2>1 DEF Desk!Fail, Desk!Goto
    <3>2. q \in CreateTypes
      BY <1>1, <2>1, DeskKinds DEF RequestTypes
    <3>3. r \in CreateTypes /\ r.pc = "close" /\ r.user = q.user /\ r.op = "create"
      BY <2>1, <3>2 DEF CreateTypes
    <3>4. r \in RequestTypes /\ Fits(r) /\ \A u \in Staff : lock[u] = w => Holding(r, u)
      BY <1>1, <3>3 DEF RequestTypes, Fits, Holding
    <3> HIDE DEF r
    <3> QED BY <1>1, <1>3, <3>1, <3>4, RequestReads
  <2>2. CASE ~(q.op = "create" /\ q.pc # "lock")
    <3>1. tReq' = [tReq EXCEPT ![w] = Desk!Idle] /\ lock' = lock
      BY <1>4, <2>2 DEF Desk!Fail
    <3>2. \A u \in Staff : lock[u] # w
      BY <1>1, <2>2, DeskKinds DEF Holding
    <3> QED BY <1>1, <1>2, <1>3, <3>1, <3>2, RequestReads
  <2> QED BY <2>1, <2>2
<1>5. CASE Desk!Crash(w)
  <2>1. /\ tReq' = [tReq EXCEPT ![w] = Desk!Idle]
        /\ lock' = [u \in Staff |-> IF lock[u] = w THEN Desk!None ELSE lock[u]]
    BY <1>5 DEF Desk!Crash
  <2>2. lock' \in [Staff -> Workers \union {Desk!None}]
    BY <1>1, <2>1
  <2>3. \A u \in Staff : lock'[u] \in {lock[u], Desk!None} /\ lock'[u] # w
    BY <2>1
  <2> QED BY <1>1, <1>2, <1>3, <2>1, <2>2, <2>3, RequestReads
<1> QED BY <1>4, <1>5

\* Every step.
LEMMA DeskStep == ASSUME DeskIsSet, DeskInv, [Desk!Next]_Desk!vars PROVE DeskInv'
BY CatalogueKeepsDesk, CreateKeepsDesk, UpdateKeepsDesk, FailureKeepsDesk DEF Desk!Next

\* At the start nobody asks for anything.
LEMMA DeskStart == ASSUME DeskIsSet, Desk!Init PROVE DeskInv
<1>1. tickets = <<>> /\ tickets \in Seq(TicketTypes) /\ DOMAIN tickets = {}
  BY DEF Desk!Init
<1>2. \A w \in Workers : tReq[w] = Desk!Idle /\ Fits(tReq[w])
  BY DeskKinds DEF Desk!Init, Fits
<1> QED BY <1>1, <1>2 DEF Desk!Init, DeskIsSet, DeskInv, Desk!TypeOK, RequestTypes, Desk!Types

\* What an update was accepted for is still so when it is written, unless the
\* ticket was written in between; a closed ticket that no update overtook has a
\* reason.
Accepted(r) ==
  r.op = "update" /\ r.pc \in {"check", "set"} =>
    /\ r.move = "closed" => r.why = "text"
    /\ r.ticket \notin overtaken =>
         /\ tickets[r.ticket].status # "closed"
         /\ r.move \in {Desk!None, Desk!Null} \/ Desk!Follows(r.move, tickets[r.ticket].status)
Explained(i) == tickets[i].status = "closed" /\ i \notin overtaken => tickets[i].reason
StaleInv ==
  /\ \A w \in Workers : Accepted(tReq[w])
  /\ \A i \in DOMAIN tickets : Explained(i)

\* What is seen of it.
LEMMA DeskKeepsItsWord == ASSUME DeskInv, StaleInv PROVE Desk!DeskHolds
<1>1. Desk!ClosedIsArchived
  BY DEF DeskInv, Agrees, StaleInv, Explained, Desk!ClosedIsArchived
<1> QED BY <1>1 DEF DeskInv, Agrees, Holding, CreateTypes, Desk!DeskHolds, Desk!TypesAgree,
    Desk!LocksAreInUse

LEMMA StaleStarts == ASSUME Desk!Init PROVE StaleInv
<1>1. tickets = <<>> /\ \A w \in Workers : tReq[w].op = "idle"
  BY DEF Desk!Init, Desk!Idle
<1> QED BY <1>1 DEF StaleInv, Accepted

LEMMA FollowsStays ==
  ASSUME NEW next, NEW status PROVE Desk!Follows(next, status)' <=> Desk!Follows(next, status)
BY DEF Desk!Follows, Desk!Order

\* A step of the request of w that overtakes whoever has read what it writes.
LEMMA StaleMoves ==
  ASSUME DeskInv, StaleInv, NEW w \in Workers, NEW r, tReq' = [tReq EXCEPT ![w] = r], Accepted(r)',
         overtaken \subseteq overtaken', DOMAIN tickets \subseteq DOMAIN tickets',
         \A i \in DOMAIN tickets \ overtaken' : tickets'[i].status = tickets[i].status
           \/ \A v \in Workers \ {w} : ~Desk!HasRead(tReq[v], i),
         \A i \in DOMAIN tickets' : Explained(i)'
  PROVE  StaleInv'
<1>1. ASSUME NEW v \in Workers PROVE Accepted(tReq[v])'
  <2>1. CASE v = w
    <3>1. tReq'[v] = r
      BY <2>1 DEF DeskInv
    <3> QED BY <3>1 DEF Accepted
  <2>2. CASE v # w
    <3>1. PICK q : q = tReq[v]
      OBVIOUS
    <3>2. tReq'[v] = q /\ Accepted(q) /\ Fits(q)
      BY <2>2, <3>1 DEF DeskInv, StaleInv
    <3>3. ASSUME q.op = "update", q.pc \in {"check", "set"}, q.ticket \notin overtaken'
          PROVE  tickets'[q.ticket].status = tickets[q.ticket].status
      <4>1. q.ticket \in DOMAIN tickets \ overtaken'
        BY <3>2, <3>3 DEF Fits
      <4>2. Desk!HasRead(q, q.ticket)
        BY <3>3 DEF Desk!HasRead
      <4> QED BY <2>2, <3>1, <4>1, <4>2
    <3> QED BY <3>2, <3>3 DEF Accepted, Desk!Follows
  <2> QED BY <2>1, <2>2
<1> QED BY <1>1 DEF StaleInv

\* A step of the request of w that writes no ticket.
LEMMA StaleReads ==
  ASSUME DeskInv, StaleInv, NEW w \in Workers, NEW r, tReq' = [tReq EXCEPT ![w] = r], Accepted(r),
         UNCHANGED <<tickets, overtaken>>
  PROVE  StaleInv'
<1>1. Accepted(r)' /\ \A i \in DOMAIN tickets' : Explained(i)'
  BY DEF Accepted, StaleInv, Explained, Desk!Follows
<1> QED BY <1>1, StaleMoves

\* What is not an update that has read is accepted.
LEMMA OthersAccepted ==
  ASSUME NEW r, r.op \in {"create", "idle"} \/ r.pc = "sync" PROVE Accepted(r) /\ Accepted(r)'
BY DEF Accepted

\* A request that goes on is the same request.
LEMMA RequestGoesOn ==
  ASSUME DeskInv, NEW w \in Workers, NEW p, Desk!Goto(w, p), tReq[w].op \in {"create", "update"}
  PROVE  \E r : /\ tReq' = [tReq EXCEPT ![w] = r] /\ r.pc = p /\ r.op = tReq[w].op
                /\ r.op = "update" => /\ r.ticket = tReq[w].ticket /\ r.move = tReq[w].move
                                      /\ r.why = tReq[w].why
<1>1. PICK q : q = tReq[w] /\ q \in CreateTypes \union UpdateTypes
  BY DeskKinds DEF DeskInv, RequestTypes
<1>2. PICK r : r = [q EXCEPT !.pc = p]
  OBVIOUS
<1>3. tReq' = [tReq EXCEPT ![w] = r]
  BY <1>1, <1>2 DEF Desk!Goto
<1>4. r.pc = p /\ r.op = q.op
  BY <1>1, <1>2 DEF CreateTypes, UpdateTypes
<1>5. q.op = "update" => r.ticket = q.ticket /\ r.move = q.move /\ r.why = q.why
  BY <1>1, <1>2, DeskKinds DEF UpdateTypes
<1> QED BY <1>1, <1>3, <1>4, <1>5

LEMMA StaleStep ==
  ASSUME DeskIsSet, DeskInv, StaleInv, [Desk!Next]_(Desk!vars)
  PROVE  StaleInv'
<1>1. Desk!Idle.op = "idle"
  BY DEF Desk!Idle
<1>2. ASSUME NEW w \in Workers, tReq' = [tReq EXCEPT ![w] = Desk!Idle], UNCHANGED <<tickets, overtaken>>
      PROVE  StaleInv'
  BY <1>1, <1>2, OthersAccepted, StaleReads
<1>3. ASSUME NEW w \in Workers, NEW p, Desk!Goto(w, p), tReq[w].op = "create",
             UNCHANGED <<tickets, overtaken>>
      PROVE  StaleInv'
  <2>1. PICK r : tReq' = [tReq EXCEPT ![w] = r] /\ r.op = "create"
    BY <1>3, RequestGoesOn
  <2> QED BY <1>3, <2>1, OthersAccepted, StaleReads
<1>4. ASSUME NEW w \in Workers, NEW t \in Desk!Types, NEW s \in Services, NEW u \in Staff,
             Desk!BeginCreate(w, t, s, u)
      PROVE  StaleInv'
  <2>1. PICK r : r = [op |-> "create", type |-> t, service |-> s, user |-> u, pc |-> "lock"]
    OBVIOUS
  <2>2. tReq' = [tReq EXCEPT ![w] = r] /\ UNCHANGED <<tickets, overtaken>>
    BY <1>4, <2>1 DEF Desk!BeginCreate, Desk!Reading
  <2>3. r.op = "create"
    BY <2>1
  <2> QED BY <2>2, <2>3, OthersAccepted, StaleReads
<1>5. ASSUME NEW w \in Workers, Desk!WriteTicket(w) PROVE StaleInv'
  <2>1. PICK t : t = Desk!Ticket(tReq[w])
    OBVIOUS
  <2>2. /\ tickets' = Append(tickets, t) \/ UNCHANGED tickets
        /\ UNCHANGED overtaken /\ Desk!Goto(w, "close") /\ tReq[w].op = "create"
    BY <1>5, <2>1 DEF Desk!WriteTicket, Desk!Reading
  <2>3. CASE UNCHANGED tickets
    BY <1>3, <2>2, <2>3
  <2>4. CASE tickets' = Append(tickets, t)
    <3>1. PICK q : tReq' = [tReq EXCEPT ![w] = q] /\ q.op = "create"
      BY <2>2, RequestGoesOn
    <3>2. /\ DOMAIN tickets' = 1 .. Len(tickets) + 1 /\ DOMAIN tickets = 1 .. Len(tickets)
          /\ Len(tickets) \in Nat /\ \A i \in 1 .. Len(tickets) : tickets'[i] = tickets[i]
          /\ tickets'[Len(tickets) + 1] = t
      BY <2>4 DEF DeskInv
    <3>3. t.status = "open"
      BY <2>1 DEF Desk!Ticket
    <3>4. \A i \in DOMAIN tickets' : Explained(i)'
      BY <2>2, <3>2, <3>3 DEF StaleInv, Explained
    <3>5. PICK r : tReq' = [tReq EXCEPT ![w] = r] /\ Accepted(r)'
      BY <3>1, OthersAccepted
    <3>6. DOMAIN tickets \subseteq DOMAIN tickets' /\ overtaken \subseteq overtaken'
      BY <2>2, <3>2
    <3>7. \A i \in DOMAIN tickets \ overtaken' : tickets'[i].status = tickets[i].status
      BY <3>2
    <3> QED BY <3>4, <3>5, <3>6, <3>7, StaleMoves
  <2> QED BY <2>2, <2>3, <2>4
<1>6. ASSUME NEW w \in Workers, Desk!Create(w) PROVE StaleInv'
  <2>1. ASSUME Desk!TakeLock(w) \/ Desk!ReadUser(w) PROVE StaleInv'
    <3>1. tReq[w].op = "create" /\ UNCHANGED <<tickets, overtaken>> /\ \E p : Desk!Goto(w, p)
      BY <2>1 DEF Desk!TakeLock, Desk!ReadUser, Desk!Reading
    <3> QED BY <1>3, <3>1
  <2>2. CASE Desk!Close(w)
    BY <1>2, <2>2 DEF Desk!Close, Desk!Reading
  <2> QED BY <1>4, <1>5, <1>6, <2>1, <2>2 DEF Desk!Create
<1>7. ASSUME NEW w \in Workers, NEW i \in 1 .. MaxTickets, NEW move \in Transitions \union {Desk!None},
             NEW s \in Services \union {Desk!None}, NEW why \in {Desk!None, "empty", "text"},
             Desk!BeginUpdate(w, i, move, s, why)
      PROVE  StaleInv'
  <2>1. PICK r : r = [op |-> "update", ticket |-> i, move |-> move, service |-> s, why |-> why,
                      pc |-> IF s = Desk!None THEN "set" ELSE "check"]
    OBVIOUS
  <2>2. /\ UNCHANGED <<tickets, overtaken>> /\ tReq' = [tReq EXCEPT ![w] = r]
        /\ tickets[i].status # "closed" /\ (move = "closed" => why = "text")
        /\ move \in {Desk!None, Desk!Null} \/ Desk!Follows(move, tickets[i].status)
    BY <1>7, <2>1 DEF Desk!BeginUpdate, Desk!Reading
  <2>3. r.move = move /\ r.ticket = i /\ r.why = why
    BY <2>1
  <2>4. Accepted(r)
    BY <2>2, <2>3 DEF Accepted
  <2> QED BY <2>2, <2>4, StaleReads
<1>8. ASSUME NEW w \in Workers, Desk!CheckService(w) PROVE StaleInv'
  <2>1. /\ UNCHANGED <<tickets, overtaken>> /\ tReq[w].op = "update" /\ tReq[w].pc = "check"
        /\ Desk!Goto(w, "set") \/ tReq' = [tReq EXCEPT ![w] = Desk!Idle]
    BY <1>8 DEF Desk!CheckService, Desk!Reading
  <2>2. CASE Desk!Goto(w, "set")
    <3>1. PICK r : /\ tReq' = [tReq EXCEPT ![w] = r] /\ r.ticket = tReq[w].ticket
                   /\ r.move = tReq[w].move /\ r.why = tReq[w].why
      BY <2>1, <2>2, RequestGoesOn
    <3>2. Accepted(tReq[w])
      BY DEF StaleInv
    <3>3. Accepted(r)
      BY <2>1, <3>1, <3>2 DEF Accepted
    <3> QED BY <2>1, <3>1, <3>3, StaleReads
  <2> QED BY <1>2, <2>1, <2>2
<1>9. ASSUME NEW w \in Workers, Desk!SetTicket(w) \/ Desk!SyncRelation(w) PROVE StaleInv'
  <2>1. PICK q : q = tReq[w] /\ Accepted(q) /\ q.op = "update" /\ q \in UpdateTypes
                 /\ q.ticket \in DOMAIN tickets
    BY <1>9, DeskKinds DEF StaleInv, DeskInv, RequestTypes, Fits, Desk!SetTicket, Desk!SyncRelation
  <2>2. PICK old : old = tickets[q.ticket] /\ old \in TicketTypes
    BY <2>1 DEF DeskInv
  <2>3. Explained(q.ticket)
    BY <2>1 DEF StaleInv
  <2>4. PICK r : tReq' = [tReq EXCEPT ![w] = r] /\ (r.op = "idle" \/ r.pc = "sync")
    <3>1. Desk!Goto(w, "sync") \/ tReq' = [tReq EXCEPT ![w] = Desk!Idle]
      BY <1>9 DEF Desk!SetTicket, Desk!SyncRelation
    <3>2. CASE Desk!Goto(w, "sync")
      BY <2>1, <3>2, RequestGoesOn
    <3> QED BY <1>1, <3>1, <3>2
  <2>5. CASE Desk!SetTicket(w)
    <3>1. PICK t : t = Desk!Updated(old, q)
      OBVIOUS
    <3>2. /\ tickets' = [tickets EXCEPT ![q.ticket] = t] /\ q.pc = "set"
          /\ overtaken' = overtaken \union
               {k \in {q.ticket} : \E v \in Workers \ {w} : Desk!HasRead(tReq[v], k)}
      BY <2>1, <2>2, <2>5, <3>1 DEF Desk!SetTicket
    <3>3. /\ t.status = Desk!Given(q.move, old.status)
          /\ t.reason = Desk!Reasoned(q, old.reason)
      BY <2>2, <3>1 DEF Desk!Updated, TicketTypes
    <3>4. /\ DOMAIN tickets' = DOMAIN tickets /\ tickets'[q.ticket] = t
          /\ \A i \in DOMAIN tickets \ {q.ticket} : tickets'[i] = tickets[i]
      BY <2>1, <3>2 DEF DeskInv
    <3>5. t.status = "closed" /\ q.ticket \notin overtaken' => t.reason
      <4> SUFFICES ASSUME t.status = "closed", q.ticket \notin overtaken PROVE t.reason
        BY <3>2
      <4>1. old.status # "closed" /\ (q.move = "closed" => q.why = "text")
        BY <2>1, <2>2, <3>2 DEF Accepted
      <4>2. q.why = "text"
        BY <3>3, <4>1 DEF Desk!Given
      <4> QED BY <3>3, <4>2 DEF Desk!Reasoned, Desk!None
    <3>6. \A i \in DOMAIN tickets' : Explained(i)'
      BY <3>2, <3>4, <3>5 DEF StaleInv, Explained
    <3>7. \A i \in DOMAIN tickets \ overtaken' : tickets'[i].status = tickets[i].status
            \/ \A v \in Workers \ {w} : ~Desk!HasRead(tReq[v], i)
      BY <3>2, <3>4
    <3>8. overtaken \subseteq overtaken'
      BY <3>2
    <3> QED BY <2>4, <3>4, <3>6, <3>7, <3>8, OthersAccepted, StaleMoves
  <2>6. CASE Desk!SyncRelation(w)
    <3>1. PICK t : t = [old EXCEPT !.relation = q.service]
      OBVIOUS
    <3>2. tickets' = [tickets EXCEPT ![q.ticket] = t] /\ UNCHANGED overtaken
      BY <2>1, <2>2, <2>6, <3>1 DEF Desk!SyncRelation, Desk!Reading
    <3>3. t.status = old.status /\ t.reason = old.reason
      BY <2>2, <3>1 DEF TicketTypes
    <3>4. /\ DOMAIN tickets' = DOMAIN tickets /\ tickets'[q.ticket] = t
          /\ \A i \in DOMAIN tickets \ {q.ticket} : tickets'[i] = tickets[i]
      BY <2>1, <3>2 DEF DeskInv
    <3>5. \A i \in DOMAIN tickets : tickets'[i].status = tickets[i].status
            /\ tickets'[i].reason = tickets[i].reason
      BY <2>2, <3>3, <3>4
    <3>6. \A i \in DOMAIN tickets' : Explained(i)'
      BY <3>2, <3>4, <3>5 DEF StaleInv, Explained
    <3> QED BY <2>4, <3>2, <3>4, <3>5, <3>6, OthersAccepted, StaleMoves
  <2> QED BY <1>9, <2>5, <2>6
<1>10. ASSUME NEW w \in Workers, Desk!Update(w) PROVE StaleInv'
  BY <1>7, <1>8, <1>9, <1>10 DEF Desk!Update
<1>11. ASSUME NEW w \in Workers, Desk!Fail(w) \/ Desk!Crash(w) PROVE StaleInv'
  <2>1. /\ UNCHANGED <<tickets, overtaken>>
        /\ \/ tReq[w].op = "create" /\ Desk!Goto(w, "close")
           \/ tReq' = [tReq EXCEPT ![w] = Desk!Idle]
    BY <1>11 DEF Desk!Fail, Desk!Crash, Desk!Failing, Desk!Reading
  <2> QED BY <1>2, <1>3, <2>1
<1>12. ASSUME UNCHANGED <<tickets, tReq, overtaken>> PROVE StaleInv'
  BY <1>12 DEF StaleInv, Accepted, Explained, Desk!Follows
<1>13. ASSUME \/ \E u \in Staff : Desk!ChangeUser(u)
              \/ \E s \in Services, t \in Desk!Types : Desk!UpdateService(s, t)
                 \/ Desk!CreateService(s, t)
       PROVE  UNCHANGED <<tickets, tReq, overtaken>>
  BY <1>13, Zenon DEF Desk!ChangeUser, Desk!UpdateService, Desk!CreateService, Desk!Change
<1>14. CASE Desk!Next
  <2>1. \/ \E u \in Staff : Desk!ChangeUser(u)
        \/ \E s \in Services, t \in Desk!Types : Desk!UpdateService(s, t) \/ Desk!CreateService(s, t)
        \/ \E v \in Workers : Desk!Create(v) \/ Desk!Update(v) \/ Desk!Fail(v) \/ Desk!Crash(v)
    BY <1>14, Zenon DEF Desk!Next
  <2> QED BY <2>1, <1>6, <1>10, <1>11, <1>12, <1>13
<1> QED BY <1>12, <1>14 DEF Desk!vars

LEMMA RelationsSet ==
  ASSUME DeskInv, NEW i \in DOMAIN tickets
  PROVE  /\ tickets[i] \in TicketTypes
         /\ tickets[i] = [tickets[i] EXCEPT !.relation = tickets[i].relation]
<1>1. tickets[i] \in TicketTypes
  BY DEF DeskInv
<1>2. \A t \in TicketTypes : t = [t EXCEPT !.relation = t.relation]
  BY DEF TicketTypes
<1> QED BY <1>1, <1>2

\* A step that writes a ticket of one that was there.
LEMMA TicketMoves ==
  ASSUME DeskInv, StaleInv, NEW w \in Workers, Desk!SetTicket(w) \/ Desk!SyncRelation(w),
         NEW i \in DOMAIN tickets, i \notin overtaken'
  PROVE  /\ DOMAIN tickets' = DOMAIN tickets
         /\ tickets[i].status # tickets'[i].status =>
              tickets'[i].status = Desk!Null \/ Desk!Follows(tickets'[i].status, tickets[i].status)
         /\ tickets[i].status = "closed"
            => tickets'[i] = [tickets[i] EXCEPT !.relation = tickets'[i].relation]
<1>1. PICK q : q = tReq[w]
  OBVIOUS
<1>2. Accepted(q) /\ Fits(q) /\ i \notin overtaken
  BY <1>1 DEF StaleInv, DeskInv, Desk!SetTicket, Desk!SyncRelation, Desk!Reading
<1>3. PICK old : old = tickets[i]
  OBVIOUS
<1>4. old \in TicketTypes /\ old = [old EXCEPT !.relation = old.relation]
  BY <1>3, RelationsSet
<1>5. CASE Desk!SetTicket(w)
  <2>1. q.op = "update" /\ q.pc = "set"
          /\ tickets' = [tickets EXCEPT ![q.ticket] = Desk!Updated(tickets[q.ticket], q)]
    BY <1>1, <1>5 DEF Desk!SetTicket
  <2>2. CASE i = q.ticket
    <3>1. tickets'[i] = Desk!Updated(old, q) /\ DOMAIN tickets' = DOMAIN tickets
      BY <1>3, <2>1, <2>2
    <3>2. Desk!Updated(old, q).status = Desk!Given(q.move, old.status)
      BY <1>4 DEF Desk!Updated, TicketTypes
    <3>3. old.status # "closed" /\ (q.move \in {Desk!None, Desk!Null}
            \/ Desk!Follows(q.move, old.status))
      BY <1>2, <1>3, <2>1, <2>2 DEF Accepted
    <3>4. tickets'[i].status = Desk!Given(q.move, old.status) /\ tickets[i].status = old.status
      BY <1>3, <3>1, <3>2
    <3>5. q.move = Desk!Null \/ Desk!Follows(q.move, old.status)
            \/ Desk!Given(q.move, old.status) = old.status
      BY <3>3 DEF Desk!Given
    <3>6. old.status # Desk!Given(q.move, old.status) => Desk!Given(q.move, old.status) = q.move
      BY DEF Desk!Given
    <3> QED BY <3>1, <3>3, <3>4, <3>5, <3>6
  <2>3. CASE i # q.ticket
    <3>1. tickets'[i] = old /\ DOMAIN tickets' = DOMAIN tickets
      BY <1>3, <2>1, <2>3
    <3> QED BY <1>3, <1>4, <3>1
  <2> QED BY <2>2, <2>3
<1>6. CASE Desk!SyncRelation(w)
  <2>1. tickets' = [tickets EXCEPT ![q.ticket].relation = q.service]
    BY <1>1, <1>6 DEF Desk!SyncRelation
  <2>2. CASE i = q.ticket
    <3>1. tickets'[i] = [old EXCEPT !.relation = q.service] /\ DOMAIN tickets' = DOMAIN tickets
      BY <1>3, <2>1, <2>2
    <3>2. [old EXCEPT !.relation = q.service].status = old.status
          /\ [old EXCEPT !.relation = q.service].relation = q.service
      BY <1>4 DEF TicketTypes
    <3> QED BY <1>3, <3>1, <3>2
  <2>3. CASE i # q.ticket
    <3>1. tickets'[i] = old /\ DOMAIN tickets' = DOMAIN tickets
      BY <1>3, <2>1, <2>3
    <3> QED BY <1>3, <1>4, <3>1
  <2> QED BY <2>2, <2>3
<1> QED BY <1>5, <1>6

LEMMA DeskStepsHold ==
  ASSUME DeskIsSet, DeskInv, StaleInv, [Desk!Next]_(Desk!vars)
  PROVE  Desk!DeskSteps
<1>0. \A i \in DOMAIN tickets : tickets[i] = [tickets[i] EXCEPT !.relation = tickets[i].relation]
  BY RelationsSet
<1>1. ASSUME UNCHANGED tickets PROVE Desk!DeskSteps
  BY <1>0, <1>1 DEF Desk!DeskSteps, Desk!CreatedOnActive, Desk!MovesForward
<1>2. ASSUME NEW w \in Workers, Desk!WriteTicket(w), tickets' # tickets PROVE Desk!DeskSteps
  <2>1. PICK q : q = tReq[w]
    OBVIOUS
  <2>2. PICK t : t = Desk!Ticket(q)
    OBVIOUS
  <2>3. Desk!Usable(q.service, q.type) /\ tickets' = Append(tickets, t) /\ t.service = q.service
    BY <1>2, <2>1, <2>2 DEF Desk!WriteTicket, Desk!Ticket
  <2>4. /\ DOMAIN tickets' = 1 .. Len(tickets) + 1 /\ DOMAIN tickets = 1 .. Len(tickets)
           /\ Len(tickets) \in Nat
        /\ \A i \in 1 .. Len(tickets) : tickets'[i] = tickets[i]
        /\ tickets'[Len(tickets) + 1] = t
    BY <2>3 DEF DeskInv
  <2>5. Desk!CreatedOnActive
    BY <2>3, <2>4 DEF Desk!CreatedOnActive, Desk!Usable
  <2>6. Desk!MovesForward
    BY <1>0, <2>4 DEF Desk!MovesForward
  <2> QED BY <2>5, <2>6 DEF Desk!DeskSteps
<1>3. ASSUME NEW w \in Workers, Desk!SetTicket(w) \/ Desk!SyncRelation(w) PROVE Desk!DeskSteps
  <2>1. DOMAIN tickets' = DOMAIN tickets
    BY <1>3 DEF Desk!SetTicket, Desk!SyncRelation, DeskInv
  <2>2. Desk!CreatedOnActive
    BY <2>1 DEF Desk!CreatedOnActive
  <2>3. Desk!MovesForward
    BY <1>3, TicketMoves DEF Desk!MovesForward
  <2> QED BY <2>2, <2>3 DEF Desk!DeskSteps
<1>4. CASE Desk!Next
  <2>1. \/ UNCHANGED tickets
        \/ \E w \in Workers : Desk!WriteTicket(w) \/ Desk!SetTicket(w) \/ Desk!SyncRelation(w)
    BY <1>4, Zenon DEF Desk!Next, Desk!Create, Desk!Update, Desk!ChangeUser, Desk!UpdateService,
    Desk!CreateService,
       Desk!Change, Desk!BeginCreate, Desk!TakeLock, Desk!ReadUser, Desk!Close, Desk!BeginUpdate,
       Desk!CheckService,
       Desk!Fail, Desk!Crash, Desk!Failing
  <2> QED BY <1>1, <1>2, <1>3, <2>1
<1> QED BY <1>1, <1>4 DEF Desk!vars

-----------------------------------------------------------------------------
(* Permissions                                                              *)

SeedingRoles == {"role1", "role2", "role3", "role4", "role5"}
Booting == {"admin", "adminNode", "role1", "role2", "role3", "role4", "role5", "backfill"}
NodeTypes == [role : Names, perms : SUBSET Perms]
RoleTypes == [perms : SUBSET Perms, system : {"true", "false", "none"}]
UserTypes == [role : Names, perms : SUBSET Perms, active : BOOLEAN]
GrantTypes == [perms : SUBSET Perms, roles : SUBSET Names]

(* What the stores and the histories hold.                                  *)
Registers ==
  /\ DOMAIN role \subseteq Names /\ \A n \in DOMAIN role : role[n] \in RoleTypes
  /\ DOMAIN node \subseteq Accounts /\ \A u \in DOMAIN node : node[u] \in NodeTypes
  /\ DOMAIN rUser \subseteq Accounts /\ \A u \in DOMAIN rUser : rUser[u] \in UserTypes
  /\ DOMAIN granted = DOMAIN rUser /\ \A u \in DOMAIN rUser : granted[u] \in GrantTypes
  /\ held \in [Names -> SUBSET Perms] /\ settled \subseteq DOMAIN rUser
  /\ boot \in Booting \cup {"down", "backfillNode", "up"}
  /\ rChanges \in 0 .. RoleChanges /\ rFailures \in 0 .. RoleFailures

(* The history of a role has all that it gives, and that of a user the role *)
(* that the user has.                                                       *)
Histories ==
  /\ \A n \in DOMAIN role : role[n].perms \subseteq held[n]
  /\ \A u \in DOMAIN rUser : rUser[u].role \in granted[u].roles

(* From the backfill to the next start, those whom it settled have what     *)
(* their role gives.                                                        *)
Floor(S) == \A u \in S : Granting!RolePerms(rUser[u].role) \subseteq rUser[u].perms
Settled ==
  /\ boot \in Booting => settled = {}
  /\ boot \in {"backfillNode", "up"} => Floor(settled)

\* The steps of the start that seed a role.
LEMMA RoleStepsAre ==
  {Granting!RoleSteps[i] : i \in 1 .. 5} = SeedingRoles /\ \A i \in 1 .. 5 : Granting!RoleSteps[i] \in SeedingRoles
<1>1. 1 .. 5 = {1, 2, 3, 4, 5}
  OBVIOUS
<1> QED BY <1>1 DEF Granting!RoleSteps, SeedingRoles

GrantInv == Registers /\ Histories /\ Settled /\ Granting!PermissionsWereGiven

\* What a step does to the table of users: it writes the row of one, or none.
LEMMA UserWritten ==
  ASSUME RolesAreSet, GrantInv, NEW u \in Accounts, NEW row \in UserTypes, NEW grant \in GrantTypes,
         rUser' = Granting!Put(rUser, u, row), granted' = Granting!Put(granted, u, grant),
         row.role \in grant.roles, row.perms \subseteq grant.perms, held' = held
  PROVE  /\ DOMAIN rUser' = DOMAIN rUser \cup {u} /\ DOMAIN granted' = DOMAIN rUser'
         /\ rUser'[u] = row /\ granted'[u] = grant
         /\ \A v \in DOMAIN rUser \ {u} : rUser'[v] = rUser[v] /\ granted'[v] = granted[v]
         /\ \A v \in DOMAIN rUser' : /\ rUser'[v] \in UserTypes /\ granted'[v] \in GrantTypes
                                     /\ rUser'[v].role \in granted'[v].roles
         /\ Granting!PermissionsWereGiven'
<1>1. /\ DOMAIN rUser' = DOMAIN rUser \cup {u} /\ DOMAIN granted' = DOMAIN rUser'
      /\ rUser'[u] = row /\ granted'[u] = grant
      /\ \A v \in DOMAIN rUser \ {u} : rUser'[v] = rUser[v] /\ granted'[v] = granted[v]
  BY DEF Granting!Put, GrantInv, Registers
<1>2. \A v \in DOMAIN rUser' : /\ rUser'[v] \in UserTypes /\ granted'[v] \in GrantTypes
                               /\ rUser'[v].role \in granted'[v].roles
  BY <1>1 DEF GrantInv, Registers, Histories
<1>3. Granting!PermissionsWereGiven'
  <2> SUFFICES ASSUME NEW v \in DOMAIN rUser'
               PROVE  rUser'[v].perms \subseteq granted'[v].perms
                 \cup UNION {held[r] : r \in granted'[v].roles}
    BY DEF Granting!PermissionsWereGiven
  <2>1. CASE v = u
    BY <1>1, <2>1
  <2>2. CASE v # u
    BY <1>1, <2>2 DEF GrantInv, Granting!PermissionsWereGiven
  <2> QED BY <2>1, <2>2
<1> QED BY <1>1, <1>2, <1>3

\* More in the histories of roles takes nothing away.
LEMMA HeldGrows ==
  ASSUME GrantInv, UNCHANGED <<rUser, granted>>, held' \in [Names -> SUBSET Perms],
         \A n \in Names : held[n] \subseteq held'[n]
  PROVE  Granting!PermissionsWereGiven'
<1> SUFFICES ASSUME NEW u \in DOMAIN rUser, NEW p \in rUser[u].perms, p \notin granted[u].perms
             PROVE  \E r \in granted[u].roles : p \in held'[r]
  BY DEF Granting!PermissionsWereGiven
<1>1. PICK r \in granted[u].roles : p \in held[r]
  BY DEF GrantInv, Granting!PermissionsWereGiven
<1>2. r \in Names
  BY DEF GrantInv, Registers, GrantTypes
<1> QED BY <1>1, <1>2

\* A start of the backend.
LEMMA StartKeepsGrants ==
  ASSUME RolesAreSet, GrantInv,
         \/ Granting!Start \/ Granting!SeedAdmin \/ Granting!SeedAdminNode
         \/ Granting!StepFails \/ Granting!Crash \/ Granting!Stop \/ UNCHANGED Granting!vars
  PROVE  GrantInv'
<1> USE DEF RolesAreSet
<1>1. ASSUME UNCHANGED <<role, rUser, node, granted, held, rChanges>>, rFailures' \in 0 .. RoleFailures,
             settled' \subseteq settled, boot' \in Booting \cup {"down", "backfillNode", "up"}, Settled'
      PROVE  GrantInv'
  BY <1>1 DEF GrantInv, Registers, Histories, Granting!PermissionsWereGiven
<1>2. CASE Granting!Start
  <2>1. Settled'
    BY <1>2 DEF Granting!Start, Settled, Booting
  <2> QED BY <1>1, <1>2, <2>1 DEF Granting!Start, Booting, GrantInv, Registers
<1>3. CASE Granting!StepFails
  <2>1. boot' \in {"role1", "backfill", "backfillNode", "up"}
    BY <1>3, RoleStepsAre DEF Granting!StepFails, Granting!After, GrantInv, Registers, Booting, SeedingRoles
  <2>2. /\ boot' \in {"role1", "backfill"} => boot \in Booting
        /\ boot' = "backfillNode" => boot = "backfill"
        /\ boot' = "up" => boot = "backfillNode"
    BY <1>3, RoleStepsAre DEF Granting!StepFails, Granting!After, GrantInv, Registers, Booting, SeedingRoles
  <2>3. UNCHANGED <<role, rUser, settled>>
    BY <1>3 DEF Granting!StepFails
  <2>4. Floor({}) /\ Floor(settled)' = Floor(settled)
    BY <2>3 DEF Floor, Granting!RolePerms
  <2>5. Settled'
    BY <2>1, <2>2, <2>3, <2>4 DEF GrantInv, Settled, Booting
  <2>6. rFailures' \in 0 .. RoleFailures
    BY <1>3 DEF Granting!StepFails, GrantInv, Registers
  <2> QED BY <1>1, <1>3, <2>1, <2>5, <2>6 DEF Granting!StepFails, Booting
<1>4. CASE Granting!Crash
  <2>1. Settled'
    BY <1>4 DEF Granting!Crash, Settled, Booting
  <2>2. rFailures' \in 0 .. RoleFailures
    BY <1>4 DEF Granting!Crash, GrantInv, Registers
  <2> QED BY <1>1, <1>4, <2>1, <2>2 DEF Granting!Crash
<1>5. CASE Granting!Stop
  <2>1. Settled'
    BY <1>5 DEF Granting!Stop, Settled, Booting
  <2> QED BY <1>1, <1>5, <2>1 DEF Granting!Stop, GrantInv, Registers
<1>6. CASE UNCHANGED Granting!vars
  <2>1. Settled'
    BY <1>6 DEF Granting!vars, GrantInv, Settled, Floor, Granting!RolePerms
  <2> QED BY <1>1, <1>6, <2>1 DEF Granting!vars, GrantInv, Registers
<1>7. CASE Granting!SeedAdmin
  <2>1. /\ UNCHANGED <<role, node, settled, held, rChanges, rFailures>> /\ boot = "admin"
           /\ boot' = "adminNode"
    BY <1>7 DEF Granting!SeedAdmin
  <2>2. Settled'
    BY <2>1 DEF GrantInv, Settled, Booting
  <2>3. CASE Admin \in DOMAIN rUser
    <3>1. UNCHANGED <<rUser, granted>>
      BY <1>7, <2>3 DEF Granting!SeedAdmin
    <3> QED BY <1>1, <2>1, <2>2, <3>1 DEF Booting, GrantInv, Registers
  <2>4. CASE Admin \notin DOMAIN rUser
    <3> DEFINE row == [role |-> "ADMIN", perms |-> Perms, active |-> TRUE]
               grant == [perms |-> Perms, roles |-> {"ADMIN"}]
    <3>1. row \in UserTypes /\ grant \in GrantTypes /\ row.role \in grant.roles
            /\ row.perms \subseteq grant.perms
      BY DEF UserTypes, GrantTypes
    <3>2. rUser' = Granting!Put(rUser, Admin, row) /\ granted' = Granting!Put(granted, Admin, grant)
      BY <1>7, <2>4 DEF Granting!SeedAdmin, Granting!Row, Granting!Granted
    <3> HIDE DEF row, grant
    <3>3. /\ DOMAIN rUser' = DOMAIN rUser \cup {Admin} /\ DOMAIN granted' = DOMAIN rUser'
          /\ \A v \in DOMAIN rUser' : /\ rUser'[v] \in UserTypes /\ granted'[v] \in GrantTypes
                                      /\ rUser'[v].role \in granted'[v].roles
          /\ Granting!PermissionsWereGiven'
      BY <2>1, <3>1, <3>2, UserWritten
    <3> QED BY <2>1, <2>2, <3>3 DEF GrantInv, Registers, Histories, Booting
  <2> QED BY <2>3, <2>4
<1>8. CASE Granting!SeedAdminNode
  <2>1. /\ UNCHANGED <<role, rUser, settled, granted, held, rChanges, rFailures>>
        /\ boot = "adminNode" /\ boot' = "role1"
    BY <1>8 DEF Granting!SeedAdminNode
  <2>2. Settled'
    BY <2>1 DEF GrantInv, Settled, Booting
  <2>3. DOMAIN node' \subseteq Accounts /\ \A u \in DOMAIN node' : node'[u] \in NodeTypes
    <3>1. [role |-> "ADMIN", perms |-> Perms] \in NodeTypes
      BY DEF NodeTypes
    <3> QED BY <1>8, <3>1 DEF Granting!SeedAdminNode, Granting!Put, GrantInv, Registers
  <2> QED BY <2>1, <2>2, <2>3 DEF GrantInv, Registers, Histories, Booting, Granting!PermissionsWereGiven
<1> QED BY <1>2, <1>3, <1>4, <1>5, <1>6, <1>7, <1>8

\* The roles of a start, and the backfill.
LEMMA SeedingKeepsGrants ==
  ASSUME RolesAreSet, GrantInv,
         (\E i \in DOMAIN Seeded : Granting!SeedRole(i)) \/ Granting!Backfill \/ Granting!BackfillNode
  PROVE  GrantInv'
<1> USE DEF RolesAreSet
<1>1. ASSUME NEW i \in DOMAIN Seeded, Granting!SeedRole(i) PROVE GrantInv'
  <2> DEFINE n == Seeded[i]
             new == Granting!Seeding(n)
  <2>1. i \in 1 .. 5 /\ i <= Len(Seeded) /\ Len(Seeded) \in 1 .. 5 /\ n \in Names
          /\ Seeds[n] \subseteq Perms
    OBVIOUS
  <2>2. boot \in SeedingRoles /\ SeedingRoles \subseteq Booting
    BY <1>1, <2>1, RoleStepsAre DEF Granting!SeedRole, Granting!Step, SeedingRoles, Booting
  <2>3. boot' \in SeedingRoles \cup {"backfill"}
    <3>1. CASE i = Len(Seeded)
      BY <1>1, <3>1 DEF Granting!SeedRole
    <3>2. CASE i # Len(Seeded)
      <4>1. i + 1 \in 1 .. 5
        BY <2>1, <3>2
      <4>2. boot' = Granting!Step(i + 1)
        BY <1>1, <3>2 DEF Granting!SeedRole
      <4> QED BY <4>1, <4>2, RoleStepsAre DEF Granting!Step
    <3> QED BY <3>1, <3>2
  <2>4. new \in RoleTypes
    <3>1. [perms |-> Seeds[n], system |-> "true"] \in RoleTypes
            /\ [perms |-> Seeds[n], system |-> "false"] \in RoleTypes
      BY <2>1 DEF RoleTypes
    <3>2. ASSUME n \in DOMAIN role
          PROVE  [role[n] EXCEPT !.perms = @ \cup (Upgrades[n] \cap Seeds[n])] \in RoleTypes
      BY <2>1, <3>2 DEF RoleTypes, GrantInv, Registers
    <3> QED BY <3>1, <3>2 DEF Granting!Seeding
  <2>5. /\ role' = Granting!Put(role, n, new) /\ held' = [held EXCEPT ![n] = @ \cup new.perms]
        /\ UNCHANGED <<rUser, node, settled, granted, rChanges, rFailures>>
    BY <1>1 DEF Granting!SeedRole
  <2> HIDE DEF new, n
  <2>6. /\ DOMAIN role' = DOMAIN role \cup {n} /\ role'[n] = new
           /\ \A m \in DOMAIN role \ {n} : role'[m] = role[m]
    BY <2>5 DEF Granting!Put
  <2>7. /\ held' \in [Names -> SUBSET Perms] /\ \A m \in Names : held[m] \subseteq held'[m]
        /\ held'[n] = held[n] \cup new.perms /\ \A m \in Names \ {n} : held'[m] = held[m]
    <3>1. new.perms \subseteq Perms
      BY <2>4 DEF RoleTypes
    <3> QED BY <2>1, <2>5, <3>1 DEF GrantInv, Registers
  <2>8. Granting!PermissionsWereGiven'
    BY <2>5, <2>7, HeldGrows
  <2>9. \A m \in DOMAIN role' : role'[m].perms \subseteq held'[m] /\ role'[m] \in RoleTypes
    BY <2>1, <2>4, <2>6, <2>7 DEF GrantInv, Registers, Histories
  <2>10. Settled'
    BY <2>2, <2>3, <2>5 DEF GrantInv, Settled, Booting
  <2> QED BY <2>1, <2>2, <2>3, <2>5, <2>6, <2>7, <2>8, <2>9, <2>10 DEF GrantInv, Registers, Histories, Booting, SeedingRoles
<1>2. CASE Granting!Backfill
  <2>1. /\ boot' = "backfillNode" /\ settled' = DOMAIN rUser
        /\ rUser' = [u \in DOMAIN rUser |-> [rUser[u] EXCEPT !.perms = @
           \cup Granting!RolePerms(rUser[u].role)]]
        /\ UNCHANGED <<role, node, granted, held, rChanges, rFailures>>
    BY <1>2 DEF Granting!Backfill
  <2>2. \A u \in DOMAIN rUser : /\ rUser[u] \in UserTypes /\ rUser[u].role \in granted[u].roles
                                   /\ rUser[u].role \in Names
                                /\ Granting!RolePerms(rUser[u].role) \subseteq held[rUser[u].role]
                                /\ Granting!RolePerms(rUser[u].role) \subseteq Perms
    BY DEF GrantInv, Registers, Histories, UserTypes, RoleTypes, Granting!RolePerms
  <2>3. \A u \in DOMAIN rUser : /\ rUser'[u] \in UserTypes /\ rUser'[u].role = rUser[u].role
                                /\ rUser'[u].perms = rUser[u].perms
                                   \cup Granting!RolePerms(rUser[u].role)
    <3> SUFFICES ASSUME NEW u \in DOMAIN rUser
                 PROVE  /\ rUser'[u] \in UserTypes /\ rUser'[u].role = rUser[u].role
                        /\ rUser'[u].perms = rUser[u].perms \cup Granting!RolePerms(rUser[u].role)
      OBVIOUS
    <3>1. rUser'[u] = [rUser[u] EXCEPT !.perms = @ \cup Granting!RolePerms(rUser[u].role)]
            /\ rUser[u] \in UserTypes
      BY <2>1, <2>2
    <3> QED BY <2>2, <3>1 DEF UserTypes
  <2>4. DOMAIN rUser' = DOMAIN rUser
    BY <2>1
  <2>5. Granting!PermissionsWereGiven'
    <3> SUFFICES ASSUME NEW u \in DOMAIN rUser, NEW p \in rUser'[u].perms, p \notin granted[u].perms
                 PROVE  \E r \in granted[u].roles : p \in held[r]
      BY <2>1, <2>4 DEF Granting!PermissionsWereGiven
    <3>1. CASE p \in rUser[u].perms
      BY <3>1 DEF GrantInv, Granting!PermissionsWereGiven
    <3>2. CASE p \in Granting!RolePerms(rUser[u].role)
      BY <2>2, <3>2
    <3> QED BY <2>3, <3>1, <3>2
  <2>6. Settled'
    BY <2>1, <2>3, <2>4 DEF Settled, Floor, Granting!RolePerms, Booting
  <2>7. Registers'
    BY <2>1, <2>3, <2>4 DEF GrantInv, Registers, Booting
  <2>8. Histories'
    BY <2>1, <2>3, <2>4 DEF GrantInv, Histories
  <2> QED BY <2>5, <2>6, <2>7, <2>8 DEF GrantInv
<1>3. CASE Granting!BackfillNode
  <2>1. /\ boot = "backfillNode" /\ boot' = "up"
        /\ node' = [u \in DOMAIN node |-> [node[u] EXCEPT !.perms = @
           \cup Granting!RolePerms(node[u].role)]]
        /\ UNCHANGED <<role, rUser, settled, granted, held, rChanges, rFailures>>
    BY <1>3 DEF Granting!BackfillNode
  <2>2. \A u \in DOMAIN node : node[u] \in NodeTypes /\ Granting!RolePerms(node[u].role) \subseteq Perms
    BY DEF GrantInv, Registers, NodeTypes, RoleTypes, Granting!RolePerms
  <2>3. \A u \in DOMAIN node' : node'[u] \in NodeTypes
    BY <2>1, <2>2 DEF NodeTypes
  <2>4. Settled'
    BY <2>1 DEF GrantInv, Settled, Floor, Granting!RolePerms, Booting
  <2>5. DOMAIN node' = DOMAIN node
    BY <2>1
  <2> QED BY <2>1, <2>3, <2>4, <2>5 DEF GrantInv, Registers, Histories, Granting!PermissionsWereGiven
<1> QED BY <1>1, <1>2, <1>3

\* A step that takes users from the settled ones, or rows from the tables, or
\* that writes a role which none of the settled users has.
LEMMA FewerSettled ==
  ASSUME Settled, boot' = boot, settled' \subseteq settled,
         \A u \in settled' : rUser'[u].role = rUser[u].role /\ rUser'[u].perms = rUser[u].perms,
         \A u \in settled' : Granting!RolePerms(rUser[u].role)' \subseteq Granting!RolePerms(rUser[u].role)
  PROVE  Settled'
BY DEF Settled, Floor, Granting!RolePerms

\* The requests about users, and the migration.
LEMMA UserRequestsKeepGrants ==
  ASSUME RolesAreSet, GrantInv,
         \/ Granting!MigrateUsers
         \/ \E u \in Accounts :
              \/ \E r \in Names, perms \in SUBSET Perms : Granting!CreateUser(u, r, perms)
              \/ \E r \in Names : Granting!UpdateUserRole(u, r)
              \/ \E perms \in SUBSET Perms : Granting!UpdateUserPerms(u, perms)
              \/ Granting!DeleteUser(u) \/ Granting!DeactivateUser(u)
  PROVE  GrantInv'
<1> USE DEF RolesAreSet
<1>0. ASSUME NEW perm, Granting!Request(perm)
      PROVE  boot' = boot /\ boot = "up" /\ rFailures' = rFailures /\ rChanges' \in 0 .. RoleChanges
  BY <1>0 DEF Granting!Request, GrantInv, Registers
\* The tables of roles and of nodes stay.
<1>1. ASSUME UNCHANGED <<role, node, held, boot, rFailures>>, rChanges' \in 0 .. RoleChanges,
             DOMAIN rUser' \subseteq Accounts, DOMAIN granted' = DOMAIN rUser',
             settled' \subseteq DOMAIN rUser',
             \A v \in DOMAIN rUser' : /\ rUser'[v] \in UserTypes /\ granted'[v] \in GrantTypes
                                      /\ rUser'[v].role \in granted'[v].roles,
             Granting!PermissionsWereGiven', settled' \subseteq settled,
             \A v \in settled' : rUser'[v].role = rUser[v].role /\ rUser'[v].perms = rUser[v].perms
      PROVE  GrantInv'
  <2>1. Settled'
    BY <1>1, FewerSettled DEF GrantInv, Granting!RolePerms
  <2> QED BY <1>1, <2>1 DEF GrantInv, Registers, Histories
<1>2. ASSUME NEW u \in Accounts, NEW r \in Names, NEW perms \in SUBSET Perms,
             Granting!CreateUser(u, r, perms)
      PROVE  GrantInv'
  <2> DEFINE row == [role |-> r, perms |-> perms, active |-> TRUE]
             grant == [perms |-> perms, roles |-> {r}]
  <2>1. row \in UserTypes /\ grant \in GrantTypes /\ row.role \in grant.roles
          /\ row.perms \subseteq grant.perms
    BY DEF UserTypes, GrantTypes
  <2>2. /\ rUser' = Granting!Put(rUser, u, row) /\ granted' = Granting!Put(granted, u, grant)
        /\ u \notin DOMAIN rUser /\ UNCHANGED <<role, node, settled, held>>
    BY <1>2 DEF Granting!CreateUser, Granting!Row, Granting!Granted
  <2>3. boot' = boot /\ rFailures' = rFailures /\ rChanges' \in 0 .. RoleChanges
    BY <1>0, <1>2 DEF Granting!CreateUser
  <2> HIDE DEF row, grant
  <2>4. /\ DOMAIN rUser' = DOMAIN rUser \cup {u} /\ DOMAIN granted' = DOMAIN rUser'
        /\ \A v \in DOMAIN rUser \ {u} : rUser'[v] = rUser[v]
        /\ \A v \in DOMAIN rUser' : /\ rUser'[v] \in UserTypes /\ granted'[v] \in GrantTypes
                                    /\ rUser'[v].role \in granted'[v].roles
        /\ Granting!PermissionsWereGiven'
    BY <2>1, <2>2, UserWritten
  <2>5. settled' \subseteq DOMAIN rUser \ {u} /\ DOMAIN rUser \subseteq Accounts
    BY <2>2 DEF GrantInv, Registers
  <2> QED BY <1>1, <2>2, <2>3, <2>4, <2>5
<1>3. ASSUME NEW u \in Accounts, NEW r \in Names, Granting!UpdateUserRole(u, r) PROVE GrantInv'
  <2>1. /\ u \in DOMAIN rUser /\ rUser' = [rUser EXCEPT ![u] = [rUser[u] EXCEPT !.role = r]]
        /\ granted' = [granted EXCEPT ![u] = [granted[u] EXCEPT !.roles = @ \cup {r}]]
        /\ settled' = settled \ {u} /\ UNCHANGED <<role, node, held>>
    BY <1>3 DEF Granting!UpdateUserRole
  <2>2. boot' = boot /\ rFailures' = rFailures /\ rChanges' \in 0 .. RoleChanges
    BY <1>0, <1>3 DEF Granting!UpdateUserRole
  <2>3. /\ rUser[u] \in UserTypes /\ granted[u] \in GrantTypes /\ DOMAIN granted = DOMAIN rUser
        /\ DOMAIN rUser \subseteq Accounts /\ settled \subseteq DOMAIN rUser
    BY <2>1 DEF GrantInv, Registers
  <2>4. /\ rUser'[u] \in UserTypes /\ rUser'[u].role = r /\ rUser'[u].perms = rUser[u].perms
        /\ granted'[u] \in GrantTypes /\ granted'[u].roles = granted[u].roles \cup {r}
        /\ granted'[u].perms = granted[u].perms
    BY <2>1, <2>3 DEF UserTypes, GrantTypes
  <2>5. /\ DOMAIN rUser' = DOMAIN rUser /\ DOMAIN granted' = DOMAIN rUser
        /\ \A v \in DOMAIN rUser \ {u} : rUser'[v] = rUser[v] /\ granted'[v] = granted[v]
    BY <2>1, <2>3
  <2>6. \A v \in DOMAIN rUser' : /\ rUser'[v] \in UserTypes /\ granted'[v] \in GrantTypes
                                /\ rUser'[v].role \in granted'[v].roles
    BY <2>4, <2>5 DEF GrantInv, Registers, Histories
  <2>7. Granting!PermissionsWereGiven'
    <3> SUFFICES ASSUME NEW v \in DOMAIN rUser, NEW p \in rUser'[v].perms, p \notin granted'[v].perms
                 PROVE  \E q \in granted'[v].roles : p \in held[q]
      BY <2>1, <2>5 DEF Granting!PermissionsWereGiven
    <3>1. p \in rUser[v].perms /\ p \notin granted[v].perms
            /\ granted[v].roles \subseteq granted'[v].roles
      BY <2>4, <2>5
    <3> QED BY <3>1 DEF GrantInv, Granting!PermissionsWereGiven
  <2> QED BY <1>1, <2>1, <2>2, <2>3, <2>5, <2>6, <2>7
<1>4. ASSUME NEW u \in Accounts, NEW perms \in SUBSET Perms, Granting!UpdateUserPerms(u, perms)
      PROVE  GrantInv'
  <2>1. /\ u \in DOMAIN rUser /\ rUser' = [rUser EXCEPT ![u] = [rUser[u] EXCEPT !.perms = perms]]
        /\ granted' = [granted EXCEPT ![u] = [granted[u] EXCEPT !.perms = perms]]
        /\ settled' = settled \ {u} /\ UNCHANGED <<role, node, held>>
    BY <1>4 DEF Granting!UpdateUserPerms
  <2>2. boot' = boot /\ rFailures' = rFailures /\ rChanges' \in 0 .. RoleChanges
    BY <1>0, <1>4 DEF Granting!UpdateUserPerms
  <2>3. /\ rUser[u] \in UserTypes /\ granted[u] \in GrantTypes /\ DOMAIN granted = DOMAIN rUser
        /\ DOMAIN rUser \subseteq Accounts /\ settled \subseteq DOMAIN rUser
           /\ rUser[u].role \in granted[u].roles
    BY <2>1 DEF GrantInv, Registers, Histories
  <2>4. /\ rUser'[u] \in UserTypes /\ rUser'[u].role = rUser[u].role /\ rUser'[u].perms = perms
        /\ granted'[u] \in GrantTypes /\ granted'[u].roles = granted[u].roles
        /\ granted'[u].perms = perms
    BY <2>1, <2>3 DEF UserTypes, GrantTypes
  <2>5. /\ DOMAIN rUser' = DOMAIN rUser /\ DOMAIN granted' = DOMAIN rUser
        /\ \A v \in DOMAIN rUser \ {u} : rUser'[v] = rUser[v] /\ granted'[v] = granted[v]
    BY <2>1, <2>3
  <2>6. \A v \in DOMAIN rUser' : /\ rUser'[v] \in UserTypes /\ granted'[v] \in GrantTypes
                                /\ rUser'[v].role \in granted'[v].roles
    BY <2>3, <2>4, <2>5 DEF GrantInv, Registers, Histories
  <2>7. Granting!PermissionsWereGiven'
    BY <2>1, <2>4, <2>5 DEF GrantInv, Granting!PermissionsWereGiven
  <2> QED BY <1>1, <2>1, <2>2, <2>3, <2>5, <2>6, <2>7
<1>5. ASSUME NEW u \in Accounts, Granting!DeleteUser(u) PROVE GrantInv'
  <2>1. /\ u \in DOMAIN rUser /\ rUser' = [v \in DOMAIN rUser \ {u} |-> rUser[v]]
        /\ granted' = [v \in DOMAIN granted \ {u} |-> granted[v]]
        /\ settled' = settled \ {u} /\ UNCHANGED <<role, node, held>>
    BY <1>5 DEF Granting!DeleteUser, Granting!Without
  <2>2. boot' = boot /\ rFailures' = rFailures /\ rChanges' \in 0 .. RoleChanges
    BY <1>0, <1>5 DEF Granting!DeleteUser
  <2>3. DOMAIN granted = DOMAIN rUser /\ DOMAIN rUser \subseteq Accounts
          /\ settled \subseteq DOMAIN rUser
    BY DEF GrantInv, Registers
  <2>4. /\ DOMAIN rUser' = DOMAIN rUser \ {u} /\ DOMAIN granted' = DOMAIN rUser'
        /\ \A v \in DOMAIN rUser' : rUser'[v] = rUser[v] /\ granted'[v] = granted[v]
    BY <2>1, <2>3
  <2>5. \A v \in DOMAIN rUser' : /\ rUser'[v] \in UserTypes /\ granted'[v] \in GrantTypes
                                /\ rUser'[v].role \in granted'[v].roles
    BY <2>4 DEF GrantInv, Registers, Histories
  <2>6. Granting!PermissionsWereGiven'
    BY <2>1, <2>4 DEF GrantInv, Granting!PermissionsWereGiven
  <2> QED BY <1>1, <2>1, <2>2, <2>3, <2>4, <2>5, <2>6
<1>6. ASSUME NEW u \in Accounts, Granting!DeactivateUser(u) PROVE GrantInv'
  <2>1. /\ u \in DOMAIN rUser /\ rUser' = [rUser EXCEPT ![u] = [rUser[u] EXCEPT !.active = FALSE]]
        /\ UNCHANGED <<role, node, settled, granted, held>>
    BY <1>6 DEF Granting!DeactivateUser
  <2>2. boot' = boot /\ rFailures' = rFailures /\ rChanges' \in 0 .. RoleChanges
    BY <1>0, <1>6 DEF Granting!DeactivateUser
  <2>3. /\ rUser[u] \in UserTypes /\ DOMAIN granted = DOMAIN rUser
        /\ DOMAIN rUser \subseteq Accounts /\ settled \subseteq DOMAIN rUser
    BY <2>1 DEF GrantInv, Registers
  <2>4. rUser'[u] \in UserTypes /\ rUser'[u].role = rUser[u].role /\ rUser'[u].perms = rUser[u].perms
    BY <2>1, <2>3 DEF UserTypes
  <2>5. DOMAIN rUser' = DOMAIN rUser /\ \A v \in DOMAIN rUser \ {u} : rUser'[v] = rUser[v]
    BY <2>1
  <2>6. \A v \in DOMAIN rUser' : /\ rUser'[v] \in UserTypes /\ granted'[v] \in GrantTypes
                                /\ rUser'[v].role \in granted'[v].roles
    BY <2>1, <2>4, <2>5 DEF GrantInv, Registers, Histories
  <2>7. Granting!PermissionsWereGiven'
    BY <2>1, <2>4, <2>5 DEF GrantInv, Granting!PermissionsWereGiven
  <2>8. \A v \in settled' : rUser'[v].role = rUser[v].role /\ rUser'[v].perms = rUser[v].perms
    BY <2>1, <2>3, <2>4, <2>5
  <2> QED BY <1>1, <2>1, <2>2, <2>3, <2>5, <2>6, <2>7, <2>8
<1>7. CASE Granting!MigrateUsers
  <2> DEFINE missing == DOMAIN node \ DOMAIN rUser
  <2>1. /\ rUser' = [u \in DOMAIN rUser \cup missing |->
              IF u \in missing THEN [role |-> node[u].role, perms |-> node[u].perms, active |-> TRUE]
                ELSE rUser[u]]
        /\ granted' = [u \in DOMAIN granted \cup missing |->
              IF u \in missing THEN [perms |-> node[u].perms, roles |-> {node[u].role}] ELSE granted[u]]
        /\ UNCHANGED <<role, node, boot, settled, held, rChanges, rFailures>>
    BY <1>7 DEF Granting!MigrateUsers, Granting!Row, Granting!Granted
  <2>2. /\ DOMAIN granted = DOMAIN rUser /\ DOMAIN rUser \subseteq Accounts
           /\ DOMAIN node \subseteq Accounts
        /\ settled \subseteq DOMAIN rUser /\ rChanges \in 0 .. RoleChanges
        /\ \A u \in missing : node[u].role \in Names /\ node[u].perms \subseteq Perms
    BY DEF GrantInv, Registers, NodeTypes
  <2>3. ASSUME NEW u \in missing
        PROVE  /\ rUser'[u] \in UserTypes /\ granted'[u] \in GrantTypes
               /\ rUser'[u].role \in granted'[u].roles /\ rUser'[u].perms = granted'[u].perms
    BY <2>1, <2>2 DEF UserTypes, GrantTypes
  <2> HIDE DEF missing
  <2>4. \A u \in DOMAIN rUser \ missing : rUser'[u] = rUser[u] /\ granted'[u] = granted[u]
    BY <2>1, <2>2
  <2>5. DOMAIN rUser' = DOMAIN rUser \cup missing /\ DOMAIN granted' = DOMAIN rUser'
    BY <2>1, <2>2
  <2>6. \A v \in DOMAIN rUser' : /\ rUser'[v] \in UserTypes /\ granted'[v] \in GrantTypes
                                /\ rUser'[v].role \in granted'[v].roles
    BY <2>3, <2>4, <2>5 DEF GrantInv, Registers, Histories
  <2>7. Granting!PermissionsWereGiven'
    BY <2>1, <2>3, <2>4, <2>5 DEF GrantInv, Granting!PermissionsWereGiven
  <2>8. missing \subseteq Accounts /\ \A v \in settled : v \notin missing
    BY <2>2 DEF missing
  <2> QED BY <1>1, <2>1, <2>2, <2>4, <2>5, <2>6, <2>7, <2>8
<1> QED BY <1>2, <1>3, <1>4, <1>5, <1>6, <1>7

\* The requests about roles.
LEMMA RoleRequestsKeepGrants ==
  ASSUME RolesAreSet, GrantInv, NEW n \in Names,
         \/ \E perms \in SUBSET Perms : Granting!CreateRole(n, perms) \/ Granting!UpdateRole(n, perms)
         \/ Granting!DeleteRole(n)
  PROVE  GrantInv'
<1> USE DEF RolesAreSet
<1>0. ASSUME NEW perm, Granting!Request(perm)
      PROVE  boot' = boot /\ rFailures' = rFailures /\ rChanges' \in 0 .. RoleChanges
  BY <1>0 DEF Granting!Request, GrantInv, Registers
<1>1. ASSUME NEW perms \in SUBSET Perms, Granting!CreateRole(n, perms) \/ Granting!UpdateRole(n, perms)
      PROVE  GrantInv'
  <2>1. /\ boot' = boot /\ rFailures' = rFailures /\ rChanges' \in 0 .. RoleChanges
        /\ held' = [held EXCEPT ![n] = @ \cup perms] /\ settled' = {u \in settled : rUser[u].role # n}
        /\ UNCHANGED <<rUser, node, granted>>
    BY <1>0, <1>1 DEF Granting!CreateRole, Granting!UpdateRole
  <2>2. /\ DOMAIN role' = DOMAIN role \cup {n} /\ role'[n] \in RoleTypes /\ role'[n].perms = perms
        /\ \A m \in DOMAIN role \ {n} : role'[m] = role[m]
    <3>1. CASE Granting!CreateRole(n, perms)
      BY <3>1 DEF Granting!CreateRole, Granting!Put, RoleTypes
    <3>2. CASE Granting!UpdateRole(n, perms)
      <4>1. n \in DOMAIN role /\ role' = [role EXCEPT ![n] = [role[n] EXCEPT !.perms = perms]]
              /\ role[n] \in RoleTypes
        BY <3>2 DEF Granting!UpdateRole, Granting!Changeable, GrantInv, Registers
      <4> QED BY <4>1 DEF RoleTypes
    <3> QED BY <1>1, <3>1, <3>2
  <2>3. /\ held' \in [Names -> SUBSET Perms] /\ \A m \in Names : held[m] \subseteq held'[m]
        /\ held'[n] = held[n] \cup perms /\ \A m \in Names \ {n} : held'[m] = held[m]
    BY <2>1 DEF GrantInv, Registers
  <2>4. Granting!PermissionsWereGiven'
    BY <2>1, <2>3, HeldGrows
  <2>5. \A u \in settled' : Granting!RolePerms(rUser[u].role)' \subseteq Granting!RolePerms(rUser[u].role)
    BY <2>1, <2>2 DEF Granting!RolePerms
  <2>6. Settled'
    BY <2>1, <2>5, FewerSettled DEF GrantInv
  <2>7. \A m \in DOMAIN role' : role'[m].perms \subseteq held'[m] /\ role'[m] \in RoleTypes
    BY <2>2, <2>3 DEF GrantInv, Registers, Histories
  <2> QED BY <2>1, <2>2, <2>3, <2>4, <2>6, <2>7 DEF GrantInv, Registers, Histories
<1>2. CASE Granting!DeleteRole(n)
  <2>1. /\ boot' = boot /\ rFailures' = rFailures /\ rChanges' \in 0 .. RoleChanges
        /\ role' = [m \in DOMAIN role \ {n} |-> role[m]]
           /\ UNCHANGED <<rUser, node, settled, granted, held>>
    BY <1>0, <1>2 DEF Granting!DeleteRole, Granting!Without
  <2>2. \A u \in settled' : Granting!RolePerms(rUser[u].role)' \subseteq Granting!RolePerms(rUser[u].role)
    BY <2>1 DEF Granting!RolePerms
  <2>3. Settled'
    BY <2>1, <2>2, FewerSettled DEF GrantInv
  <2> QED BY <2>1, <2>3 DEF GrantInv, Registers, Histories, Granting!PermissionsWereGiven
<1> QED BY <1>1, <1>2

\* Every step.
LEMMA GrantStep == ASSUME RolesAreSet, GrantInv, [Granting!Next]_Granting!vars PROVE GrantInv'
BY StartKeepsGrants, SeedingKeepsGrants, UserRequestsKeepGrants,
    RoleRequestsKeepGrants DEF Granting!Next

\* Before the first start there are the roles and nodes of the old installation.
LEMMA GrantStart == ASSUME RolesAreSet, Granting!Init PROVE GrantInv
<1>1. DOMAIN rUser = {} /\ DOMAIN granted = {} /\ settled = {} /\ boot = "down"
  BY DEF Granting!Init
<1>2. held \in [Names -> SUBSET Perms]
  BY DEF Granting!Init, RolesAreSet
<1>3. \A n \in DOMAIN role : role[n].perms \subseteq held[n]
  BY DEF Granting!Init, RolesAreSet
<1> QED BY <1>1, <1>2, <1>3 DEF Granting!Init, RolesAreSet, GrantInv, Registers, Histories, Settled,
    Floor,
        Booting, RoleTypes, NodeTypes, Granting!PermissionsWereGiven

\* Who has started finds the roles to be floors.
LEMMA GrantHolds == ASSUME GrantInv PROVE Granting!RolesHold
BY DEF GrantInv, Registers, Settled, Floor, Granting!RolesHold, Granting!TypeOK, Granting!RoleIsFloor,
       RoleTypes, UserTypes

LEMMA RolesStepsHold ==
  ASSUME RolesAreSet, GrantInv, [Granting!Next]_(Granting!vars)
  PROVE  Granting!SystemRolesGrow
<1>1. ASSUME UNCHANGED role PROVE Granting!SystemRolesGrow
  BY <1>1 DEF Granting!SystemRolesGrow
<1>2. ASSUME NEW n \in Names, NEW row, role' = Granting!Put(role, n, row),
             n \in DOMAIN role /\ role[n].system = "true" =>
               row.system = "true" /\ role[n].perms \subseteq row.perms
      PROVE  Granting!SystemRolesGrow
  BY <1>2 DEF Granting!SystemRolesGrow, Granting!Put
<1>3. ASSUME NEW i \in DOMAIN Seeded, Granting!SeedRole(i) PROVE Granting!SystemRolesGrow
  <2>1. PICK n \in Names : n = Seeded[i]
    BY <1>3 DEF RolesAreSet
  <2>2. PICK row : row = Granting!Seeding(n)
    OBVIOUS
  <2>3. role' = Granting!Put(role, n, row)
    BY <1>3, <2>1, <2>2 DEF Granting!SeedRole
  <2>4. ASSUME n \in DOMAIN role, role[n].system = "true"
        PROVE  row.system = "true" /\ role[n].perms \subseteq row.perms
    <3>1. row = [role[n] EXCEPT !.perms = @ \cup (Upgrades[n] \cap Seeds[n])]
      BY <2>2, <2>4 DEF Granting!Seeding
    <3>2. role[n] \in RoleTypes
      BY <2>4 DEF GrantInv, Registers
    <3> QED BY <2>4, <3>1, <3>2 DEF RoleTypes
  <2> QED BY <1>2, <2>3, <2>4
<1>4. ASSUME NEW n \in Names, NEW perms, Granting!CreateRole(n, perms) PROVE Granting!SystemRolesGrow
  <2>1. PICK row : row = [perms |-> perms, system |-> "false"]
    OBVIOUS
  <2>2. role' = Granting!Put(role, n, row) /\ n \notin DOMAIN role
    BY <1>4, <2>1 DEF Granting!CreateRole
  <2> QED BY <1>2, <2>2
<1>5. ASSUME NEW n \in Names, NEW perms, Granting!UpdateRole(n, perms) PROVE Granting!SystemRolesGrow
  BY <1>5 DEF Granting!UpdateRole, Granting!Changeable, Granting!SystemRolesGrow
<1>6. ASSUME NEW n \in Names, Granting!DeleteRole(n) PROVE Granting!SystemRolesGrow
  BY <1>6 DEF Granting!DeleteRole, Granting!Changeable, Granting!Without, Granting!SystemRolesGrow
<1>7. CASE Granting!Next
  <2>1. \/ UNCHANGED role
        \/ \E i \in DOMAIN Seeded : Granting!SeedRole(i)
        \/ \E n \in Names : Granting!DeleteRole(n) \/ \E perms \in SUBSET Perms :
                              Granting!CreateRole(n, perms) \/ Granting!UpdateRole(n, perms)
    BY <1>7, Zenon DEF Granting!Next, Granting!Start, Granting!SeedAdmin, Granting!SeedAdminNode,
    Granting!Backfill,
       Granting!BackfillNode, Granting!StepFails, Granting!Crash, Granting!Stop, Granting!MigrateUsers,
       Granting!CreateUser, Granting!UpdateUserRole, Granting!UpdateUserPerms, Granting!DeleteUser,
       Granting!DeactivateUser
  <2> QED BY <1>1, <1>3, <1>4, <1>5, <1>6, <2>1
<1> QED BY <1>1, <1>7 DEF Granting!vars

-----------------------------------------------------------------------------
(* Jobs                                                                    *)

ThreadStages == {"create", "affected", "next", "effective", "linked", "drop", "add", "delete",
    "definition", "unlock"}
LoopStages == {Assigning!None, "next", "effective", "linked", "drop", "add", "clear", "fill"}
JobStages == ThreadStages \cup {Assigning!None, "lock", "leave", "clear", "fill"}
JobType ==
  [op : {Assigning!None, "create", "delete", "save", "dict"}, stage : JobStages,
  metric : Metrics \cup {Assigning!None},
   criteria : Criteria \cup {Assigning!NoDef}, todo : SUBSET CIs,
   on : Assigning!Holders \cup {Assigning!None},
   effective : SUBSET Metrics, drop : SUBSET Metrics, add : SUBSET Metrics, clean : BOOLEAN]

\* What a job has in hand at each stage.
JobHolds(a) ==
  /\ aJob[a].stage \in {"effective", "linked", "drop", "add"} => aJob[a].on \in CIs
  /\ aJob[a].stage \in {"clear", "fill"} => aJob[a].on \in Dicts
  /\ aJob[a].op = "create" => aJob[a].criteria # Assigning!NoDef
  /\ aJob[a].stage = "create" => aJob[a].op = "create"
  /\ a = Loop => aJob[a].stage \in LoopStages

AssignTypes ==
  /\ ci \in [CIs -> Kinds \cup {Assigning!None}]
     /\ dict \in [Dicts -> BrandModels \cup {Assigning!None}]
  /\ def \in [Metrics -> Criteria \cup {Assigning!NoDef}]
  /\ has \in [Assigning!Holders -> SUBSET Metrics] /\ unsure \subseteq Assigning!Holders
  /\ entry \in [Metrics -> {0} \cup Assigning!Entries]
  /\ ref \in [Threads -> (Metrics \X Assigning!Entries) \cup {Assigning!NoRef}]
  /\ holds \in [Threads -> BOOLEAN]
  /\ aJob \in [Assigning!Actors -> JobType]

-----------------------------------------------------------------------------
(* The guard                                                               *)

\* A thread holds its lock exactly while it works, and has a reference to it
\* from the entry to the exit.
Standing(t) ==
  \/ aJob[t].stage = Assigning!None /\ ref[t] = Assigning!NoRef /\ ~holds[t]
  \/ aJob[t].stage = "lock" /\ ref[t] # Assigning!NoRef /\ ~holds[t]
     /\ aJob[t].op \in {"create", "delete"}
  \/ aJob[t].stage = "leave" /\ ref[t] # Assigning!NoRef /\ ~holds[t]
  \/ aJob[t].stage \in ThreadStages /\ ref[t] # Assigning!NoRef /\ holds[t]

\* The registry's lock of a metric is the one that the metric's users have.
RegistryInv ==
  /\ \A t \in Threads : Standing(t)
  /\ \A t \in Threads : ref[t] # Assigning!NoRef => entry[ref[t][1]] = ref[t][2]
  /\ \A t, u \in Threads : holds[t] /\ holds[u] /\ ref[t] = ref[u] => t = u
  /\ Assigning!RegistryIsClean

\* A reference is a metric and a lock.
LEMMA RefShape ==
  ASSUME NEW r \in (Metrics \X Assigning!Entries) \cup {Assigning!NoRef}, r # Assigning!NoRef
  PROVE  r[1] \in Metrics /\ r[2] \in Assigning!Entries /\ r = <<r[1], r[2]>>
OBVIOUS

(* Sets are counted alike.                                                  *)
LEMMA AssigningCount == \A S : Assigning!Cardinality(S) = Cardinality(S)
BY DEF Assigning!Cardinality, Cardinality

(* There is one number for each thread, and 0 is none of them.              *)
LEMMA EntriesAreNumbers ==
  ASSUME NamesAreApart
  PROVE  /\ Cardinality(Threads) \in Nat /\ Assigning!Entries \subseteq Nat \ {0}
            /\ 0 \notin Assigning!Entries
         /\ IsFiniteSet(Assigning!Entries) /\ Cardinality(Assigning!Entries) = Cardinality(Threads)
<1>1. Cardinality(Threads) \in Nat
  BY FS_CardinalityType DEF NamesAreApart
<1>2. Assigning!Entries = 1 .. Cardinality(Threads)
  BY AssigningCount DEF Assigning!Entries
<1>3. IsFiniteSet(Assigning!Entries) /\ Cardinality(Assigning!Entries) = Cardinality(Threads)
  BY <1>1, <1>2, FS_Interval
<1> QED BY <1>1, <1>2, <1>3

(* While a thread has no reference, the others cannot use every lock.       *)
LEMMA SomeLockIsFree ==
  ASSUME NamesAreApart, NEW m, NEW t \in Threads, ref[t] = Assigning!NoRef
  PROVE  \E e \in Assigning!Entries : Assigning!Users(m, e) = {}
<1> SUFFICES ASSUME \A e \in Assigning!Entries : Assigning!Users(m, e) # {} PROVE FALSE
  OBVIOUS
<1> DEFINE Others == Threads \ {t}
           holder == [e \in Assigning!Entries |-> CHOOSE u \in Assigning!Users(m, e) : TRUE]
<1>1. \A e \in Assigning!Entries : holder[e] \in Assigning!Users(m, e)
  OBVIOUS
<1>2. holder \in [Assigning!Entries -> Others]
  <2> SUFFICES ASSUME NEW e \in Assigning!Entries PROVE holder[e] \in Others
    OBVIOUS
  <2>1. holder[e] \in Threads /\ ref[holder[e]] = <<m, e>> /\ e # 0
    BY <1>1, EntriesAreNumbers DEF Assigning!Users
  <2>2. <<m, e>> # Assigning!NoRef
    BY <2>1 DEF Assigning!NoRef
  <2> QED BY <2>1, <2>2
<1> HIDE DEF holder
<1>3. IsFiniteSet(Others) /\ Cardinality(Others) < Cardinality(Assigning!Entries)
  <2>1. IsFiniteSet(Threads)
    BY DEF NamesAreApart
  <2>2. IsFiniteSet(Others) /\ Cardinality(Others) = Cardinality(Threads) - 1
    BY <2>1, FS_RemoveElement
  <2> QED BY <2>2, EntriesAreNumbers
<1> HIDE DEF Others
<1>4. PICK d, e \in Assigning!Entries : d # e /\ holder[d] = holder[e]
  BY <1>2, <1>3, EntriesAreNumbers, FS_PigeonHole
<1>5. ref[holder[d]] = <<m, d>> /\ ref[holder[d]] = <<m, e>>
  BY <1>1, <1>4 DEF Assigning!Users
<1> QED BY <1>4, <1>5

(* Min finds it.                                                            *)
LEMMA FreeLock ==
  ASSUME NamesAreApart, NEW m, NEW t \in Threads, ref[t] = Assigning!NoRef
  PROVE  LET e == Assigning!Min({x \in Assigning!Entries : Assigning!Users(m, x) = {}})
    IN e \in Assigning!Entries /\ Assigning!Users(m, e) = {}
<1> DEFINE free == {x \in Assigning!Entries : Assigning!Users(m, x) = {}}
<1>1. free # {} /\ free \subseteq Nat
  BY SomeLockIsFree, EntriesAreNumbers
<1>2. PICK x \in free : \A y \in free : ~(<<y, x>> \in OpToRel(<, Nat))
  BY <1>1, NatLessThanWellFounded, WFMin
<1> HIDE DEF free
<1>3. \A y \in free : x <= y
  <2> SUFFICES ASSUME NEW y \in free, y < x PROVE FALSE
    BY <1>1
  <2>1. y \in Nat /\ x \in Nat
    BY <1>1
  <2>2. <<y, x>> \in {ss \in Nat \X Nat : ss[1] < ss[2]}
    BY <2>1
  <2> QED BY <1>2, <2>2 DEF OpToRel
<1>4. Assigning!Min(free) \in free
  BY <1>3 DEF Assigning!Min
<1> QED BY <1>4 DEF free

-----------------------------------------------------------------------------
(* Every step keeps the types.                                             *)

LinksJoin ==
  /\ \A h \in Assigning!Holders : \A m \in has[h] : def[m] # Assigning!NoDef
  /\ \A c \in CIs : ci[c] = Assigning!None => has[c] = {}

AssignInv == AssignTypes /\ LinksJoin /\ \A a \in Assigning!Actors : JobHolds(a)

\* What a job keeps when another actor disturbs it.
SameBut(b) ==
  /\ aJob'[b].stage = aJob[b].stage /\ aJob'[b].op = aJob[b].op
  /\ aJob'[b].on = aJob[b].on /\ aJob'[b].criteria = aJob[b].criteria

(* What a step that writes its own job, and disturbs readers, does to jobs. *)
LEMMA DisturbedJobs ==
  ASSUME aJob \in [Assigning!Actors -> JobType], NEW a \in Assigning!Actors, NEW H,
         NEW next \in JobType,
         aJob' = Assigning!Disturbed(a, H, next)
  PROVE  aJob' \in [Assigning!Actors -> JobType] /\ aJob'[a] = next
    /\ \A b \in Assigning!Actors \ {a} : SameBut(b)
<1>1. \A b \in Assigning!Actors : [aJob[b] EXCEPT !.clean = FALSE] \in JobType
  BY DEF JobType
<1>2. aJob' \in [Assigning!Actors -> JobType]
  BY <1>1 DEF Assigning!Disturbed
<1>3. ASSUME NEW b \in Assigning!Actors \ {a} PROVE SameBut(b)
  BY DEF Assigning!Disturbed, SameBut, JobType
<1> QED BY <1>2, <1>3 DEF Assigning!Disturbed

(* The same for a step that writes its own job alone.                       *)
LEMMA MovedJob ==
  ASSUME aJob \in [Assigning!Actors -> JobType], NEW a \in Assigning!Actors, NEW next \in JobType,
         aJob' = [aJob EXCEPT ![a] = next]
  PROVE  aJob' \in [Assigning!Actors -> JobType] /\ aJob'[a] = next
    /\ \A b \in Assigning!Actors \ {a} : SameBut(b)
BY DEF SameBut

\* Goto and Done.
LEMMA GotoStage ==
  ASSUME aJob \in [Assigning!Actors -> JobType], NEW a \in Assigning!Actors, NEW stage \in JobStages,
         Assigning!Goto(a, stage)
  PROVE  /\ aJob' \in [Assigning!Actors -> JobType] /\ \A b \in Assigning!Actors \ {a} : SameBut(b)
         /\ aJob'[a].stage = stage /\ aJob'[a].op = aJob[a].op /\ aJob'[a].on = aJob[a].on
         /\ aJob'[a].criteria = aJob[a].criteria
<1>1. [aJob[a] EXCEPT !.stage = stage] \in JobType
  BY DEF JobType
<1>2. aJob' = [aJob EXCEPT ![a] = [aJob[a] EXCEPT !.stage = stage]]
  BY DEF Assigning!Goto
<1> QED BY <1>1, <1>2, MovedJob DEF JobType

\* The end of a request.
LEMMA DoneJob ==
  ASSUME aJob \in [Assigning!Actors -> JobType], NEW a \in Assigning!Actors, Assigning!Done(a)
  PROVE  aJob' \in [Assigning!Actors -> JobType] /\ aJob'[a] = Assigning!NoJob
    /\ \A b \in Assigning!Actors \ {a} : SameBut(b)
<1>1. Assigning!NoJob \in JobType
  BY DEF Assigning!NoJob, JobType, JobStages
<1> QED BY <1>1, MovedJob DEF Assigning!Done

(* Only the job that is written has to be looked at.                        *)
LEMMA OthersHold ==
  ASSUME NEW a \in Assigning!Actors, \A b \in Assigning!Actors : JobHolds(b),
         \A b \in Assigning!Actors \ {a} : SameBut(b), JobHolds(a)'
  PROVE  \A b \in Assigning!Actors : JobHolds(b)'
BY DEF SameBut, JobHolds

(* Reconciliations.                                                        *)
LEMMA ReconcileKeepsTypes ==
  ASSUME NamesAreApart, AssignInv, NEW a \in Assigning!Actors, Assigning!Reconcile(a)
  PROVE  AssignInv'
<1> USE DEF AssignInv, AssignTypes, Assigning!At
<1>1. aJob[a] \in JobType /\ JobHolds(a)
  OBVIOUS
<1>2. UNCHANGED <<ci, def, dict, Assigning!guard>> /\ UNCHANGED <<entry, ref, holds>>
  BY DEF Assigning!Reconcile, Assigning!NextNode, Assigning!ReadEffective, Assigning!ReadLinked,
      Assigning!DropLink, Assigning!AddLink, Assigning!data, Assigning!guard
\* What a step that writes the job of a, and the links, has to show.
<1>3. ASSUME NEW next \in JobType, aJob' = [aJob EXCEPT ![a] = next]
             \/ \E H : aJob' = Assigning!Disturbed(a, H, next),
             next.op = aJob[a].op, next.criteria = aJob[a].criteria,
             next.stage \in {"effective", "linked", "drop", "add"} => next.on \in CIs,
             next.stage \in {"effective", "linked", "drop", "add"},
             has' \in [Assigning!Holders -> SUBSET Metrics], unsure' \subseteq Assigning!Holders,
             LinksJoin'
      PROVE  AssignInv'
  <2>1. aJob' \in [Assigning!Actors -> JobType] /\ aJob'[a] = next
          /\ \A b \in Assigning!Actors \ {a} : SameBut(b)
    BY <1>3, MovedJob, DisturbedJobs
  <2>2. JobHolds(a)'
    BY <1>1, <1>3, <2>1 DEF JobHolds, LoopStages
  <2>3. \A b \in Assigning!Actors : JobHolds(b)'
    BY <2>1, <2>2, OthersHold
  <2> QED BY <1>2, <1>3, <2>1, <2>3
<1>4. CASE Assigning!NextNode(a)
  <2>1. UNCHANGED <<has, unsure>> /\ LinksJoin'
    BY <1>2, <1>4 DEF Assigning!NextNode, Assigning!data, LinksJoin
  <2>2. ASSUME NEW c \in aJob[a].todo,
               aJob' = [aJob EXCEPT ![a].stage = "effective", ![a].on = c, ![a].todo = @ \ {c},
               ![a].clean = TRUE]
        PROVE  AssignInv'
    <3> DEFINE next == [aJob[a] EXCEPT !.stage = "effective", !.on = c, !.todo = @ \ {c},
          !.clean = TRUE]
    <3>1. c \in CIs
      BY <1>1 DEF JobType
    <3>2. next \in JobType /\ next.op = aJob[a].op /\ next.criteria = aJob[a].criteria
          /\ next.stage = "effective" /\ next.on = c
      BY <1>1, <3>1 DEF JobType, JobStages, ThreadStages, Assigning!Holders
    <3>3. aJob' = [aJob EXCEPT ![a] = next]
      BY <2>2
    <3> HIDE DEF next
    <3> QED BY <1>3, <2>1, <3>1, <3>2, <3>3
  <2>3. CASE Assigning!Done(a)
    BY <1>2, <2>1, <2>3, DoneJob, OthersHold DEF JobHolds, LoopStages, Assigning!NoJob, Assigning!None
  <2>4. CASE a # Loop /\ Assigning!Goto(a, "unlock")
    BY <1>1, <1>2, <2>1, <2>4, GotoStage, OthersHold DEF JobHolds, LoopStages, JobStages, ThreadStages
  <2> QED BY <1>4, <2>2, <2>3, <2>4 DEF Assigning!NextNode
<1>5. CASE Assigning!ReadEffective(a)
  <2> DEFINE next == [aJob[a] EXCEPT !.stage = "linked", !.effective = Assigning!Applicable(aJob[a].on)]
  <2>1. Assigning!Applicable(aJob[a].on) \in SUBSET Metrics /\ aJob[a].on \in CIs
    BY <1>1, <1>5 DEF Assigning!Applicable, JobHolds, Assigning!ReadEffective
  <2>2. next \in JobType /\ next.op = aJob[a].op /\ next.criteria = aJob[a].criteria
          /\ next.stage = "linked"
        /\ next.on = aJob[a].on
    BY <1>1, <2>1 DEF JobType, JobStages, ThreadStages
  <2>3. aJob' = [aJob EXCEPT ![a] = next] /\ UNCHANGED <<has, unsure>> /\ LinksJoin'
    BY <1>2, <1>5 DEF Assigning!ReadEffective, Assigning!data, LinksJoin
  <2> HIDE DEF next
  <2> QED BY <1>3, <2>1, <2>2, <2>3
<1>6. CASE Assigning!ReadLinked(a)
  <2> DEFINE c == aJob[a].on
             next == [aJob[a] EXCEPT !.stage = "drop",
             !.drop = has[c] \ (aJob[a].effective \cup Assigning!Explicit(c)),
                                    !.add = aJob[a].effective \ has[c]]
  <2>1. c \in CIs /\ has[c] \in SUBSET Metrics /\ aJob[a].effective \in SUBSET Metrics
    BY <1>1, <1>6 DEF JobHolds, LoopStages, Assigning!ReadLinked, JobType, Assigning!Holders
  <2>2. next \in JobType /\ next.op = aJob[a].op /\ next.criteria = aJob[a].criteria
          /\ next.stage = "drop"
        /\ next.on = c
    BY <1>1, <2>1 DEF JobType, JobStages, ThreadStages
  <2>3. aJob' = [aJob EXCEPT ![a] = next] /\ UNCHANGED <<has, unsure>> /\ LinksJoin'
    BY <1>2, <1>6 DEF Assigning!ReadLinked, Assigning!data, LinksJoin
  <2> HIDE DEF next, c
  <2> QED BY <1>3, <2>1, <2>2, <2>3
<1>7. CASE Assigning!DropLink(a)
  <2>1. aJob[a].on \in CIs /\ aJob[a].on \in Assigning!Holders /\ aJob[a].stage = "drop"
    BY <1>1, <1>7 DEF JobHolds, LoopStages, Assigning!DropLink, Assigning!Holders
  <2>2. ASSUME NEW m \in aJob[a].drop, has' = [has EXCEPT ![aJob[a].on] = @ \ {m}], UNCHANGED unsure,
               aJob' = Assigning!Disturbed(a, {aJob[a].on}, [aJob[a] EXCEPT !.drop = @ \ {m}])
        PROVE  AssignInv'
    <3> DEFINE next == [aJob[a] EXCEPT !.drop = @ \ {m}]
    <3>1. next \in JobType /\ next.op = aJob[a].op /\ next.criteria = aJob[a].criteria
            /\ next.stage = aJob[a].stage
          /\ next.on = aJob[a].on
      BY <1>1 DEF JobType
    <3>2. has' \in [Assigning!Holders -> SUBSET Metrics] /\ LinksJoin'
      BY <1>2, <2>1, <2>2 DEF LinksJoin, Assigning!Holders
    <3>3. aJob' = Assigning!Disturbed(a, {aJob[a].on}, next)
      BY <2>2
    <3> HIDE DEF next
    <3> QED BY <1>3, <2>1, <2>2, <3>1, <3>2, <3>3
  <2>3. CASE Assigning!Goto(a, "add") /\ UNCHANGED Assigning!data
    <3>1. UNCHANGED <<has, unsure>> /\ LinksJoin'
      BY <1>2, <2>3 DEF Assigning!data, LinksJoin
    <3> QED BY <1>1, <1>2, <2>1, <2>3, <3>1, GotoStage, OthersHold DEF JobHolds, LoopStages, JobStages,
        ThreadStages
  <2> QED BY <1>7, <2>2, <2>3 DEF Assigning!DropLink
<1>8. CASE Assigning!AddLink(a)
  <2>1. aJob[a].on \in CIs /\ aJob[a].on \in Assigning!Holders /\ aJob[a].stage = "add"
    BY <1>1, <1>8 DEF JobHolds, LoopStages, Assigning!AddLink, Assigning!Holders
  <2>2. ASSUME NEW m \in aJob[a].add, UNCHANGED unsure,
               has' = IF ci[aJob[a].on] # Assigning!None /\ def[m] # Assigning!NoDef
                 THEN [has EXCEPT ![aJob[a].on] = @ \cup {m}] ELSE has,
               aJob' = Assigning!Disturbed(a, {aJob[a].on}, [aJob[a] EXCEPT !.add = @ \ {m}])
        PROVE  AssignInv'
    <3> DEFINE next == [aJob[a] EXCEPT !.add = @ \ {m}]
    <3>1. next \in JobType /\ next.op = aJob[a].op /\ next.criteria = aJob[a].criteria
            /\ next.stage = aJob[a].stage
          /\ next.on = aJob[a].on
      BY <1>1 DEF JobType
    <3>2. m \in Metrics
      BY <1>1 DEF JobType
    <3>3. has' \in [Assigning!Holders -> SUBSET Metrics] /\ LinksJoin'
      BY <1>2, <2>1, <2>2, <3>2 DEF LinksJoin, Assigning!Holders
    <3>4. aJob' = Assigning!Disturbed(a, {aJob[a].on}, next)
      BY <2>2
    <3> HIDE DEF next
    <3> QED BY <1>3, <2>1, <2>2, <3>1, <3>3, <3>4
  <2>3. CASE Assigning!Goto(a, "next") /\ UNCHANGED has /\ unsure' \subseteq unsure \cup {aJob[a].on}
    <3>1. LinksJoin'
      BY <1>2, <2>3 DEF LinksJoin
    <3> QED BY <1>1, <1>2, <2>1, <2>3, <3>1, GotoStage, OthersHold DEF JobHolds, LoopStages, JobStages,
        ThreadStages
  <2> QED BY <1>8, <2>2, <2>3 DEF Assigning!AddLink
<1> QED BY <1>4, <1>5, <1>6, <1>7, <1>8 DEF Assigning!Reconcile

(* Creations and deletions of metrics, and their passage through the guard. *)
LEMMA OperationKeepsTypes ==
  ASSUME NamesAreApart, AssignInv, RegistryInv, NEW t \in Threads, Assigning!Operation(t)
  PROVE  AssignInv'
<1> USE DEF AssignInv, AssignTypes, Assigning!At
<1>1. t \in Assigning!Actors /\ t # Loop /\ aJob[t] \in JobType /\ JobHolds(t) /\ Standing(t)
  BY DEF Assigning!Actors, RegistryInv, NamesAreApart
<1>2. ASSUME NEW m \in Metrics, NEW op \in {"create", "delete"},
             NEW criteria \in Criteria \cup {Assigning!NoDef},
             op = "create" => criteria # Assigning!NoDef, Assigning!Enter(t, op, m, criteria)
      PROVE  AssignInv'
  <2> DEFINE next == [Assigning!NoJob EXCEPT !.op = op, !.stage = "lock", !.metric = m,
        !.criteria = criteria]
             e == IF entry[m] = 0 THEN Assigning!Min({x \in Assigning!Entries : Assigning!Users(m,
             x) = {}}) ELSE entry[m]
  <2>1. next \in JobType /\ next.op = op /\ next.stage = "lock" /\ next.criteria = criteria
    BY <1>2 DEF Assigning!NoJob, JobType, JobStages
  <2>2. ref[t] = Assigning!NoRef
    BY <1>1, <1>2 DEF Assigning!Enter, Standing, Assigning!NoJob, Assigning!None, ThreadStages
  <2>3. e \in Assigning!Entries
    BY <2>2, FreeLock
  <2>4. entry' = [entry EXCEPT ![m] = e] /\ ref' = [ref EXCEPT ![t] = <<m, e>>]
          /\ aJob' = [aJob EXCEPT ![t] = next]
        /\ UNCHANGED <<ci, def, dict, has, unsure, holds>>
    BY <1>2 DEF Assigning!Enter, Assigning!data
  <2> HIDE DEF next, e
  <2>5. aJob' \in [Assigning!Actors -> JobType] /\ \A b \in Assigning!Actors : JobHolds(b)'
    BY <1>1, <1>2, <2>1, <2>4, MovedJob, OthersHold DEF JobHolds
  <2>6. entry' \in [Metrics -> {0} \cup Assigning!Entries]
          /\ ref' \in [Threads -> (Metrics \X Assigning!Entries) \cup {Assigning!NoRef}]
    BY <1>2, <2>3, <2>4
  <2> QED BY <2>4, <2>5, <2>6 DEF LinksJoin
<1>3. CASE Assigning!TryLock(t) \/ Assigning!Unlock(t)
  <2>1. UNCHANGED <<ci, def, dict, has, unsure, entry, ref>> /\ holds' \in [Threads -> BOOLEAN]
    BY <1>3 DEF Assigning!TryLock, Assigning!Unlock, Assigning!data
  <2>2. aJob' \in [Assigning!Actors -> JobType] /\ \A b \in Assigning!Actors : JobHolds(b)'
    <3>1. CASE Assigning!Goto(t, "leave")
      BY <1>1, <3>1, GotoStage, OthersHold DEF JobHolds, JobStages
    <3>2. ASSUME NEW stage \in {"create", "delete"}, stage = aJob[t].op, Assigning!Goto(t, stage)
          PROVE  aJob' \in [Assigning!Actors -> JobType] /\ \A b \in Assigning!Actors : JobHolds(b)'
      BY <1>1, <3>2, GotoStage, OthersHold DEF JobHolds, JobStages, ThreadStages
    <3> QED BY <1>1, <1>3, <3>1, <3>2 DEF Assigning!TryLock, Assigning!Unlock, Standing, ThreadStages,
        Assigning!None
  <2> QED BY <2>1, <2>2 DEF LinksJoin
<1>4. CASE Assigning!Leave(t)
  <2>1. UNCHANGED <<ci, def, dict, has, unsure, holds>> /\ Assigning!Done(t)
        /\ ref' \in [Threads -> (Metrics \X Assigning!Entries) \cup {Assigning!NoRef}]
    BY <1>4 DEF Assigning!Leave, Assigning!data
  <2>2. entry' \in [Metrics -> {0} \cup Assigning!Entries]
    BY <1>4 DEF Assigning!Leave
  <2>3. aJob' \in [Assigning!Actors -> JobType] /\ \A b \in Assigning!Actors : JobHolds(b)'
    BY <1>1, <2>1, DoneJob, OthersHold DEF JobHolds, Assigning!NoJob, Assigning!None
  <2> QED BY <2>1, <2>2, <2>3 DEF LinksJoin
\* The steps of an operation that has the lock.
<1>5. ASSUME UNCHANGED Assigning!guard, NEW next \in JobType,
             aJob' = [aJob EXCEPT ![t] = next] \/ \E H : aJob' = Assigning!Disturbed(t, H, next),
             next.op = aJob[t].op, next.criteria = aJob[t].criteria, next.stage \in ThreadStages,
             next.stage \notin {"effective", "linked", "drop", "add", "create"},
             UNCHANGED <<ci, dict>>, def' \in [Metrics -> Criteria \cup {Assigning!NoDef}],
             has' \in [Assigning!Holders -> SUBSET Metrics], unsure' \subseteq Assigning!Holders,
             LinksJoin'
      PROVE  AssignInv'
  <2>1. aJob' \in [Assigning!Actors -> JobType] /\ aJob'[t] = next
          /\ \A b \in Assigning!Actors \ {t} : SameBut(b)
    BY <1>1, <1>5, MovedJob, DisturbedJobs
  <2>2. JobHolds(t)'
    BY <1>1, <1>5, <2>1 DEF JobHolds, ThreadStages
  <2>3. \A b \in Assigning!Actors : JobHolds(b)'
    BY <1>1, <2>1, <2>2, OthersHold
  <2> QED BY <1>5, <2>1, <2>3 DEF Assigning!guard
<1>6. CASE Assigning!WriteDef(t)
  <2> DEFINE next == [aJob[t] EXCEPT !.stage = "affected"]
  <2>1. aJob[t].metric \in Metrics \cup {Assigning!None}
          /\ aJob[t].criteria \in Criteria \cup {Assigning!NoDef}
    BY <1>1 DEF JobType
  <2>2. next \in JobType /\ next.op = aJob[t].op /\ next.criteria = aJob[t].criteria
          /\ next.stage = "affected"
    BY <1>1 DEF JobType, JobStages, ThreadStages
  <2>3. UNCHANGED <<ci, dict, has, unsure, Assigning!guard>>
          /\ def' = [def EXCEPT ![aJob[t].metric] = aJob[t].criteria]
        /\ aJob' = Assigning!Disturbed(t, CIs, next)
    BY <1>6 DEF Assigning!WriteDef
  <2> HIDE DEF next
  <2>4. def' \in [Metrics -> Criteria \cup {Assigning!NoDef}]
    BY <2>1, <2>3
  <2>5. LinksJoin'
    <3>1. aJob[t].criteria # Assigning!NoDef
      BY <1>1, <1>6 DEF Assigning!WriteDef, JobHolds
    <3> QED BY <2>3, <3>1 DEF LinksJoin
  <2> QED BY <1>5, <2>2, <2>3, <2>4, <2>5 DEF ThreadStages
<1>7. CASE Assigning!ReadAffected(t)
  <2> DEFINE next == [aJob[t] EXCEPT !.stage = "next",
        !.todo = Assigning!Affected(aJob[t].metric, aJob[t].criteria)]
  <2>1. Assigning!Affected(aJob[t].metric, aJob[t].criteria) \in SUBSET CIs
    BY DEF Assigning!Affected
  <2>2. next \in JobType /\ next.op = aJob[t].op /\ next.criteria = aJob[t].criteria
          /\ next.stage = "next"
    BY <1>1, <2>1 DEF JobType, JobStages, ThreadStages
  <2>3. aJob' = [aJob EXCEPT ![t] = next] /\ UNCHANGED Assigning!guard
          /\ UNCHANGED <<ci, def, dict, has, unsure>>
    BY <1>7 DEF Assigning!ReadAffected, Assigning!data
  <2> HIDE DEF next
  <2>4. LinksJoin'
    BY <2>3 DEF LinksJoin
  <2> QED BY <1>5, <2>2, <2>3, <2>4 DEF ThreadStages
<1>8. CASE Assigning!DeleteBatch(t)
  <2>1. UNCHANGED Assigning!guard /\ UNCHANGED <<ci, def, dict, unsure>>
    BY <1>8 DEF Assigning!DeleteBatch
  <2>2. ASSUME NEW H \in SUBSET Assigning!Holders, NEW m,
               has' = [h \in Assigning!Holders |-> IF h \in H THEN has[h] \ {m} ELSE has[h]],
               aJob' = Assigning!Disturbed(t, H, aJob[t])
        PROVE  AssignInv'
    <3>1. LinksJoin' /\ has' \in [Assigning!Holders -> SUBSET Metrics]
      BY <2>1, <2>2 DEF LinksJoin, Assigning!Holders
    <3> QED BY <1>1, <1>5, <1>8, <2>1, <2>2, <3>1 DEF Assigning!DeleteBatch, ThreadStages
  <2>3. CASE Assigning!Goto(t, "definition") /\ UNCHANGED has
    <3>1. LinksJoin'
      BY <2>1, <2>3 DEF LinksJoin
    <3> QED BY <1>1, <2>1, <2>3, <3>1, GotoStage, OthersHold DEF JobHolds, JobStages, ThreadStages,
        Assigning!guard
  <2>4. \A H \in SUBSET Assigning!LinksOf(aJob[t].metric) : H \in SUBSET Assigning!Holders
    BY DEF Assigning!LinksOf
  <2>5. \/ \E H \in SUBSET Assigning!LinksOf(aJob[t].metric) :
             /\ has' = [h \in Assigning!Holders |-> IF h \in H
                THEN has[h] \ {aJob[t].metric} ELSE has[h]]
             /\ aJob' = Assigning!Disturbed(t, H, aJob[t])
        \/ Assigning!Goto(t, "definition") /\ UNCHANGED has
    BY <1>8 DEF Assigning!DeleteBatch
  <2>6. ASSUME NEW H \in SUBSET Assigning!LinksOf(aJob[t].metric),
               has' = [h \in Assigning!Holders |-> IF h \in H
                 THEN has[h] \ {aJob[t].metric} ELSE has[h]],
               aJob' = Assigning!Disturbed(t, H, aJob[t])
        PROVE  AssignInv'
    <3>1. PICK m : m = aJob[t].metric
      OBVIOUS
    <3>2. H \in SUBSET Assigning!Holders
      BY <2>4
    <3>3. has' = [h \in Assigning!Holders |-> IF h \in H THEN has[h] \ {m} ELSE has[h]]
      BY <2>6, <3>1
    <3> HIDE DEF AssignInv
    <3> QED BY <2>2, <2>6, <3>2, <3>3
  <2> HIDE DEF Assigning!At, AssignInv
  <2> QED BY <2>3, <2>5, <2>6
<1>9. CASE Assigning!DeleteDef(t)
  <2> DEFINE next == [aJob[t] EXCEPT !.stage = "unlock"]
  <2>1. next \in JobType /\ next.op = aJob[t].op /\ next.criteria = aJob[t].criteria
          /\ next.stage = "unlock"
    BY <1>1 DEF JobType, JobStages, ThreadStages
  <2>2. aJob' = Assigning!Disturbed(t, CIs, next) /\ UNCHANGED Assigning!guard
          /\ UNCHANGED <<ci, dict, has>>
    BY <1>9 DEF Assigning!DeleteDef
  <2>3. \/ Assigning!LinksOf(aJob[t].metric) = {}
           /\ def' = [def EXCEPT ![aJob[t].metric] = Assigning!NoDef] /\ UNCHANGED unsure
        \/ UNCHANGED def /\ unsure' = Assigning!Holders
    BY <1>9 DEF Assigning!DeleteDef
  <2> HIDE DEF next
  <2>4. LinksJoin'
    BY <2>2, <2>3 DEF LinksJoin, Assigning!LinksOf, Assigning!Holders
  <2>5. def' \in [Metrics -> Criteria \cup {Assigning!NoDef}] /\ unsure' \subseteq Assigning!Holders
    BY <2>3
  <2> QED BY <1>5, <2>1, <2>2, <2>4, <2>5 DEF ThreadStages
<1> QED
  <2>1. CASE \E m \in Metrics : Assigning!Enter(t, "delete", m, Assigning!NoDef)
    BY <1>2, <2>1
  <2>2. ASSUME NEW m \in Metrics, NEW k \in Criteria, Assigning!Enter(t, "create", m, k)
        PROVE  AssignInv'
    BY <1>2, <2>2 DEF NamesAreApart
  <2> QED BY <1>3, <1>4, <1>6, <1>7, <1>8, <1>9, <2>1, <2>2 DEF Assigning!Operation

(* The handlers of the event loop.                                          *)
LEMMA HandlerKeepsTypes ==
  ASSUME NamesAreApart, AssignInv, Assigning!Handler
  PROVE  AssignInv'
<1> USE DEF AssignInv, AssignTypes, Assigning!At
<1>1. Loop \in Assigning!Actors /\ aJob[Loop] \in JobType /\ JobHolds(Loop)
  BY DEF Assigning!Actors
<1>2. UNCHANGED Assigning!guard /\ UNCHANGED <<entry, ref, holds>>
  BY DEF Assigning!Handler, Assigning!SaveNodes, Assigning!DeleteNode, Assigning!WriteDict,
      Assigning!BulkCreate, Assigning!DeleteDict, Assigning!ClearDict, Assigning!FillDict,
      Assigning!guard
<1>3. ASSUME NEW next \in JobType, aJob' = [aJob EXCEPT ![Loop] = next]
             \/ \E H : aJob' = Assigning!Disturbed(Loop, H, next),
             next.op # "create",
             next.stage \notin {"effective", "linked", "drop", "add", "create"},
             next.stage \in LoopStages,
             next.stage \in {"clear", "fill"} => next.on \in Dicts,
             ci' \in [CIs -> Kinds \cup {Assigning!None}],
             dict' \in [Dicts -> BrandModels \cup {Assigning!None}], UNCHANGED def,
             has' \in [Assigning!Holders -> SUBSET Metrics], unsure' \subseteq Assigning!Holders,
             LinksJoin'
      PROVE  AssignInv'
  <2>1. aJob' \in [Assigning!Actors -> JobType] /\ aJob'[Loop] = next
          /\ \A b \in Assigning!Actors \ {Loop} : SameBut(b)
    BY <1>1, <1>3, MovedJob, DisturbedJobs
  <2>2. JobHolds(Loop)'
    BY <1>3, <2>1 DEF JobHolds, LoopStages
  <2>3. \A b \in Assigning!Actors : JobHolds(b)'
    BY <1>1, <2>1, <2>2, OthersHold
  <2> QED BY <1>2, <1>3, <2>1, <2>3
<1>4. Assigning!NoJob \in JobType /\ Assigning!NoJob.op = Assigning!None
        /\ Assigning!NoJob.stage = Assigning!None /\ Assigning!None # "create"
      /\ Assigning!None \notin {"effective", "linked", "drop", "add", "clear", "fill", "create"}
         /\ Assigning!None \in LoopStages
  BY DEF Assigning!NoJob, Assigning!None, JobType, JobStages, LoopStages
<1>5. ASSUME NEW C \in SUBSET CIs, NEW kind \in Kinds, Assigning!SaveNodes(C, kind) PROVE AssignInv'
  <2> DEFINE next == [Assigning!NoJob EXCEPT !.op = "save", !.stage = "next", !.todo = C]
  <2>1. next \in JobType /\ next.op = "save" /\ next.stage = "next"
    BY DEF Assigning!NoJob, JobType, JobStages, ThreadStages
  <2>2. aJob' = Assigning!Disturbed(Loop, C, next) /\ UNCHANGED <<def, dict, has>>
          /\ unsure' = unsure \cup C
        /\ ci' = [c \in CIs |-> IF c \in C THEN kind ELSE ci[c]]
    BY <1>5 DEF Assigning!SaveNodes
  <2> HIDE DEF next
  <2>3. ci' \in [CIs -> Kinds \cup {Assigning!None}] /\ LinksJoin'
          /\ unsure' \subseteq Assigning!Holders
    BY <2>2 DEF NamesAreApart, LinksJoin, Assigning!Holders
  <2> QED BY <1>3, <2>1, <2>2, <2>3 DEF LoopStages
<1>6. ASSUME NEW c \in CIs, Assigning!DeleteNode(c) PROVE AssignInv'
  <2>1. aJob' = Assigning!Disturbed(Loop, {c}, Assigning!NoJob) /\ UNCHANGED <<def, dict, unsure>>
        /\ ci' = [ci EXCEPT ![c] = Assigning!None] /\ has' = [has EXCEPT ![c] = {}]
    BY <1>6 DEF Assigning!DeleteNode
  <2>2. ci' \in [CIs -> Kinds \cup {Assigning!None}] /\ has' \in [Assigning!Holders -> SUBSET Metrics]
          /\ LinksJoin'
    BY <2>1 DEF LinksJoin, Assigning!Holders
  <2> QED BY <1>3, <1>4, <2>1, <2>2
<1>7. ASSUME NEW d \in Dicts, NEW p \in BrandModels, NEW M \in SUBSET Metrics,
             Assigning!WriteDict(d, p, M)
      PROVE  AssignInv'
  <2> DEFINE next == [Assigning!NoJob EXCEPT !.op = "dict", !.stage = "clear", !.on = d, !.add = M]
  <2>1. next \in JobType /\ next.op = "dict" /\ next.stage = "clear" /\ next.on = d
    BY DEF Assigning!NoJob, JobType, JobStages, Assigning!Holders
  <2>2. aJob' = [aJob EXCEPT ![Loop] = next] /\ UNCHANGED <<ci, def, has>> /\ unsure' = unsure \cup {d}
        /\ dict' = [dict EXCEPT ![d] = p]
    BY <1>7 DEF Assigning!WriteDict
  <2> HIDE DEF next
  <2>3. dict' \in [Dicts -> BrandModels \cup {Assigning!None}] /\ LinksJoin'
          /\ unsure' \subseteq Assigning!Holders
    BY <2>2 DEF LinksJoin, Assigning!Holders
  <2> QED BY <1>3, <2>1, <2>2, <2>3 DEF LoopStages
\* Steps of which the job is none of the types' concern.
<1>8. ASSUME UNCHANGED <<ci, def, aJob>>, dict' \in [Dicts -> BrandModels \cup {Assigning!None}],
             has' \in [Assigning!Holders -> SUBSET Metrics], unsure' \subseteq Assigning!Holders,
             LinksJoin'
      PROVE  AssignInv'
  BY <1>2, <1>8 DEF JobHolds, LoopStages
<1>9. ASSUME NEW d \in Dicts, NEW p \in BrandModels, NEW M \in SUBSET Metrics,
             Assigning!BulkCreate(d, p, M)
      PROVE  AssignInv'
  <2>1. UNCHANGED <<ci, def, aJob>> /\ dict' = [dict EXCEPT ![d] = p] /\ has' = [has EXCEPT ![d] = M]
        /\ unsure' = unsure \ {d} /\ Assigning!Known(M)
    BY <1>9 DEF Assigning!BulkCreate
  <2>2. LinksJoin' /\ has' \in [Assigning!Holders -> SUBSET Metrics]
    BY <2>1 DEF LinksJoin, Assigning!Known, Assigning!Holders, NamesAreApart
  <2> QED BY <1>8, <2>1, <2>2
<1>10. ASSUME NEW d \in Dicts, Assigning!DeleteDict(d) PROVE AssignInv'
  <2>1. UNCHANGED <<ci, def, aJob, unsure>> /\ dict' = [dict EXCEPT ![d] = Assigning!None]
          /\ has' = [has EXCEPT ![d] = {}]
    BY <1>10 DEF Assigning!DeleteDict
  <2>2. LinksJoin' /\ has' \in [Assigning!Holders -> SUBSET Metrics]
    BY <2>1 DEF LinksJoin, Assigning!Holders
  <2> QED BY <1>8, <2>1, <2>2
<1>11. CASE Assigning!ClearDict
  <2>1. aJob[Loop].on \in Dicts /\ aJob[Loop].stage = "clear" /\ UNCHANGED <<ci, def, dict, unsure>>
        /\ has' = [has EXCEPT ![aJob[Loop].on] = {}] /\ Assigning!Goto(Loop, "fill")
    BY <1>1, <1>11 DEF Assigning!ClearDict, JobHolds
  <2>2. LinksJoin' /\ has' \in [Assigning!Holders -> SUBSET Metrics]
    BY <2>1 DEF LinksJoin, Assigning!Holders
  <2> QED BY <1>1, <1>2, <2>1, <2>2, GotoStage, OthersHold DEF JobHolds, LoopStages, JobStages
<1>12. CASE Assigning!FillDict
  <2>1. aJob[Loop].on \in Dicts /\ aJob[Loop].stage = "fill" /\ UNCHANGED <<ci, def, dict>>
    BY <1>1, <1>12 DEF Assigning!FillDict, JobHolds
  <2>2. ASSUME NEW m \in aJob[Loop].add, aJob' = [aJob EXCEPT ![Loop].add = @ \ {m}], UNCHANGED unsure,
               has' = IF def[m] # Assigning!NoDef
                 THEN [has EXCEPT ![aJob[Loop].on] = @ \cup {m}] ELSE has
        PROVE  AssignInv'
    <3> DEFINE next == [aJob[Loop] EXCEPT !.add = @ \ {m}]
    <3>1. m \in Metrics
      BY <1>1 DEF JobType
    <3>2. next \in JobType /\ next.op = aJob[Loop].op /\ next.stage = "fill" /\ next.on = aJob[Loop].on
      BY <1>1, <2>1 DEF JobType
    <3>3. aJob' = [aJob EXCEPT ![Loop] = next]
      BY <2>2
    <3>4. LinksJoin' /\ has' \in [Assigning!Holders -> SUBSET Metrics]
      BY <2>1, <2>2, <3>1 DEF LinksJoin, Assigning!Holders, NamesAreApart
    <3> HIDE DEF next
    <3>5. aJob' \in [Assigning!Actors -> JobType] /\ aJob'[Loop] = next
            /\ \A b \in Assigning!Actors \ {Loop} : SameBut(b)
      BY <1>1, <3>2, <3>3, MovedJob
    <3>6. next.criteria = aJob[Loop].criteria
      BY <1>1 DEF next, JobType
    <3>7. JobHolds(Loop)'
      BY <1>1, <2>1, <3>2, <3>5, <3>6 DEF JobHolds, LoopStages
    <3>8. \A b \in Assigning!Actors : JobHolds(b)'
      BY <1>1, <3>5, <3>7, OthersHold
    <3> QED BY <1>2, <2>1, <2>2, <3>4, <3>5, <3>8
  <2>3. CASE Assigning!Done(Loop) /\ unsure' = unsure \ {aJob[Loop].on} /\ UNCHANGED has
    <3>1. LinksJoin'
      BY <2>1, <2>3 DEF LinksJoin
    <3>2. aJob' = [aJob EXCEPT ![Loop] = Assigning!NoJob]
      BY <2>3 DEF Assigning!Done
    <3> QED BY <1>3, <1>4, <2>1, <2>3, <3>1, <3>2
  <2> QED BY <1>12, <2>2, <2>3 DEF Assigning!FillDict
<1> QED BY <1>5, <1>6, <1>7, <1>9, <1>10, <1>11, <1>12 DEF Assigning!Handler

(* Statements that raise.                                                   *)
LEMMA FailKeepsTypes ==
  ASSUME NamesAreApart, AssignInv, NEW a \in Assigning!Actors, Assigning!Fail(a)
  PROVE  AssignInv'
<1> USE DEF AssignInv, AssignTypes
<1>1. aJob[a] \in JobType /\ JobHolds(a)
  OBVIOUS
<1>2. UNCHANGED <<ci, def, dict, has, entry, ref, holds>> /\ LinksJoin'
  BY DEF Assigning!Fail, Assigning!guard, LinksJoin
<1>3. unsure' \subseteq Assigning!Holders
  <2>1. CASE a = Loop
    <3>1. aJob[a].stage \in {"effective", "linked", "drop", "add", "clear", "fill"}
      BY <1>1, <2>1 DEF Assigning!Fail, JobHolds, LoopStages, Assigning!None
    <3>2. aJob[a].on \in Assigning!Holders
      BY <1>1, <3>1 DEF JobHolds, Assigning!Holders
    <3> QED BY <2>1, <3>2 DEF Assigning!Fail
  <2>2. CASE a # Loop
    BY <2>2 DEF Assigning!Fail
  <2> QED BY <2>1, <2>2
<1>4. CASE Assigning!Done(a)
  BY <1>1, <1>2, <1>3, <1>4, DoneJob, OthersHold DEF JobHolds, Assigning!NoJob, Assigning!None,
      LoopStages
<1>5. CASE Assigning!Goto(a, "next")
  BY <1>1, <1>2, <1>3, <1>5, GotoStage, OthersHold DEF JobHolds, JobStages, ThreadStages, LoopStages
<1>6. CASE a # Loop /\ Assigning!Goto(a, "unlock")
  BY <1>1, <1>2, <1>3, <1>6, GotoStage, OthersHold DEF JobHolds, JobStages, ThreadStages
<1> QED BY <1>4, <1>5, <1>6 DEF Assigning!Fail

-----------------------------------------------------------------------------
(* Every step keeps the guard's invariant.                                  *)

\* What the invariant says, given where the threads stand.
LEMMA GuardKept ==
  ASSUME RegistryInv, UNCHANGED Assigning!guard, \A t \in Threads : Standing(t)'
  PROVE  RegistryInv'
BY DEF RegistryInv, Assigning!guard, Assigning!RegistryIsClean, Assigning!Users

\* A thread that keeps its stage, or goes from work to work, stands as before.
LEMMA StandingKept ==
  ASSUME NEW t \in Threads, Standing(t), UNCHANGED Assigning!guard, aJob'[t].op = aJob[t].op,
         \/ aJob'[t].stage = aJob[t].stage
         \/ aJob[t].stage \in ThreadStages /\ aJob'[t].stage \in ThreadStages
  PROVE  Standing(t)'
BY DEF Standing, Assigning!guard, ThreadStages, Assigning!None

\* The others are not concerned, and a thread goes from work to work.
GoesOn(a) ==
  /\ \A b \in Assigning!Actors \ {a} : SameBut(b)
  /\ a \in Threads => aJob[a].stage \in ThreadStages /\ aJob'[a].stage \in ThreadStages
     /\ aJob'[a].op = aJob[a].op

\* A step of an actor that has the lock, or of the event loop.
LEMMA WorkKeepsGuard ==
  ASSUME NamesAreApart, RegistryInv, UNCHANGED Assigning!guard, NEW a \in Assigning!Actors, GoesOn(a)
  PROVE  RegistryInv'
<1>1. ASSUME NEW t \in Threads PROVE Standing(t)'
  <2>1. t \in Assigning!Actors /\ Standing(t)
    BY DEF Assigning!Actors, RegistryInv
  <2> QED BY <2>1, StandingKept DEF SameBut, GoesOn
<1> QED BY <1>1, GuardKept

(* The same as DisturbedJobs and MovedJob when the job written is of any    *)
(* type.                                                                    *)
LEMMA JobWritten ==
  ASSUME aJob \in [Assigning!Actors -> JobType], NEW a \in Assigning!Actors, NEW next,
         aJob' = [aJob EXCEPT ![a] = next] \/ \E H : aJob' = Assigning!Disturbed(a, H, next)
  PROVE  aJob'[a] = next /\ \A b \in Assigning!Actors \ {a} : SameBut(b)
BY DEF Assigning!Disturbed, SameBut, JobType

\* The steps of an actor that has the lock, or is the event loop.
Working(a) ==
  \/ Assigning!Reconcile(a) \/ Assigning!Fail(a)
  \/ a \in Threads /\ (Assigning!WriteDef(a) \/ Assigning!ReadAffected(a) \/ Assigning!DeleteBatch(a)
     \/ Assigning!DeleteDef(a))

(* None of these steps leaves the critical section, nor moves another job.  *)
LEMMA WorkGoesOn ==
  ASSUME NamesAreApart, AssignInv, RegistryInv, NEW a \in Assigning!Actors, Working(a)
  PROVE  UNCHANGED Assigning!guard /\ GoesOn(a)
<1> USE DEF Assigning!At
<1>1. aJob \in [Assigning!Actors -> JobType] /\ aJob[a] \in JobType /\ (a \in Threads => a # Loop)
  BY DEF AssignInv, AssignTypes, NamesAreApart
<1>2. UNCHANGED Assigning!guard
  BY DEF Working, Assigning!Reconcile, Assigning!Fail, Assigning!NextNode, Assigning!ReadEffective,
      Assigning!ReadLinked, Assigning!DropLink, Assigning!AddLink, Assigning!WriteDef,
      Assigning!ReadAffected,
     Assigning!DeleteBatch, Assigning!DeleteDef
<1>3. ASSUME NEW next, next.op = aJob[a].op, next.stage \in ThreadStages,
             aJob[a].stage \in ThreadStages,
             aJob' = [aJob EXCEPT ![a] = next] \/ \E H : aJob' = Assigning!Disturbed(a, H, next)
      PROVE  GoesOn(a)
  BY <1>1, <1>3, JobWritten DEF GoesOn
<1>4. ASSUME NEW stage \in ThreadStages, Assigning!Goto(a, stage), aJob[a].stage \in ThreadStages
      PROVE  GoesOn(a)
  BY <1>1, <1>4, GotoStage DEF JobStages, GoesOn
<1>5. ASSUME a = Loop, Assigning!Done(a) PROVE GoesOn(a)
  BY <1>1, <1>5, DoneJob DEF GoesOn
<1> SUFFICES GoesOn(a)
  BY <1>2
<1>6. CASE Assigning!NextNode(a)
  <2>1. ASSUME NEW c \in aJob[a].todo,
               aJob' = [aJob EXCEPT ![a].stage = "effective", ![a].on = c, ![a].todo = @ \ {c},
               ![a].clean = TRUE]
        PROVE  \E next : /\ next.op = aJob[a].op /\ next.stage = "effective"
                         /\ aJob' = [aJob EXCEPT ![a] = next]
    <3> DEFINE next == [aJob[a] EXCEPT !.stage = "effective", !.on = c, !.todo = @ \ {c},
          !.clean = TRUE]
    <3>1. next.op = aJob[a].op /\ next.stage = "effective"
      BY <1>1 DEF JobType
    <3>2. aJob' = [aJob EXCEPT ![a] = next]
      BY <2>1
    <3> QED BY <3>1, <3>2
  <2> QED BY <1>1, <1>3, <1>4, <1>5, <1>6, <2>1 DEF Assigning!NextNode, ThreadStages
<1>7. CASE Assigning!ReadEffective(a)
  <2> DEFINE next == [aJob[a] EXCEPT !.stage = "linked", !.effective = Assigning!Applicable(aJob[a].on)]
  <2>1. next.op = aJob[a].op /\ next.stage = "linked"
    BY <1>1 DEF JobType
  <2>2. aJob' = [aJob EXCEPT ![a] = next] /\ aJob[a].stage = "effective"
    BY <1>7 DEF Assigning!ReadEffective
  <2> HIDE DEF next
  <2> QED BY <1>3, <2>1, <2>2 DEF ThreadStages
<1>8. CASE Assigning!ReadLinked(a)
  <2> DEFINE c == aJob[a].on
             next == [aJob[a] EXCEPT !.stage = "drop",
             !.drop = has[c] \ (aJob[a].effective \cup Assigning!Explicit(c)),
                                    !.add = aJob[a].effective \ has[c]]
  <2>1. next.op = aJob[a].op /\ next.stage = "drop"
    BY <1>1 DEF JobType
  <2>2. aJob' = [aJob EXCEPT ![a] = next] /\ aJob[a].stage = "linked"
    BY <1>8 DEF Assigning!ReadLinked
  <2> HIDE DEF next
  <2> QED BY <1>3, <2>1, <2>2 DEF ThreadStages
<1>9. CASE Assigning!DropLink(a)
  <2>1. aJob[a].stage = "drop"
    BY <1>9 DEF Assigning!DropLink
  <2>2. ASSUME NEW m, aJob' = Assigning!Disturbed(a, {aJob[a].on}, [aJob[a] EXCEPT !.drop = @ \ {m}])
        PROVE  \E next : /\ next.op = aJob[a].op /\ next.stage = "drop"
                         /\ \E H : aJob' = Assigning!Disturbed(a, H, next)
    BY <1>1, <2>1, <2>2 DEF JobType
  <2>3. CASE Assigning!Goto(a, "add")
    BY <1>4, <2>1, <2>3 DEF ThreadStages
  <2>4. CASE \E next : next.op = aJob[a].op /\ next.stage = "drop"
          /\ \E H : aJob' = Assigning!Disturbed(a, H, next)
    BY <1>3, <2>1, <2>4 DEF ThreadStages
  <2>5. Assigning!Goto(a, "add") \/ \E m : aJob' = Assigning!Disturbed(a, {aJob[a].on},
          [aJob[a] EXCEPT !.drop = @ \ {m}])
    BY <1>9 DEF Assigning!DropLink
  <2> QED BY <2>2, <2>3, <2>4, <2>5
<1>10. CASE Assigning!AddLink(a)
  <2>1. aJob[a].stage = "add"
    BY <1>10 DEF Assigning!AddLink
  <2>2. ASSUME NEW m, aJob' = Assigning!Disturbed(a, {aJob[a].on}, [aJob[a] EXCEPT !.add = @ \ {m}])
        PROVE  \E next : /\ next.op = aJob[a].op /\ next.stage = "add"
                         /\ \E H : aJob' = Assigning!Disturbed(a, H, next)
    BY <1>1, <2>1, <2>2 DEF JobType
  <2>3. CASE Assigning!Goto(a, "next")
    BY <1>4, <2>1, <2>3 DEF ThreadStages
  <2>4. CASE \E next : next.op = aJob[a].op /\ next.stage = "add"
          /\ \E H : aJob' = Assigning!Disturbed(a, H, next)
    BY <1>3, <2>1, <2>4 DEF ThreadStages
  <2>5. Assigning!Goto(a, "next") \/ \E m : aJob' = Assigning!Disturbed(a, {aJob[a].on},
          [aJob[a] EXCEPT !.add = @ \ {m}])
    BY <1>10 DEF Assigning!AddLink
  <2> QED BY <2>2, <2>3, <2>4, <2>5
<1>11. CASE Assigning!Fail(a)
  <2>1. CASE a = Loop
    <3>1. CASE Assigning!Goto(a, "next")
      <4>1. (\A b \in Assigning!Actors \ {a} : SameBut(b)) /\ a \notin Threads
        BY <1>1, <2>1, <3>1, GotoStage DEF JobStages, ThreadStages
      <4> QED BY <4>1 DEF GoesOn
    <3>2. Assigning!Goto(a, "next") \/ Assigning!Done(a)
      BY <1>11, <2>1 DEF Assigning!Fail
    <3>3. CASE Assigning!Done(a)
      BY <1>5, <2>1, <3>3
    <3> QED BY <3>1, <3>2, <3>3
  <2>2. CASE a # Loop
    <3>1. Assigning!Goto(a, "unlock")
      BY <1>11, <2>2 DEF Assigning!Fail
    <3>2. aJob[a].stage \in ThreadStages \/ a \notin Threads
      BY <1>11, <2>2 DEF Assigning!Fail, ThreadStages, Assigning!Actors, RegistryInv, Standing,
          Assigning!None
    <3>3. a \in Threads
      BY <2>2 DEF Assigning!Actors
    <3> QED BY <1>4, <3>1, <3>2, <3>3 DEF ThreadStages
  <2> QED BY <2>1, <2>2
<1>12. CASE a \in Threads /\ (Assigning!WriteDef(a) \/ Assigning!ReadAffected(a)
         \/ Assigning!DeleteBatch(a) \/ Assigning!DeleteDef(a))
  <2>1. CASE Assigning!WriteDef(a)
    <3>1. \E next : next.op = aJob[a].op /\ next.stage = "affected"
            /\ aJob' = Assigning!Disturbed(a, CIs, next)
      BY <1>1, <2>1 DEF Assigning!WriteDef, JobType
    <3> QED BY <1>3, <2>1, <3>1 DEF Assigning!WriteDef, ThreadStages
  <2>2. CASE Assigning!ReadAffected(a)
    <3> DEFINE next == [aJob[a] EXCEPT !.stage = "next",
          !.todo = Assigning!Affected(aJob[a].metric, aJob[a].criteria)]
    <3>1. next.op = aJob[a].op /\ next.stage = "next"
      BY <1>1 DEF JobType
    <3>2. aJob' = [aJob EXCEPT ![a] = next] /\ aJob[a].stage = "affected"
      BY <2>2 DEF Assigning!ReadAffected
    <3> HIDE DEF next
    <3> QED BY <1>3, <3>1, <3>2 DEF ThreadStages
  <2>3. CASE Assigning!DeleteBatch(a)
    <3>1. aJob[a].stage = "delete"
      BY <2>3 DEF Assigning!DeleteBatch
    <3>2. Assigning!Goto(a, "definition") \/ \E H : aJob' = Assigning!Disturbed(a, H, aJob[a])
      BY <2>3 DEF Assigning!DeleteBatch
    <3>3. CASE Assigning!Goto(a, "definition")
      BY <1>4, <3>1, <3>3 DEF ThreadStages
    <3>4. CASE \E H : aJob' = Assigning!Disturbed(a, H, aJob[a])
      BY <1>3, <3>1, <3>4 DEF ThreadStages
    <3> QED BY <3>2, <3>3, <3>4
  <2>4. CASE Assigning!DeleteDef(a)
    <3>1. \E next : next.op = aJob[a].op /\ next.stage = "unlock"
            /\ aJob' = Assigning!Disturbed(a, CIs, next)
      BY <1>1, <2>4 DEF Assigning!DeleteDef, JobType
    <3> QED BY <1>3, <2>4, <3>1 DEF Assigning!DeleteDef, ThreadStages
  <2> QED BY <1>12, <2>1, <2>2, <2>3, <2>4
<1> QED BY <1>6, <1>7, <1>8, <1>9, <1>10, <1>11, <1>12 DEF Working, Assigning!Reconcile

(* Nor do the handlers of the event loop, which never hold a lock.          *)
LEMMA HandlerGoesOn ==
  ASSUME NamesAreApart, AssignInv, Assigning!Handler
  PROVE  UNCHANGED Assigning!guard /\ Loop \in Assigning!Actors /\ GoesOn(Loop)
<1>1. aJob \in [Assigning!Actors -> JobType] /\ Loop \in Assigning!Actors /\ Loop \notin Threads
  BY DEF AssignInv, AssignTypes, NamesAreApart, Assigning!Actors
<1>2. UNCHANGED Assigning!guard
  BY DEF Assigning!Handler, Assigning!SaveNodes, Assigning!DeleteNode, Assigning!WriteDict,
      Assigning!BulkCreate, Assigning!DeleteDict, Assigning!ClearDict, Assigning!FillDict
<1>3. ASSUME NEW next, aJob' = [aJob EXCEPT ![Loop] = next]
             \/ \E H : aJob' = Assigning!Disturbed(Loop, H, next)
      PROVE  GoesOn(Loop)
  BY <1>1, <1>3, JobWritten DEF GoesOn
<1> SUFFICES GoesOn(Loop)
  BY <1>1, <1>2
<1>4. CASE \/ \E C \in SUBSET CIs \ {{}}, k \in Kinds : Assigning!SaveNodes(C, k)
           \/ \E c \in CIs : Assigning!DeleteNode(c)
  BY <1>3, <1>4 DEF Assigning!SaveNodes, Assigning!DeleteNode
<1>5. CASE \E d \in Dicts, p \in BrandModels, M \in SUBSET Metrics : Assigning!WriteDict(d, p, M)
  BY <1>3, <1>5 DEF Assigning!WriteDict
<1>6. CASE UNCHANGED aJob
  BY <1>1, <1>6 DEF GoesOn, SameBut
<1>7. CASE Assigning!ClearDict
  <2>1. Assigning!Goto(Loop, "fill")
    BY <1>7 DEF Assigning!ClearDict
  <2> QED BY <1>1, <2>1, GotoStage DEF JobStages, GoesOn
<1>8. CASE Assigning!FillDict
  <2>1. CASE Assigning!Done(Loop)
    BY <1>3, <2>1 DEF Assigning!Done
  <2>2. ASSUME NEW m, aJob' = [aJob EXCEPT ![Loop].add = @ \ {m}] PROVE GoesOn(Loop)
    <3>1. aJob' = [aJob EXCEPT ![Loop] = [aJob[Loop] EXCEPT !.add = @ \ {m}]]
      BY <2>2
    <3> QED BY <1>3, <3>1
  <2> QED BY <1>8, <2>1, <2>2 DEF Assigning!FillDict
<1> QED BY <1>4, <1>5, <1>6, <1>7, <1>8 DEF Assigning!Handler, Assigning!BulkCreate,
    Assigning!DeleteDict

(* A step of one thread at the guard.                                       *)
LEMMA EnterKeepsGuard ==
  ASSUME NamesAreApart, AssignInv, RegistryInv, NEW t \in Threads, NEW op \in {"create", "delete"},
         NEW m \in Metrics,
         NEW criteria, Assigning!Enter(t, op, m, criteria)
  PROVE  RegistryInv'
<1> DEFINE next == [Assigning!NoJob EXCEPT !.op = op, !.stage = "lock", !.metric = m,
      !.criteria = criteria]
           e == IF entry[m] = 0 THEN Assigning!Min({x \in Assigning!Entries : Assigning!Users(m,
           x) = {}}) ELSE entry[m]
<1>1. ref[t] = Assigning!NoRef /\ ~holds[t] /\ t \in Assigning!Actors
  BY DEF Assigning!Enter, RegistryInv, Standing, Assigning!NoJob, Assigning!None, ThreadStages,
      Assigning!Actors
<1>2. /\ entry \in [Metrics -> {0} \cup Assigning!Entries]
         /\ ref \in [Threads -> (Metrics \X Assigning!Entries) \cup {Assigning!NoRef}]
      /\ aJob \in [Assigning!Actors -> JobType] /\ 0 \notin Assigning!Entries
  BY EntriesAreNumbers DEF AssignInv, AssignTypes
<1>3. e \in Assigning!Entries /\ (entry[m] = 0 => Assigning!Users(m, e) = {})
  BY <1>1, <1>2, FreeLock
<1>4. next.op = op /\ next.stage = "lock"
  BY DEF Assigning!NoJob
<1>5. entry' = [entry EXCEPT ![m] = e] /\ ref' = [ref EXCEPT ![t] = <<m, e>>]
        /\ aJob' = [aJob EXCEPT ![t] = next]
      /\ UNCHANGED holds
  BY DEF Assigning!Enter
<1>6. entry[m] # 0 => e = entry[m]
  OBVIOUS
<1> HIDE DEF next, e
<1>7. <<m, e>> # Assigning!NoRef
  BY <1>2, <1>3 DEF Assigning!NoRef
<1>8. ASSUME NEW u \in Threads PROVE Standing(u)'
  <2>1. CASE u = t
    BY <1>1, <1>2, <1>4, <1>5, <1>7, <2>1 DEF Standing
  <2>2. CASE u # t
    <3>1. aJob'[u] = aJob[u] /\ ref'[u] = ref[u] /\ holds'[u] = holds[u] /\ Standing(u)
      BY <1>1, <1>2, <1>5, <2>2 DEF RegistryInv, Assigning!Actors
    <3> QED BY <3>1 DEF Standing
  <2> QED BY <2>1, <2>2
<1>9. ASSUME NEW u \in Threads, ref'[u] # Assigning!NoRef PROVE entry'[ref'[u][1]] = ref'[u][2]
  <2>1. CASE u = t
    BY <1>2, <1>3, <1>5, <2>1
  <2>2. CASE u # t
    <3>1. ref'[u] = ref[u] /\ ref[u] \in Metrics \X Assigning!Entries /\ entry[ref[u][1]] = ref[u][2]
      BY <1>2, <1>5, <1>9, <2>2 DEF RegistryInv
    <3>2. ref[u][1] = m => entry[m] # 0
      BY <1>2, <3>1
    <3> QED BY <1>2, <1>5, <1>6, <3>1, <3>2
  <2> QED BY <2>1, <2>2
<1>10. ASSUME NEW u \in Threads, NEW v \in Threads, holds'[u], holds'[v], ref'[u] = ref'[v] PROVE u = v
  BY <1>1, <1>2, <1>5, <1>10 DEF RegistryInv
<1>11. ASSUME NEW n \in Metrics, entry'[n] # 0 PROVE \E u \in Threads : ref'[u] = <<n, entry'[n]>>
  <2>1. CASE n = m
    BY <1>2, <1>3, <1>5, <2>1
  <2>2. CASE n # m
    <3>1. PICK u \in Threads : ref[u] = <<n, entry[n]>>
      BY <1>2, <1>5, <1>11, <2>2 DEF RegistryInv, Assigning!RegistryIsClean, Assigning!Users
    <3>2. u # t
      BY <1>1, <1>2, <1>5, <1>11, <2>2, <3>1 DEF Assigning!NoRef
    <3> QED BY <1>2, <1>5, <2>2, <3>1, <3>2
  <2> QED BY <2>1, <2>2
<1> QED BY <1>8, <1>9, <1>10, <1>11 DEF RegistryInv, Assigning!RegistryIsClean, Assigning!Users

(* A thread locks only what nobody inside holds.                            *)
LEMMA LockKeepsGuard ==
  ASSUME NamesAreApart, AssignInv, RegistryInv, NEW t \in Threads, Assigning!TryLock(t)
         \/ Assigning!Unlock(t)
  PROVE  RegistryInv'
<1>1. /\ holds \in [Threads -> BOOLEAN] /\ ref \in [Threads -> (Metrics \X Assigning!Entries)
         \cup {Assigning!NoRef}]
      /\ aJob \in [Assigning!Actors -> JobType] /\ t \in Assigning!Actors /\ Standing(t)
      /\ \A u \in Threads : u \in Assigning!Actors
  BY DEF AssignInv, AssignTypes, Assigning!Actors, RegistryInv
<1>2. UNCHANGED <<entry, ref>>
  BY DEF Assigning!TryLock, Assigning!Unlock
<1>3. \A u \in Threads \ {t} : holds'[u] = holds[u]
  BY <1>1 DEF Assigning!TryLock, Assigning!Unlock
<1>4. (\A b \in Assigning!Actors \ {t} : SameBut(b)) /\ Standing(t)'
  <2>1. CASE Assigning!Goto(t, "leave") /\ ~holds'[t] /\ aJob[t].stage \in {"lock", "unlock"}
    <3>1. ref[t] # Assigning!NoRef
      BY <1>1, <2>1 DEF Standing, Assigning!None, ThreadStages
    <3> QED BY <1>1, <1>2, <2>1, <3>1, GotoStage DEF JobStages, Standing
  <2>2. CASE aJob[t].stage = "lock" /\ Assigning!Goto(t, aJob[t].op) /\ holds'[t]
    <3>1. ref[t] # Assigning!NoRef /\ aJob[t].op \in {"create", "delete"}
      BY <1>1, <2>2 DEF Standing, Assigning!None, ThreadStages
    <3> QED BY <1>1, <1>2, <2>2, <3>1, GotoStage DEF JobStages, ThreadStages, Standing
  <2>3. \/ Assigning!Goto(t, "leave") /\ ~holds'[t] /\ aJob[t].stage \in {"lock", "unlock"}
        \/ aJob[t].stage = "lock" /\ Assigning!Goto(t, aJob[t].op) /\ holds'[t]
    <3>1. CASE Assigning!Unlock(t)
      BY <1>1, <3>1 DEF Assigning!Unlock, Assigning!At
    <3>2. CASE Assigning!TryLock(t)
      BY <1>1, <3>2 DEF Assigning!TryLock, Assigning!At, Standing, Assigning!None, ThreadStages
    <3> QED BY <3>1, <3>2
  <2> QED BY <2>1, <2>2, <2>3
<1>5. ASSUME NEW u \in Threads PROVE Standing(u)'
  <2>1. CASE u # t
    <3>1. Standing(u) /\ SameBut(u) /\ holds'[u] = holds[u] /\ ref'[u] = ref[u]
      BY <1>1, <1>2, <1>3, <1>4, <2>1 DEF RegistryInv
    <3> QED BY <3>1 DEF Standing, SameBut
  <2> QED BY <1>4, <2>1
<1>6. ASSUME NEW u \in Threads, NEW v \in Threads, holds'[u], holds'[v], ref[u] = ref[v], u # v
      PROVE  FALSE
  <2>1. CASE u # t /\ v # t
    BY <1>3, <1>6, <2>1 DEF RegistryInv
  \* The one that locks has found nobody inside.
  <2>2. ASSUME NEW w \in Threads \ {t}, holds'[t], holds'[w], ref[w] = ref[t] PROVE FALSE
    <3>1. holds[w] /\ aJob[t].stage \in {"lock", "unlock"} /\ ref[t] # Assigning!NoRef
      BY <1>1, <1>3, <2>2 DEF Assigning!TryLock, Assigning!Unlock, Assigning!At, Standing,
          Assigning!None, ThreadStages
    <3>2. ref[t] = <<ref[t][1], ref[t][2]>>
      BY <1>1, <3>1
    <3>3. Assigning!Locked(ref[t][1], ref[t][2])
      BY <2>2, <3>1, <3>2 DEF Assigning!Locked, Assigning!Users
    <3>4. ~holds'[t]
      BY <1>1, <3>3 DEF Assigning!TryLock, Assigning!Unlock, Assigning!At, Standing, Assigning!None,
          ThreadStages
    <3> QED BY <2>2, <3>4
  <2> QED BY <1>6, <2>1, <2>2
<1>7. Assigning!RegistryIsClean'
  BY <1>2 DEF RegistryInv, Assigning!RegistryIsClean, Assigning!Users
<1> QED BY <1>2, <1>5, <1>6, <1>7 DEF RegistryInv

(* The last one to leave takes the entry out of the registry, and nobody    *)
(* else does.                                                               *)
LEMMA LeaveKeepsGuard ==
  ASSUME NamesAreApart, AssignInv, RegistryInv, NEW t \in Threads, Assigning!Leave(t)
  PROVE  RegistryInv'
<1>1. /\ holds \in [Threads -> BOOLEAN] /\ ref \in [Threads -> (Metrics \X Assigning!Entries)
         \cup {Assigning!NoRef}]
      /\ aJob \in [Assigning!Actors -> JobType] /\ t \in Assigning!Actors
         /\ entry \in [Metrics -> {0} \cup Assigning!Entries] /\ 0 \notin Assigning!Entries
      /\ \A u \in Threads : u \in Assigning!Actors
  BY EntriesAreNumbers DEF AssignInv, AssignTypes, Assigning!Actors
<1>2. ref[t] # Assigning!NoRef /\ ~holds[t]
  BY DEF RegistryInv, Assigning!Leave, Assigning!At, Standing, Assigning!None, ThreadStages
<1> PICK m \in Metrics, e \in Assigning!Entries : ref[t] = <<m, e>>
  BY <1>1, <1>2
<1>3. entry[m] = e
  BY <1>2 DEF RegistryInv
<1>4. /\ aJob' = [aJob EXCEPT ![t] = Assigning!NoJob] /\ UNCHANGED holds
         /\ ref' = [ref EXCEPT ![t] = Assigning!NoRef]
      /\ entry' = IF Assigning!Users(m, e) = {t} THEN [entry EXCEPT ![m] = 0] ELSE entry
  BY <1>3 DEF Assigning!Leave, Assigning!Done, Assigning!Unused
<1>5. ASSUME NEW u \in Threads PROVE Standing(u)'
  <2>1. CASE u = t
    BY <1>1, <1>2, <1>4, <2>1 DEF Standing, Assigning!NoJob
  <2>2. CASE u # t
    <3>1. aJob'[u] = aJob[u] /\ ref'[u] = ref[u] /\ holds'[u] = holds[u] /\ Standing(u)
      BY <1>1, <1>4, <2>2 DEF RegistryInv
    <3> QED BY <3>1 DEF Standing
  <2> QED BY <2>1, <2>2
<1>6. ASSUME NEW u \in Threads, ref'[u] # Assigning!NoRef PROVE entry'[ref'[u][1]] = ref'[u][2]
  <2>1. u # t /\ ref'[u] = ref[u] /\ ref[u] \in Metrics \X Assigning!Entries
          /\ entry[ref[u][1]] = ref[u][2]
    BY <1>1, <1>4, <1>6 DEF RegistryInv
  <2>2. ref[u] = <<ref[u][1], ref[u][2]>>
    BY <2>1
  <2>3. ref[u][1] = m => u \in Assigning!Users(m, e)
    BY <1>3, <2>1, <2>2 DEF Assigning!Users
  <2> QED BY <1>1, <1>4, <2>1, <2>3
<1>7. ASSUME NEW u \in Threads, NEW v \in Threads, holds'[u], holds'[v], ref'[u] = ref'[v] PROVE u = v
  BY <1>1, <1>2, <1>4, <1>7 DEF RegistryInv
<1>8. ASSUME NEW n \in Metrics, entry'[n] # 0 PROVE \E u \in Threads : ref'[u] = <<n, entry'[n]>>
  <2>1. entry'[n] = entry[n]
    BY <1>1, <1>4, <1>8
  <2>2. PICK u \in Threads : ref[u] = <<n, entry[n]>>
    BY <1>8, <2>1 DEF RegistryInv, Assigning!RegistryIsClean, Assigning!Users
  <2>3. CASE u # t
    BY <1>1, <1>4, <2>1, <2>2, <2>3
  \* The one that leaves was not the only one.
  <2>4. CASE u = t
    <3>1. n = m /\ Assigning!Users(m, e) # {t} /\ t \in Assigning!Users(m, e)
      BY <1>1, <1>4, <1>8, <2>2, <2>4 DEF Assigning!Users
    <3>2. PICK v \in Assigning!Users(m, e) : v # t
      BY <3>1
    <3> QED BY <1>1, <1>3, <1>4, <2>1, <3>1, <3>2 DEF Assigning!Users
  <2> QED BY <2>3, <2>4
<1> QED BY <1>5, <1>6, <1>7, <1>8 DEF RegistryInv, Assigning!RegistryIsClean, Assigning!Users

-----------------------------------------------------------------------------
(* Both invariants hold at all times.                                       *)
LEMMA AssignmentsAlways == ASSUME NamesAreApart PROVE Assigning!Spec => [](AssignInv /\ RegistryInv)
<1>1. Assigning!Init => AssignInv /\ RegistryInv
  <2> SUFFICES ASSUME Assigning!Init PROVE AssignInv /\ RegistryInv
    OBVIOUS
  <2>1. Assigning!NoJob \in JobType /\ Assigning!NoJob.stage = Assigning!None
          /\ Assigning!NoJob.op = Assigning!None
    BY DEF Assigning!NoJob, JobType, JobStages
  <2>2. AssignInv
    <3>1. AssignTypes
      BY <2>1 DEF Assigning!Init, AssignTypes
    <3>2. LinksJoin
      BY DEF Assigning!Init, LinksJoin, Assigning!Holders
    <3>3. \A a \in Assigning!Actors : JobHolds(a)
      BY <2>1 DEF Assigning!Init, JobHolds, LoopStages, Assigning!None
    <3> QED BY <3>1, <3>2, <3>3 DEF AssignInv
  <2>3. \A t \in Threads : t \in Assigning!Actors
    BY DEF Assigning!Actors
  <2>4. RegistryInv
    BY <2>1, <2>3 DEF Assigning!Init, RegistryInv, Standing, Assigning!RegistryIsClean
  <2> QED BY <2>2, <2>4
<1>2. AssignInv /\ RegistryInv /\ [Assigning!Next]_Assigning!vars => (AssignInv /\ RegistryInv)'
  <2> SUFFICES ASSUME AssignInv, RegistryInv, [Assigning!Next]_Assigning!vars
               PROVE  AssignInv' /\ RegistryInv'
    OBVIOUS
  <2>1. ASSUME NEW t \in Threads, Assigning!Operation(t) PROVE AssignInv' /\ RegistryInv'
    <3>1. AssignInv'
      BY <2>1, OperationKeepsTypes
    <3>2. CASE Assigning!WriteDef(t) \/ Assigning!ReadAffected(t) \/ Assigning!DeleteBatch(t)
            \/ Assigning!DeleteDef(t)
      BY <3>1, <3>2, WorkGoesOn, WorkKeepsGuard DEF Working, Assigning!Actors
    <3>3. CASE Assigning!TryLock(t) \/ Assigning!Unlock(t)
      BY <3>1, <3>3, LockKeepsGuard
    <3>4. CASE Assigning!Leave(t)
      BY <3>1, <3>4, LeaveKeepsGuard
    <3>5. CASE \E m \in Metrics : Assigning!Enter(t, "delete", m, Assigning!NoDef)
            \/ \E k \in Criteria : Assigning!Enter(t, "create", m, k)
      BY <3>1, <3>5, EnterKeepsGuard
    <3> QED BY <2>1, <3>2, <3>3, <3>4, <3>5 DEF Assigning!Operation
  <2>2. ASSUME NEW a \in Assigning!Actors, Assigning!Reconcile(a) \/ Assigning!Fail(a)
        PROVE  AssignInv' /\ RegistryInv'
    BY <2>2, ReconcileKeepsTypes, FailKeepsTypes, WorkGoesOn, WorkKeepsGuard DEF Working
  <2>3. CASE Assigning!Handler
    <3>1. GoesOn(Loop) /\ UNCHANGED Assigning!guard /\ Loop \in Assigning!Actors
      BY <2>3, HandlerGoesOn
    <3> QED BY <2>3, <3>1, HandlerKeepsTypes, WorkKeepsGuard
  <2>4. CASE UNCHANGED Assigning!vars
    <3>1. UNCHANGED <<ci, def, dict, has, unsure, entry, ref, holds, aJob>>
      BY <2>4 DEF Assigning!vars, Assigning!data, Assigning!guard
    <3>2. AssignTypes' /\ LinksJoin' /\ \A a \in Assigning!Actors : JobHolds(a)'
      BY <3>1 DEF AssignInv, AssignTypes, LinksJoin, JobHolds
    <3>3. \A t \in Threads : Standing(t)'
      BY <3>1 DEF RegistryInv, Standing
    <3> QED BY <3>1, <3>2, <3>3, GuardKept DEF AssignInv, Assigning!guard
  <2> QED BY <2>1, <2>2, <2>3, <2>4 DEF Assigning!Next
<1> QED BY <1>1, <1>2, PTL DEF Assigning!Spec

-----------------------------
(* Reconciliations, and what is left of them                                *)

Doing == {"effective", "linked", "drop", "add"}

\* A job that is going to reconcile c, or to change what it finds of m.
Will(j, c) ==
  \/ j.stage \in Doing \cup {"next"} /\ c \in j.todo
  \/ j.stage \in Doing /\ j.on = c
Changing(j, m) == j.stage \in {"affected", "delete", "definition"} /\ j.metric = m
Awaited(c, m) == \E a \in Assigning!Actors : Will(aJob[a], c) \/ Changing(aJob[a], m)

\* The link of c and m is there if it must, and not if it must not.
Suits(c, m) ==
  /\ m \in Assigning!Applicable(c) => m \in has[c]
  /\ m \in has[c] => m \in Assigning!Applicable(c) \cup Assigning!Explicit(c)

CriteriaInv == \A c \in CIs \ unsure, m \in Metrics : ci[c] # Assigning!None => Suits(c, m)
    \/ Awaited(c, m)

\* What a job that nobody disturbed has read is still so, but for its own work.
Fresh(a) ==
  LET j == aJob[a]  c == aJob[a].on IN
  j.stage \in Assigning!Reading /\ j.clean =>
    /\ j.effective = Assigning!Applicable(c)
    /\ j.stage = "drop" => j.drop = has[c] \ (j.effective \cup Assigning!Explicit(c))
    /\ j.stage = "add" => has[c] \subseteq j.effective \cup Assigning!Explicit(c)
    /\ j.stage \in {"drop", "add"} => j.add = j.effective \ has[c]

\* A thread has the lock of the metric it is about, and nobody else writes it.
Own(t) ==
  /\ aJob[t].stage # Assigning!None => ref[t][1] = aJob[t].metric
  /\ aJob[t].stage = "affected" => def[aJob[t].metric] = aJob[t].criteria

\* The loop reconciles only for saves, and what it fills is unsure meanwhile.
LoopJob ==
  LET j == aJob[Loop]  d == aJob[Loop].on IN
  /\ j.stage \in Doing \cup {"next"} => j.op = "save"
  /\ j.stage \in {"clear", "fill"} => d \in unsure
  /\ j.stage = "clear" => asked[d] \subseteq j.add
  /\ j.stage = "fill" => has[d] \subseteq asked[d] /\ asked[d] \subseteq has[d] \cup j.add

DictInv == asked \in [Dicts -> SUBSET Metrics] /\ \A d \in Dicts \ unsure : has[d] = asked[d]

JobsInv == (\A a \in Assigning!Actors : Fresh(a)) /\ (\A t \in Threads : Own(t)) /\ LoopJob

LinkInv == CriteriaInv /\ JobsInv /\ DictInv

-----------------------------------------------------------------------------
(* Every step keeps it.                                                     *)

\* A job that is not written keeps all but, where it is disturbed, its cleanness.
Stays(b) ==
  /\ aJob'[b].stage = aJob[b].stage /\ aJob'[b].op = aJob[b].op /\ aJob'[b].metric = aJob[b].metric
  /\ aJob'[b].criteria = aJob[b].criteria /\ aJob'[b].todo = aJob[b].todo /\ aJob'[b].on = aJob[b].on
  /\ aJob'[b].effective = aJob[b].effective /\ aJob'[b].drop = aJob[b].drop
     /\ aJob'[b].add = aJob[b].add
  /\ aJob'[b].clean \in {aJob[b].clean, FALSE}

\* A step that writes its own job disturbs nobody.
LEMMA MovesAlone ==
  ASSUME aJob \in [Assigning!Actors -> JobType], NEW a \in Assigning!Actors, NEW next
  PROVE  [aJob EXCEPT ![a] = next] = Assigning!Disturbed(a, {}, next)
BY DEF Assigning!Disturbed

\* What a step does to the jobs of others.
LEMMA OthersStay ==
  ASSUME aJob \in [Assigning!Actors -> JobType], NEW a \in Assigning!Actors, NEW H, NEW next,
         aJob' = Assigning!Disturbed(a, H, next)
  PROVE  /\ aJob'[a] = next
         /\ \A b \in Assigning!Actors \ {a} : Stays(b)
            /\ (aJob[b].stage \in Assigning!Reading /\ aJob[b].on \in H => aJob'[b].clean = FALSE)
<1>1. aJob'[a] = next
  BY DEF Assigning!Disturbed
<1>2. ASSUME NEW b \in Assigning!Actors \ {a}
      PROVE  Stays(b) /\ (aJob[b].stage \in Assigning!Reading
        /\ aJob[b].on \in H => aJob'[b].clean = FALSE)
  <2>1. CASE aJob[b].stage \in Assigning!Reading /\ aJob[b].on \in H
    <3>1. aJob'[b] = [aJob[b] EXCEPT !.clean = FALSE] /\ aJob[b] \in JobType
      BY <2>1 DEF Assigning!Disturbed
    <3> QED BY <3>1 DEF Stays, JobType
  <2>2. CASE ~(aJob[b].stage \in Assigning!Reading /\ aJob[b].on \in H)
    <3>1. aJob'[b] = aJob[b]
      BY <2>2 DEF Assigning!Disturbed
    <3> QED BY <2>2, <3>1 DEF Stays
  <2> QED BY <2>1, <2>2
<1> QED BY <1>1, <1>2

\* What the actor's step has to show of the CIs: a link that is not as it must
\* be is awaited by its next job, or was not the actor's concern.
Settles(a, next) ==
  \A c \in CIs \ unsure', m \in Metrics :
    ci'[c] # Assigning!None =>
      \/ Suits(c, m)' \/ Will(next, c) \/ Changing(next, m)
      \/ c \notin unsure /\ ci[c] # Assigning!None /\ ~Suits(c, m) /\ ~Will(aJob[a], c)
         /\ ~Changing(aJob[a], m)

\* A step that settles its CIs keeps what is promised of all of them.
LEMMA StepSettles ==
  ASSUME AssignInv, CriteriaInv, NEW a \in Assigning!Actors, NEW H, NEW next,
         aJob' = Assigning!Disturbed(a, H, next),
         Settles(a, next)
  PROVE  CriteriaInv'
<1> SUFFICES ASSUME NEW c \in CIs, c \notin unsure', NEW m \in Metrics, ci'[c] # Assigning!None
             PROVE  Suits(c, m)' \/ Awaited(c, m)'
  BY DEF CriteriaInv
<1>1. aJob'[a] = next /\ \A b \in Assigning!Actors \ {a} : Stays(b)
  BY OthersStay DEF AssignInv, AssignTypes
<1>2. CASE Suits(c, m)' \/ Will(next, c) \/ Changing(next, m)
  BY <1>1, <1>2 DEF Awaited
<1>3. CASE c \notin unsure /\ ci[c] # Assigning!None /\ ~Suits(c, m) /\ ~Will(aJob[a], c)
        /\ ~Changing(aJob[a], m)
  <2>1. PICK b \in Assigning!Actors : Will(aJob[b], c) \/ Changing(aJob[b], m)
    BY <1>3 DEF CriteriaInv, Awaited
  <2>2. b # a /\ Stays(b)
    BY <1>1, <1>3, <2>1
  <2>3. Will(aJob'[b], c) \/ Changing(aJob'[b], m)
    BY <2>1, <2>2 DEF Stays, Will, Changing
  <2> QED BY <2>3 DEF Awaited
<1> QED BY <1>2, <1>3 DEF Settles

\* Who has read a CI that a step does not disturb has not been overtaken.
LEMMA StepKeepsFresh ==
  ASSUME AssignInv, \A b \in Assigning!Actors : Fresh(b), NEW a \in Assigning!Actors, NEW H, NEW next,
         aJob' = Assigning!Disturbed(a, H, next),
         \A c \in CIs \ H : ci'[c] = ci[c] /\ has'[c] = has[c],
         def' = def \/ CIs \subseteq H, Fresh(a)'
  PROVE  \A b \in Assigning!Actors : Fresh(b)'
<1> SUFFICES ASSUME NEW b \in Assigning!Actors \ {a}, aJob'[b].stage \in Assigning!Reading,
                    aJob'[b].clean
             PROVE  Fresh(b)'
  BY DEF Fresh
<1>1. Stays(b) /\ (aJob[b].stage \in Assigning!Reading /\ aJob[b].on \in H => aJob'[b].clean = FALSE)
  BY OthersStay DEF AssignInv, AssignTypes
<1>2. aJob[b].stage \in Assigning!Reading /\ aJob[b].clean /\ aJob[b].on \notin H
  BY <1>1 DEF Stays
<1>3. aJob[b].on \in CIs
  BY <1>2 DEF AssignInv, JobHolds, Assigning!Reading
<1>4. /\ ci'[aJob[b].on] = ci[aJob[b].on] /\ has'[aJob[b].on] = has[aJob[b].on] /\ def' = def
  BY <1>2, <1>3
<1>5. Assigning!Applicable(aJob[b].on)' = Assigning!Applicable(aJob[b].on)
        /\ Assigning!Explicit(aJob[b].on)' = Assigning!Explicit(aJob[b].on)
  BY <1>1, <1>4 DEF Stays, Assigning!Applicable, Assigning!Explicit
<1> QED BY <1>1, <1>2, <1>4, <1>5 DEF Fresh, Stays

\* Who has the lock of a metric has it alone.
LEMMA OneAtATime == ASSUME AssignInv, RegistryInv PROVE Assigning!OneOperationPerMetric
<1> SUFFICES ASSUME NEW t \in Threads, NEW u \in Threads, NEW m \in Metrics, Assigning!Inside(t, m),
                    Assigning!Inside(u, m)
             PROVE  t = u
  BY DEF Assigning!OneOperationPerMetric
<1>1. holds[t] /\ holds[u] /\ ref[t] # Assigning!NoRef /\ ref[u] # Assigning!NoRef /\ ref[t][1] = m
        /\ ref[u][1] = m
  BY DEF Assigning!Inside, RegistryInv, Standing
<1>2. ref[t] = <<m, ref[t][2]>> /\ ref[u] = <<m, ref[u][2]>>
  BY <1>1 DEF AssignInv, AssignTypes
<1>3. ref[t][2] = ref[u][2]
  BY <1>1 DEF RegistryInv
<1> QED BY <1>1, <1>2, <1>3 DEF RegistryInv

\* A thread at work is about a metric, and no other that is at work is about it.
LEMMA OwnMetric ==
  ASSUME AssignInv, RegistryInv, JobsInv, NEW t \in Threads, aJob[t].stage \in ThreadStages
  PROVE  /\ aJob[t].metric \in Metrics /\ ref[t][1] = aJob[t].metric
         /\ \A u \in Threads \ {t} : aJob[u].stage \in ThreadStages => aJob[u].metric # aJob[t].metric
<1>1. ASSUME NEW u \in Threads, aJob[u].stage \in ThreadStages
      PROVE  holds[u] /\ ref[u][1] = aJob[u].metric /\ aJob[u].metric \in Metrics
  <2>1. holds[u] /\ ref[u] # Assigning!NoRef /\ aJob[u].stage # Assigning!None
    BY <1>1 DEF RegistryInv, Standing, ThreadStages, Assigning!None
  <2>2. ref[u][1] = aJob[u].metric
    BY <2>1 DEF JobsInv, Own
  <2>3. ref[u][1] \in Metrics
    BY <2>1, RefShape DEF AssignInv, AssignTypes
  <2> QED BY <2>1, <2>2, <2>3
<1> QED BY <1>1, OneAtATime DEF Assigning!OneOperationPerMetric, Assigning!Inside

\* Nobody else's metric is written.
LEMMA StepKeepsOwn ==
  ASSUME AssignInv, \A t \in Threads : Own(t), NEW a \in Assigning!Actors, NEW H, NEW next,
         aJob' = Assigning!Disturbed(a, H, next),
         \A t \in Threads \ {a} :
           ref'[t] = ref[t] /\ (aJob[t].stage = "affected"
             => def'[aJob[t].metric] = def[aJob[t].metric]),
         a \in Threads => Own(a)'
  PROVE  \A t \in Threads : Own(t)'
<1> SUFFICES ASSUME NEW t \in Threads \ {a} PROVE Own(t)'
  OBVIOUS
<1>1. t \in Assigning!Actors /\ Stays(t)
  BY OthersStay DEF AssignInv, AssignTypes, Assigning!Actors
<1> QED BY <1>1 DEF Own, Stays

\* A step of a thread that takes the same from what dictionaries have and were given.
LEMMA DictsStay ==
  ASSUME NamesAreApart, AssignInv, LoopJob, DictInv, NEW a \in Threads, NEW H, NEW next,
         aJob' = Assigning!Disturbed(a, H, next),
         \A d \in Dicts : d \in unsure => d \in unsure',
         asked' \in [Dicts -> SUBSET Metrics],
         \A d \in Dicts : \E M : has'[d] = has[d] \ M /\ asked'[d] = asked[d] \ M
  PROVE  LoopJob' /\ DictInv'
<1>1. Loop \in Assigning!Actors \ {a} /\ a \in Assigning!Actors /\ Stays(Loop)
  BY OthersStay DEF AssignInv, AssignTypes, Assigning!Actors, NamesAreApart
<1>2. aJob[Loop].stage \in {"clear", "fill"} => aJob[Loop].on \in Dicts
  BY <1>1 DEF AssignInv, JobHolds
<1>3. LoopJob'
  BY <1>1, <1>2 DEF LoopJob, Stays, Doing
<1>4. DictInv'
  BY DEF DictInv
<1> QED BY <1>3, <1>4

\* The same when neither is written.
LEMMA DictsUnwritten ==
  ASSUME NamesAreApart, AssignInv, LoopJob, DictInv, NEW a \in Threads, NEW H, NEW next,
         aJob' = Assigning!Disturbed(a, H, next),
         \A d \in Dicts : d \in unsure => d \in unsure',
         asked' = asked, \A d \in Dicts : has'[d] = has[d]
  PROVE  LoopJob' /\ DictInv'
<1>1. \A d \in Dicts : has'[d] = has[d] \ {} /\ asked'[d] = asked[d] \ {}
  OBVIOUS
<1> QED BY <1>1, DictsStay DEF DictInv

\* A step of a thread.
LEMMA ThreadKeepsLinks ==
  ASSUME NamesAreApart, AssignInv, LinkInv, NEW a \in Threads, NEW H, NEW next,
         aJob' = Assigning!Disturbed(a, H, next),
         \A c \in CIs \ H : ci'[c] = ci[c] /\ has'[c] = has[c], def' = def \/ CIs \subseteq H,
         Fresh(a)', Own(a)', Settles(a, next),
         \A t \in Threads \ {a} :
           ref'[t] = ref[t] /\ (aJob[t].stage = "affected"
             => def'[aJob[t].metric] = def[aJob[t].metric]),
         LoopJob' /\ DictInv'
  PROVE  LinkInv'
<1>1. a \in Assigning!Actors
  BY DEF Assigning!Actors
<1>2. CriteriaInv'
  BY <1>1, StepSettles DEF LinkInv
<1>3. \A b \in Assigning!Actors : Fresh(b)'
  BY <1>1, StepKeepsFresh DEF LinkInv, JobsInv
<1>4. \A t \in Threads : Own(t)'
  BY <1>1, StepKeepsOwn DEF LinkInv, JobsInv
<1> QED BY <1>2, <1>3, <1>4 DEF LinkInv, JobsInv

\* A step of the event loop.
LEMMA LoopKeepsLinks ==
  ASSUME NamesAreApart, AssignInv, LinkInv, NEW H, NEW next, aJob' = Assigning!Disturbed(Loop, H, next),
         \A c \in CIs \ H : ci'[c] = ci[c] /\ has'[c] = has[c], def' = def, ref' = ref,
         Fresh(Loop)', Settles(Loop, next), LoopJob' /\ DictInv'
  PROVE  LinkInv'
<1>1. Loop \in Assigning!Actors /\ Loop \notin Threads
  BY DEF Assigning!Actors, NamesAreApart
<1>2. CriteriaInv'
  BY <1>1, StepSettles DEF LinkInv
<1>3. \A b \in Assigning!Actors : Fresh(b)'
  BY <1>1, StepKeepsFresh DEF LinkInv, JobsInv
<1>4. \A t \in Threads : Own(t)'
  BY <1>1, StepKeepsOwn DEF LinkInv, JobsInv
<1> QED BY <1>2, <1>3, <1>4 DEF LinkInv, JobsInv

\* A step that leaves CIs, definitions and links of CIs alone, and forgets nothing.
LEMMA NothingWritten ==
  ASSUME AssignInv, NEW a \in Assigning!Actors, NEW next, ci' = ci, def' = def,
         \A c \in CIs : has'[c] = has[c],
         \A c \in CIs : c \in unsure => c \in unsure',
         \A c \in CIs : Will(aJob[a], c) => Will(next, c) \/ c \in unsure',
         \A m \in Metrics : Changing(aJob[a], m) => Changing(next, m)
  PROVE  Settles(a, next)
<1> SUFFICES ASSUME NEW c \in CIs, c \notin unsure', NEW m \in Metrics, ci'[c] # Assigning!None,
                    ~Suits(c, m)', ~Will(next, c), ~Changing(next, m)
             PROVE  ~Suits(c, m)
  BY DEF Settles
<1> QED BY DEF Suits, Assigning!Applicable, Assigning!Explicit

\* The passage through the guard.
LEMMA PassageKeepsLinks ==
  ASSUME NamesAreApart, AssignInv, RegistryInv, LinkInv, NEW t \in Threads,
         \/ \E m \in Metrics : Assigning!Enter(t, "delete", m, Assigning!NoDef)
            \/ \E k \in Criteria : Assigning!Enter(t, "create", m, k)
         \/ Assigning!TryLock(t) \/ Assigning!Unlock(t) \/ Assigning!Leave(t)
  PROVE  LinkInv'
<1>1. t \in Assigning!Actors /\ t # Loop /\ aJob \in [Assigning!Actors -> JobType]
        /\ aJob[t] \in JobType /\ Standing(t)
  BY DEF Assigning!Actors, NamesAreApart, AssignInv, AssignTypes, RegistryInv
<1>2. UNCHANGED <<ci, def, dict, has, asked, unsure>>
  BY DEF Assigning!Enter, Assigning!TryLock, Assigning!Unlock, Assigning!Leave, Assigning!data
\* What a step that writes nothing but the job, from a stage that is not of the work, has to show.
<1>3. ASSUME NEW next, aJob' = [aJob EXCEPT ![t] = next],
             aJob[t].stage \in {Assigning!None, "lock", "unlock", "leave"},
             next.stage \in {Assigning!None, "lock", "leave", "create", "delete"},
             \A u \in Threads \ {t} : ref'[u] = ref[u],
             next.stage # Assigning!None => ref'[t][1] = next.metric
      PROVE  LinkInv'
  <2>1. aJob' = Assigning!Disturbed(t, {}, next) /\ aJob'[t] = next
    BY <1>1, <1>3, MovesAlone
  <2>2. Settles(t, next)
    BY <1>1, <1>2, <1>3, NothingWritten DEF Will, Changing, Doing, Assigning!None
  <2>3. Fresh(t)' /\ Own(t)'
    BY <1>3, <2>1 DEF Fresh, Own, Assigning!Reading, Assigning!None
  <2>4. LoopJob' /\ DictInv'
    BY <1>2, <2>1, DictsUnwritten DEF LinkInv, JobsInv
  <2>5. \A c \in CIs \ {} : ci'[c] = ci[c] /\ has'[c] = has[c]
    BY <1>2
  <2>6. \A u \in Threads \ {t} :
          ref'[u] = ref[u] /\ (aJob[u].stage = "affected" => def'[aJob[u].metric] = def[aJob[u].metric])
    BY <1>2, <1>3
  <2>7. def' = def
    BY <1>2
  <2> QED BY <2>1, <2>2, <2>3, <2>4, <2>5, <2>6, <2>7, ThreadKeepsLinks
<1>4. ASSUME NEW m \in Metrics, NEW op \in {"create", "delete"}, NEW criteria,
             Assigning!Enter(t, op, m, criteria)
      PROVE  LinkInv'
  <2> DEFINE next == [Assigning!NoJob EXCEPT !.op = op, !.stage = "lock", !.metric = m,
        !.criteria = criteria]
  <2>1. next.stage = "lock" /\ next.metric = m /\ Assigning!NoJob.stage = Assigning!None
    BY DEF Assigning!NoJob
  <2>2. PICK e : ref' = [ref EXCEPT ![t] = <<m, e>>] /\ aJob' = [aJob EXCEPT ![t] = next]
          /\ aJob[t] = Assigning!NoJob
    BY <1>4 DEF Assigning!Enter
  <2>3. ref'[t] = <<m, e>> /\ \A u \in Threads \ {t} : ref'[u] = ref[u]
    BY <2>2 DEF AssignInv, AssignTypes
  <2>4. ref'[t][1] = m
    BY <2>3
  <2>5. aJob[t].stage = Assigning!None /\ next.stage \in {Assigning!None, "lock", "leave", "create",
          "delete"}
    BY <2>1, <2>2
  <2>6. next.stage # Assigning!None => ref'[t][1] = next.metric
    BY <2>1, <2>4
  <2> HIDE DEF next
  <2> QED BY <1>3, <2>2, <2>3, <2>5, <2>6
<1>5. ASSUME NEW stage \in {"create", "delete", "leave"}, Assigning!Goto(t, stage),
             aJob[t].stage \in {"lock", "unlock"}, ref' = ref
      PROVE  LinkInv'
  <2> DEFINE next == [aJob[t] EXCEPT !.stage = stage]
  <2>1. next.stage = stage /\ next.metric = aJob[t].metric
    BY <1>1 DEF JobType
  <2>2. aJob' = [aJob EXCEPT ![t] = next]
    BY <1>5 DEF Assigning!Goto
  <2>3. ref[t][1] = aJob[t].metric
    BY <1>5 DEF LinkInv, JobsInv, Own, Assigning!None
  <2> HIDE DEF next
  <2> QED BY <1>3, <1>5, <2>1, <2>2, <2>3
<1>6. CASE Assigning!TryLock(t)
  <2>1. aJob[t].stage = "lock" /\ ref' = ref /\ (Assigning!Goto(t, aJob[t].op)
          \/ Assigning!Goto(t, "leave"))
    BY <1>6 DEF Assigning!TryLock, Assigning!At
  <2>2. aJob[t].op \in {"create", "delete"}
    BY <1>1, <2>1 DEF Standing, ThreadStages, Assigning!None
  <2> QED BY <1>5, <2>1, <2>2
<1>7. CASE Assigning!Unlock(t)
  BY <1>5, <1>7 DEF Assigning!Unlock, Assigning!At
<1>8. CASE Assigning!Leave(t)
  <2>1. aJob[t].stage = "leave" /\ aJob' = [aJob EXCEPT ![t] = Assigning!NoJob]
          /\ ref' = [ref EXCEPT ![t] = Assigning!NoRef]
    BY <1>8 DEF Assigning!Leave, Assigning!At, Assigning!Done
  <2>2. Assigning!NoJob.stage = Assigning!None
    BY DEF Assigning!NoJob
  <2>3. \A u \in Threads \ {t} : ref'[u] = ref[u]
    BY <2>1 DEF AssignInv, AssignTypes
  <2> QED BY <1>3, <2>1, <2>2, <2>3
<1> QED BY <1>4, <1>6, <1>7, <1>8

\* Creations and deletions at work.
LEMMA WorkKeepsLinks ==
  ASSUME NamesAreApart, AssignInv, RegistryInv, LinkInv, NEW t \in Threads,
         Assigning!WriteDef(t) \/ Assigning!ReadAffected(t) \/ Assigning!DeleteBatch(t)
           \/ Assigning!DeleteDef(t)
  PROVE  LinkInv'
<1> DEFINE m == aJob[t].metric
<1>1. t \in Assigning!Actors /\ t # Loop /\ aJob \in [Assigning!Actors -> JobType]
        /\ aJob[t] \in JobType
  BY DEF Assigning!Actors, NamesAreApart, AssignInv, AssignTypes
<1>2. /\ UNCHANGED <<ci, dict>> /\ ref' = ref
      /\ aJob[t].stage \in {"create", "affected", "delete", "definition"}
  BY DEF Assigning!WriteDef, Assigning!ReadAffected, Assigning!DeleteBatch, Assigning!DeleteDef,
      Assigning!data, Assigning!guard, Assigning!At
<1>3. /\ m \in Metrics /\ ref[t][1] = m
      /\ \A u \in Threads \ {t} : aJob[u].stage = "affected" => aJob[u].metric # m
  BY <1>2, OwnMetric DEF LinkInv, ThreadStages
<1>4. /\ def \in [Metrics -> Criteria \cup {Assigning!NoDef}]
         /\ has \in [Assigning!Holders -> SUBSET Metrics]
      /\ asked \in [Dicts -> SUBSET Metrics] /\ CIs \subseteq Assigning!Holders
         /\ Dicts \subseteq Assigning!Holders
  BY DEF AssignInv, AssignTypes, LinkInv, DictInv, Assigning!Holders
\* What such a step has to show: it writes the definition of its metric, or takes its links.
<1>5. ASSUME NEW next, NEW H, aJob' = Assigning!Disturbed(t, H, next), next.metric = m,
             next.stage \notin Assigning!Reading,
             next.stage = "affected" => def'[m] = next.criteria,
             \A c \in CIs \ H : has'[c] = has[c], def' = def \/ CIs \subseteq H,
             \A n \in Metrics \ {m} : def'[n] = def[n], Settles(t, next), LoopJob' /\ DictInv'
      PROVE  LinkInv'
  <2>1. aJob'[t] = next
    BY <1>1, <1>5, OthersStay
  <2>2. Fresh(t)' /\ Own(t)'
    BY <1>2, <1>3, <1>5, <2>1 DEF Fresh, Own
  <2>3. ASSUME NEW u \in Threads \ {t}
        PROVE  ref'[u] = ref[u] /\ (aJob[u].stage = "affected"
          => def'[aJob[u].metric] = def[aJob[u].metric])
    <3>1. aJob[u].stage = "affected" => aJob[u].metric \in Metrics \ {m}
      BY <1>3, OwnMetric DEF LinkInv, ThreadStages
    <3> QED BY <1>2, <1>5, <3>1
  <2>4. \A c \in CIs \ H : ci'[c] = ci[c] /\ has'[c] = has[c]
    BY <1>2, <1>5
  <2> QED BY <1>5, <2>2, <2>3, <2>4, ThreadKeepsLinks
<1>6. CASE Assigning!WriteDef(t)
  <2> DEFINE next == [aJob[t] EXCEPT !.stage = "affected"]
  <2>1. next.metric = m /\ next.stage = "affected" /\ next.criteria = aJob[t].criteria
    BY <1>1 DEF JobType
  <2>2. /\ UNCHANGED <<has, asked, unsure>> /\ def' = [def EXCEPT ![m] = aJob[t].criteria]
        /\ aJob' = Assigning!Disturbed(t, CIs, next) /\ aJob[t].stage = "create"
    BY <1>6 DEF Assigning!WriteDef, Assigning!At
  <2> HIDE DEF next
  <2>3. def'[m] = aJob[t].criteria /\ \A n \in Metrics \ {m} : def'[n] = def[n]
    BY <1>3, <1>4, <2>2
  <2>4. LoopJob' /\ DictInv'
    BY <2>2, DictsUnwritten DEF LinkInv, JobsInv
  <2>5. Settles(t, next)
    <3> SUFFICES ASSUME NEW c \in CIs, c \notin unsure', NEW n \in Metrics, ci'[c] # Assigning!None,
                        ~Suits(c, n)', ~Changing(next, n)
                 PROVE  c \notin unsure /\ ci[c] # Assigning!None /\ ~Suits(c, n) /\ ~Will(aJob[t], c)
                   /\ ~Changing(aJob[t], n)
      BY DEF Settles
    <3>1. n # m
      BY <2>1 DEF Changing
    <3>2. ~Suits(c, n)
      BY <1>2, <2>2, <2>3, <3>1 DEF Suits, Assigning!Applicable, Assigning!Explicit
    <3> QED BY <1>2, <2>2, <3>2 DEF Will, Changing, Doing
  <2> QED BY <1>5, <2>1, <2>2, <2>3, <2>4, <2>5 DEF Assigning!Reading
<1>7. CASE Assigning!ReadAffected(t)
  <2> DEFINE next == [aJob[t] EXCEPT !.stage = "next", !.todo = Assigning!Affected(m, aJob[t].criteria)]
  <2>1. next.metric = m /\ next.stage = "next" /\ next.todo = Assigning!Affected(m, aJob[t].criteria)
    BY <1>1 DEF JobType
  <2>2. /\ UNCHANGED <<ci, def, has, asked, unsure>> /\ aJob[t].stage = "affected"
        /\ aJob' = [aJob EXCEPT ![t] = next]
    BY <1>7 DEF Assigning!ReadAffected, Assigning!At, Assigning!data
  <2> HIDE DEF next
  <2>3. aJob' = Assigning!Disturbed(t, {}, next)
    BY <1>1, <2>2, MovesAlone
  <2>4. LoopJob' /\ DictInv'
    BY <2>2, <2>3, DictsUnwritten DEF LinkInv, JobsInv
  <2>5. def[m] = aJob[t].criteria
    BY <2>2 DEF LinkInv, JobsInv, Own
  <2>6. Settles(t, next)
    <3> SUFFICES ASSUME NEW c \in CIs, c \notin unsure', NEW n \in Metrics, ci'[c] # Assigning!None,
                        ~Suits(c, n)', ~Will(next, c)
                 PROVE  c \notin unsure /\ ci[c] # Assigning!None /\ ~Suits(c, n) /\ ~Will(aJob[t], c)
                   /\ ~Changing(aJob[t], n)
      BY DEF Settles
    <3>1. ci[c] # Assigning!None /\ ~Suits(c, n) /\ c \notin unsure
      BY <2>2 DEF Suits, Assigning!Applicable, Assigning!Explicit
    <3>2. c \notin Assigning!Affected(m, aJob[t].criteria)
      BY <2>1 DEF Will
    <3>3. n # m
      BY <2>5, <3>1, <3>2 DEF Assigning!Affected, Suits, Assigning!Applicable
    <3> QED BY <2>2, <3>1, <3>3 DEF Will, Changing, Doing
  <2>7. \A c \in CIs \ {} : has'[c] = has[c]
    BY <2>2
  <2> QED BY <1>5, <2>1, <2>2, <2>3, <2>4, <2>6, <2>7 DEF Assigning!Reading
<1>8. CASE Assigning!DeleteBatch(t)
  <2>1. UNCHANGED <<def, unsure>> /\ aJob[t].stage = "delete"
    BY <1>8 DEF Assigning!DeleteBatch, Assigning!At
  <2>2. ASSUME NEW next, NEW H, aJob' = Assigning!Disturbed(t, H, next), next.metric = m,
               next.stage \in {"delete", "definition"},
               has' = [h \in Assigning!Holders |-> IF h \in H THEN has[h] \ {m} ELSE has[h]],
               asked' = [d \in Dicts |-> IF d \in H THEN asked[d] \ {m} ELSE asked[d]]
        PROVE  LinkInv'
    <3>1. asked' \in [Dicts -> SUBSET Metrics]
      BY <1>4, <2>2
    <3>2. ASSUME NEW d \in Dicts PROVE \E M : has'[d] = has[d] \ M /\ asked'[d] = asked[d] \ M
      <4>1. CASE d \in H
        BY <1>4, <2>2, <4>1
      <4>2. CASE d \notin H
        <5>1. has'[d] = has[d] \ {} /\ asked'[d] = asked[d] \ {}
          BY <1>4, <2>2, <4>2
        <5> QED BY <5>1
      <4> QED BY <4>1, <4>2
    <3>3. LoopJob' /\ DictInv'
      BY <2>1, <2>2, <3>1, <3>2, DictsStay DEF LinkInv, JobsInv
    <3>4. Settles(t, next)
      <4> SUFFICES ASSUME NEW c \in CIs, c \notin unsure', NEW n \in Metrics, ci'[c] # Assigning!None,
                          ~Suits(c, n)', ~Changing(next, n)
                   PROVE  c \notin unsure /\ ci[c] # Assigning!None /\ ~Suits(c, n) /\ ~Will(aJob[t], c)
                     /\ ~Changing(aJob[t], n)
        BY DEF Settles
      <4>1. n # m
        BY <2>2 DEF Changing
      <4>2. n \in has'[c] <=> n \in has[c]
        BY <1>4, <2>2, <4>1
      <4>3. ~Suits(c, n)
        BY <1>2, <2>1, <4>2 DEF Suits, Assigning!Applicable, Assigning!Explicit
      <4> QED BY <1>2, <2>1, <4>1, <4>3 DEF Will, Changing, Doing
    <3>5. \A c \in CIs \ H : has'[c] = has[c]
      BY <1>4, <2>2
    <3>6. def' = def /\ next.stage \notin Assigning!Reading /\ next.stage # "affected"
            /\ \A n \in Metrics \ {m} : def'[n] = def[n]
      BY <2>1, <2>2 DEF Assigning!Reading
    <3> QED BY <1>5, <2>2, <3>3, <3>4, <3>5, <3>6
  <2>3. CASE Assigning!Goto(t, "definition") /\ UNCHANGED <<has, asked>>
    <3> DEFINE next == [aJob[t] EXCEPT !.stage = "definition"]
    <3>1. next.metric = m /\ next.stage = "definition" /\ aJob' = [aJob EXCEPT ![t] = next]
      BY <1>1, <2>3 DEF JobType, Assigning!Goto
    <3> HIDE DEF next
    <3>2. aJob' = Assigning!Disturbed(t, {}, next)
      BY <1>1, <3>1, MovesAlone
    <3>3. has' = [h \in Assigning!Holders |-> IF h \in {} THEN has[h] \ {m} ELSE has[h]]
      BY <1>4, <2>3
    <3>4. asked' = [d \in Dicts |-> IF d \in {} THEN asked[d] \ {m} ELSE asked[d]]
      BY <1>4, <2>3
    <3> QED BY <2>2, <3>1, <3>2, <3>3, <3>4
  <2> QED BY <1>8, <2>1, <2>2, <2>3 DEF Assigning!DeleteBatch
<1>9. CASE Assigning!DeleteDef(t)
  <2> DEFINE next == [aJob[t] EXCEPT !.stage = "unlock"]
  <2>1. next.metric = m /\ next.stage = "unlock"
    BY <1>1 DEF JobType
  <2>2. /\ UNCHANGED <<has, asked>> /\ aJob[t].stage = "definition"
           /\ aJob' = Assigning!Disturbed(t, CIs, next)
        /\ \/ Assigning!LinksOf(m) = {} /\ def' = [def EXCEPT ![m] = Assigning!NoDef]
              /\ UNCHANGED unsure
           \/ UNCHANGED def /\ unsure' = Assigning!Holders
    BY <1>9 DEF Assigning!DeleteDef, Assigning!At
  <2> HIDE DEF next
  <2>3. \A n \in Metrics \ {m} : def'[n] = def[n]
    BY <1>3, <1>4, <2>2
  <2>4. \A d \in Dicts : d \in unsure => d \in unsure'
    BY <1>4, <2>2
  <2>5. LoopJob' /\ DictInv'
    BY <2>2, <2>4, DictsUnwritten DEF LinkInv, JobsInv
  <2>6. Settles(t, next)
    <3> SUFFICES ASSUME NEW c \in CIs, c \notin unsure', NEW n \in Metrics, ci'[c] # Assigning!None,
                        ~Suits(c, n)'
                 PROVE  c \notin unsure /\ ci[c] # Assigning!None /\ ~Suits(c, n) /\ ~Will(aJob[t], c)
                   /\ ~Changing(aJob[t], n)
      BY DEF Settles
    <3>1. Assigning!LinksOf(m) = {} /\ def' = [def EXCEPT ![m] = Assigning!NoDef] /\ UNCHANGED unsure
      BY <1>4, <2>2
    <3>2. n # m
      <4> SUFFICES ASSUME n = m PROVE Suits(c, n)'
        OBVIOUS
      <4>1. def'[n] = Assigning!NoDef /\ n \notin has'[c]
        BY <1>3, <1>4, <2>2, <3>1 DEF Assigning!LinksOf
      <4> QED BY <4>1 DEF Suits, Assigning!Applicable
    <3>3. ~Suits(c, n)
      BY <1>2, <2>2, <2>3, <3>2 DEF Suits, Assigning!Applicable, Assigning!Explicit
    <3> QED BY <1>2, <2>2, <3>1, <3>2, <3>3 DEF Will, Changing, Doing
  <2> QED BY <1>5, <2>1, <2>2, <2>3, <2>5, <2>6 DEF Assigning!Reading
<1> QED BY <1>6, <1>7, <1>8, <1>9

\* A step that goes on with a reconciliation, of a thread or of the loop.
LEMMA GoesOnWithLinks ==
  ASSUME NamesAreApart, AssignInv, RegistryInv, LinkInv, NEW a \in Assigning!Actors, NEW H, NEW next,
         aJob' = Assigning!Disturbed(a, H, next),
         UNCHANGED <<ci, def, ref, asked>>, \A c \in CIs \ H : has'[c] = has[c],
         \A d \in Dicts : has'[d] = has[d] /\ (d \in unsure => d \in unsure'),
         Fresh(a)', Settles(a, next), next.stage \notin {"affected", "clear", "fill"},
         next.stage # Assigning!None => next.metric = aJob[a].metric /\ next.op = aJob[a].op
           /\ aJob[a].stage # Assigning!None,
         a = Loop /\ next.stage # Assigning!None => aJob[a].op = "save"
  PROVE  LinkInv'
<1>1. aJob'[a] = next /\ \A c \in CIs \ H : ci'[c] = ci[c] /\ has'[c] = has[c]
  BY OthersStay DEF AssignInv, AssignTypes
<1>2. CASE a \in Threads
  <2>1. Own(a)'
    BY <1>1, <1>2 DEF LinkInv, JobsInv, Own
  <2>2. LoopJob' /\ DictInv'
    BY <1>2, DictsUnwritten DEF LinkInv, JobsInv
  <2>3. \A u \in Threads \ {a} :
          ref'[u] = ref[u] /\ (aJob[u].stage = "affected" => def'[aJob[u].metric] = def[aJob[u].metric])
    OBVIOUS
  <2>4. def' = def
    OBVIOUS
  <2> QED BY <1>1, <1>2, <2>1, <2>2, <2>3, <2>4, ThreadKeepsLinks
<1>3. CASE a = Loop
  <2>1. LoopJob'
    BY <1>1, <1>3 DEF LoopJob, Doing, Assigning!None
  <2>2. DictInv'
    BY DEF LinkInv, DictInv
  <2>3. def' = def /\ ref' = ref
    OBVIOUS
  <2> QED BY <1>1, <1>3, <2>1, <2>2, <2>3, LoopKeepsLinks
<1> QED BY <1>2, <1>3 DEF Assigning!Actors

\* Reconciliations.
LEMMA ReconcileKeepsLinks ==
  ASSUME NamesAreApart, AssignInv, RegistryInv, LinkInv, NEW a \in Assigning!Actors,
         Assigning!Reconcile(a)
  PROVE  LinkInv'
<1> DEFINE j == aJob[a]
           c == j.on
<1>1. /\ aJob \in [Assigning!Actors -> JobType] /\ j \in JobType /\ j.stage \in Doing \cup {"next"}
      /\ j.stage \in Doing => c \in CIs
  BY DEF AssignInv, AssignTypes, JobHolds, Assigning!Reconcile, Assigning!NextNode,
      Assigning!ReadEffective, Assigning!ReadLinked, Assigning!DropLink, Assigning!AddLink,
      Assigning!At, Doing
<1>2. /\ UNCHANGED <<ci, def, ref, asked>> /\ has \in [Assigning!Holders -> SUBSET Metrics]
      /\ CIs \subseteq Assigning!Holders /\ Dicts \subseteq Assigning!Holders /\ CIs \cap Dicts = {}
  BY DEF Assigning!Reconcile, Assigning!NextNode, Assigning!ReadEffective, Assigning!ReadLinked,
      Assigning!DropLink, Assigning!AddLink, Assigning!data, Assigning!guard, AssignInv, AssignTypes,
      Assigning!Holders, NamesAreApart
<1>3. a = Loop => j.op = "save"
  BY <1>1 DEF LinkInv, JobsInv, LoopJob
<1>4. j.stage # Assigning!None /\ Fresh(a) /\ \A m : ~Changing(j, m)
  BY <1>1 DEF Doing, Assigning!None, Changing, LinkInv, JobsInv
\* What a step that writes nothing but its job has to show.
<1>5. ASSUME NEW next, aJob' = [aJob EXCEPT ![a] = next], UNCHANGED <<has, unsure>>, Fresh(a)',
             \A b \in CIs : Will(j, b) => Will(next, b),
             next.stage \notin {"affected", "clear", "fill"},
             next.stage # Assigning!None => next.metric = j.metric /\ next.op = j.op
      PROVE  LinkInv'
  <2>1. aJob' = Assigning!Disturbed(a, {}, next)
    BY <1>1, <1>5, MovesAlone
  <2>2. Settles(a, next)
    BY <1>2, <1>4, <1>5, NothingWritten
  <2>3. \A b \in CIs \ {} : has'[b] = has[b]
    BY <1>5
  <2>4. \A d \in Dicts : has'[d] = has[d] /\ (d \in unsure => d \in unsure')
    BY <1>5
  <2>5. UNCHANGED <<ci, def, ref, asked>>
    BY <1>2
  <2> QED BY <1>3, <1>4, <1>5, <2>1, <2>2, <2>3, <2>4, <2>5, GoesOnWithLinks
<1>6. CASE Assigning!NextNode(a)
  <2>1. UNCHANGED <<has, unsure>> /\ j.stage = "next"
    BY <1>6 DEF Assigning!NextNode, Assigning!At, Assigning!data
  <2>2. ASSUME NEW b \in j.todo,
               aJob' = [aJob EXCEPT ![a].stage = "effective", ![a].on = b, ![a].todo = @ \ {b},
               ![a].clean = TRUE]
        PROVE  LinkInv'
    <3> DEFINE next == [j EXCEPT !.stage = "effective", !.on = b, !.todo = @ \ {b}, !.clean = TRUE]
    <3>1. aJob' = [aJob EXCEPT ![a] = next]
      BY <2>2
    <3>2. /\ next.stage = "effective" /\ next.on = b /\ next.todo = j.todo \ {b}
             /\ next.metric = j.metric
          /\ next.op = j.op
      BY <1>1 DEF JobType
    <3> HIDE DEF next
    <3>3. aJob'[a] = next
      BY <1>1, <3>1
    <3>4. Fresh(a)'
      BY <3>2, <3>3 DEF Fresh, Assigning!Reading
    <3>5. \A d \in CIs : Will(j, d) => Will(next, d)
      BY <2>1, <3>2 DEF Will, Doing
    <3> QED BY <1>5, <2>1, <3>1, <3>2, <3>4, <3>5
  <2>3. CASE j.todo = {} /\ Assigning!Done(a)
    <3>1. aJob' = [aJob EXCEPT ![a] = Assigning!NoJob] /\ aJob'[a] = Assigning!NoJob
            /\ Assigning!NoJob.stage = Assigning!None
      BY <1>1, <2>3 DEF Assigning!Done, Assigning!NoJob
    <3>2. Fresh(a)'
      BY <3>1 DEF Fresh, Assigning!Reading, Assigning!None
    <3>3. \A d \in CIs : ~Will(j, d)
      BY <2>1, <2>3 DEF Will, Doing
    <3> QED BY <1>5, <2>1, <3>1, <3>2, <3>3 DEF Assigning!None
  <2>4. CASE j.todo = {} /\ Assigning!Goto(a, "unlock")
    <3> DEFINE next == [j EXCEPT !.stage = "unlock"]
    <3>1. aJob' = [aJob EXCEPT ![a] = next] /\ next.stage = "unlock" /\ next.metric = j.metric
            /\ next.op = j.op
      BY <1>1, <2>4 DEF Assigning!Goto, JobType
    <3> HIDE DEF next
    <3>2. Fresh(a)'
      BY <1>1, <3>1 DEF Fresh, Assigning!Reading
    <3>3. \A d \in CIs : ~Will(j, d)
      BY <2>1, <2>4 DEF Will, Doing
    <3> QED BY <1>5, <2>1, <3>1, <3>2, <3>3
  <2> QED BY <1>6, <2>2, <2>3, <2>4 DEF Assigning!NextNode
<1>7. CASE Assigning!ReadEffective(a)
  <2> DEFINE next == [j EXCEPT !.stage = "linked", !.effective = Assigning!Applicable(c)]
  <2>1. aJob' = [aJob EXCEPT ![a] = next] /\ UNCHANGED <<has, unsure>> /\ j.stage = "effective"
    BY <1>7 DEF Assigning!ReadEffective, Assigning!At, Assigning!data
  <2>2. /\ next.stage = "linked" /\ next.on = c /\ next.todo = j.todo /\ next.metric = j.metric
           /\ next.op = j.op
        /\ next.effective = Assigning!Applicable(c)
    BY <1>1 DEF JobType
  <2> HIDE DEF next
  <2>3. aJob'[a] = next
    BY <1>1, <2>1
  <2>4. Assigning!Applicable(c)' = Assigning!Applicable(c)
    BY <1>2, <2>2, <2>3 DEF Assigning!Applicable
  <2>5. Fresh(a)'
    BY <2>2, <2>3, <2>4 DEF Fresh
  <2>6. \A d \in CIs : Will(j, d) => Will(next, d)
    BY <2>1, <2>2 DEF Will, Doing
  <2> QED BY <1>5, <2>1, <2>2, <2>5, <2>6
<1>8. CASE Assigning!ReadLinked(a)
  <2> DEFINE next == [j EXCEPT !.stage = "drop",
        !.drop = has[c] \ (j.effective \cup Assigning!Explicit(c)),
                               !.add = j.effective \ has[c]]
  <2>1. aJob' = [aJob EXCEPT ![a] = next] /\ UNCHANGED <<has, unsure>> /\ j.stage = "linked"
    BY <1>8 DEF Assigning!ReadLinked, Assigning!At, Assigning!data
  <2>2. /\ next.stage = "drop" /\ next.on = c /\ next.todo = j.todo /\ next.metric = j.metric
           /\ next.op = j.op
        /\ next.effective = j.effective /\ next.drop = has[c] \ (j.effective \cup Assigning!Explicit(c))
        /\ next.add = j.effective \ has[c] /\ next.clean = j.clean
    BY <1>1 DEF JobType
  <2> HIDE DEF next
  <2>3. aJob'[a] = next
    BY <1>1, <2>1
  <2>4. Assigning!Applicable(c)' = Assigning!Applicable(c)
          /\ Assigning!Explicit(c)' = Assigning!Explicit(c)
    BY <1>2, <2>2, <2>3 DEF Assigning!Applicable, Assigning!Explicit
  <2>5. Fresh(a)'
    BY <1>4, <2>1, <2>2, <2>3, <2>4 DEF Fresh, Assigning!Reading
  <2>6. \A d \in CIs : Will(j, d) => Will(next, d)
    BY <2>1, <2>2 DEF Will, Doing
  <2> QED BY <1>5, <2>1, <2>2, <2>5, <2>6
\* One link is written, and the job goes on with the rest.
<1>9. ASSUME NEW next, aJob' = Assigning!Disturbed(a, {c}, next), UNCHANGED unsure, c \in CIs,
             \A h \in Assigning!Holders \ {c} : has'[h] = has[h], Fresh(a)', j.stage \in Doing,
             next.stage = j.stage,
             next.on = c, next.todo = j.todo, next.metric = j.metric, next.op = j.op
      PROVE  LinkInv'
  <2>1. \A b \in CIs : Will(j, b) => Will(next, b)
    BY <1>9 DEF Will
  <2>2. Settles(a, next)
    <3> SUFFICES ASSUME NEW b \in CIs, b \notin unsure', NEW n \in Metrics, ci'[b] # Assigning!None,
                        ~Suits(b, n)', ~Will(next, b)
                 PROVE  b \notin unsure /\ ci[b] # Assigning!None /\ ~Suits(b, n) /\ ~Will(aJob[a], b)
                   /\ ~Changing(aJob[a], n)
      BY DEF Settles
    <3>1. b # c
      BY <1>9 DEF Will
    <3>2. has'[b] = has[b]
      BY <1>2, <1>9, <3>1
    <3>3. ~Suits(b, n)
      BY <1>2, <3>2 DEF Suits, Assigning!Applicable, Assigning!Explicit
    <3> QED BY <1>2, <1>4, <1>9, <2>1, <3>3
  <2>3. \A b \in CIs \ {c} : has'[b] = has[b]
    BY <1>2, <1>9
  <2>4. \A d \in Dicts : has'[d] = has[d] /\ (d \in unsure => d \in unsure')
    BY <1>2, <1>9
  <2>5. UNCHANGED <<ci, def, ref, asked>>
    BY <1>2
  <2>6. next.stage \notin {"affected", "clear", "fill"}
    BY <1>9 DEF Doing
  <2> QED BY <1>3, <1>4, <1>9, <2>2, <2>3, <2>4, <2>5, <2>6, GoesOnWithLinks
<1>10. CASE Assigning!DropLink(a)
  <2>1. j.stage = "drop" /\ c \in CIs
    BY <1>1, <1>10 DEF Assigning!DropLink, Assigning!At, Doing
  <2>2. ASSUME NEW m \in j.drop, has' = [has EXCEPT ![c] = @ \ {m}], UNCHANGED unsure,
               aJob' = Assigning!Disturbed(a, {c}, [j EXCEPT !.drop = @ \ {m}])
        PROVE  LinkInv'
    <3> DEFINE next == [j EXCEPT !.drop = @ \ {m}]
    <3>1. /\ next.stage = "drop" /\ next.on = c /\ next.todo = j.todo /\ next.metric = j.metric
             /\ next.op = j.op
          /\ next.effective = j.effective /\ next.drop = j.drop \ {m} /\ next.add = j.add
             /\ next.clean = j.clean
      BY <1>1, <2>1 DEF JobType
    <3>2. aJob' = Assigning!Disturbed(a, {c}, next)
      BY <2>2
    <3> HIDE DEF next
    <3>3. aJob'[a] = next
      BY <1>1, <3>2, OthersStay
    <3>4. has'[c] = has[c] \ {m} /\ \A h \in Assigning!Holders \ {c} : has'[h] = has[h]
      BY <1>2, <2>1, <2>2
    <3>5. Assigning!Applicable(c)' = Assigning!Applicable(c)
            /\ Assigning!Explicit(c)' = Assigning!Explicit(c)
      BY <1>2, <3>1, <3>3 DEF Assigning!Applicable, Assigning!Explicit
    <3>6. Fresh(a)'
      <4> SUFFICES ASSUME j.clean
                   PROVE  /\ j.effective = Assigning!Applicable(c)
                             /\ j.drop \ {m} = has'[c] \ (j.effective \cup Assigning!Explicit(c))
                          /\ j.add = j.effective \ has'[c]
        BY <3>1, <3>3, <3>5 DEF Fresh
      <4>1. /\ j.effective = Assigning!Applicable(c)
               /\ j.drop = has[c] \ (j.effective \cup Assigning!Explicit(c))
            /\ j.add = j.effective \ has[c]
        BY <1>4, <2>1 DEF Fresh, Assigning!Reading
      <4> QED BY <2>2, <3>4, <4>1
    <3> QED BY <1>9, <2>1, <2>2, <3>1, <3>2, <3>4, <3>6 DEF Doing
  <2>3. CASE j.drop = {} /\ Assigning!Goto(a, "add") /\ UNCHANGED Assigning!data
    <3> DEFINE next == [j EXCEPT !.stage = "add"]
    <3>1. /\ next.stage = "add" /\ next.on = c /\ next.todo = j.todo /\ next.metric = j.metric
             /\ next.op = j.op
          /\ next.effective = j.effective /\ next.add = j.add /\ next.clean = j.clean
      BY <1>1 DEF JobType
    <3>2. aJob' = [aJob EXCEPT ![a] = next] /\ UNCHANGED <<has, unsure>>
      BY <2>3 DEF Assigning!Goto, Assigning!data
    <3> HIDE DEF next
    <3>3. aJob'[a] = next
      BY <1>1, <3>2
    <3>4. Assigning!Applicable(c)' = Assigning!Applicable(c)
            /\ Assigning!Explicit(c)' = Assigning!Explicit(c)
      BY <1>2, <3>1, <3>3 DEF Assigning!Applicable, Assigning!Explicit
    <3>5. Fresh(a)'
      <4> SUFFICES ASSUME j.clean
                   PROVE  /\ j.effective = Assigning!Applicable(c)
                             /\ has[c] \subseteq j.effective \cup Assigning!Explicit(c)
                          /\ j.add = j.effective \ has[c]
        BY <3>1, <3>2, <3>3, <3>4 DEF Fresh
      <4> QED BY <1>4, <2>1, <2>3 DEF Fresh, Assigning!Reading
    <3>6. \A d \in CIs : Will(j, d) => Will(next, d)
      BY <2>1, <3>1 DEF Will, Doing
    <3> QED BY <1>5, <3>1, <3>2, <3>5, <3>6
  <2> QED BY <1>10, <2>2, <2>3 DEF Assigning!DropLink
<1>11. CASE Assigning!AddLink(a)
  <2>1. j.stage = "add" /\ c \in CIs
    BY <1>1, <1>11 DEF Assigning!AddLink, Assigning!At, Doing
  <2>2. ASSUME NEW m \in j.add, UNCHANGED unsure,
               has' = IF ci[c] # Assigning!None /\ def[m] # Assigning!NoDef
                 THEN [has EXCEPT ![c] = @ \cup {m}] ELSE has,
               aJob' = Assigning!Disturbed(a, {c}, [j EXCEPT !.add = @ \ {m}])
        PROVE  LinkInv'
    <3> DEFINE next == [j EXCEPT !.add = @ \ {m}]
    <3>1. /\ next.stage = "add" /\ next.on = c /\ next.todo = j.todo /\ next.metric = j.metric
             /\ next.op = j.op
          /\ next.effective = j.effective /\ next.add = j.add \ {m} /\ next.clean = j.clean
      BY <1>1, <2>1 DEF JobType
    <3>2. aJob' = Assigning!Disturbed(a, {c}, next)
      BY <2>2
    <3> HIDE DEF next
    <3>3. aJob'[a] = next
      BY <1>1, <3>2, OthersStay
    <3>4. /\ has'[c] = (IF ci[c] # Assigning!None /\ def[m] # Assigning!NoDef
             THEN has[c] \cup {m} ELSE has[c])
          /\ \A h \in Assigning!Holders \ {c} : has'[h] = has[h]
      BY <1>2, <2>1, <2>2
    <3>5. Assigning!Applicable(c)' = Assigning!Applicable(c)
            /\ Assigning!Explicit(c)' = Assigning!Explicit(c)
      BY <1>2, <3>1, <3>3 DEF Assigning!Applicable, Assigning!Explicit
    <3>6. Fresh(a)'
      <4> SUFFICES ASSUME j.clean
                   PROVE  /\ j.effective = Assigning!Applicable(c)
                             /\ has'[c] \subseteq j.effective \cup Assigning!Explicit(c)
                          /\ j.add \ {m} = j.effective \ has'[c]
        BY <3>1, <3>3, <3>5 DEF Fresh
      <4>1. /\ j.effective = Assigning!Applicable(c)
               /\ has[c] \subseteq j.effective \cup Assigning!Explicit(c)
            /\ j.add = j.effective \ has[c]
        BY <1>4, <2>1 DEF Fresh, Assigning!Reading
      <4>2. ci[c] # Assigning!None /\ def[m] # Assigning!NoDef /\ m \in j.effective
        BY <2>2, <4>1 DEF Assigning!Applicable
      <4> QED BY <2>2, <3>4, <4>1, <4>2
    <3> QED BY <1>9, <2>1, <2>2, <3>1, <3>2, <3>4, <3>6 DEF Doing
  <2>3. CASE j.add = {} /\ UNCHANGED has /\ Assigning!Goto(a, "next")
             /\ unsure' = IF j.clean THEN unsure \ {c} ELSE unsure \cup {c}
    <3> DEFINE next == [j EXCEPT !.stage = "next"]
    <3>1. /\ next.stage = "next" /\ next.todo = j.todo /\ next.metric = j.metric /\ next.op = j.op
          /\ aJob' = [aJob EXCEPT ![a] = next]
      BY <1>1, <2>3 DEF JobType, Assigning!Goto
    <3> HIDE DEF next
    <3>2. aJob' = Assigning!Disturbed(a, {}, next) /\ aJob'[a] = next
      BY <1>1, <3>1, MovesAlone
    <3>3. Fresh(a)'
      BY <3>1, <3>2 DEF Fresh, Assigning!Reading
    <3>4. Settles(a, next)
      <4> SUFFICES ASSUME NEW b \in CIs, b \notin unsure', NEW n \in Metrics, ci'[b] # Assigning!None,
                          ~Suits(b, n)', ~Will(next, b)
                   PROVE  b \notin unsure /\ ci[b] # Assigning!None /\ ~Suits(b, n) /\ ~Will(aJob[a], b)
                     /\ ~Changing(aJob[a], n)
        BY DEF Settles
      <4>1. ~Suits(b, n)
        BY <1>2, <2>3 DEF Suits, Assigning!Applicable, Assigning!Explicit
      <4>2. b # c
        <5> SUFFICES ASSUME b = c PROVE FALSE
          OBVIOUS
        <5>1. j.clean
          BY <2>3
        <5>2. Assigning!Applicable(c) \subseteq has[c]
                /\ has[c] \subseteq Assigning!Applicable(c) \cup Assigning!Explicit(c)
          BY <1>4, <2>1, <2>3, <5>1 DEF Fresh, Assigning!Reading
        <5> QED BY <4>1, <5>2 DEF Suits
      <4>3. ~Will(j, b)
        BY <2>1, <3>1, <4>2 DEF Will, Doing
      <4> QED BY <1>2, <1>4, <2>3, <4>1, <4>2, <4>3
    <3>5. \A b \in CIs \ {} : has'[b] = has[b]
      BY <2>3
    <3>6. \A d \in Dicts : has'[d] = has[d] /\ (d \in unsure => d \in unsure')
      BY <1>2, <2>1, <2>3
    <3>7. UNCHANGED <<ci, def, ref, asked>>
      BY <1>2
    <3> QED BY <1>3, <1>4, <3>1, <3>2, <3>3, <3>4, <3>5, <3>6, <3>7, GoesOnWithLinks
  <2> QED BY <1>11, <2>2, <2>3 DEF Assigning!AddLink
<1> QED BY <1>6, <1>7, <1>8, <1>10, <1>11 DEF Assigning!Reconcile

\* A statement that raises: what the job would have done is not to be relied on.
LEMMA FailureKeepsLinks ==
  ASSUME NamesAreApart, AssignInv, RegistryInv, LinkInv, NEW a \in Assigning!Actors, Assigning!Fail(a)
  PROVE  LinkInv'
<1> DEFINE j == aJob[a]
<1>1. aJob \in [Assigning!Actors -> JobType] /\ j \in JobType /\ JobHolds(a)
        /\ CIs \subseteq Assigning!Holders /\ Dicts \subseteq Assigning!Holders
  BY DEF AssignInv, AssignTypes, Assigning!Holders
<1>2. /\ UNCHANGED <<ci, def, has, asked>> /\ ref' = ref
      /\ j.stage \in {"create", "affected", "effective", "linked", "drop", "add", "delete",
         "definition",
         "clear", "fill"}
      /\ unsure' = IF a = Loop THEN unsure \cup {j.on} ELSE Assigning!Holders
  BY DEF Assigning!Fail, Assigning!guard
<1>3. ASSUME NEW next, aJob' = [aJob EXCEPT ![a] = next],
             next.stage \in {Assigning!None, "next", "unlock"},
             next.stage # Assigning!None => next.metric = j.metric /\ next.op = j.op,
             a = Loop /\ next.stage # Assigning!None => j.op = "save",
             a = Loop => j.stage \in Doing \cup {"clear", "fill"}
               /\ \A c \in CIs : c \in j.todo => Will(next, c) \/ ~Will(j, c)
      PROVE  LinkInv'
  <2>1. aJob' = Assigning!Disturbed(a, {}, next) /\ aJob'[a] = next
    BY <1>1, <1>3, MovesAlone
  <2>2. Fresh(a)'
    BY <1>3, <2>1 DEF Fresh, Assigning!Reading, Assigning!None
  <2>3. \A c \in CIs : c \in unsure => c \in unsure'
    BY <1>1, <1>2
  <2>4. Settles(a, next)
    <3>1. CASE a = Loop
      <4>1. \A c \in CIs : Will(j, c) => Will(next, c) \/ c \in unsure'
        BY <1>2, <1>3, <3>1 DEF Will
      <4>2. \A m \in Metrics : ~Changing(j, m)
        BY <1>3, <3>1 DEF Changing, Doing
      <4> QED BY <1>2, <2>3, <4>1, <4>2, NothingWritten
    <3>2. CASE a # Loop
      BY <1>1, <1>2, <3>2 DEF Settles
    <3> QED BY <3>1, <3>2
  <2>5. \A d \in Dicts : has'[d] = has[d] /\ (d \in unsure => d \in unsure')
    BY <1>1, <1>2
  <2>6. \A c \in CIs \ {} : has'[c] = has[c]
    BY <1>2
  <2>7. next.stage \notin {"affected", "clear", "fill"} /\ j.stage # Assigning!None
    BY <1>2, <1>3 DEF Assigning!None
  <2>8. UNCHANGED <<ci, def, ref, asked>>
    BY <1>2
  <2> QED BY <1>3, <2>1, <2>2, <2>4, <2>5, <2>6, <2>7, <2>8, GoesOnWithLinks
<1>4. ASSUME NEW stage \in {"next", "unlock"}, Assigning!Goto(a, stage), a = Loop => stage = "next"
             /\ j.op = "save"
      PROVE  LinkInv'
  <2> DEFINE next == [j EXCEPT !.stage = stage]
  <2>1. /\ next.stage = stage /\ next.metric = j.metric /\ next.op = j.op /\ next.todo = j.todo
        /\ aJob' = [aJob EXCEPT ![a] = next]
    BY <1>1, <1>4 DEF JobType, Assigning!Goto
  <2> HIDE DEF next
  <2>2. a = Loop => j.stage \in Doing \cup {"clear", "fill"}
          /\ \A c \in CIs : c \in j.todo => Will(next, c)
    BY <1>1, <1>2, <1>4, <2>1 DEF JobHolds, LoopStages, Doing, Will, Assigning!None
  <2> QED BY <1>3, <1>4, <2>1, <2>2
<1>5. ASSUME a = Loop, j.op # "save", Assigning!Done(a) PROVE LinkInv'
  <2>1. j.stage \in {"clear", "fill"}
    BY <1>1, <1>2, <1>5 DEF JobHolds, LoopStages, Doing, LinkInv, JobsInv, LoopJob, Assigning!None
  <2>2. \A c \in CIs : ~Will(j, c)
    BY <2>1 DEF Will, Doing
  <2>3. aJob' = [aJob EXCEPT ![a] = Assigning!NoJob] /\ Assigning!NoJob.stage = Assigning!None
    BY <1>5 DEF Assigning!Done, Assigning!NoJob
  <2> QED BY <1>3, <1>5, <2>1, <2>2, <2>3
<1> QED BY <1>4, <1>5 DEF Assigning!Fail

\* The handlers of the event loop.
LEMMA HandlerKeepsLinks ==
  ASSUME NamesAreApart, AssignInv, RegistryInv, LinkInv, Assigning!Handler
  PROVE  LinkInv'
<1> DEFINE j == aJob[Loop]
<1>1. /\ aJob \in [Assigning!Actors -> JobType] /\ j \in JobType /\ JobHolds(Loop)
         /\ Loop \in Assigning!Actors
      /\ CIs \subseteq Assigning!Holders /\ Dicts \subseteq Assigning!Holders /\ CIs \cap Dicts = {}
  BY DEF AssignInv, AssignTypes, Assigning!Holders, Assigning!Actors, NamesAreApart
<1>2. /\ def' = def /\ ref' = ref /\ has \in [Assigning!Holders -> SUBSET Metrics]
         /\ asked \in [Dicts -> SUBSET Metrics]
  BY DEF Assigning!Handler, Assigning!SaveNodes, Assigning!DeleteNode, Assigning!WriteDict,
      Assigning!BulkCreate, Assigning!DeleteDict, Assigning!ClearDict, Assigning!FillDict,
      Assigning!guard,
         AssignInv, AssignTypes, LinkInv, DictInv
<1>3. /\ Assigning!NoJob.stage = Assigning!None /\ Assigning!NoJob.todo = {}
         /\ Assigning!NoJob.op = Assigning!None
      /\ (j = Assigning!NoJob \/ j.stage \in {"clear", "fill"} => (\A c \in CIs : ~Will(j, c))
         /\ (\A m \in Metrics : ~Changing(j, m)))
  BY DEF Assigning!NoJob, Will, Changing, Doing, Assigning!None
\* What a handler of CIs has to show.
<1>4. ASSUME j = Assigning!NoJob, NEW C \in SUBSET CIs, NEW next,
             aJob' = Assigning!Disturbed(Loop, C, next), asked' = asked,
             \A c \in CIs \ C : ci'[c] = ci[c], \A h \in Assigning!Holders \ C : has'[h] = has[h],
             \A h \in Assigning!Holders \ C : h \in unsure => h \in unsure',
             \A c \in C : c \in unsure' \/ ci'[c] = Assigning!None,
             \A c \in C : c \in unsure => c \in unsure' \/ ci'[c] = Assigning!None,
             next.stage \notin Assigning!Reading, next.stage \notin {"clear", "fill"},
             next.stage = "next" => next.op = "save",
             next.stage \in {Assigning!None, "next"}
      PROVE  LinkInv'
  <2>1. aJob'[Loop] = next
    BY <1>1, <1>4, OthersStay
  <2>2. Fresh(Loop)' /\ LoopJob'
    BY <1>4, <2>1 DEF Fresh, LoopJob, Doing, Assigning!None
  <2>3. DictInv'
    BY <1>1, <1>4 DEF LinkInv, DictInv
  <2>4. Settles(Loop, next)
    <3> SUFFICES ASSUME NEW c \in CIs, c \notin unsure', NEW n \in Metrics, ci'[c] # Assigning!None,
                        ~Suits(c, n)'
                 PROVE  c \notin unsure /\ ci[c] # Assigning!None /\ ~Suits(c, n)
                   /\ ~Will(aJob[Loop], c) /\ ~Changing(aJob[Loop], n)
      BY DEF Settles
    <3>1. c \notin C /\ c \in Assigning!Holders
      BY <1>1, <1>4
    <3>2. ci'[c] = ci[c] /\ has'[c] = has[c] /\ c \notin unsure
      BY <1>4, <3>1
    <3>3. ~Suits(c, n)
      BY <1>2, <3>2 DEF Suits, Assigning!Applicable, Assigning!Explicit
    <3> QED BY <1>3, <1>4, <3>2, <3>3
  <2>5. \A c \in CIs \ C : ci'[c] = ci[c] /\ has'[c] = has[c]
    BY <1>1, <1>4
  <2> QED BY <1>2, <1>4, <2>2, <2>3, <2>4, <2>5, LoopKeepsLinks
<1>5. ASSUME NEW C \in SUBSET CIs, NEW kind, Assigning!SaveNodes(C, kind) PROVE LinkInv'
  <2> DEFINE next == [Assigning!NoJob EXCEPT !.op = "save", !.stage = "next", !.todo = C]
  <2>1. next.stage = "next" /\ next.op = "save"
    BY DEF Assigning!NoJob
  <2>2. /\ j = Assigning!NoJob /\ aJob' = Assigning!Disturbed(Loop, C, next) /\ UNCHANGED <<has, asked>>
        /\ ci' = [c \in CIs |-> IF c \in C THEN kind ELSE ci[c]] /\ unsure' = unsure \cup C
    BY <1>5 DEF Assigning!SaveNodes
  <2> HIDE DEF next
  <2>3. \A c \in CIs \ C : ci'[c] = ci[c]
    BY <2>2
  <2> QED BY <1>4, <2>1, <2>2, <2>3 DEF Assigning!Reading
<1>6. ASSUME NEW c \in CIs, Assigning!DeleteNode(c) PROVE LinkInv'
  <2>1. /\ j = Assigning!NoJob /\ aJob' = Assigning!Disturbed(Loop, {c}, Assigning!NoJob)
           /\ UNCHANGED <<asked, unsure>>
        /\ ci' = [ci EXCEPT ![c] = Assigning!None] /\ has' = [has EXCEPT ![c] = {}]
    BY <1>6 DEF Assigning!DeleteNode
  <2>2. /\ \A b \in CIs \ {c} : ci'[b] = ci[b]
        /\ \A h \in Assigning!Holders \ {c} : has'[h] = has[h]
        /\ ci'[c] = Assigning!None
    BY <1>2, <2>1 DEF AssignInv, AssignTypes
  <2>3. {c} \in SUBSET CIs
    OBVIOUS
  <2> QED BY <1>3, <1>4, <2>1, <2>2, <2>3 DEF Assigning!Reading, Assigning!None
\* What a handler of dictionaries has to show.
<1>7. ASSUME NEW d \in Dicts, j = Assigning!NoJob \/ j.stage \in {"clear", "fill"}, NEW next,
             aJob' = Assigning!Disturbed(Loop, {}, next),
             next.stage \in {Assigning!None, "clear", "fill"}, ci' = ci,
             \A h \in Assigning!Holders \ {d} : has'[h] = has[h] /\ (h \in unsure => h \in unsure'),
             LoopJob' /\ DictInv'
      PROVE  LinkInv'
  <2>1. aJob'[Loop] = next
    BY <1>1, <1>7, OthersStay
  <2>2. Fresh(Loop)'
    BY <1>7, <2>1 DEF Fresh, Assigning!Reading, Assigning!None
  <2>3. \A c \in CIs : has'[c] = has[c] /\ (c \in unsure => c \in unsure')
    BY <1>1, <1>7
  <2>4. Settles(Loop, next)
    BY <1>1, <1>2, <1>3, <1>7, <2>3, NothingWritten
  <2>5. \A c \in CIs \ {} : ci'[c] = ci[c] /\ has'[c] = has[c]
    BY <1>7, <2>3
  <2> QED BY <1>2, <1>7, <2>2, <2>4, <2>5, LoopKeepsLinks
<1>8. ASSUME NEW d \in Dicts, NEW p \in BrandModels, NEW M \in SUBSET Metrics,
             Assigning!WriteDict(d, p, M)
      PROVE  LinkInv'
  <2> DEFINE next == [Assigning!NoJob EXCEPT !.op = "dict", !.stage = "clear", !.on = d, !.add = M]
  <2>1. next.stage = "clear" /\ next.on = d /\ next.add = M
    BY DEF Assigning!NoJob
  <2>2. /\ j = Assigning!NoJob /\ aJob' = [aJob EXCEPT ![Loop] = next] /\ UNCHANGED <<ci, has>>
        /\ asked' = [asked EXCEPT ![d] = M] /\ unsure' = unsure \cup {d}
    BY <1>8 DEF Assigning!WriteDict
  <2> HIDE DEF next
  <2>3. aJob' = Assigning!Disturbed(Loop, {}, next) /\ aJob'[Loop] = next
    BY <1>1, <2>2, MovesAlone
  <2>4. LoopJob'
    BY <1>2, <2>1, <2>2, <2>3 DEF LoopJob, Doing
  <2>5. DictInv'
    BY <1>2, <2>2 DEF LinkInv, DictInv
  <2> QED BY <1>7, <2>1, <2>2, <2>3, <2>4, <2>5
<1>9. ASSUME NEW d \in Dicts, NEW p \in BrandModels, NEW M \in SUBSET Metrics,
             Assigning!BulkCreate(d, p, M)
      PROVE  LinkInv'
  <2>1. /\ j = Assigning!NoJob /\ aJob' = aJob /\ UNCHANGED ci
        /\ asked' = [asked EXCEPT ![d] = M] /\ has' = [has EXCEPT ![d] = M] /\ unsure' = unsure \ {d}
    BY <1>9 DEF Assigning!BulkCreate
  <2>2. aJob' = [aJob EXCEPT ![Loop] = j]
    BY <1>1, <2>1
  <2>3. aJob' = Assigning!Disturbed(Loop, {}, j) /\ j.stage = Assigning!None
    BY <1>1, <1>3, <2>1, <2>2, MovesAlone
  <2>4. LoopJob'
    BY <2>1, <2>3 DEF LoopJob, Doing, Assigning!None
  <2>5. DictInv'
    BY <1>1, <1>2, <2>1 DEF LinkInv, DictInv
  <2>6. \A h \in Assigning!Holders \ {d} : has'[h] = has[h] /\ (h \in unsure => h \in unsure')
    BY <1>2, <2>1
  <2> QED BY <1>7, <2>1, <2>3, <2>4, <2>5, <2>6
<1>10. ASSUME NEW d \in Dicts, Assigning!DeleteDict(d) PROVE LinkInv'
  <2>1. /\ j = Assigning!NoJob /\ aJob' = aJob /\ UNCHANGED <<ci, unsure>>
        /\ asked' = [asked EXCEPT ![d] = {}] /\ has' = [has EXCEPT ![d] = {}]
    BY <1>10 DEF Assigning!DeleteDict
  <2>2. aJob' = [aJob EXCEPT ![Loop] = j]
    BY <1>1, <2>1
  <2>3. aJob' = Assigning!Disturbed(Loop, {}, j) /\ j.stage = Assigning!None
    BY <1>1, <1>3, <2>1, <2>2, MovesAlone
  <2>4. LoopJob'
    BY <2>1, <2>3 DEF LoopJob, Doing, Assigning!None
  <2>5. DictInv'
    BY <1>1, <1>2, <2>1 DEF LinkInv, DictInv
  <2>6. \A h \in Assigning!Holders \ {d} : has'[h] = has[h] /\ (h \in unsure => h \in unsure')
    BY <1>2, <2>1
  <2> QED BY <1>7, <2>1, <2>3, <2>4, <2>5, <2>6
<1>11. j.stage \in {"clear", "fill"} =>
         /\ j.on \in Dicts /\ j.on \in unsure
         /\ j.stage = "clear" => asked[j.on] \subseteq j.add
         /\ j.stage = "fill" => has[j.on] \subseteq asked[j.on]
            /\ asked[j.on] \subseteq has[j.on] \cup j.add
  BY <1>1 DEF JobHolds, LinkInv, JobsInv, LoopJob
<1>12. CASE Assigning!ClearDict
  <2> DEFINE next == [j EXCEPT !.stage = "fill"]
  <2>1. /\ j.stage = "clear" /\ aJob' = [aJob EXCEPT ![Loop] = next] /\ UNCHANGED <<ci, asked, unsure>>
        /\ has' = [has EXCEPT ![j.on] = {}]
    BY <1>12 DEF Assigning!ClearDict, Assigning!At, Assigning!Goto
  <2>2. next.stage = "fill" /\ next.on = j.on /\ next.add = j.add
    BY <1>1 DEF JobType
  <2> HIDE DEF next
  <2>3. aJob' = Assigning!Disturbed(Loop, {}, next) /\ aJob'[Loop] = next
    BY <1>1, <2>1, MovesAlone
  <2>4. has'[j.on] = {} /\ \A h \in Assigning!Holders \ {j.on} : has'[h] = has[h]
    BY <1>1, <1>2, <1>11, <2>1
  <2>5. LoopJob'
    BY <1>11, <2>1, <2>2, <2>3, <2>4 DEF LoopJob, Doing
  <2>6. DictInv'
    BY <1>1, <1>2, <1>11, <2>1, <2>4 DEF LinkInv, DictInv
  <2> QED BY <1>7, <1>11, <2>1, <2>2, <2>3, <2>4, <2>5, <2>6
<1>13. CASE Assigning!FillDict
  <2>1. j.stage = "fill" /\ UNCHANGED ci
    BY <1>13 DEF Assigning!FillDict, Assigning!At
  <2>2. ASSUME NEW m \in j.add, aJob' = [aJob EXCEPT ![Loop].add = @ \ {m}], UNCHANGED unsure,
               has' = IF def[m] # Assigning!NoDef THEN [has EXCEPT ![j.on] = @ \cup {m}] ELSE has,
               asked' = [asked EXCEPT ![j.on] = IF def[m] # Assigning!NoDef
                 THEN @ \cup {m} ELSE @ \ {m}]
        PROVE  LinkInv'
    <3> DEFINE next == [j EXCEPT !.add = @ \ {m}]
    <3>1. next.stage = "fill" /\ next.on = j.on /\ next.add = j.add \ {m} /\ m \in Metrics
      BY <1>1, <2>1 DEF JobType
    <3>2. aJob' = [aJob EXCEPT ![Loop] = next]
      BY <2>2
    <3> HIDE DEF next
    <3>3. aJob' = Assigning!Disturbed(Loop, {}, next) /\ aJob'[Loop] = next
      BY <1>1, <3>2, MovesAlone
    <3>4. /\ has'[j.on] = (IF def[m] # Assigning!NoDef THEN has[j.on] \cup {m} ELSE has[j.on])
          /\ \A h \in Assigning!Holders \ {j.on} : has'[h] = has[h]
      BY <1>1, <1>2, <1>11, <2>1, <2>2
    <3>5. /\ asked'[j.on] = (IF def[m] # Assigning!NoDef
             THEN asked[j.on] \cup {m} ELSE asked[j.on] \ {m})
          /\ \A d \in Dicts \ {j.on} : asked'[d] = asked[d]
      BY <1>1, <1>2, <1>11, <2>1, <2>2
    <3>6. asked' \in [Dicts -> SUBSET Metrics]
      BY <1>2, <1>11, <2>1, <2>2, <3>1
    <3>7. def[m] = Assigning!NoDef => m \notin has[j.on]
      BY <1>1, <1>11, <2>1 DEF AssignInv, LinksJoin
    <3>8. has'[j.on] \subseteq asked'[j.on] /\ asked'[j.on] \subseteq has'[j.on] \cup next.add
      BY <1>11, <2>1, <3>1, <3>4, <3>5, <3>7
    <3>9. LoopJob'
      BY <1>11, <2>1, <2>2, <3>1, <3>3, <3>8 DEF LoopJob, Doing
    <3>10. DictInv'
      BY <1>1, <1>11, <2>1, <2>2, <3>4, <3>5, <3>6 DEF LinkInv, DictInv
    <3> QED BY <1>7, <1>11, <2>1, <2>2, <3>1, <3>3, <3>4, <3>9, <3>10
  <2>3. CASE j.add = {} /\ Assigning!Done(Loop) /\ unsure' = unsure \ {j.on} /\ UNCHANGED <<has, asked>>
    <3>1. aJob' = [aJob EXCEPT ![Loop] = Assigning!NoJob] /\ aJob'[Loop] = Assigning!NoJob
            /\ aJob' = Assigning!Disturbed(Loop, {}, Assigning!NoJob)
      BY <1>1, <2>3, MovesAlone DEF Assigning!Done
    <3>2. LoopJob'
      BY <1>3, <3>1 DEF LoopJob, Doing, Assigning!None
    <3>3. has[j.on] = asked[j.on]
      BY <1>11, <2>1, <2>3
    <3>4. DictInv'
      BY <2>3, <3>3 DEF LinkInv, DictInv
    <3> QED BY <1>3, <1>7, <1>11, <2>1, <2>3, <3>1, <3>2, <3>4
  <2> QED BY <1>13, <2>2, <2>3 DEF Assigning!FillDict
<1> QED BY <1>5, <1>6, <1>8, <1>9, <1>10, <1>12, <1>13 DEF Assigning!Handler

\* Every step, and the start.
LEMMA LinksStep ==
  ASSUME NamesAreApart, AssignInv, RegistryInv, LinkInv, [Assigning!Next]_Assigning!vars
  PROVE  LinkInv'
<1>1. CASE UNCHANGED Assigning!vars
  BY <1>1 DEF Assigning!vars, Assigning!data, Assigning!guard, LinkInv, CriteriaInv, JobsInv, DictInv,
      Suits, Awaited, Assigning!Applicable, Assigning!Explicit,
              Fresh, Own, LoopJob
<1> QED BY <1>1, PassageKeepsLinks, WorkKeepsLinks, ReconcileKeepsLinks, FailureKeepsLinks,
      HandlerKeepsLinks
        DEF Assigning!Next, Assigning!Operation

\* At the start there are no CIs and nobody is at work.
LEMMA LinksStart == ASSUME NamesAreApart, Assigning!Init PROVE LinkInv
<1>1. \A a \in Assigning!Actors : aJob[a].stage = Assigning!None
  BY DEF Assigning!Init, Assigning!NoJob
<1>2. Loop \in Assigning!Actors /\ Threads \subseteq Assigning!Actors
        /\ Dicts \subseteq Assigning!Holders
  BY DEF Assigning!Actors, Assigning!Holders
<1>3. CriteriaInv
  BY DEF Assigning!Init, CriteriaInv
<1>4. JobsInv
  BY <1>1, <1>2 DEF JobsInv, Fresh, Own, LoopJob, Assigning!Reading, Doing, Assigning!None
<1>5. DictInv
  BY <1>2 DEF Assigning!Init, DictInv
<1> QED BY <1>3, <1>4, <1>5 DEF LinkInv

\* What is seen of it.
LEMMA LinksSeen ==
  ASSUME AssignInv, LinkInv
  PROVE  Assigning!CriteriaAreMet /\ Assigning!DictionariesAreWhole
<1>1. ASSUME Assigning!Quiet, NEW c \in CIs \ unsure, ci[c] # Assigning!None
      PROVE  Assigning!Applicable(c) \subseteq has[c]
        /\ \A m \in Metrics : m \in has[c] => m \in Assigning!Applicable(c) \cup Assigning!Explicit(c)
  <2>1. \A m \in Metrics : ~Awaited(c, m)
    BY <1>1 DEF Assigning!Quiet, Awaited, Will, Changing, Doing, Assigning!NoJob, Assigning!None
  <2>2. \A m \in Metrics : Suits(c, m)
    BY <1>1, <2>1 DEF LinkInv, CriteriaInv
  <2> QED BY <2>2 DEF Suits, Assigning!Applicable
<1>2. Assigning!DictionariesAreWhole
  BY DEF LinkInv, DictInv, Assigning!DictionariesAreWhole
<1>3. \A c \in CIs : has[c] \subseteq Metrics
  BY DEF AssignInv, AssignTypes, Assigning!Holders
<1> QED BY <1>1, <1>2, <1>3 DEF Assigning!CriteriaAreMet

-----------------------------------------------------------------------------
(* PhysicalLink                                                             *)

\* Max and Min find the largest and the least of numbers up to a bound.
LEMMA GreatestLink ==
  ASSUME NEW n \in Nat, NEW S, S \subseteq -1 .. n, S # {}
  PROVE  Cables!Max(S) \in S /\ \A y \in S : y <= Cables!Max(S)
<1> DEFINE F == {n - x : x \in S}
<1>1. F # {} /\ F \subseteq Nat
  <2>1. \A x \in S : n - x \in Nat
    BY SMT
  <2> QED BY <2>1
<1>2. PICK x \in F : \A y \in F : ~(<<y, x>> \in OpToRel(<, Nat))
  BY <1>1, NatLessThanWellFounded, WFMin
<1>3. \A y \in F : x <= y
  <2> HIDE DEF F
  <2> SUFFICES ASSUME NEW y \in F, y < x PROVE FALSE
    BY <1>1
  <2>1. y \in Nat /\ x \in Nat
    BY <1>1
  <2>2. <<y, x>> \in {ss \in Nat \X Nat : ss[1] < ss[2]}
    BY <2>1
  <2> QED BY <1>2, <2>2 DEF OpToRel
<1>4. PICK m \in S : x = n - m
  BY <1>2
<1>5. \A y \in S : m >= y
  <2> SUFFICES ASSUME NEW y \in S PROVE m >= y
    OBVIOUS
  <2>1. x <= n - y
    BY <1>3
  <2> QED BY <1>4, <2>1
<1>6. Cables!Max(S) \in S /\ \A y \in S : Cables!Max(S) >= y
  BY <1>5 DEF Cables!Max
<1> QED BY <1>6

LEMMA LeastLink ==
  ASSUME NEW S, S \subseteq Nat, S # {}
  PROVE  Cables!Min(S) \in S /\ \A y \in S : Cables!Min(S) <= y
<1>2. PICK x \in S : \A y \in S : ~(<<y, x>> \in OpToRel(<, Nat))
  BY NatLessThanWellFounded, WFMin
<1>3. \A y \in S : x <= y
  <2> SUFFICES ASSUME NEW y \in S, y < x PROVE FALSE
    OBVIOUS
  <2>2. <<y, x>> \in {ss \in Nat \X Nat : ss[1] < ss[2]}
    OBVIOUS
  <2> QED BY <1>2, <2>2 DEF OpToRel
<1> QED BY <1>3 DEF Cables!Min

-----------------------------------------------------------------------------
\* Samples are taken one in a tick, and between two of them the counter grew
\* by what passed at most.
SampleTypes == [t : 0 .. LinkTime, v : 0 .. MaxBytes, total : 0 .. MaxBytes]
Honest(c) ==
  /\ samples[c] \subseteq SampleTypes
  /\ \A s \in samples[c] : s.t <= lNow /\ s.total <= total[c] /\ counter[c] - s.v <= total[c] - s.total
  /\ \A s, r \in samples[c] :
       /\ s.t = r.t => s = r
       /\ s.t < r.t => s.total <= r.total /\ r.v - s.v <= r.total - s.total
CountersInv ==
  /\ counter \in [Nodes -> 0 .. MaxBytes] /\ total \in [Nodes -> 0 .. MaxBytes]
  /\ \A c \in Nodes : counter[c] <= total[c]
  /\ DOMAIN samples = Nodes
  /\ \A c \in Nodes : Honest(c)

\* The newest sample of an end that the pass has fetched, if there was one, is
\* in the table.
IsSampled(c, at, t) ==
  /\ t \in 0 .. LinkTime \cup {Cables!Never}
  /\ t # Cables!Never => at - StaleAfter <= t /\ t <= at /\ \E s \in samples[c] : s.t = t
RowTypes == [id : Links, status : Cables!Statuses, capacity : BOOLEAN]
PassTypes ==
  [at : 0 .. LinkTime, rows : SUBSET RowTypes, down : SUBSET Links, row : RowTypes \cup {Cables!NoRow},
   step : {"collect", "derive"}, newest : {<<>>} \cup UNION {[Ends[l] -> -1 .. LinkTime] : l \in Links}]
InHandHolds ==
  pass.row # Cables!NoRow =>
    /\ pass.row.id \notin pass.down
    /\ DOMAIN pass.newest = Ends[pass.row.id]
    /\ \A c \in Ends[pass.row.id] : IsSampled(c, pass.at, pass.newest[c])
PassInv ==
  pass # Cables!Idle =>
    /\ pass \in PassTypes /\ pass.at <= lNow
    /\ \A q \in pass.rows : q.id \notin pass.down
    /\ InHandHolds

RowKept(l) ==
  Cables!Exists(l) =>
    /\ link[l] \in Cables!Rows /\ Ends[l] \subseteq cis
    /\ link[l].polled # Cables!Never =>
         \E c \in Ends[l] : Cables!InWindow(c, link[l].polled - FreshWindow, link[l].polled) # {}
TableInv ==
  /\ lNow \in 0 .. LinkTime /\ cis \subseteq Nodes /\ lChanges \in 0 .. LinkChanges
  /\ DOMAIN link = Links
  /\ request # Cables!NoRequest => request \in [link : Links, status : Cables!Statuses,
     capacity : BOOLEAN]
  /\ \A l \in Links : RowKept(l)

CablesInv == TableInv /\ CountersInv /\ PassInv

\* Samples that are only added keep what rests on them.
LEMMA WindowsGrow ==
  ASSUME \A c \in Nodes : samples[c] \subseteq samples'[c]
  PROVE  /\ \A c \in Nodes : \A from, to : Cables!InWindow(c, from, to) # {}
            => Cables!InWindow(c, from, to)' # {}
         /\ \A c \in Nodes : \A at, t : IsSampled(c, at, t) => IsSampled(c, at, t)'
BY DEF Cables!InWindow, IsSampled

LEMMA RowsStay ==
  ASSUME LinksAreSet, TableInv, UNCHANGED <<cis, link, request, lChanges>>, lNow' \in 0 .. LinkTime,
         \A c \in Nodes : samples[c] \subseteq samples'[c]
  PROVE  TableInv'
<1>1. ASSUME NEW l \in Links PROVE RowKept(l)'
  <2>1. RowKept(l) /\ Ends[l] \subseteq Nodes
    BY DEF TableInv, LinksAreSet
  <2>2. Cables!Exists(l)' <=> Cables!Exists(l)
    BY DEF Cables!Exists
  <2>3. ASSUME NEW c \in Ends[l],
               Cables!InWindow(c, link[l].polled - FreshWindow, link[l].polled) # {}
        PROVE  Cables!InWindow(c, link[l].polled - FreshWindow, link[l].polled)' # {}
    BY <2>1, <2>3 DEF Cables!InWindow
  <2> QED BY <2>1, <2>2, <2>3 DEF RowKept, Cables!Rows
<1> QED BY <1>1 DEF TableInv

\* What a pass has in hand does not depend on the links.
LEMMA PassStays ==
  ASSUME LinksAreSet, PassInv, UNCHANGED pass, lNow \in Nat, lNow' \in Nat, lNow <= lNow',
         \A c \in Nodes : samples[c] \subseteq samples'[c]
  PROVE  PassInv'
<1> SUFFICES ASSUME pass # Cables!Idle PROVE PassInv'
  BY DEF PassInv
<1>1. pass \in PassTypes /\ pass.at <= lNow /\ InHandHolds
  BY DEF PassInv
<1>2. pass.at <= lNow'
  <2>1. pass.at \in Nat
    BY <1>1 DEF PassTypes, LinksAreSet
  <2> QED BY <1>1, <2>1
<1>3. InHandHolds'
  <2> SUFFICES ASSUME pass.row # Cables!NoRow PROVE InHandHolds'
    BY DEF InHandHolds
  <2>1. pass.row \in RowTypes
    BY <1>1 DEF PassTypes
  <2>2. Ends[pass.row.id] \subseteq Nodes
    BY <2>1 DEF RowTypes, LinksAreSet
  <2> QED BY <1>1, <2>2, WindowsGrow DEF InHandHolds, IsSampled
<1> QED BY <1>1, <1>2, <1>3 DEF PassInv

-----------------------------------------------------------------------------
\* The devices and the sampler.
LEMMA TrafficKeeps ==
  ASSUME LinksAreSet, CablesInv, NEW c \in Nodes, Cables!Traffic(c) \/ Cables!Reset(c)
         \/ Cables!Sample(c)
  PROVE  CablesInv'
<1>0. /\ UNCHANGED <<lNow, cis, link, request, pass, lChanges>>
      /\ lNow \in 0 .. LinkTime /\ lNow \in Nat
      /\ counter \in [Nodes -> 0 .. MaxBytes] /\ total \in [Nodes -> 0 .. MaxBytes]
      /\ DOMAIN samples = Nodes
      /\ \A d \in Nodes : counter[d] <= total[d] /\ Honest(d)
  BY DEF CablesInv, TableInv, CountersInv, LinksAreSet, Cables!Traffic, Cables!Reset, Cables!Sample,
  Cables!OnDevice
<1>1. \A d \in Nodes : samples[d] \subseteq samples'[d]
  BY <1>0 DEF Cables!Traffic, Cables!Reset, Cables!Sample
<1>2. TableInv' /\ PassInv'
  BY <1>0, <1>1, RowsStay, PassStays DEF CablesInv
<1>3. CountersInv'
  <2>1. CASE Cables!Traffic(c)
    <3>1. UNCHANGED <<samples, lNow>> /\ total[c] < MaxBytes /\ MaxBytes \in Nat
          /\ total' = [total EXCEPT ![c] = @ + 1] /\ counter' = [counter EXCEPT ![c] = @ + 1]
      BY <2>1, <1>0 DEF Cables!Traffic, LinksAreSet
    <3>2. total' \in [Nodes -> 0 .. MaxBytes] /\ counter' \in [Nodes -> 0 .. MaxBytes]
          /\ \A d \in Nodes : counter'[d] <= total'[d]
      BY <1>0, <3>1
    <3>3. \A d \in Nodes : Honest(d)'
      BY <1>0, <3>1 DEF Honest, SampleTypes
    <3> QED BY <1>0, <3>1, <3>2, <3>3 DEF CountersInv
  <2>2. CASE Cables!Reset(c)
    <3>1. UNCHANGED <<samples, total, lNow>> /\ counter' = [counter EXCEPT ![c] = 0] /\ MaxBytes \in Nat
      BY <2>2, <1>0 DEF Cables!Reset, LinksAreSet
    <3>2. counter' \in [Nodes -> 0 .. MaxBytes] /\ \A d \in Nodes : counter'[d] <= total'[d]
      BY <1>0, <3>1
    <3>3. \A d \in Nodes : Honest(d)'
      BY <1>0, <3>1 DEF Honest, SampleTypes
    <3> QED BY <1>0, <3>1, <3>2, <3>3 DEF CountersInv
  <2>3. CASE Cables!Sample(c)
    <3> DEFINE n == [t |-> lNow, v |-> counter[c], total |-> total[c]]
    <3>1. UNCHANGED <<counter, total, lNow>> /\ samples' = [samples EXCEPT ![c] = @ \cup {n}]
          /\ Cables!InWindow(c, lNow, lNow) = {}
      BY <2>3, <1>0 DEF Cables!Sample
    <3>2. n \in SampleTypes /\ n.t = lNow /\ n.v = counter[c] /\ n.total = total[c]
      BY <1>0 DEF SampleTypes
    <3>3. \A s \in samples[c] : s.t # lNow /\ s.t \in Nat /\ s.t < lNow
      BY <1>0, <3>1 DEF Honest, SampleTypes, Cables!InWindow
    <3>4. Honest(c)'
      <4> HIDE DEF n
      <4>1. samples'[c] = samples[c] \cup {n}
        BY <1>0, <3>1
      <4>2. \A s \in samples'[c] : s \in samples[c] \/ s = n
        BY <4>1
      <4>3. samples'[c] \subseteq SampleTypes
        BY <1>0, <3>2, <4>1 DEF Honest
      <4>4. total[c] \in Nat /\ counter[c] \in Nat
        BY <1>0
      <4>5. \A s \in samples'[c] : s.t <= lNow /\ s.total <= total[c]
              /\ counter[c] - s.v <= total[c] - s.total
        BY <1>0, <3>2, <4>2, <4>4 DEF Honest
      <4>6. ASSUME NEW s \in samples'[c], NEW q \in samples'[c]
            PROVE  /\ s.t = q.t => s = q
                   /\ s.t < q.t => s.total <= q.total /\ q.v - s.v <= q.total - s.total
        <5>1. CASE s = n /\ q = n
          BY <5>1, <1>0, <3>2
        <5>2. CASE s \in samples[c] /\ q = n
          BY <5>2, <1>0, <3>2, <3>3 DEF Honest
        <5>3. CASE s = n /\ q \in samples[c]
          BY <5>3, <1>0, <3>2, <3>3 DEF Honest
        <5>4. CASE s \in samples[c] /\ q \in samples[c]
          BY <5>4, <1>0 DEF Honest
        <5> QED BY <4>2, <5>1, <5>2, <5>3, <5>4
      <4> QED BY <3>1, <4>3, <4>5, <4>6 DEF Honest
    <3>5. ASSUME NEW d \in Nodes, d # c PROVE Honest(d)'
      <4>1. samples'[d] = samples[d] /\ Honest(d)
        BY <1>0, <3>1, <3>5
      <4> QED BY <3>1, <4>1 DEF Honest
    <3>6. DOMAIN samples' = Nodes
      BY <1>0, <3>1
    <3> HIDE DEF n
    <3> QED BY <1>0, <3>1, <3>4, <3>5, <3>6 DEF CountersInv
  <2> QED BY <2>1, <2>2, <2>3
<1> QED BY <1>2, <1>3 DEF CablesInv

\* Time.
LEMMA CablesTick == ASSUME LinksAreSet, CablesInv, Cables!Tick PROVE CablesInv'
<1>1. /\ UNCHANGED <<cis, link, request, pass, counter, total, samples, lChanges>>
      /\ lNow' = lNow + 1 /\ lNow \in Nat /\ lNow' \in 0 .. LinkTime
  BY DEF CablesInv, TableInv, LinksAreSet, Cables!Tick
<1>2. TableInv' /\ PassInv'
  BY <1>1, RowsStay, PassStays DEF CablesInv
<1>3. \A c \in Nodes : Honest(c)'
  BY <1>1 DEF CablesInv, CountersInv, Honest, SampleTypes
<1> QED BY <1>1, <1>2, <1>3 DEF CablesInv, CountersInv

-----------------------------------------------------------------------------
\* Operators.
LEMMA OperatorKeeps == ASSUME LinksAreSet, CablesInv, Cables!Operator PROVE CablesInv'
<1>0. /\ lNow \in 0 .. LinkTime /\ cis \subseteq Nodes /\ lChanges \in 0 .. LinkChanges
         /\ LinkChanges \in Nat
      /\ DOMAIN link = Links /\ \A l \in Links : RowKept(l)
      /\ request # Cables!NoRequest => request \in [link : Links, status : Cables!Statuses,
         capacity : BOOLEAN]
  BY DEF CablesInv, TableInv, LinksAreSet
<1>1. UNCHANGED <<lNow, pass, counter, total, samples>> /\ lChanges' \in 0 .. LinkChanges
  BY <1>0 DEF Cables!Operator, Cables!CheckCreate, Cables!WriteCreate, Cables!SetStatus,
  Cables!DeleteNode,
      Cables!UpsertNode, Cables!Redeploy, Cables!Change
<1>2. CountersInv'
  BY <1>1 DEF CablesInv, CountersInv, Honest, SampleTypes
<1>3. PassInv'
  BY <1>0, <1>1, PassStays DEF CablesInv, LinksAreSet
<1>w. \A c : \A from, to : Cables!InWindow(c, from, to)' = Cables!InWindow(c, from, to)
  BY <1>1 DEF Cables!InWindow
\* A link that is as it was, under CIs that are there.
<1>k. ASSUME NEW l \in Links, link'[l] = link[l], Ends[l] \cap cis \subseteq cis' PROVE RowKept(l)'
  <2>1. Cables!Exists(l)' <=> Cables!Exists(l)
    BY <1>k DEF Cables!Exists
  <2> QED BY <1>0, <1>1, <1>w, <1>k, <2>1 DEF RowKept, Cables!Rows
<1>4. TableInv'
  <2>1. ASSUME NEW l \in Links, NEW s \in Cables!Statuses, Cables!SetStatus(l, s) PROVE TableInv'
    <3>1. link' = [link EXCEPT ![l].status = s] /\ UNCHANGED <<cis, request>> /\ Cables!Exists(l)
      BY <2>1 DEF Cables!SetStatus
    <3>2. DOMAIN link' = Links /\ \A m \in Links : m # l => link'[m] = link[m]
      BY <1>0, <3>1
    <3>3. link[l] \in Cables!Rows /\ link'[l] = [link[l] EXCEPT !.status = s]
      BY <1>0, <3>1 DEF RowKept
    <3>4. link'[l] \in Cables!Rows /\ link'[l].polled = link[l].polled
      BY <3>3 DEF Cables!Rows
    <3>5. RowKept(l)'
      BY <1>0, <1>1, <1>w, <3>1, <3>4 DEF RowKept, Cables!Rows
    <3> QED BY <1>0, <1>1, <1>k, <3>1, <3>2, <3>5 DEF TableInv
  <2>2. ASSUME NEW l \in Links, NEW s \in Cables!Statuses, NEW k \in BOOLEAN,
               Cables!CheckCreate(l, s, k) PROVE TableInv'
    <3>1. UNCHANGED <<cis, link>> /\ request' \in [link : Links, status : Cables!Statuses,
            capacity : BOOLEAN]
      BY <2>2 DEF Cables!CheckCreate
    <3> QED BY <1>0, <1>1, <1>k, <3>1 DEF TableInv
  <2>3. CASE Cables!WriteCreate
    <3>1. request' = Cables!NoRequest /\ UNCHANGED cis /\ request.link \in Links
          /\ request.status \in Cables!Statuses /\ request.capacity \in BOOLEAN
      BY <1>0, <2>3 DEF Cables!WriteCreate
    <3>2. CASE link' = link
      BY <1>0, <1>1, <1>k, <3>1, <3>2 DEF TableInv
    <3>3. CASE link' # link
      <4> DEFINE n == [status |-> request.status, capacity |-> request.capacity,
            polled |-> Cables!Never]
      <4>1. Ends[request.link] \subseteq cis /\ link' = [link EXCEPT ![request.link] = n]
        BY <2>3, <3>3 DEF Cables!WriteCreate
      <4>2. n \in Cables!Rows /\ n.polled = Cables!Never
        BY <3>1 DEF Cables!Rows
      <4> HIDE DEF n
      <4>4. /\ DOMAIN link' = Links /\ link'[request.link] = n
            /\ \A m \in Links : m # request.link => link'[m] = link[m]
        BY <1>0, <3>1, <4>1
      <4>5. ASSUME NEW l \in Links PROVE RowKept(l)'
        <5>1. CASE l = request.link
          BY <3>1, <4>1, <4>2, <4>4, <5>1 DEF RowKept, Cables!Rows
        <5>2. CASE l # request.link
          BY <1>k, <3>1, <4>4, <5>2
        <5> QED BY <5>1, <5>2
      <4> QED BY <1>0, <1>1, <3>1, <4>4, <4>5 DEF TableInv
    <3> QED BY <3>2, <3>3
  <2>4. ASSUME NEW c \in Nodes, Cables!DeleteNode(c) PROVE TableInv'
    <3>1. /\ cis' = cis \ {c} /\ UNCHANGED request
          /\ link' = [l \in Links |-> IF c \in Ends[l] THEN Cables!NoLink ELSE link[l]]
      BY <2>4 DEF Cables!DeleteNode
    <3>2. ASSUME NEW l \in Links PROVE RowKept(l)'
      <4>1. CASE c \in Ends[l]
        <5>1. link'[l] = Cables!NoLink
          BY <3>1, <4>1
        <5> QED BY <5>1 DEF RowKept, Cables!Exists
      <4>2. CASE c \notin Ends[l]
        BY <1>k, <3>1, <4>2
      <4> QED BY <4>1, <4>2
    <3> QED BY <1>0, <1>1, <3>1, <3>2 DEF TableInv
  <2>5. ASSUME NEW c \in Nodes, Cables!UpsertNode(c) PROVE TableInv'
    <3>1. cis' = cis \cup {c} /\ UNCHANGED <<link, request>>
      BY <2>5 DEF Cables!UpsertNode
    <3> QED BY <1>0, <1>1, <1>k, <3>1 DEF TableInv
  <2>6. CASE Cables!Redeploy
    <3>1. /\ UNCHANGED <<cis, request>>
          /\ link' = [l \in Links |-> IF Cables!Exists(l)
             THEN [link[l] EXCEPT !.polled = Cables!Never] ELSE Cables!NoLink]
      BY <2>6 DEF Cables!Redeploy
    <3>2. ASSUME NEW l \in Links PROVE RowKept(l)'
      <4>1. CASE Cables!Exists(l)
        <5>1. link[l] \in Cables!Rows /\ link'[l] = [link[l] EXCEPT !.polled = Cables!Never]
          BY <1>0, <3>1, <4>1 DEF RowKept
        <5>2. link'[l] \in Cables!Rows /\ link'[l].polled = Cables!Never
          BY <5>1 DEF Cables!Rows
        <5> QED BY <1>0, <1>1, <3>1, <4>1, <5>2 DEF RowKept, Cables!Rows
      <4>2. CASE ~Cables!Exists(l)
        <5>1. link'[l] = Cables!NoLink
          BY <3>1, <4>2
        <5> QED BY <5>1 DEF RowKept, Cables!Exists
      <4> QED BY <4>1, <4>2
    <3> QED BY <1>0, <1>1, <3>1, <3>2 DEF TableInv
  <2> QED BY <2>1, <2>2, <2>3, <2>4, <2>5, <2>6 DEF Cables!Operator
<1> QED BY <1>2, <1>3, <1>4 DEF CablesInv

-----------------------------------------------------------------------------
\* The bridge.

\* What a pass fetches of an end is in the table.
LEMMA FetchedIsSampled ==
  ASSUME LinksAreSet, CountersInv, lNow \in 0 .. LinkTime, NEW at \in 0 .. LinkTime, NEW l \in Links
  PROVE  /\ DOMAIN Cables!Fetched(l, at) = Ends[l]
         /\ \A c \in Ends[l] : IsSampled(c, at, Cables!Fetched(l, at)[c])
<1> SUFFICES ASSUME NEW c \in Ends[l] PROVE IsSampled(c, at, Cables!Fetched(l, at)[c])
  BY DEF Cables!Fetched
<1> DEFINE S == Cables!InWindow(c, at - StaleAfter, at)
           T == {s.t : s \in S}
<1>1. c \in Nodes /\ samples[c] \subseteq SampleTypes /\ LinkTime \in Nat
  BY DEF LinksAreSet, CountersInv, Honest
<1>2. Cables!Fetched(l, at)[c] = IF S = {} THEN Cables!Never ELSE Cables!Max(T)
  BY DEF Cables!Fetched, Cables!Newest
<1>3. CASE S # {}
  <2>1. T # {} /\ T \subseteq -1 .. LinkTime
    <3>1. \A s \in S : s.t \in 0 .. LinkTime
      BY <1>1 DEF Cables!InWindow, SampleTypes
    <3> QED BY <1>1, <1>3, <3>1
  <2>2. Cables!Max(T) \in T
    BY <1>1, <2>1, GreatestLink
  <2>3. PICK s \in S : Cables!Max(T) = s.t
    BY <2>2
  <2>4. s \in samples[c] /\ at - StaleAfter <= s.t /\ s.t <= at /\ s.t \in 0 .. LinkTime
    BY <1>1, <2>3 DEF Cables!InWindow, SampleTypes
  <2> HIDE DEF S, T
  <2> QED BY <1>2, <1>3, <2>3, <2>4 DEF IsSampled
<1> QED BY <1>2, <1>3 DEF IsSampled

LEMMA FetchedType ==
  ASSUME LinksAreSet, CountersInv, lNow \in 0 .. LinkTime, NEW at \in 0 .. LinkTime, NEW l \in Links
  PROVE  Cables!Fetched(l, at) \in [Ends[l] -> -1 .. LinkTime]
<1>1. \A c \in Ends[l] : Cables!Fetched(l, at)[c] \in -1 .. LinkTime
  BY FetchedIsSampled DEF IsSampled, Cables!Never, LinksAreSet
<1>2. Cables!Fetched(l, at) = [c \in Ends[l] |-> Cables!Fetched(l, at)[c]]
  BY DEF Cables!Fetched
<1> HIDE DEF LinksAreSet
<1> QED BY <1>1, <1>2

\* A row in hand, and the pass it belongs to.
LEMMA RowInHand ==
  ASSUME PassInv, pass.row # Cables!NoRow
  PROVE  /\ pass # Cables!Idle /\ pass \in PassTypes /\ pass.at <= lNow
         /\ pass.row \in RowTypes /\ InHandHolds
         /\ \A q \in pass.rows : q.id \notin pass.down
<1>1. pass # Cables!Idle
  BY DEF Cables!Idle
<1> QED BY <1>1 DEF PassInv, PassTypes

\* The pass goes on to the next row, or the row to its next step.
LEMMA PassGoesOn ==
  ASSUME LinksAreSet, CablesInv, Cables!Bridge PROVE PassInv'
<1>0. UNCHANGED <<lNow, cis, request, counter, total, samples, lChanges>>
  BY DEF Cables!Bridge, Cables!StartPass, Cables!Collect, Cables!Stamp, Cables!Derive, Cables!RowFails,
      Cables!EndPass, Cables!OnBridge
<1>t. PassInv /\ lNow \in 0 .. LinkTime /\ CountersInv /\ TableInv /\ LinkTime \in Nat
  BY DEF CablesInv, TableInv, LinksAreSet
<1>w. \A c, at, t : IsSampled(c, at, t)' <=> IsSampled(c, at, t)
  BY <1>0 DEF IsSampled
<1>1. CASE Cables!StartPass
  <2> DEFINE D == {l \in Links : Cables!Exists(l) /\ link[l].status = "DOWN"}
             R == {[id |-> l, status |-> link[l].status,
             capacity |-> link[l].capacity] : l \in Cables!Active}
             n == [at |-> lNow, rows |-> R, down |-> D, row |-> Cables!NoRow, step |-> "collect",
             newest |-> <<>>]
  <2>1. pass' = n
    BY <1>1 DEF Cables!StartPass, Cables!Idle
  <2>2. ASSUME NEW q \in R PROVE q \in RowTypes /\ q.id \notin D
    <3>1. PICK l \in Cables!Active : q = [id |-> l, status |-> link[l].status,
            capacity |-> link[l].capacity]
      OBVIOUS
    <3>2. l \in Links /\ link[l] \in Cables!Rows /\ link[l].status # "DOWN"
      BY <1>t DEF Cables!Active, TableInv, RowKept
    <3>3. l \notin D
      BY <3>2
    <3> HIDE DEF D
    <3> QED BY <3>1, <3>2, <3>3 DEF RowTypes, Cables!Rows
  <2>3. D \subseteq Links
    OBVIOUS
  <2> HIDE DEF D, R
  <2>4. n \in PassTypes
    BY <1>t, <2>2, <2>3 DEF PassTypes
  <2>5. n.at = lNow /\ n.rows = R /\ n.down = D /\ n.row = Cables!NoRow
    OBVIOUS
  <2> HIDE DEF n
  <2> QED BY <1>0, <1>t, <2>1, <2>2, <2>4, <2>5 DEF PassInv, InHandHolds
<1>2. ASSUME NEW r \in pass.rows, Cables!Collect(r) PROVE PassInv'
  <2>1. pass # Cables!Idle
    BY <1>2 DEF Cables!Idle
  <2>2. /\ pass \in PassTypes /\ pass.at <= lNow /\ \A q \in pass.rows : q.id \notin pass.down
        /\ r \in RowTypes /\ r.id \in Links /\ pass.at \in 0 .. LinkTime
    BY <1>t, <2>1 DEF PassInv, PassTypes, RowTypes
  <2> DEFINE n == Cables!Fetched(r.id, pass.at)
  <2>3. n \in [Ends[r.id] -> -1 .. LinkTime] /\ DOMAIN n = Ends[r.id]
        /\ \A c \in Ends[r.id] : IsSampled(c, pass.at, n[c])
    BY <1>t, <2>2, FetchedType, FetchedIsSampled
  <2>4. pass' = [pass EXCEPT !.rows = @ \ {r}, !.row = r, !.newest = n]
    BY <1>2 DEF Cables!Collect
  <2> HIDE DEF n
  <2>5. n \in {<<>>} \cup UNION {[Ends[l] -> -1 .. LinkTime] : l \in Links}
    BY <2>2, <2>3
  <2>6. /\ pass'.at = pass.at /\ pass'.rows = pass.rows \ {r} /\ pass'.down = pass.down /\ pass'.row = r
        /\ pass'.step = pass.step /\ pass'.newest = n
    BY <2>2, <2>4 DEF PassTypes
  <2>7. pass' \in PassTypes
    <3> DEFINE N == {<<>>} \cup UNION {[Ends[l] -> -1 .. LinkTime] : l \in Links}
    <3>1. n \in N
      BY <2>5
    <3>2. pass \in [at : 0 .. LinkTime, rows : SUBSET RowTypes, down : SUBSET Links,
                     row : RowTypes \cup {Cables!NoRow}, step : {"collect", "derive"}, newest : N]
      BY <2>2 DEF PassTypes
    <3> HIDE DEF N
    <3>3. pass' \in [at : 0 .. LinkTime, rows : SUBSET RowTypes, down : SUBSET Links,
                     row : RowTypes \cup {Cables!NoRow}, step : {"collect", "derive"}, newest : N]
      BY <2>2, <2>4, <3>1, <3>2
    <3> QED BY <3>3 DEF N, PassTypes
  <2> QED BY <1>0, <1>w, <2>2, <2>3, <2>6, <2>7 DEF PassInv, InHandHolds
<1>3. CASE Cables!Stamp
  <2>1. pass.row # Cables!NoRow /\ pass' = [pass EXCEPT !.step = "derive"]
    BY <1>3 DEF Cables!Stamp, Cables!InHand
  <2>2. /\ pass \in PassTypes /\ pass.at <= lNow /\ InHandHolds
        /\ \A q \in pass.rows : q.id \notin pass.down
    BY <1>t, <2>1, RowInHand
  <2>3. /\ pass'.at = pass.at /\ pass'.rows = pass.rows /\ pass'.down = pass.down
           /\ pass'.row = pass.row
        /\ pass'.newest = pass.newest
    BY <2>1, <2>2 DEF PassTypes
  <2>4. pass' \in PassTypes
    BY <2>1, <2>2 DEF PassTypes
  <2> QED BY <1>0, <1>w, <2>2, <2>3, <2>4 DEF PassInv, InHandHolds
<1>4. CASE Cables!Derive \/ Cables!RowFails
  <2>1. pass.row # Cables!NoRow
        /\ pass' = [pass EXCEPT !.row = Cables!NoRow, !.step = "collect", !.newest = <<>>]
    BY <1>4 DEF Cables!Derive, Cables!RowFails, Cables!InHand, Cables!NextRow
  <2>2. /\ pass \in PassTypes /\ pass.at <= lNow /\ InHandHolds
        /\ \A q \in pass.rows : q.id \notin pass.down
    BY <1>t, <2>1, RowInHand
  <2>3. /\ pass'.at = pass.at /\ pass'.rows = pass.rows /\ pass'.down = pass.down
           /\ pass'.row = Cables!NoRow
    BY <2>1, <2>2 DEF PassTypes
  <2>4. pass' \in PassTypes
    <3> DEFINE N == {<<>>} \cup UNION {[Ends[l] -> -1 .. LinkTime] : l \in Links}
    <3>1. <<>> \in N
      OBVIOUS
    <3>2. pass \in [at : 0 .. LinkTime, rows : SUBSET RowTypes, down : SUBSET Links,
                     row : RowTypes \cup {Cables!NoRow}, step : {"collect", "derive"}, newest : N]
      BY <2>2 DEF PassTypes
    <3> HIDE DEF N
    <3>3. pass' \in [at : 0 .. LinkTime, rows : SUBSET RowTypes, down : SUBSET Links,
                     row : RowTypes \cup {Cables!NoRow}, step : {"collect", "derive"}, newest : N]
      BY <2>1, <3>1, <3>2
    <3> QED BY <3>3 DEF N, PassTypes
  <2> QED BY <1>0, <2>2, <2>3, <2>4 DEF PassInv, InHandHolds
<1>5. CASE Cables!EndPass
  BY <1>5 DEF Cables!EndPass, PassInv
<1> QED BY <1>1, <1>2, <1>3, <1>4, <1>5 DEF Cables!Bridge

\* What the bridge writes: the stamp of the link in hand, or its status.
LEMMA BridgeWrites ==
  ASSUME LinksAreSet, CablesInv, Cables!Bridge, link' # link
  PROVE  LET l == pass.row.id IN
         /\ pass.row # Cables!NoRow /\ l \in Links /\ Cables!Exists(l) /\ DOMAIN link' = Links
         /\ \A m \in Links : m # l => link'[m] = link[m]
         /\ \/ /\ link'[l] = [link[l] EXCEPT !.polled = pass.at]
               /\ \E c \in Ends[l] : Cables!InWindow(c, pass.at - FreshWindow, pass.at) # {}
            \/ \E s \in {"UP", "UNKNOWN", "PLANNED"} : link'[l] = [link[l] EXCEPT !.status = s]
<1> DEFINE l == pass.row.id
<1>1. pass.row # Cables!NoRow /\ (Cables!Stamp \/ Cables!Derive)
  BY DEF Cables!Bridge, Cables!StartPass, Cables!Collect, Cables!Stamp, Cables!Derive, Cables!RowFails,
      Cables!EndPass, Cables!InHand
<1>2. /\ pass \in PassTypes /\ InHandHolds /\ l \in Links /\ DOMAIN link = Links
      /\ LinkTime \in Nat /\ StaleAfter \in Nat /\ FreshWindow \in Nat /\ pass.at \in 0 .. LinkTime
      /\ Ends[l] # {} /\ DOMAIN pass.newest = Ends[l]
      /\ \A c \in Ends[l] : IsSampled(c, pass.at, pass.newest[c])
  BY <1>1, RowInHand DEF CablesInv, TableInv, LinksAreSet, RowTypes, PassTypes, InHandHolds
<1>3. CASE Cables!Stamp
  <2>1. PICK c \in Ends[l] : pass.newest[c] # Cables!Never /\ pass.newest[c] >= pass.at - FreshWindow
    BY <1>2, <1>3 DEF Cables!Stamp
  <2>2. PICK s \in samples[c] : s.t = pass.newest[c] /\ s.t <= pass.at
    BY <1>2, <2>1 DEF IsSampled
  <2>3. s \in Cables!InWindow(c, pass.at - FreshWindow, pass.at)
    BY <2>1, <2>2 DEF Cables!InWindow
  <2>4. link' = Cables!Written("polled", pass.at)
    BY <1>3 DEF Cables!Stamp
  <2>5. Cables!Exists(l) /\ link' = [link EXCEPT ![l]["polled"] = pass.at]
    BY <2>4 DEF Cables!Written
  <2>6. link'[l] = [link[l] EXCEPT !.polled = pass.at] /\ DOMAIN link' = Links
        /\ \A m \in Links : m # l => link'[m] = link[m]
    BY <1>2, <2>5
  <2> QED BY <1>1, <1>2, <2>3, <2>5, <2>6
<1>4. CASE Cables!Derive
  <2> DEFINE v == Cables!Derived(pass.row.capacity, pass.newest, pass.at)
  <2>1. link' = Cables!Written("status", v)
    BY <1>4 DEF Cables!Derive
  <2>2. v \in {"UP", "UNKNOWN", "PLANNED"}
    <3> DEFINE silent == {c \in DOMAIN pass.newest : pass.newest[c] = Cables!Never}
               fresh == {c \in DOMAIN pass.newest \ silent : pass.at - pass.newest[c] <= StaleAfter}
    <3>1. \A c \in Ends[l] : c \in silent \/ c \in fresh
      <4> SUFFICES ASSUME NEW c \in Ends[l], pass.newest[c] # Cables!Never
                   PROVE  pass.at - pass.newest[c] <= StaleAfter
        BY <1>2
      <4>1. pass.at - StaleAfter <= pass.newest[c] /\ pass.newest[c] \in 0 .. LinkTime
        BY <1>2 DEF IsSampled
      <4> QED BY <1>2, <4>1
    <3>2. silent # {} \/ fresh # {}
      BY <1>2, <3>1
    <3> QED BY <3>2 DEF Cables!Derived
  <2> HIDE DEF v
  <2>3. Cables!Exists(l) /\ link' = [link EXCEPT ![l]["status"] = v]
    BY <2>1 DEF Cables!Written
  <2>4. link'[l] = [link[l] EXCEPT !.status = v] /\ DOMAIN link' = Links
        /\ \A m \in Links : m # l => link'[m] = link[m]
    BY <1>2, <2>3
  <2> QED BY <1>1, <1>2, <2>2, <2>3, <2>4
<1> QED BY <1>1, <1>3, <1>4

LEMMA BridgeKeeps == ASSUME LinksAreSet, CablesInv, Cables!Bridge PROVE CablesInv'
<1>0. UNCHANGED <<lNow, cis, request, counter, total, samples, lChanges>>
  BY DEF Cables!Bridge, Cables!StartPass, Cables!Collect, Cables!Stamp, Cables!Derive, Cables!RowFails,
      Cables!EndPass, Cables!OnBridge
<1>1. PassInv'
  BY PassGoesOn
<1>2. CountersInv'
  BY <1>0 DEF CablesInv, CountersInv, Honest, SampleTypes
<1>3. TableInv'
  <2>1. CASE UNCHANGED link
    BY <1>0, <2>1, RowsStay DEF CablesInv, TableInv
  <2>2. CASE link' # link
    <3>1. PICK l \in Links :
          /\ pass.row # Cables!NoRow /\ Cables!Exists(l) /\ DOMAIN link' = Links
          /\ \A m \in Links : m # l => link'[m] = link[m]
          /\ \/ /\ link'[l] = [link[l] EXCEPT !.polled = pass.at]
                /\ \E c \in Ends[l] : Cables!InWindow(c, pass.at - FreshWindow, pass.at) # {}
             \/ \E s \in {"UP", "UNKNOWN", "PLANNED"} : link'[l] = [link[l] EXCEPT !.status = s]
      BY <2>2, BridgeWrites
    <3>2. RowKept(l) /\ pass.at \in 0 .. LinkTime
      BY <3>1, RowInHand DEF CablesInv, TableInv, PassTypes
    <3>3. link[l] \in Cables!Rows
      BY <3>1, <3>2 DEF RowKept
    <3>w. \A c : \A from, to : Cables!InWindow(c, from, to)' = Cables!InWindow(c, from, to)
      BY <1>0 DEF Cables!InWindow
    <3>4. RowKept(l)'
      <4>1. CASE link'[l] = [link[l] EXCEPT !.polled = pass.at]
                 /\ \E c \in Ends[l] : Cables!InWindow(c, pass.at - FreshWindow, pass.at) # {}
        <5>1. link'[l] \in Cables!Rows /\ link'[l].polled = pass.at
          BY <3>2, <3>3, <4>1 DEF Cables!Rows
        <5> QED BY <1>0, <3>1, <3>2, <3>w, <4>1, <5>1 DEF RowKept
      <4>2. CASE \E s \in {"UP", "UNKNOWN", "PLANNED"} : link'[l] = [link[l] EXCEPT !.status = s]
        <5>1. link'[l] \in Cables!Rows /\ link'[l].polled = link[l].polled
          BY <3>3, <4>2 DEF Cables!Rows, Cables!Statuses
        <5> QED BY <1>0, <3>1, <3>2, <3>w, <5>1 DEF RowKept
      <4> QED BY <3>1, <4>1, <4>2
    <3>5. ASSUME NEW m \in Links, m # l PROVE RowKept(m)'
      <4>1. link'[m] = link[m] /\ RowKept(m)
        BY <3>1, <3>5 DEF CablesInv, TableInv
      <4>2. Cables!Exists(m)' <=> Cables!Exists(m)
        BY <4>1 DEF Cables!Exists
      <4> QED BY <1>0, <3>w, <4>1, <4>2 DEF RowKept, Cables!Rows
    <3> QED BY <1>0, <3>1, <3>4, <3>5 DEF CablesInv, TableInv
  <2> QED BY <2>1, <2>2
<1> QED BY <1>1, <1>2, <1>3 DEF CablesInv

\* Every step.
LEMMA CablesStep == ASSUME LinksAreSet, CablesInv, [Cables!Next]_Cables!vars PROVE CablesInv'
<1>1. ASSUME UNCHANGED Cables!vars PROVE CablesInv'
  <2>1. UNCHANGED <<lNow, cis, link, request, pass, counter, total, samples, lChanges>>
    BY <1>1 DEF Cables!vars
  <2>2. TableInv' /\ PassInv'
    BY <2>1, RowsStay, PassStays DEF CablesInv, TableInv, LinksAreSet
  <2>3. CountersInv'
    BY <2>1 DEF CablesInv, CountersInv, Honest, SampleTypes
  <2> QED BY <2>2, <2>3 DEF CablesInv
<1> QED BY <1>1, OperatorKeeps, BridgeKeeps, CablesTick, TrafficKeeps DEF Cables!Next

\* At the start there are CIs without links or samples.
LEMMA CablesStart == ASSUME LinksAreSet, Cables!Init PROVE CablesInv
<1>1. TableInv
  <2>1. \A l \in Links : ~Cables!Exists(l)
    BY DEF Cables!Init, Cables!Exists
  <2> QED BY <2>1 DEF Cables!Init, TableInv, RowKept, LinksAreSet
<1>2. CountersInv
  BY DEF Cables!Init, CountersInv, Honest, LinksAreSet
<1>3. PassInv
  BY DEF Cables!Init, PassInv
<1> QED BY <1>1, <1>2, <1>3 DEF CablesInv

-----------------------------------------------------------------------------
\* The newest sample of a window is one of them, and none is newer.
LEMMA NewestIsLatest ==
  ASSUME LinksAreSet, CablesInv, NEW c \in Nodes, NEW from \in Int, NEW to \in Int
  PROVE  LET S == Cables!InWindow(c, from, to) IN
         /\ S = {} => Cables!Newest(S) = -1
         /\ S # {} => /\ Cables!Newest(S) \in 0 .. LinkTime
                      /\ \E s \in S : s.t = Cables!Newest(S)
                      /\ \A s \in S : s.t <= Cables!Newest(S)
<1> DEFINE S == Cables!InWindow(c, from, to)
           T == {s.t : s \in S}
<1>1. \A s \in S : s.t \in 0 .. LinkTime
  BY DEF CablesInv, CountersInv, Honest, SampleTypes, Cables!InWindow
<1>2. LinkTime \in Nat
  BY DEF LinksAreSet
<1>3. S = {} => Cables!Newest(S) = -1
  BY DEF Cables!Newest, Cables!Never
<1>4. ASSUME S # {}
      PROVE  /\ Cables!Newest(S) \in 0 .. LinkTime
             /\ \E s \in S : s.t = Cables!Newest(S)
             /\ \A s \in S : s.t <= Cables!Newest(S)
  <2>1. T # {} /\ T \subseteq -1 .. LinkTime
    BY <1>1, <1>2, <1>4
  <2>2. Cables!Max(T) \in T /\ \A y \in T : y <= Cables!Max(T)
    BY <1>2, <2>1, GreatestLink
  <2>3. Cables!Newest(S) = Cables!Max(T)
    BY <1>4 DEF Cables!Newest
  <2> HIDE DEF S
  <2> QED BY <1>1, <2>2, <2>3
<1> QED BY <1>3, <1>4

\* What is reported for a window passed in it.
LEMMA OctetsArePassed == ASSUME LinksAreSet, CablesInv PROVE Cables!NeverOverstated
<1> SUFFICES ASSUME NEW c \in Nodes, NEW w \in Windows, Cables!InWindow(c, lNow - w, lNow) # {}
             PROVE  LET S == Cables!InWindow(c, lNow - w, lNow)
                    IN Cables!Delta(S) <= Cables!Last(S).total - Cables!First(S).total
  BY DEF Cables!NeverOverstated
<1> DEFINE S == Cables!InWindow(c, lNow - w, lNow)
           T == {s.t : s \in S}
<1>1. LinkTime \in Nat /\ MaxBytes \in Nat /\ Honest(c) /\ S \subseteq samples[c]
  BY DEF LinksAreSet, CablesInv, CountersInv, Cables!InWindow
<1>2. S # {} /\ \A s \in S : s \in SampleTypes /\ s.t \in 0 .. LinkTime /\ s.v \in Nat
        /\ s.total \in Nat
  BY <1>1 DEF Honest, SampleTypes
<1> HIDE DEF S
<1>3. T # {} /\ T \subseteq -1 .. LinkTime /\ T \subseteq Nat
  BY <1>1, <1>2
<1>4. /\ Cables!Max(T) \in T /\ \A y \in T : y <= Cables!Max(T)
      /\ Cables!Min(T) \in T /\ \A y \in T : Cables!Min(T) <= y
  BY <1>1, <1>3, GreatestLink, LeastLink
<1>5. Cables!Last(S) \in S /\ Cables!Last(S).t = Cables!Max(T)
  BY <1>4 DEF Cables!Last, Cables!At
<1>6. Cables!First(S) \in S /\ Cables!First(S).t = Cables!Min(T)
  BY <1>4 DEF Cables!First, Cables!At
<1> DEFINE a == Cables!First(S)
           b == Cables!Last(S)
<1>7. a.t <= b.t
  BY <1>4, <1>5, <1>6
<1>8. a.total <= b.total /\ b.v - a.v <= b.total - a.total
  <2>1. a \in samples[c] /\ b \in samples[c]
    BY <1>1, <1>5, <1>6
  <2>2. a.t \in Nat /\ b.t \in Nat /\ a.v \in Nat /\ b.v \in Nat /\ a.total \in Nat /\ b.total \in Nat
    BY <1>2, <1>5, <1>6
  <2> HIDE DEF a, b
  <2>3. CASE a.t = b.t
    <3>1. a = b
      BY <1>1, <2>1, <2>3 DEF Honest
    <3> QED BY <2>2, <3>1
  <2>4. CASE a.t < b.t
    BY <1>1, <2>1, <2>4 DEF Honest
  <2> QED BY <1>7, <2>2, <2>3, <2>4
<1>9. Cables!Delta(S) = Cables!Max({0, b.v - a.v})
  BY <1>2 DEF Cables!Delta
<1>10. a.v \in Nat /\ b.v \in Nat /\ a.total \in Nat /\ b.total \in Nat
  BY <1>2, <1>5, <1>6
<1> HIDE DEF a, b
<1>11. Cables!Max({0, b.v - a.v}) \in {0, b.v - a.v}
  <2>1. \E x \in {0, b.v - a.v} : \A y \in {0, b.v - a.v} : x >= y
    BY <1>10
  <2> QED BY <2>1 DEF Cables!Max
<1>12. Cables!Delta(S) <= b.total - a.total
  BY <1>8, <1>9, <1>10, <1>11
<1> QED BY <1>12 DEF S, a, b

\* The newest of all ends.
LEMMA NewestOfEnds ==
  ASSUME LinksAreSet, CablesInv, NEW l \in Links, NEW w \in Windows
  PROVE  LET newest(c) == Cables!Newest(Cables!InWindow(c, lNow - w, lNow))
             seen == Cables!Max({newest(c) : c \in Ends[l]})
         IN /\ seen \in -1 .. LinkTime /\ \E c \in Ends[l] : newest(c) = seen
            /\ \A c \in Ends[l] : newest(c) <= seen
<1> DEFINE newest(c) == Cables!Newest(Cables!InWindow(c, lNow - w, lNow))
           T == {newest(c) : c \in Ends[l]}
<1>1. /\ LinkTime \in Nat /\ Ends[l] # {} /\ Ends[l] \subseteq Nodes /\ w \in Nat /\ lNow \in Nat
  BY DEF LinksAreSet, CablesInv, TableInv
<1>2. \A c \in Ends[l] : newest(c) \in -1 .. LinkTime
  <2> SUFFICES ASSUME NEW c \in Ends[l] PROVE newest(c) \in -1 .. LinkTime
    OBVIOUS
  <2>1. lNow - w \in Int /\ lNow \in Int /\ c \in Nodes
    BY <1>1
  <2> QED BY <1>1, <2>1, NewestIsLatest
<1> HIDE DEF newest
<1>3. T # {} /\ T \subseteq -1 .. LinkTime
  BY <1>1, <1>2
<1>4. Cables!Max(T) \in T /\ \A y \in T : y <= Cables!Max(T)
  BY <1>1, <1>3, GreatestLink
<1> QED BY <1>2, <1>4 DEF newest

\* The bridge and the API read alike.
LEMMA ReadersRead == ASSUME LinksAreSet, CablesInv PROVE Cables!ReadersAgree
<1> SUFFICES ASSUME ReadStaleAfter = StaleAfter, NEW l \in Links, NEW w \in Windows, Cables!Exists(l)
             PROVE  LET derived == Cables!Derived(link[l].capacity, Cables!Fetched(l, lNow), lNow)
                    IN /\ Cables!EmptyReason(l, w) = "no_capacity" <=> derived = "PLANNED"
                       /\ Cables!EmptyReason(l, w) = "none" => derived = "UP"
                       /\ w >= StaleAfter /\ derived = "UP" => Cables!EmptyReason(l, w) = "none"
  BY DEF Cables!ReadersAgree
<1> DEFINE derived == Cables!Derived(link[l].capacity, Cables!Fetched(l, lNow), lNow)
           read(c) == Cables!Newest(Cables!InWindow(c, lNow - w, lNow))
           seen == Cables!Max({read(c) : c \in Ends[l]})
           f == Cables!Fetched(l, lNow)
<1>1. /\ LinkTime \in Nat /\ Ends[l] # {} /\ Ends[l] \subseteq Nodes /\ w \in Nat
         /\ lNow \in 0 .. LinkTime
      /\ StaleAfter \in Nat /\ link[l].capacity \in BOOLEAN
  BY DEF LinksAreSet, CablesInv, TableInv, RowKept, Cables!Rows
<1>2. seen \in -1 .. LinkTime /\ (\E c \in Ends[l] : read(c) = seen)
        /\ \A c \in Ends[l] : read(c) <= seen
  BY NewestOfEnds
<1>3. DOMAIN f = Ends[l] /\ \A c \in Ends[l] : f[c] = Cables!Newest(Cables!InWindow(c, lNow - StaleAfter,
        lNow))
  BY DEF Cables!Fetched
<1>4. /\ Cables!EmptyReason(l, w) = "no_capacity" <=> ~link[l].capacity
      /\ Cables!EmptyReason(l, w) = "none" <=> link[l].capacity /\ seen # -1
         /\ ~(lNow - seen > StaleAfter)
  BY <1>1 DEF Cables!EmptyReason, Cables!Never
<1> DEFINE silent == {c \in DOMAIN f : f[c] = -1}
           fresh == {c \in DOMAIN f \ silent : lNow - f[c] <= StaleAfter}
<1>5. derived = IF ~link[l].capacity THEN "PLANNED"
                ELSE IF fresh # {} THEN "UP" ELSE IF silent = {} THEN "DOWN" ELSE "UNKNOWN"
  BY DEF Cables!Derived, Cables!Never
\* Of a window that reaches back far enough, the ends that have a sample.
<1>6. ASSUME NEW c \in Ends[l], read(c) = seen, seen # -1, ~(lNow - seen > StaleAfter)
      PROVE  c \in fresh
  <2>1. lNow - w \in Int /\ lNow \in Int /\ c \in Nodes /\ lNow - StaleAfter \in Int
    BY <1>1
  <2>2. Cables!InWindow(c, lNow - w, lNow) # {}
    BY <1>6, <2>1, NewestIsLatest
  <2>3. PICK s \in Cables!InWindow(c, lNow - w, lNow) : s.t = seen
    BY <1>6, <2>1, <2>2, NewestIsLatest
  <2>4. s \in Cables!InWindow(c, lNow - StaleAfter, lNow)
    BY <1>1, <1>2, <1>6, <2>3 DEF Cables!InWindow
  <2>5. f[c] \in 0 .. LinkTime /\ s.t <= f[c]
    BY <1>3, <2>1, <2>4, NewestIsLatest
  <2> HIDE DEF seen, read, f
  <2>6. lNow - f[c] <= StaleAfter
    BY <1>1, <1>2, <1>6, <2>3, <2>5
  <2> QED BY <1>3, <2>5, <2>6
<1>7. ASSUME NEW c \in fresh, w >= StaleAfter PROVE seen # -1 /\ ~(lNow - seen > StaleAfter)
  <2>1. c \in Ends[l] /\ f[c] # -1
    BY <1>3
  <2>2. lNow - w \in Int /\ lNow \in Int /\ c \in Nodes /\ lNow - StaleAfter \in Int
    BY <1>1, <2>1
  <2>3. Cables!InWindow(c, lNow - StaleAfter, lNow) # {}
    BY <1>3, <2>1, <2>2, NewestIsLatest
  <2>4. PICK s \in Cables!InWindow(c, lNow - StaleAfter, lNow) : s.t = f[c] /\ f[c] \in 0 .. LinkTime
    BY <1>3, <2>1, <2>2, <2>3, NewestIsLatest
  <2>5. s \in Cables!InWindow(c, lNow - w, lNow) /\ lNow - StaleAfter <= s.t
    BY <1>1, <1>7, <2>4 DEF Cables!InWindow
  <2>6. s.t <= read(c)
    BY <2>2, <2>5, NewestIsLatest
  <2>7. read(c) <= seen
    BY <1>2, <2>1
  <2>8. read(c) \in 0 .. LinkTime
    BY <2>2, <2>5, NewestIsLatest
  <2> HIDE DEF seen, read, f
  <2> QED BY <1>1, <1>2, <2>4, <2>5, <2>6, <2>7, <2>8
<1> HIDE DEF seen, read, f, silent, derived
<1> QED BY <1>1, <1>2, <1>4, <1>5, <1>6, <1>7 DEF derived, f

\* What is promised of links.
LEMMA CablesHold == ASSUME LinksAreSet, CablesInv PROVE Cables!LinksInvariant
<1>1. Cables!TypeOK
  BY DEF CablesInv, TableInv, CountersInv, PassInv, Honest, RowKept, PassTypes, SampleTypes,
  Cables!Idle,
      Cables!TypeOK, Cables!Samples
<1>2. Cables!LinksJoinCIs /\ Cables!StampsAreBacked
  BY DEF CablesInv, TableInv, RowKept, Cables!LinksJoinCIs, Cables!StampsAreBacked
<1> QED BY <1>1, <1>2, OctetsArePassed, ReadersRead DEF Cables!LinksInvariant

\* A pass leaves the outages alone that it found, and declares none.
LEMMA OutagesStay ==
  ASSUME LinksAreSet, CablesInv, [Cables!Next]_Cables!vars PROVE Cables!OutagesAreOperators
<1> SUFFICES ASSUME pass # Cables!Idle, pass' # pass, NEW m \in Links, Cables!Exists(m),
                    link'[m] # Cables!NoLink
             PROVE  /\ m \in pass.down => link'[m].status = link[m].status
                    /\ link'[m].status = "DOWN" => link[m].status = "DOWN"
  BY DEF Cables!OutagesAreOperators
<1>1. Cables!Bridge
  BY DEF Cables!Next, Cables!vars, Cables!Operator, Cables!Tick, Cables!Traffic, Cables!Reset,
  Cables!Sample,
      Cables!CheckCreate, Cables!WriteCreate, Cables!SetStatus, Cables!DeleteNode, Cables!UpsertNode,
      Cables!Redeploy, Cables!OnDevice
<1>2. CASE link' = link
  BY <1>2
<1>3. CASE link' # link
  <2> DEFINE l == pass.row.id
  <2>1. /\ pass.row # Cables!NoRow /\ l \in Links /\ Cables!Exists(l)
        /\ \A k \in Links : k # l => link'[k] = link[k]
        /\ \/ link'[l] = [link[l] EXCEPT !.polled = pass.at]
           \/ \E s \in {"UP", "UNKNOWN", "PLANNED"} : link'[l] = [link[l] EXCEPT !.status = s]
    BY <1>1, <1>3, BridgeWrites
  <2>2. l \notin pass.down /\ link[l] \in Cables!Rows
    BY <2>1, RowInHand DEF CablesInv, TableInv, RowKept, InHandHolds
  <2>3. link'[l].status = link[l].status \/ link'[l].status \in {"UP", "UNKNOWN", "PLANNED"}
    BY <2>1, <2>2 DEF Cables!Rows
  <2> HIDE DEF l
  <2> QED BY <2>1, <2>2, <2>3
<1> QED BY <1>2, <1>3

-----------------------------------------------------------------------------
(* CiGraph                                                                  *)

LEMMA GraphCount == \A S : Graph!Cardinality(S) = Cardinality(S)
BY DEF Graph!Cardinality, Cardinality

LinkRequests ==
  [at : {"write"}, kind : {"link"}, e : Graph!Edges, medium : Mediums \cup {Graph!None},
  stale : BOOLEAN]
MassFields ==
  {"at", "kind", "user", "rel", "new", "stale", "f", "g", "counted", "warned", "src", "tgt", "layer",
  "nodes"}
Phases ==
  {<<"create", "warn">>, <<"create", "read">>, <<"create", "write">>, <<"delete", "read">>,
  <<"delete", "write">>,
   <<"update", "read">>, <<"update", "write">>, <<"graph", "links">>}

\* What a request has read is so, unless the graph changed since.
HasRead(q) ==
  /\ q.kind = "create" => q.counted = Graph!Simulation(q.f, q.g, q.user)
  /\ q.kind = "create" /\ q.at # "warn" => q.warned = Graph!Related(q)
  /\ q.at = "write" => q.src = Graph!Selected(q.f, q.user) /\ q.tgt = Graph!Selected(q.g, q.user)
  /\ q.kind = "graph" => q.nodes = Graph!Shown(q.layer, q.user)

LinkHolds(q) ==
  q \in LinkRequests /\ (~q.stale /\ q.medium # Graph!None => Graph!BothThere(q.e) /\ Graph!HasHub(q.e))
MassHolds(q) ==
  /\ DOMAIN q = MassFields /\ <<q.kind, q.at>> \in Phases /\ q.stale \in BOOLEAN
     /\ q.rel \in Rels \cup {Graph!None}
  /\ q.new \in Rels \cup {Graph!None} /\ (q.kind # "graph" => q.rel \in Rels /\ q.new \in Rels)
  /\ q.src \subseteq Nodes /\ q.tgt \subseteq Nodes
  /\ ~q.stale => HasRead(q)
RequestHolds(q) == q = Graph!Idle \/ LinkHolds(q) \/ MassHolds(q)

GraphInv ==
  /\ Graph!TypeOK /\ Graph!TunnelsHaveHubs /\ Graph!SimulationHolds /\ Graph!GraphIsWhole
  /\ DOMAIN gReq = Requests /\ \A r \in Requests : RequestHolds(gReq[r])

\* What is read depends on the graph alone.
LEMMA ReadingStays ==
  ASSUME UNCHANGED <<gCi, edge>>, NEW q
  PROVE  /\ HasRead(q)' <=> HasRead(q)
         /\ RequestHolds(q)' <=> RequestHolds(q)
<1>1. HasRead(q)' <=> HasRead(q)
  BY DEF HasRead, Graph!Simulation, Graph!Selected, Graph!Related, Graph!AsSource, Graph!Shown,
  Graph!In,
      Graph!Scoped, Graph!Anything, Graph!Cardinality
<1>2. Graph!BothThere(q.e)' <=> Graph!BothThere(q.e)
  BY DEF Graph!BothThere
<1>3. Graph!HasHub(q.e)' <=> Graph!HasHub(q.e)
  BY DEF Graph!HasHub
<1> QED BY <1>1, <1>2, <1>3 DEF RequestHolds, LinkHolds, MassHolds, LinkRequests, Graph!Edges

\* A request that another step makes stale, or leaves as it is.
LEMMA StaleHolds ==
  ASSUME NEW q, RequestHolds(q), NEW p, p = Graph!Stale(q)
  PROVE  RequestHolds(p)'
<1>1. CASE <<gCi, edge>>' = <<gCi, edge>>
  BY <1>1, ReadingStays DEF Graph!Stale
<1>2. CASE q = Graph!Idle
  BY <1>2 DEF Graph!Stale, Graph!Idle, RequestHolds
<1>3. CASE <<gCi, edge>>' # <<gCi, edge>> /\ q # Graph!Idle /\ LinkHolds(q)
  <2>1. q \in LinkRequests /\ q.at # "idle"
    BY <1>3 DEF LinkHolds, LinkRequests
  <2>2. p = [q EXCEPT !.stale = TRUE]
    BY <1>3, <2>1 DEF Graph!Stale
  <2>3. p \in LinkRequests /\ p.stale
    BY <2>1, <2>2 DEF LinkRequests
  <2> QED BY <2>3 DEF RequestHolds, LinkHolds, LinkRequests
<1>4. CASE <<gCi, edge>>' # <<gCi, edge>> /\ q # Graph!Idle /\ MassHolds(q)
  <2>1. q.at # "idle" /\ DOMAIN q = MassFields
    BY <1>4 DEF MassHolds, Phases
  <2>2. p = [q EXCEPT !.stale = TRUE]
    BY <1>4, <2>1 DEF Graph!Stale
  <2>3. /\ DOMAIN p = MassFields /\ p.stale = TRUE /\ p.kind = q.kind /\ p.at = q.at /\ p.rel = q.rel
        /\ p.new = q.new /\ p.src = q.src /\ p.tgt = q.tgt
    BY <2>1, <2>2 DEF MassFields
  <2>4. MassHolds(p)'
    BY <1>4, <2>3 DEF MassHolds
  <2> QED BY <2>4 DEF RequestHolds
<1> QED BY <1>1, <1>2, <1>3, <1>4 DEF RequestHolds

LEMMA RequestsMove ==
  ASSUME GraphInv, NEW r \in Requests, NEW q, Graph!Moves(r, q), RequestHolds(q)'
  PROVE  DOMAIN gReq' = Requests /\ \A s \in Requests : RequestHolds(gReq[s])'
<1>1. gReq' = [s \in Requests |-> IF s = r THEN q ELSE Graph!Stale(gReq[s])]
  BY DEF Graph!Moves
<1>2. ASSUME NEW s \in Requests PROVE RequestHolds(gReq[s])'
  <2>1. CASE s = r
    <3>1. gReq'[s] = q
      BY <1>1, <2>1
    <3> QED BY <3>1
  <2>2. CASE s # r
    <3>1. PICK p : p = gReq[s]
      OBVIOUS
    <3>2. RequestHolds(p)
      BY <3>1 DEF GraphInv
    <3>3. PICK n : n = Graph!Stale(p)
      OBVIOUS
    <3>4. gReq'[s] = n
      BY <1>1, <2>2, <3>1, <3>3
    <3>5. RequestHolds(n)'
      BY <3>2, <3>3, StaleHolds
    <3> QED BY <3>4, <3>5
  <2> QED BY <2>1, <2>2
<1> QED BY <1>1, <1>2

\* A request that has come, and reads only.
LEMMA NothingWrittenToGraph ==
  ASSUME GraphInv, GraphIsSet, UNCHANGED <<gCi, edge, lost, answer, edits>>,
         requests' \in 0 .. MaxRequests,
         DOMAIN gReq' = Requests, \A s \in Requests : RequestHolds(gReq[s])'
  PROVE  GraphInv'
<1>1. Graph!TypeOK'
  BY DEF GraphInv, Graph!TypeOK, Graph!BothThere
<1>2. Graph!TunnelsHaveHubs'
  BY DEF GraphInv, Graph!TunnelsHaveHubs, Graph!HasHub
<1>3. Graph!SimulationHolds' /\ Graph!GraphIsWhole'
  BY DEF GraphInv, Graph!SimulationHolds, Graph!GraphIsWhole, Graph!Scoped
<1> QED BY <1>1, <1>2, <1>3 DEF GraphInv

LEMMA CreateKeepsGraph ==
  ASSUME GraphIsSet, GraphInv, NEW r \in Requests, NEW e \in Graph!Edges,
         NEW medium \in Mediums \cup {Graph!None},
         Graph!CreateLink(r, e, medium)
  PROVE  GraphInv'
<1>1. PICK q : q = [at |-> "write", kind |-> "link", e |-> e, medium |-> medium, stale |-> FALSE]
  OBVIOUS
<1>2. /\ UNCHANGED <<gCi, edge, lost, answer, edits>> /\ requests' \in 0 .. MaxRequests
      /\ Graph!Moves(r, q) /\ (medium # Graph!None => Graph!BothThere(e) /\ Graph!HasHub(e))
  BY <1>1 DEF Graph!CreateLink, Graph!Arrives, GraphInv, Graph!TypeOK, GraphIsSet
<1>3. q \in LinkRequests /\ q.e = e /\ q.medium = medium
  BY <1>1 DEF LinkRequests
<1>4. RequestHolds(q)
  BY <1>2, <1>3 DEF RequestHolds, LinkHolds
<1>5. RequestHolds(q)'
  BY <1>2, <1>4, ReadingStays
<1>6. DOMAIN gReq' = Requests /\ \A s \in Requests : RequestHolds(gReq[s])'
  BY <1>2, <1>5, RequestsMove
<1> QED BY <1>2, <1>6, NothingWrittenToGraph

LEMMA AskKeepsGraph ==
  ASSUME GraphIsSet, GraphInv, NEW r \in Requests, NEW u \in Viewers, NEW f \in Filters,
         NEW g \in Filters,
         NEW rel \in Rels,
         \/ Graph!MassCreate(r, u, f, g, rel)
         \/ Graph!MassChange(r, u, f, g, "delete", rel, rel)
         \/ \E new \in Rels : Graph!MassChange(r, u, f, g, "update", rel, new)
  PROVE  GraphInv'
<1>1. CASE Graph!MassCreate(r, u, f, g, rel)
  <2>0. PICK b : b = Graph!Ask("create", "warn", u, rel)
    OBVIOUS
  <2>1. PICK q : q = [b EXCEPT !.f = f, !.g = g, !.counted = Graph!Simulation(f, g, u)]
    OBVIOUS
  <2>2. /\ UNCHANGED <<gCi, edge, lost, answer, edits>> /\ requests' \in 0 .. MaxRequests
        /\ Graph!Moves(r, q)
    BY <1>1, <2>0, <2>1 DEF Graph!MassCreate, Graph!Arrives, GraphInv, Graph!TypeOK, GraphIsSet
  <2>3. /\ DOMAIN b = MassFields /\ b.kind = "create" /\ b.at = "warn" /\ b.user = u /\ b.rel = rel
        /\ b.new = rel /\ b.stale = FALSE /\ b.src = {} /\ b.tgt = {}
    BY <2>0 DEF Graph!Ask, MassFields
  <2>4. /\ DOMAIN q = MassFields /\ q.kind = "create" /\ q.at = "warn" /\ q.user = u /\ q.rel = rel
        /\ q.new = rel /\ q.stale = FALSE /\ q.src = {} /\ q.tgt = {} /\ q.f = f /\ q.g = g
        /\ q.counted = Graph!Simulation(f, g, u)
    BY <2>1, <2>3 DEF MassFields
  <2>5. MassHolds(q)
    BY <2>4 DEF MassHolds, HasRead, Phases
  <2>6. RequestHolds(q)'
    BY <2>2, <2>5, ReadingStays DEF RequestHolds
  <2>7. DOMAIN gReq' = Requests /\ \A s \in Requests : RequestHolds(gReq[s])'
    BY <2>2, <2>6, RequestsMove
  <2> QED BY <2>2, <2>7, NothingWrittenToGraph
<1>2. ASSUME NEW kind \in {"delete", "update"}, NEW new \in Rels,
             Graph!MassChange(r, u, f, g, kind, rel, new)
      PROVE  GraphInv'
  <2>0. PICK b : b = Graph!Ask(kind, "read", u, rel)
    OBVIOUS
  <2>1. PICK q : q = [b EXCEPT !.f = f, !.g = g, !.new = new]
    OBVIOUS
  <2>2. /\ UNCHANGED <<gCi, edge, lost, answer, edits>> /\ requests' \in 0 .. MaxRequests
        /\ Graph!Moves(r, q)
    <3>0. UNCHANGED <<gCi, edge, lost, answer, edits>> /\ Graph!Arrives(r)
      BY <1>2, Zenon DEF Graph!MassChange
    <3>1. UNCHANGED <<gCi, edge, lost, answer, edits>> /\ requests' \in 0 .. MaxRequests
      BY <3>0 DEF Graph!Arrives, GraphInv, Graph!TypeOK, GraphIsSet
    <3>2. Graph!Moves(r, [b EXCEPT !.f = f, !.g = g, !.new = new])
      BY <1>2, <2>0, Zenon DEF Graph!MassChange
    <3> QED BY <3>1, <3>2, <2>1
  <2>3. /\ DOMAIN b = MassFields /\ b.kind = kind /\ b.at = "read" /\ b.user = u /\ b.rel = rel
        /\ b.new = rel /\ b.stale = FALSE /\ b.src = {} /\ b.tgt = {}
    BY <2>0 DEF Graph!Ask, MassFields
  <2>4. /\ DOMAIN q = MassFields /\ q.kind = kind /\ q.at = "read" /\ q.user = u /\ q.rel = rel
        /\ q.new = new /\ q.stale = FALSE /\ q.src = {} /\ q.tgt = {}
    BY <2>1, <2>3 DEF MassFields
  <2>5. MassHolds(q)
    BY <2>4 DEF MassHolds, HasRead, Phases
  <2>6. RequestHolds(q)'
    BY <2>2, <2>5, ReadingStays DEF RequestHolds
  <2>7. DOMAIN gReq' = Requests /\ \A s \in Requests : RequestHolds(gReq[s])'
    BY <2>2, <2>6, RequestsMove
  <2> QED BY <2>2, <2>7, NothingWrittenToGraph
<1> QED BY <1>1, <1>2

LEMMA ShowKeepsGraph ==
  ASSUME GraphIsSet, GraphInv, NEW r \in Requests, NEW u \in Viewers,
         NEW layer \in Layers \cup {Graph!None},
         Graph!GraphNodes(r, u, layer)
  PROVE  GraphInv'
<1>0. PICK b : b = Graph!Ask("graph", "links", u, Graph!None)
  OBVIOUS
<1>1. PICK q : q = [b EXCEPT !.layer = layer, !.nodes = Graph!Shown(layer, u)]
  OBVIOUS
<1>2. /\ UNCHANGED <<gCi, edge, lost, answer, edits>> /\ requests' \in 0 .. MaxRequests
      /\ Graph!Moves(r, q)
  BY <1>0, <1>1 DEF Graph!GraphNodes, Graph!Arrives, GraphInv, Graph!TypeOK, GraphIsSet
<1>3. /\ DOMAIN b = MassFields /\ b.kind = "graph" /\ b.at = "links" /\ b.user = u /\ b.rel = Graph!None
      /\ b.new = Graph!None /\ b.stale = FALSE /\ b.src = {} /\ b.tgt = {}
  BY <1>0 DEF Graph!Ask, MassFields
<1>4. /\ DOMAIN q = MassFields /\ q.kind = "graph" /\ q.at = "links" /\ q.user = u /\ q.rel = Graph!None
      /\ q.new = Graph!None /\ q.stale = FALSE /\ q.src = {} /\ q.tgt = {}
      /\ q.layer = layer /\ q.nodes = Graph!Shown(layer, u)
  BY <1>1, <1>3 DEF MassFields
<1>5. MassHolds(q)
  BY <1>4 DEF MassHolds, HasRead, Phases
<1>6. RequestHolds(q)'
  BY <1>2, <1>5, ReadingStays DEF RequestHolds
<1>7. DOMAIN gReq' = Requests /\ \A s \in Requests : RequestHolds(gReq[s])'
  BY <1>2, <1>6, RequestsMove
<1> QED BY <1>2, <1>7, NothingWrittenToGraph

LEMMA MassRequests ==
  ASSUME GraphInv, NEW r \in Requests, NEW q, q = gReq[r]
  PROVE  /\ q.at \in {"warn", "read", "links"} => MassHolds(q)
         /\ q.at = "write" /\ q.kind # "link" => MassHolds(q)
         /\ q.at = "write" /\ q.kind = "link" => LinkHolds(q)
<1>1. RequestHolds(q)
  BY DEF GraphInv
<1>2. CASE q = Graph!Idle
  BY <1>2 DEF Graph!Idle
<1>3. CASE LinkHolds(q)
  BY <1>3 DEF LinkHolds, LinkRequests
<1>4. CASE MassHolds(q)
  BY <1>4 DEF MassHolds, Phases
<1> QED BY <1>1, <1>2, <1>3, <1>4 DEF RequestHolds

LEMMA WarnKeepsGraph ==
  ASSUME GraphIsSet, GraphInv, NEW r \in Requests, Graph!MassWarn(r)
  PROVE  GraphInv'
<1>1. PICK q : q = gReq[r]
  OBVIOUS
<1>2. PICK p : p = [q EXCEPT !.at = "read", !.warned = Graph!Related(q)]
  OBVIOUS
<1>3. /\ UNCHANGED <<gCi, edge, lost, answer, requests, edits>> /\ q.at = "warn" /\ Graph!Moves(r, p)
  BY <1>1, <1>2 DEF Graph!MassWarn
<1>4. MassHolds(q) /\ q.kind = "create"
  <2>1. MassHolds(q)
    BY <1>1, <1>3, MassRequests
  <2> QED BY <2>1, <1>3 DEF MassHolds, Phases
<1>5. /\ DOMAIN p = MassFields /\ p.kind = "create" /\ p.at = "read" /\ p.user = q.user /\ p.rel = q.rel
      /\ p.new = q.new /\ p.stale = q.stale /\ p.src = q.src /\ p.tgt = q.tgt /\ p.f = q.f /\ p.g = q.g
      /\ p.counted = q.counted /\ p.warned = Graph!Related(q)
  BY <1>2, <1>4 DEF MassFields, MassHolds
<1>6. Graph!Related(p) = Graph!Related(q)
  BY <1>5 DEF Graph!Related
<1>7. MassHolds(p)
  BY <1>4, <1>5, <1>6 DEF MassHolds, HasRead, Phases
<1>8. RequestHolds(p)'
  BY <1>3, <1>7, ReadingStays DEF RequestHolds
<1>9. DOMAIN gReq' = Requests /\ \A s \in Requests : RequestHolds(gReq[s])'
  BY <1>3, <1>8, RequestsMove
<1>10. requests' \in 0 .. MaxRequests
  BY <1>3 DEF GraphInv, Graph!TypeOK
<1> QED BY <1>3, <1>9, <1>10, NothingWrittenToGraph

LEMMA ReadKeepsGraph ==
  ASSUME GraphIsSet, GraphInv, NEW r \in Requests, Graph!ReadNodes(r)
  PROVE  GraphInv'
<1>1. PICK q : q = gReq[r]
  OBVIOUS
<1>2. PICK p : p = [q EXCEPT !.at = "write", !.src = Graph!Selected(q.f, q.user),
                             !.tgt = Graph!Selected(q.g, q.user)]
  OBVIOUS
<1>3. /\ UNCHANGED <<gCi, edge, lost, answer, requests, edits>> /\ q.at = "read" /\ Graph!Moves(r, p)
  BY <1>1, <1>2 DEF Graph!ReadNodes
<1>4. MassHolds(q) /\ q.kind \in {"create", "delete", "update"}
  <2>1. MassHolds(q)
    BY <1>1, <1>3, MassRequests
  <2> QED BY <2>1, <1>3 DEF MassHolds, Phases
<1>5. /\ DOMAIN p = MassFields /\ p.kind = q.kind /\ p.at = "write" /\ p.user = q.user /\ p.rel = q.rel
      /\ p.new = q.new /\ p.stale = q.stale /\ p.f = q.f /\ p.g = q.g
      /\ p.counted = q.counted /\ p.warned = q.warned
      /\ p.src = Graph!Selected(q.f, q.user) /\ p.tgt = Graph!Selected(q.g, q.user)
  BY <1>2, <1>4 DEF MassFields, MassHolds
<1>6. Graph!Related(p) = Graph!Related(q)
  BY <1>5 DEF Graph!Related
<1>7. p.src \subseteq Nodes /\ p.tgt \subseteq Nodes
  BY <1>5 DEF Graph!Selected, GraphInv, Graph!TypeOK
<1>8. MassHolds(p)
  BY <1>3, <1>4, <1>5, <1>6, <1>7 DEF MassHolds, HasRead, Phases
<1>9. RequestHolds(p)'
  BY <1>3, <1>8, ReadingStays DEF RequestHolds
<1>10. DOMAIN gReq' = Requests /\ \A s \in Requests : RequestHolds(gReq[s])'
  BY <1>3, <1>9, RequestsMove
<1>11. requests' \in 0 .. MaxRequests
  BY <1>3 DEF GraphInv, Graph!TypeOK
<1> QED BY <1>3, <1>10, <1>11, NothingWrittenToGraph

\* A write ends its request.
LEMMA RequestEnds ==
  ASSUME GraphInv, NEW r \in Requests, Graph!Moves(r, Graph!Idle)
  PROVE  DOMAIN gReq' = Requests /\ \A s \in Requests : RequestHolds(gReq[s])'
<1>1. PICK q : q = Graph!Idle
  OBVIOUS
<1>2. RequestHolds(q)'
  BY <1>1 DEF RequestHolds, Graph!Idle
<1> QED BY <1>1, <1>2, RequestsMove

\* The links after a write that leaves the CIs.
LEMMA LinksAreWritten ==
  ASSUME GraphInv, GraphIsSet, UNCHANGED <<gCi, edits>>, requests' \in 0 .. MaxRequests,
         DOMAIN edge' \subseteq Graph!Edges, lost' \subseteq DOMAIN edge',
         \A e \in DOMAIN edge' : edge'[e] \in Mediums \cup {Graph!None} /\ Graph!BothThere(e)
                                 /\ (edge'[e] # Graph!None => Graph!HasHub(e) \/ e \in lost')
  PROVE  Graph!TypeOK' /\ Graph!TunnelsHaveHubs'
<1>1. Graph!TypeOK'
  BY DEF GraphInv, Graph!TypeOK, Graph!BothThere, Graph!Edges
<1>2. Graph!TunnelsHaveHubs'
  BY DEF GraphInv, Graph!TunnelsHaveHubs, Graph!HasHub
<1> QED BY <1>1, <1>2

LEMMA AnswerStays ==
  ASSUME GraphInv, UNCHANGED answer
  PROVE  Graph!SimulationHolds' /\ Graph!GraphIsWhole'
BY DEF GraphInv, Graph!SimulationHolds, Graph!GraphIsWhole, Graph!Scoped

LEMMA WriteLinkKeepsGraph ==
  ASSUME GraphIsSet, GraphInv, NEW r \in Requests, Graph!WriteLink(r)
  PROVE  GraphInv'
<1>1. PICK q : q = gReq[r]
  OBVIOUS
<1>2. /\ UNCHANGED <<gCi, answer, requests, edits>> /\ Graph!Moves(r, Graph!Idle)
      /\ q.at = "write" /\ q.kind = "link"
      /\ edge' = IF Graph!BothThere(q.e)
                 THEN [e \in DOMAIN edge \cup {q.e} |->
                         IF e = q.e /\ q.medium # Graph!None THEN q.medium
                         ELSE Graph!Linked({q.e} \cup DOMAIN edge)[e]]
                 ELSE edge
      /\ lost' = IF q.medium = Graph!None \/ ~Graph!BothThere(q.e) THEN lost
                 ELSE IF q.stale THEN lost \cup {q.e} ELSE lost \ {q.e}
  BY <1>1 DEF Graph!WriteLink
<1>3. /\ q \in LinkRequests
      /\ (~q.stale /\ q.medium # Graph!None => Graph!BothThere(q.e) /\ Graph!HasHub(q.e))
  BY <1>1, <1>2, MassRequests DEF LinkHolds
<1>4. q.e \in Graph!Edges /\ q.medium \in Mediums \cup {Graph!None} /\ q.stale \in BOOLEAN
  BY <1>3 DEF LinkRequests
<1>5. DOMAIN gReq' = Requests /\ \A s \in Requests : RequestHolds(gReq[s])'
  BY <1>2, RequestEnds
<1>6. requests' \in 0 .. MaxRequests /\ DOMAIN edge \subseteq Graph!Edges /\ lost \subseteq DOMAIN edge
  BY <1>2 DEF GraphInv, Graph!TypeOK
<1>7. \A e \in DOMAIN edge : edge[e] \in Mediums \cup {Graph!None} /\ Graph!BothThere(e)
                             /\ (edge[e] # Graph!None => Graph!HasHub(e) \/ e \in lost)
  BY DEF GraphInv, Graph!TypeOK, Graph!TunnelsHaveHubs
<1>8. CASE ~Graph!BothThere(q.e)
  <2>1. edge' = edge /\ lost' = lost
    BY <1>2, <1>8
  <2>2. Graph!TypeOK' /\ Graph!TunnelsHaveHubs'
    BY <2>1, <1>2, <1>6, <1>7, LinksAreWritten
  <2> QED BY <2>2, <1>2, <1>5, AnswerStays DEF GraphInv
<1>9. CASE Graph!BothThere(q.e)
  <2>1. edge' = [e \in DOMAIN edge \cup {q.e} |->
                   IF e = q.e /\ q.medium # Graph!None THEN q.medium
                   ELSE IF e \in DOMAIN edge THEN edge[e] ELSE Graph!None]
    BY <1>2, <1>9 DEF Graph!Linked
  <2>2. DOMAIN edge' = DOMAIN edge \cup {q.e}
    BY <2>1
  <2>3. lost' \subseteq DOMAIN edge' /\ DOMAIN edge' \subseteq Graph!Edges
    BY <2>2, <1>2, <1>4, <1>6
  <2>4. ASSUME NEW e \in DOMAIN edge'
        PROVE  /\ edge'[e] \in Mediums \cup {Graph!None} /\ Graph!BothThere(e)
               /\ (edge'[e] # Graph!None => Graph!HasHub(e) \/ e \in lost')
    <3>1. CASE e = q.e /\ q.medium # Graph!None
      <4>1. edge'[e] = q.medium
        BY <2>1, <3>1
      <4>2. q.stale => e \in lost'
        BY <1>2, <1>9, <3>1
      <4> QED BY <4>1, <4>2, <3>1, <1>3, <1>4, <1>9
    <3>2. CASE (e = q.e /\ q.medium = Graph!None) \/ (e # q.e)
      <4>1. edge'[e] = IF e \in DOMAIN edge THEN edge[e] ELSE Graph!None
        BY <2>1, <2>2, <3>2
      <4>2. e \in lost => e \in lost'
        BY <1>2, <3>2
      <4>3. e \in DOMAIN edge \/ e = q.e
        BY <2>2
      <4> QED BY <4>1, <4>2, <4>3, <1>7, <1>9
    <3> QED BY <3>1, <3>2
  <2>5. Graph!TypeOK' /\ Graph!TunnelsHaveHubs'
    BY <2>3, <2>4, <1>2, <1>6, LinksAreWritten
  <2> QED BY <2>5, <1>2, <1>5, AnswerStays DEF GraphInv
<1> QED BY <1>8, <1>9

\* A write that takes links away, or that adds links without a medium.
LEMMA LinkedKeepsGraph ==
  ASSUME GraphIsSet, GraphInv, UNCHANGED <<gCi, edits>>, requests' \in 0 .. MaxRequests,
         NEW es, es \subseteq Graph!Edges, \A e \in es : Graph!BothThere(e),
         edge' = Graph!Linked(es), lost' = lost \cap es
  PROVE  Graph!TypeOK' /\ Graph!TunnelsHaveHubs'
<1>1. DOMAIN edge' = es /\ \A e \in es : edge'[e] = IF e \in DOMAIN edge THEN edge[e] ELSE Graph!None
  BY DEF Graph!Linked
<1>2. \A e \in DOMAIN edge : edge[e] \in Mediums \cup {Graph!None}
                             /\ (edge[e] # Graph!None => Graph!HasHub(e) \/ e \in lost)
  BY DEF GraphInv, Graph!TypeOK, Graph!TunnelsHaveHubs
<1>3. ASSUME NEW e \in DOMAIN edge'
      PROVE  /\ edge'[e] \in Mediums \cup {Graph!None} /\ Graph!BothThere(e)
             /\ (edge'[e] # Graph!None => Graph!HasHub(e) \/ e \in lost')
  BY <1>1, <1>2
<1>4. lost' \subseteq DOMAIN edge' /\ DOMAIN edge' \subseteq Graph!Edges
  BY <1>1
<1> QED BY <1>3, <1>4, LinksAreWritten

LEMMA DeleteLinkKeepsGraph ==
  ASSUME GraphIsSet, GraphInv, NEW r \in Requests, NEW e \in Graph!Edges, Graph!DeleteLink(r, e)
  PROVE  GraphInv'
<1>1. /\ UNCHANGED <<gCi, answer, edits>> /\ Graph!Moves(r, Graph!Idle)
      /\ edge' = Graph!Linked(DOMAIN edge \ {e}) /\ lost' = lost \ {e} /\ Graph!Arrives(r)
  BY DEF Graph!DeleteLink
<1>2. requests' \in 0 .. MaxRequests
  BY <1>1 DEF Graph!Arrives, GraphInv, Graph!TypeOK, GraphIsSet
<1>3. DOMAIN edge \subseteq Graph!Edges /\ lost \subseteq DOMAIN edge
      /\ \A d \in DOMAIN edge : Graph!BothThere(d)
  BY DEF GraphInv, Graph!TypeOK
<1>4. PICK es : es = DOMAIN edge \ {e}
  OBVIOUS
<1>5. es \subseteq Graph!Edges /\ (\A d \in es : Graph!BothThere(d)) /\ lost' = lost \cap es
  BY <1>1, <1>3, <1>4
<1>6. Graph!TypeOK' /\ Graph!TunnelsHaveHubs'
  BY <1>1, <1>2, <1>4, <1>5, LinkedKeepsGraph
<1>7. DOMAIN gReq' = Requests /\ \A s \in Requests : RequestHolds(gReq[s])'
  BY <1>1, RequestEnds
<1> QED BY <1>1, <1>6, <1>7, AnswerStays DEF GraphInv

LEMMA MassDeleteKeepsGraph ==
  ASSUME GraphIsSet, GraphInv, NEW r \in Requests, Graph!WriteMassDelete(r)
  PROVE  GraphInv'
<1>1. PICK m : m = Graph!Matched(gReq[r])
  OBVIOUS
<1>2. /\ UNCHANGED <<gCi, answer, requests, edits>> /\ Graph!Moves(r, Graph!Idle)
      /\ edge' = Graph!Linked(DOMAIN edge \ m) /\ lost' = lost \ m
  BY <1>1 DEF Graph!WriteMassDelete
<1>3. DOMAIN edge \subseteq Graph!Edges /\ lost \subseteq DOMAIN edge /\ requests \in 0 .. MaxRequests
      /\ \A d \in DOMAIN edge : Graph!BothThere(d)
  BY DEF GraphInv, Graph!TypeOK
<1>4. PICK es : es = DOMAIN edge \ m
  OBVIOUS
<1>5. es \subseteq Graph!Edges /\ (\A d \in es : Graph!BothThere(d)) /\ lost' = lost \cap es
  BY <1>2, <1>3, <1>4
<1>6. Graph!TypeOK' /\ Graph!TunnelsHaveHubs'
  BY <1>2, <1>3, <1>4, <1>5, LinkedKeepsGraph
<1>7. DOMAIN gReq' = Requests /\ \A s \in Requests : RequestHolds(gReq[s])'
  BY <1>2, RequestEnds
<1> QED BY <1>2, <1>6, <1>7, AnswerStays DEF GraphInv

LEMMA MassUpdateKeepsGraph ==
  ASSUME GraphIsSet, GraphInv, NEW r \in Requests, Graph!WriteMassUpdate(r)
  PROVE  GraphInv'
<1>1. PICK q : q = gReq[r]
  OBVIOUS
<1>2. PICK m : m = Graph!Matched(q)
  OBVIOUS
<1>3. PICK kept : kept = DOMAIN edge \ m
  OBVIOUS
<1>4. PICK renamed : renamed = {<<e[1], q.new, e[3]>> : e \in m}
  OBVIOUS
<1>5. /\ UNCHANGED <<gCi, answer, requests, edits>> /\ Graph!Moves(r, Graph!Idle)
      /\ q.at = "write" /\ q.kind = "update"
      /\ edge' = [e \in kept \cup renamed |-> IF e \in kept THEN edge[e] ELSE Graph!None]
      /\ lost' = lost \cap kept
  BY <1>1, <1>2, <1>3, <1>4 DEF Graph!WriteMassUpdate
<1>6. q.new \in Rels
  BY <1>1, <1>5, MassRequests DEF MassHolds
<1>7. DOMAIN edge \subseteq Graph!Edges /\ lost \subseteq DOMAIN edge /\ requests \in 0 .. MaxRequests
      /\ \A d \in DOMAIN edge : Graph!BothThere(d)
  BY DEF GraphInv, Graph!TypeOK
<1>8. m \subseteq DOMAIN edge
  BY <1>2 DEF Graph!Matched
<1>9. ASSUME NEW e \in renamed PROVE e \in Graph!Edges /\ Graph!BothThere(e)
  <2>1. PICK d \in m : e = <<d[1], q.new, d[3]>>
    BY <1>4
  <2>2. d \in Graph!Edges /\ Graph!BothThere(d)
    BY <1>7, <1>8
  <2>3. e[1] = d[1] /\ e[3] = d[3]
    BY <2>1
  <2> QED BY <2>1, <2>2, <2>3, <1>6 DEF Graph!Edges, Graph!BothThere
<1>10. DOMAIN edge' = kept \cup renamed
  BY <1>5
<1>11. DOMAIN edge' \subseteq Graph!Edges /\ lost' \subseteq DOMAIN edge'
  BY <1>3, <1>5, <1>7, <1>9, <1>10
<1>12. \A e \in DOMAIN edge : edge[e] \in Mediums \cup {Graph!None}
                             /\ (edge[e] # Graph!None => Graph!HasHub(e) \/ e \in lost)
  BY DEF GraphInv, Graph!TypeOK, Graph!TunnelsHaveHubs
<1>13. ASSUME NEW e \in DOMAIN edge'
       PROVE  /\ edge'[e] \in Mediums \cup {Graph!None} /\ Graph!BothThere(e)
              /\ (edge'[e] # Graph!None => Graph!HasHub(e) \/ e \in lost')
  <2>1. edge'[e] = IF e \in kept THEN edge[e] ELSE Graph!None
    BY <1>5, <1>10
  <2>2. e \in kept => e \in DOMAIN edge
    BY <1>3
  <2> QED BY <2>1, <2>2, <1>5, <1>7, <1>9, <1>10, <1>12
<1>14. Graph!TypeOK' /\ Graph!TunnelsHaveHubs'
  BY <1>5, <1>7, <1>11, <1>13, LinksAreWritten
<1>15. DOMAIN gReq' = Requests /\ \A s \in Requests : RequestHolds(gReq[s])'
  BY <1>5, RequestEnds
<1> QED BY <1>5, <1>14, <1>15, AnswerStays DEF GraphInv

\* The links of a mass creation are no more than the pairs that were counted.
LEMMA MassLinksAreCounted ==
  ASSUME NEW q, IsFiniteSet(q.src), IsFiniteSet(q.tgt)
  PROVE  /\ IsFiniteSet(Graph!MassLinks(q))
         /\ Cardinality(Graph!MassLinks(q)) \in Nat
         /\ Cardinality(Graph!MassLinks(q)) <= Cardinality(q.src) * Cardinality(q.tgt)
<1>1. PICK made : made = Graph!MassLinks(q)
  OBVIOUS
<1>2. PICK pairs : pairs = q.src \X q.tgt
  OBVIOUS
<1>3. IsFiniteSet(pairs) /\ Cardinality(pairs) = Cardinality(q.src) * Cardinality(q.tgt)
  BY <1>2, FS_Product
<1>4. made \subseteq q.src \X {q.rel} \X q.tgt
  BY <1>1 DEF Graph!MassLinks
<1>5. PICK f : f = [e \in made |-> <<e[1], e[3]>>]
  OBVIOUS
<1>6. f \in [made -> pairs]
  BY <1>2, <1>4, <1>5
<1>7. ASSUME NEW e \in made, NEW d \in made, f[e] = f[d]
      PROVE  e = d
  <2>1. e \in q.src \X {q.rel} \X q.tgt /\ d \in q.src \X {q.rel} \X q.tgt
    BY <1>4
  <2>2. <<e[1], e[3]>> = <<d[1], d[3]>>
    BY <1>5, <1>7
  <2> QED BY <2>1, <2>2
<1>8. f \in Injection(made, pairs)
  BY <1>6, <1>7 DEF Injection, IsInjective
<1>9. IsFiniteSet(made) /\ Cardinality(made) <= Cardinality(pairs)
  BY <1>3, <1>8, FS_Injection
<1>10. Cardinality(made) \in Nat
  BY <1>9, FS_CardinalityType
<1> QED BY <1>1, <1>3, <1>9, <1>10

LEMMA SelectedIsFinite ==
  ASSUME GraphIsSet, GraphInv, NEW f, NEW u
  PROVE  IsFiniteSet(Graph!Selected(f, u)) /\ Graph!Selected(f, u) \subseteq DOMAIN gCi
<1>1. Graph!Selected(f, u) \subseteq DOMAIN gCi /\ DOMAIN gCi \subseteq Nodes
  BY DEF Graph!Selected, GraphInv, Graph!TypeOK
<1> QED BY <1>1, FS_Subset DEF GraphIsSet

LEMMA MassLinksKeepGraph ==
  ASSUME GraphIsSet, GraphInv, NEW r \in Requests, Graph!WriteMassLinks(r)
  PROVE  GraphInv'
<1>1. PICK q : q = gReq[r]
  OBVIOUS
<1>2. PICK made : made = Graph!MassLinks(q)
  OBVIOUS
<1>3. /\ UNCHANGED <<gCi, lost, requests, edits>> /\ Graph!Moves(r, Graph!Idle)
      /\ q.at = "write" /\ q.kind = "create"
      /\ edge' = Graph!Linked(DOMAIN edge \cup made)
      /\ answer' = [kind |-> "create", user |-> q.user, stale |-> q.stale, counted |-> q.counted,
                    warned |-> q.warned, total |-> Cardinality(made),
                    created |-> Cardinality(made \ DOMAIN edge)]
  BY <1>1, <1>2, GraphCount DEF Graph!WriteMassLinks
<1>4. MassHolds(q)
  BY <1>1, <1>3, MassRequests
<1>5. q.rel \in Rels /\ q.src \subseteq Nodes /\ q.tgt \subseteq Nodes
  BY <1>3, <1>4 DEF MassHolds
<1>6. DOMAIN edge \subseteq Graph!Edges /\ lost \subseteq DOMAIN edge /\ requests \in 0 .. MaxRequests
      /\ \A d \in DOMAIN edge : Graph!BothThere(d)
  BY DEF GraphInv, Graph!TypeOK
<1>7. made \subseteq Graph!Edges /\ \A d \in made : Graph!BothThere(d)
  BY <1>2, <1>5 DEF Graph!MassLinks, Graph!Edges
<1>8. PICK es : es = DOMAIN edge \cup made
  OBVIOUS
<1>9. es \subseteq Graph!Edges /\ (\A d \in es : Graph!BothThere(d)) /\ lost' = lost \cap es
  BY <1>3, <1>6, <1>7, <1>8
<1>10. Graph!TypeOK' /\ Graph!TunnelsHaveHubs'
  BY <1>3, <1>6, <1>8, <1>9, LinkedKeepsGraph
<1>11. ASSUME ~q.stale
       PROVE  /\ Cardinality(made) <= q.counted
              /\ Cardinality(made \ DOMAIN edge) < Cardinality(made)
                   /\ (Graph!Scoped(q.user) => Allowed[q.user] # {}) => q.warned # {}
  <2>1. HasRead(q)
    BY <1>4, <1>11 DEF MassHolds
  <2>2. /\ q.counted = Graph!Simulation(q.f, q.g, q.user) /\ q.warned = Graph!Related(q)
        /\ q.src = Graph!Selected(q.f, q.user) /\ q.tgt = Graph!Selected(q.g, q.user)
    BY <2>1, <1>3 DEF HasRead
  <2>3. IsFiniteSet(q.src) /\ IsFiniteSet(q.tgt)
    BY <2>2, SelectedIsFinite
  <2>4. Graph!Simulation(q.f, q.g, q.user) = Cardinality(q.src) * Cardinality(q.tgt)
    BY <2>2, GraphCount, Zenon DEF Graph!Simulation
  <2>5. /\ IsFiniteSet(made) /\ Cardinality(made) \in Nat
        /\ Cardinality(made) <= q.counted
    BY <2>2, <2>3, <2>4, <1>2, MassLinksAreCounted
  <2>6. ASSUME Cardinality(made \ DOMAIN edge) < Cardinality(made),
               Graph!Scoped(q.user) => Allowed[q.user] # {}
        PROVE  q.warned # {}
    <3>1. made \ DOMAIN edge # made
      BY <2>5, <2>6
    <3>2. PICK e \in made : e \in DOMAIN edge
      BY <3>1
    <3>3. e \in q.src \X {q.rel} \X q.tgt
      BY <3>2, <1>2 DEF Graph!MassLinks
    <3>4. e[1] \in q.src /\ e[2] = q.rel
      BY <3>3
    <3>5. e[1] \in Graph!Selected(q.f, q.user)
      BY <3>4, <2>2
    <3>6. Graph!Scoped(q.user) => Graph!In(q.user, e[1])
      BY <3>5, <2>6 DEF Graph!Selected
    <3>7. e \in Graph!AsSource(e[1], q.user)
      BY <3>2, <3>6 DEF Graph!AsSource
    <3>8. e[1] \in Graph!Related(q)
      BY <3>4, <3>5, <3>7 DEF Graph!Related
    <3> QED BY <3>8, <2>2
  <2> QED BY <2>5, <2>6
<1>12. Graph!SimulationHolds' /\ Graph!GraphIsWhole'
  BY <1>3, <1>11 DEF Graph!SimulationHolds, Graph!GraphIsWhole, Graph!Scoped
<1>13. DOMAIN gReq' = Requests /\ \A s \in Requests : RequestHolds(gReq[s])'
  BY <1>3, RequestEnds
<1> QED BY <1>10, <1>12, <1>13 DEF GraphInv

\* What a request of the graph has read as nodes meets its conditions.
LEMMA NodesMeet ==
  ASSUME NEW layer, NEW u, NEW c
  PROVE  c \in Graph!Shown(layer, u) <=>
           /\ c \in DOMAIN gCi /\ (layer # Graph!None => gCi[c].layer = layer)
           /\ (Graph!Scoped(u) => Allowed[u] # {} /\ Graph!In(u, c))
<1>1. /\ Graph!Anything(layer).ids = {} /\ Graph!Anything(layer).layer = layer
  BY DEF Graph!Anything
<1> QED BY <1>1 DEF Graph!Shown, Graph!Selected

LEMMA GraphLinksKeepGraph ==
  ASSUME GraphIsSet, GraphInv, NEW r \in Requests, Graph!GraphLinks(r)
  PROVE  GraphInv'
<1>1. PICK q : q = gReq[r]
  OBVIOUS
<1>2. PICK links : links = {e \in DOMAIN edge : \A k \in Graph!Conditions(q) :
                             Graph!Meets(k, q, e[1]) \/ Graph!Meets(k, q, e[3])}
  OBVIOUS
<1>3. /\ UNCHANGED <<gCi, edge, lost, requests, edits>> /\ Graph!Moves(r, Graph!Idle) /\ q.at = "links"
      /\ answer' = [kind |-> "graph", stale |-> q.stale,
         conditions |-> Cardinality(Graph!Conditions(q)),
                    nodes |-> q.nodes, links |-> links, all |-> DOMAIN edge]
  BY <1>1, <1>2, GraphCount DEF Graph!GraphLinks
<1>4. MassHolds(q) /\ q.kind = "graph"
  <2>1. MassHolds(q)
    BY <1>1, <1>3, MassRequests
  <2> QED BY <2>1, <1>3 DEF MassHolds, Phases
<1>5. \A k : k \in Graph!Conditions(q) <=> (k = "scope" /\ Graph!Scoped(q.user))
                                           \/ (k = "layer" /\ q.layer # Graph!None)
  BY DEF Graph!Conditions
<1>6. \A d \in DOMAIN edge : Graph!BothThere(d)
  BY DEF GraphInv, Graph!TypeOK
<1>7. ASSUME ~q.stale
      PROVE  /\ {e \in DOMAIN edge : {e[1], e[3]} \subseteq q.nodes} \subseteq links
             /\ Cardinality(Graph!Conditions(q)) < 2 => \A e \in links : {e[1], e[3]} \cap q.nodes # {}
  <2>1. q.nodes = Graph!Shown(q.layer, q.user)
    BY <1>4, <1>7 DEF MassHolds, HasRead
  <2>2. ASSUME NEW e \in DOMAIN edge, {e[1], e[3]} \subseteq q.nodes
        PROVE  e \in links
    <3>1. e[1] \in Graph!Shown(q.layer, q.user)
      BY <2>1, <2>2
    <3>2. \A k \in Graph!Conditions(q) : Graph!Meets(k, q, e[1])
      BY <3>1, <1>5, NodesMeet DEF Graph!Meets
    <3> QED BY <3>2, <1>2
  <2>3. ASSUME Cardinality(Graph!Conditions(q)) < 2
        PROVE  ~Graph!Scoped(q.user) \/ q.layer = Graph!None
    <3>1. SUFFICES ASSUME Graph!Scoped(q.user), q.layer # Graph!None PROVE FALSE
      OBVIOUS
    <3>2. Graph!Conditions(q) = {"scope"} \cup {"layer"}
      BY <3>1, <1>5
    <3>3. IsFiniteSet({"scope"}) /\ Cardinality({"scope"}) = 1
      BY FS_Singleton
    <3>4. Cardinality({"scope"} \cup {"layer"}) = 2
      BY <3>3, FS_AddElement
    <3> QED BY <2>3, <3>2, <3>4
  <2>4. ASSUME Cardinality(Graph!Conditions(q)) < 2, NEW e \in links
        PROVE  {e[1], e[3]} \cap q.nodes # {}
    <3>1. e \in DOMAIN edge /\ \A k \in Graph!Conditions(q) : Graph!Meets(k, q, e[1])
            \/ Graph!Meets(k, q, e[3])
      BY <2>4, <1>2
    <3>2. e[1] \in DOMAIN gCi /\ e[3] \in DOMAIN gCi
      BY <3>1, <1>6 DEF Graph!BothThere
    <3>3. CASE ~Graph!Scoped(q.user) /\ q.layer = Graph!None
      <4>1. e[1] \in q.nodes
        BY <3>2, <3>3, <2>1, NodesMeet
      <4> QED BY <4>1
    <3>4. CASE ~Graph!Scoped(q.user) /\ q.layer # Graph!None
      <4>1. gCi[e[1]].layer = q.layer \/ gCi[e[3]].layer = q.layer
        BY <3>1, <3>4, <1>5 DEF Graph!Meets
      <4>2. e[1] \in q.nodes \/ e[3] \in q.nodes
        BY <4>1, <3>2, <3>4, <2>1, NodesMeet
      <4> QED BY <4>2
    <3>5. CASE Graph!Scoped(q.user) /\ q.layer = Graph!None
      <4>1. Graph!In(q.user, e[1]) \/ Graph!In(q.user, e[3])
        BY <3>1, <3>5, <1>5 DEF Graph!Meets
      <4>2. Allowed[q.user] # {}
        BY <4>1 DEF Graph!In
      <4>3. e[1] \in q.nodes \/ e[3] \in q.nodes
        BY <4>1, <4>2, <3>2, <3>5, <2>1, NodesMeet
      <4> QED BY <4>3
    <3> QED BY <2>3, <2>4, <3>3, <3>4, <3>5
  <2> QED BY <2>2, <2>4
<1>8. Graph!SimulationHolds' /\ Graph!GraphIsWhole'
  BY <1>3, <1>7 DEF Graph!SimulationHolds, Graph!GraphIsWhole
<1>9. Graph!TypeOK'
  BY <1>3 DEF GraphInv, Graph!TypeOK, Graph!BothThere
<1>10. Graph!TunnelsHaveHubs'
  BY <1>3 DEF GraphInv, Graph!TunnelsHaveHubs, Graph!HasHub
<1>11. DOMAIN gReq' = Requests /\ \A s \in Requests : RequestHolds(gReq[s])'
  BY <1>3, RequestEnds
<1> QED BY <1>8, <1>9, <1>10, <1>11 DEF GraphInv

LEMMA EveryoneHolds ==
  ASSUME GraphInv, Graph!EveryoneNotices
  PROVE  DOMAIN gReq' = Requests /\ \A s \in Requests : RequestHolds(gReq[s])'
<1>1. gReq' = [s \in Requests |-> Graph!Stale(gReq[s])]
  BY DEF Graph!EveryoneNotices
<1>2. ASSUME NEW s \in Requests PROVE RequestHolds(gReq[s])'
  <2>1. PICK p : p = gReq[s]
    OBVIOUS
  <2>2. RequestHolds(p)
    BY <2>1 DEF GraphInv
  <2>3. PICK n : n = Graph!Stale(p)
    OBVIOUS
  <2>4. gReq'[s] = n
    BY <1>1, <2>1, <2>3
  <2>5. RequestHolds(n)'
    BY <2>2, <2>3, StaleHolds
  <2> QED BY <2>4, <2>5
<1> QED BY <1>1, <1>2

LEMMA UpsertKeepsGraph ==
  ASSUME GraphIsSet, GraphInv, NEW c \in Nodes, NEW layer \in Layers, NEW loc \in Locations,
         Graph!UpsertNode(c, layer, loc)
  PROVE  GraphInv'
<1>1. /\ gCi' = [d \in DOMAIN gCi \cup {c} |-> IF d = c THEN [layer |-> layer, loc |-> loc] ELSE gCi[d]]
      /\ lost' = lost \cup {e \in DOMAIN edge : c \in {e[1], e[3]} /\ Graph!HasHub(e)
         /\ ~Graph!HasHub(e)'}
      /\ UNCHANGED <<edge, answer, requests>> /\ Graph!EveryoneNotices /\ Graph!Edit
  BY DEF Graph!UpsertNode
<1>2. DOMAIN gReq' = Requests /\ \A s \in Requests : RequestHolds(gReq[s])'
  BY <1>1, EveryoneHolds
<1>3. edits' \in 0 .. MaxEdits
  BY <1>1 DEF Graph!Edit, GraphInv, Graph!TypeOK, GraphIsSet
<1>4. DOMAIN gCi' = DOMAIN gCi \cup {c}
  BY <1>1
<1>5. Graph!TypeOK'
  BY <1>1, <1>3, <1>4 DEF GraphInv, Graph!TypeOK, Graph!BothThere
<1>6. ASSUME NEW e \in DOMAIN edge, edge[e] # Graph!None
      PROVE  Graph!HasHub(e)' \/ e \in lost'
  <2>1. CASE e \in lost
    BY <1>1, <2>1
  <2>2. CASE e \notin lost
    <3>1. Graph!HasHub(e)
      BY <1>6, <2>2 DEF GraphInv, Graph!TunnelsHaveHubs
    <3>2. CASE c \in {e[1], e[3]}
      BY <1>1, <3>1, <3>2
    <3>3. CASE c \notin {e[1], e[3]}
      <4>1. Graph!HasHub(e)'
        BY <1>1, <1>4, <3>1, <3>3 DEF Graph!HasHub
      <4> QED BY <4>1
    <3> QED BY <3>2, <3>3
  <2> QED BY <2>1, <2>2
<1>7. Graph!TunnelsHaveHubs'
  BY <1>1, <1>6 DEF Graph!TunnelsHaveHubs
<1> QED BY <1>1, <1>2, <1>5, <1>7, AnswerStays DEF GraphInv

LEMMA DeleteKeepsGraph ==
  ASSUME GraphIsSet, GraphInv, NEW c \in Nodes, Graph!DeleteNode(c)
  PROVE  GraphInv'
<1>1. /\ gCi' = [d \in DOMAIN gCi \ {c} |-> gCi[d]]
      /\ edge' = Graph!Linked({e \in DOMAIN edge : c \notin {e[1], e[3]}})
      /\ lost' = lost \cap DOMAIN edge'
      /\ UNCHANGED <<answer, requests>> /\ Graph!EveryoneNotices /\ Graph!Edit
  BY DEF Graph!DeleteNode
<1>2. DOMAIN gReq' = Requests /\ \A s \in Requests : RequestHolds(gReq[s])'
  BY <1>1, EveryoneHolds
<1>3. edits' \in 0 .. MaxEdits
  BY <1>1 DEF Graph!Edit, GraphInv, Graph!TypeOK, GraphIsSet
<1>4. DOMAIN gCi' = DOMAIN gCi \ {c} /\ \A d \in DOMAIN gCi' : gCi'[d] = gCi[d]
  BY <1>1
<1>5. DOMAIN edge' = {e \in DOMAIN edge : c \notin {e[1], e[3]}}
        /\ \A e \in DOMAIN edge' : edge'[e] = edge[e]
  BY <1>1 DEF Graph!Linked
<1>6. Graph!TypeOK'
  BY <1>1, <1>3, <1>4, <1>5 DEF GraphInv, Graph!TypeOK, Graph!BothThere
<1>7. ASSUME NEW e \in DOMAIN edge', edge'[e] # Graph!None
      PROVE  Graph!HasHub(e)' \/ e \in lost'
  <2>1. e \in DOMAIN edge /\ edge[e] # Graph!None /\ c \notin {e[1], e[3]}
    BY <1>5, <1>7
  <2>2. Graph!HasHub(e) \/ e \in lost
    BY <2>1 DEF GraphInv, Graph!TunnelsHaveHubs
  <2>3. CASE e \in lost
    BY <1>1, <2>3
  <2>4. CASE Graph!HasHub(e)
    BY <1>4, <2>1, <2>4 DEF Graph!HasHub
  <2> QED BY <2>2, <2>3, <2>4
<1>8. Graph!TunnelsHaveHubs'
  BY <1>7 DEF Graph!TunnelsHaveHubs
<1> QED BY <1>1, <1>2, <1>6, <1>8, AnswerStays DEF GraphInv

LEMMA GraphStarts == ASSUME GraphIsSet, Graph!Init PROVE GraphInv
<1>1. /\ gCi \in [Nodes -> [layer : Layers, loc : Locations]] /\ edge = <<>> /\ lost = {}
      /\ gReq = [r \in Requests |-> Graph!Idle] /\ answer = [kind |-> "none"] /\ requests = 0
         /\ edits = 0
  BY DEF Graph!Init, Graph!NoAnswer
<1>2. DOMAIN edge = {}
  BY <1>1
<1>3. Graph!TypeOK /\ Graph!TunnelsHaveHubs
  BY <1>1, <1>2 DEF Graph!TypeOK, Graph!TunnelsHaveHubs, GraphIsSet
<1>4. Graph!SimulationHolds /\ Graph!GraphIsWhole
  BY <1>1 DEF Graph!SimulationHolds, Graph!GraphIsWhole
<1>5. DOMAIN gReq = Requests /\ \A r \in Requests : RequestHolds(gReq[r])
  BY <1>1 DEF RequestHolds
<1> QED BY <1>3, <1>4, <1>5 DEF GraphInv

LEMMA GraphUnchangedStays ==
  ASSUME GraphInv, UNCHANGED <<gCi, edge, gReq, lost, answer, requests, edits>>
  PROVE  GraphInv'
<1>1. ASSUME NEW s \in Requests PROVE RequestHolds(gReq[s])'
  <2>1. PICK q : q = gReq[s]
    OBVIOUS
  <2>2. RequestHolds(q)
    BY <2>1 DEF GraphInv
  <2>3. RequestHolds(q)'
    BY <2>2, ReadingStays
  <2> QED BY <2>1, <2>3
<1>2. DOMAIN gReq' = Requests
  BY DEF GraphInv
<1>3. Graph!TypeOK' /\ Graph!TunnelsHaveHubs'
  BY DEF GraphInv, Graph!TypeOK, Graph!TunnelsHaveHubs, Graph!BothThere, Graph!HasHub
<1> QED BY <1>1, <1>2, <1>3, AnswerStays DEF GraphInv

LEMMA GraphStep ==
  ASSUME GraphIsSet, GraphInv, [Graph!Next]_(Graph!vars)
  PROVE  GraphInv'
<1>1. CASE UNCHANGED Graph!vars
  BY <1>1, GraphUnchangedStays DEF Graph!vars
<1>2. ASSUME NEW r \in Requests, NEW e \in Graph!Edges, Graph!DeleteLink(r, e) PROVE GraphInv'
  BY <1>2, DeleteLinkKeepsGraph
<1>3. ASSUME NEW r \in Requests, NEW e \in Graph!Edges, NEW medium \in Mediums \cup {Graph!None},
             Graph!CreateLink(r, e, medium)
      PROVE  GraphInv'
  BY <1>3, CreateKeepsGraph
<1>4. ASSUME NEW r \in Requests, NEW u \in Viewers, NEW f \in Filters, NEW g \in Filters,
             NEW rel \in Rels,
             \/ Graph!MassCreate(r, u, f, g, rel)
             \/ Graph!MassChange(r, u, f, g, "delete", rel, rel)
             \/ \E new \in Rels : Graph!MassChange(r, u, f, g, "update", rel, new)
      PROVE  GraphInv'
  BY <1>4, Graph!None \in Layers \cup {Graph!None}, AskKeepsGraph
<1>5. ASSUME NEW r \in Requests, NEW u \in Viewers, NEW layer \in Layers \cup {Graph!None},
             Graph!GraphNodes(r, u, layer)
      PROVE  GraphInv'
  BY <1>5, ShowKeepsGraph
<1>6. ASSUME NEW r \in Requests,
             \/ Graph!WriteLink(r) \/ Graph!MassWarn(r) \/ Graph!ReadNodes(r) \/ Graph!GraphLinks(r)
             \/ Graph!WriteMassLinks(r) \/ Graph!WriteMassDelete(r) \/ Graph!WriteMassUpdate(r)
      PROVE  GraphInv'
  BY <1>6, WriteLinkKeepsGraph, WarnKeepsGraph, ReadKeepsGraph, GraphLinksKeepGraph, MassLinksKeepGraph,
     MassDeleteKeepsGraph, MassUpdateKeepsGraph
<1>7. ASSUME NEW c \in Nodes,
             Graph!DeleteNode(c) \/ \E layer \in Layers,
             loc \in Locations : Graph!UpsertNode(c, layer, loc)
      PROVE  GraphInv'
  BY <1>7, DeleteKeepsGraph, UpsertKeepsGraph
<1>8. CASE Graph!Next
  BY <1>2, <1>3, <1>4, <1>5, <1>6, <1>7, <1>8, Zenon DEF Graph!Next
<1> QED BY <1>1, <1>8

LEMMA GraphHolds == ASSUME GraphInv PROVE Graph!GraphHolds
BY DEF GraphInv, Graph!GraphHolds

\* A request only ends where its last step ends it.
LEMMA OthersGoOn ==
  ASSUME GraphInv, NEW r \in Requests, gReq[r].at = "write", NEW s \in Requests, NEW q,
         Graph!Moves(s, q),
         gReq'[r] = Graph!Idle
  PROVE  s = r /\ q = Graph!Idle
<1>1. PICK p : p = gReq[r]
  OBVIOUS
<1>2. gReq' = [t \in Requests |-> IF t = s THEN q ELSE Graph!Stale(gReq[t])]
  BY DEF Graph!Moves
<1>3. CASE s # r
  <2>1. Graph!Idle = Graph!Stale(p)
    BY <1>1, <1>2, <1>3
  <2>2. DOMAIN p # {"at"} \/ p.at # "idle"
    BY <1>1
  <2>3. p.at = "write" /\ (LinkHolds(p) \/ MassHolds(p))
    BY <1>1, MassRequests
  <2>4. "stale" \in DOMAIN p
    BY <2>3 DEF LinkHolds, MassHolds, LinkRequests, MassFields
  <2>5. Graph!Stale(p) = p \/ Graph!Stale(p) = [p EXCEPT !.stale = TRUE]
    BY DEF Graph!Stale
  <2>6. "stale" \in DOMAIN Graph!Idle
    BY <2>1, <2>4, <2>5
  <2> QED BY <2>6 DEF Graph!Idle
<1>4. CASE s = r
  BY <1>2, <1>4
<1> QED BY <1>3, <1>4

\* What the write of a mass request of a user touches.
LEMMA MassTouches ==
  ASSUME GraphInv, NEW q, MassHolds(q), q.at = "write", ~q.stale,
         Graph!Scoped(q.user) => Allowed[q.user] # {}, NEW e, e[1] \in q.src
  PROVE  ~Graph!Scoped(q.user) \/ Graph!In(q.user, e[1])
<1>1. q.src = Graph!Selected(q.f, q.user)
  BY DEF MassHolds, HasRead
<1> QED BY <1>1 DEF Graph!Selected

LEMMA MassWrites ==
  ASSUME GraphInv, NEW r \in Requests, NEW q, q = gReq[r], q.at = "write", q.kind # "link",
         Graph!WriteMassLinks(r) \/ Graph!WriteMassDelete(r) \/ Graph!WriteMassUpdate(r)
  PROVE  /\ ~q.stale /\ (Graph!Scoped(q.user) => Allowed[q.user] # {})
              => Graph!Touched \subseteq Graph!Listed(q.user) \cup Graph!Listed(q.user)'
         /\ \A e \in DOMAIN edge' \ DOMAIN edge : e[1] = e[3] =>
              \E d \in DOMAIN edge : d[1] = e[1] /\ d[3] = e[1]
<1>1. MassHolds(q)
  BY MassRequests
<1>2. UNCHANGED gCi
  BY DEF Graph!WriteMassLinks, Graph!WriteMassDelete, Graph!WriteMassUpdate
<1>3. PICK made : made = Graph!MassLinks(q)
  OBVIOUS
<1>4. PICK m : m = Graph!Matched(q)
  OBVIOUS
<1>5. \A e \in made : e[1] \in q.src /\ e[1] # e[3]
  BY <1>3 DEF Graph!MassLinks
<1>6. \A e \in m : e \in DOMAIN edge /\ e[1] \in q.src
  BY <1>4 DEF Graph!Matched
<1>7. PICK renamed : renamed = {<<e[1], q.new, e[3]>> : e \in m}
  OBVIOUS
<1>8. \A e \in renamed : \E d \in m : e[1] = d[1] /\ e[3] = d[3]
  BY <1>7
<1>9. \A e \in DOMAIN edge' \ DOMAIN edge : e \in made \/ e \in renamed
  BY <1>3, <1>4, <1>7 DEF Graph!WriteMassLinks, Graph!WriteMassDelete, Graph!WriteMassUpdate,
  Graph!Linked
<1>10. \A e \in DOMAIN edge : e \in m \/ (e \in DOMAIN edge' /\ edge'[e] = edge[e])
  <2>1. CASE Graph!WriteMassLinks(r)
    <3>1. edge' = Graph!Linked(DOMAIN edge \cup made)
      BY <2>1, <1>3 DEF Graph!WriteMassLinks
    <3> QED BY <3>1 DEF Graph!Linked
  <2>2. CASE Graph!WriteMassDelete(r)
    <3>1. edge' = Graph!Linked(DOMAIN edge \ m)
      BY <2>2, <1>4 DEF Graph!WriteMassDelete
    <3> QED BY <3>1 DEF Graph!Linked
  <2>3. CASE Graph!WriteMassUpdate(r)
    <3>1. PICK kept : kept = DOMAIN edge \ m
      OBVIOUS
    <3>2. edge' = [e \in kept \cup renamed |-> IF e \in kept THEN edge[e] ELSE Graph!None]
      BY <2>3, <3>1, <1>4, <1>7 DEF Graph!WriteMassUpdate
    <3> QED BY <3>1, <3>2
  <2> QED BY <2>1, <2>2, <2>3
<1>11. \A e \in DOMAIN edge' \ DOMAIN edge : e[1] = e[3] =>
         \E d \in DOMAIN edge : d[1] = e[1] /\ d[3] = e[1]
  BY <1>5, <1>6, <1>8, <1>9
<1>12. ASSUME ~q.stale, Graph!Scoped(q.user) => Allowed[q.user] # {}, NEW e \in Graph!Touched
       PROVE  e \in Graph!Listed(q.user) \cup Graph!Listed(q.user)'
  <2>1. /\ e \in DOMAIN edge \cup DOMAIN edge'
        /\ e \notin DOMAIN edge \/ e \notin DOMAIN edge' \/ edge[e] # edge'[e]
    BY DEF Graph!Touched
  <2>2. PICK u : u = q.user
    OBVIOUS
  <2>3. CASE e \in DOMAIN edge
    <3>1. e \in m
      BY <2>1, <2>3, <1>10
    <3>2. e[1] \in q.src
      BY <3>1, <1>6
    <3>3. ~Graph!Scoped(q.user) \/ Graph!In(q.user, e[1])
      BY <3>2, <1>1, <1>12, MassTouches
    <3>4. e \in Graph!Listed(q.user)
      BY <2>3, <3>3 DEF Graph!Listed
    <3> QED BY <3>4
  <2>4. CASE e \notin DOMAIN edge
    <3>1. e \in DOMAIN edge' \ DOMAIN edge
      BY <2>1, <2>4
    <3>2. e \in made \/ \E d \in m : e[1] = d[1]
      BY <3>1, <1>8, <1>9
    <3>3. e[1] \in q.src
      BY <3>2, <1>5, <1>6
    <3>4. ~Graph!Scoped(u) \/ Graph!In(u, e[1])
      BY <3>3, <2>2, <1>1, <1>12, MassTouches
    <3>5. (~Graph!Scoped(u) \/ Graph!In(u, e[1]))'
      BY <3>4, <1>2 DEF Graph!Scoped, Graph!In
    <3>6. e \in Graph!Listed(u)'
      BY <3>1, <3>5 DEF Graph!Listed
    <3>7. Graph!Listed(q.user)' = Graph!Listed(u)'
      BY <2>2 DEF Graph!Listed
    <3> QED BY <3>6, <3>7
  <2> QED BY <2>3, <2>4
<1> QED BY <1>11, <1>12

\* Only a write of its own ends a request that is about to write.
LEMMA OnlyWritesEnd ==
  ASSUME GraphInv, [Graph!Next]_(Graph!vars), NEW r \in Requests, gReq[r].at = "write",
         gReq[r].kind # "link",
         gReq'[r] = Graph!Idle
  PROVE  Graph!WriteMassLinks(r) \/ Graph!WriteMassDelete(r) \/ Graph!WriteMassUpdate(r)
<1>0. gReq[r] # Graph!Idle
  BY DEF Graph!Idle
<1>1. CASE UNCHANGED Graph!vars
  BY <1>0, <1>1 DEF Graph!vars
<1>2. ASSUME NEW s \in Requests, Graph!Arrives(s), NEW q, Graph!Moves(s, q) PROVE FALSE
  <2>1. s = r
    BY <1>2, OthersGoOn
  <2> QED BY <2>1, <1>2 DEF Graph!Arrives
<1>3. ASSUME NEW s \in Requests, NEW e \in Graph!Edges, Graph!DeleteLink(s, e) PROVE FALSE
  BY <1>3, <1>2, Zenon DEF Graph!DeleteLink
<1>4. ASSUME NEW s \in Requests, NEW e, NEW medium, Graph!CreateLink(s, e, medium) PROVE FALSE
  BY <1>4, <1>2, Zenon DEF Graph!CreateLink
<1>5. ASSUME NEW s \in Requests, NEW u, NEW f, NEW g, NEW rel, Graph!MassCreate(s, u, f, g, rel)
      PROVE  FALSE
  BY <1>5, <1>2, Zenon DEF Graph!MassCreate
<1>6. ASSUME NEW s \in Requests, NEW u, NEW f, NEW g, NEW kind, NEW rel, NEW new,
             Graph!MassChange(s, u, f, g, kind, rel, new)
      PROVE  FALSE
  BY <1>6, <1>2, Zenon DEF Graph!MassChange
<1>7. ASSUME NEW s \in Requests, NEW u, NEW layer, Graph!GraphNodes(s, u, layer) PROVE FALSE
  BY <1>7, <1>2, Zenon DEF Graph!GraphNodes
<1>8. ASSUME NEW s \in Requests, Graph!WriteLink(s) \/ Graph!GraphLinks(s) PROVE FALSE
  <2>1. Graph!Moves(s, Graph!Idle) /\ (gReq[s].kind = "link" \/ gReq[s].at = "links")
    BY <1>8 DEF Graph!WriteLink, Graph!GraphLinks
  <2>2. s = r
    BY <2>1, OthersGoOn
  <2> QED BY <2>1, <2>2
<1>9. ASSUME NEW s \in Requests, Graph!MassWarn(s) \/ Graph!ReadNodes(s) PROVE FALSE
  <2>1. gReq[s].at = "warn" \/ gReq[s].at = "read"
    BY <1>9 DEF Graph!MassWarn, Graph!ReadNodes
  <2>2. \E q : Graph!Moves(s, q)
    BY <1>9, Zenon DEF Graph!MassWarn, Graph!ReadNodes
  <2>3. s = r
    BY <2>2, OthersGoOn
  <2> QED BY <2>1, <2>3
<1>10. ASSUME NEW s \in Requests,
              Graph!WriteMassLinks(s) \/ Graph!WriteMassDelete(s) \/ Graph!WriteMassUpdate(s)
       PROVE  s = r
  <2>1. Graph!Moves(s, Graph!Idle)
    BY <1>10, Zenon DEF Graph!WriteMassLinks, Graph!WriteMassDelete, Graph!WriteMassUpdate
  <2> QED BY <2>1, OthersGoOn
<1>11. ASSUME NEW c, Graph!DeleteNode(c) \/ \E layer \in Layers,
              loc \in Locations : Graph!UpsertNode(c, layer, loc)
       PROVE  FALSE
  <2>1. Graph!EveryoneNotices
    BY <1>11, Zenon DEF Graph!DeleteNode, Graph!UpsertNode
  <2>2. PICK p : p = gReq[r]
    OBVIOUS
  <2>3. Graph!Idle = Graph!Stale(p)
    BY <2>1, <2>2 DEF Graph!EveryoneNotices
  <2>4. MassHolds(p) /\ p.at = "write"
    BY <2>2, MassRequests
  <2>5. "stale" \in DOMAIN p
    BY <2>4 DEF MassHolds, MassFields
  <2>6. Graph!Stale(p) = p \/ Graph!Stale(p) = [p EXCEPT !.stale = TRUE]
    BY DEF Graph!Stale
  <2>7. "stale" \in DOMAIN Graph!Idle
    BY <2>3, <2>5, <2>6
  <2> QED BY <2>7 DEF Graph!Idle
<1>12. CASE Graph!Next
  BY <1>3, <1>4, <1>5, <1>6, <1>7, <1>8, <1>9, <1>10, <1>11, <1>12, Zenon DEF Graph!Next
<1> QED BY <1>1, <1>12

LEMMA MassStepsHold ==
  ASSUME GraphInv, [Graph!Next]_(Graph!vars)
  PROVE  Graph!MassSteps
<1>1. ASSUME NEW r \in Requests, NEW u \in Viewers,
             gReq[r].at = "write", gReq[r].kind # "link", gReq[r].user = u, gReq'[r] = Graph!Idle
      PROVE  /\ ~gReq[r].stale /\ (Graph!Scoped(u) => Allowed[u] # {})
                  => Graph!Touched \subseteq Graph!Listed(u) \cup Graph!Listed(u)'
             /\ \A e \in DOMAIN edge' \ DOMAIN edge : e[1] = e[3] =>
                  \E d \in DOMAIN edge : d[1] = e[1] /\ d[3] = e[1]
  <2>1. PICK q : q = gReq[r]
    OBVIOUS
  <2>2. Graph!WriteMassLinks(r) \/ Graph!WriteMassDelete(r) \/ Graph!WriteMassUpdate(r)
    BY <1>1, OnlyWritesEnd
  <2>3. /\ ~q.stale /\ (Graph!Scoped(q.user) => Allowed[q.user] # {})
             => Graph!Touched \subseteq Graph!Listed(q.user) \cup Graph!Listed(q.user)'
        /\ \A e \in DOMAIN edge' \ DOMAIN edge : e[1] = e[3] =>
             \E d \in DOMAIN edge : d[1] = e[1] /\ d[3] = e[1]
    BY <1>1, <2>1, <2>2, MassWrites
  <2>4. Graph!Listed(q.user)' = Graph!Listed(u)'
    BY <1>1, <2>1 DEF Graph!Listed
  <2>5. q.user = u
    BY <1>1, <2>1
  <2> QED BY <2>1, <2>3, <2>4, <2>5
<1> QED BY <1>1 DEF Graph!MassSteps

-----------------------------------------------------------------------------
(* PollFeed                                                                 *)

\* A run that a script is in works for the cycle of its slot and version, and
\* writes tasks once the cycle has its row.
RunHolds(p) ==
  \/ p = Feed!Idle
  \/ /\ p \in [pc : {"cycle", "tasks"}, file : RecordFiles, cycle : Slots \X Versions,
        version : Versions]
     /\ p.cycle[2] = p.version
     /\ p.pc = "tasks" => p.cycle \in cycles

\* A task has the version of its cycle, and is measured unless its name hides
\* that it is a ping.
TaskHolds(t) ==
  /\ queue[t] \in [status : {"available", "completed"}, version : Versions, measured : BOOLEAN]
  /\ t.cycle \in cycles /\ queue[t].version = t.cycle[2]
  /\ queue[t].status = "completed" => queue[t].measured = (t.protocol # "ICMP"
     \/ Feed!Availability(t.metric, Feed!None))

\* A script that returned has left its tasks in the queue.
FeedInv ==
  /\ cycles \subseteq Slots \X Versions /\ runs \in 0 .. MaxRuns
  /\ DOMAIN script = Scripts /\ \A s \in Scripts : RunHolds(script[s])
  /\ \A t \in DOMAIN queue : TaskHolds(t)
  /\ \A f \in finished : Feed!Tasks(f.file, f.cycle) \subseteq DOMAIN queue

LEMMA TaskOfCycle ==
  ASSUME NEW F, NEW cycle, NEW t \in Feed!Tasks(F, cycle) PROVE t.cycle = cycle
BY DEF Feed!Tasks, Feed!TaskId

\* The queue and the cycles are left.
LEMMA ScriptsMove ==
  ASSUME FeedInv, NEW s \in Scripts, NEW p, script' = [script EXCEPT ![s] = p],
         cycles \subseteq cycles', RunHolds(p)'
  PROVE  DOMAIN script' = Scripts /\ \A q \in Scripts : RunHolds(script[q])'
<1>1. \A q \in Scripts : script'[q] = IF q = s THEN p ELSE script[q]
  BY DEF FeedInv
<1>2. ASSUME NEW q \in Scripts PROVE RunHolds(script[q])'
  <2>1. CASE q = s
    BY <1>1, <2>1 DEF RunHolds
  <2>2. CASE q # s
    <3>1. RunHolds(script[q])
      BY DEF FeedInv
    <3>2. script'[q] = script[q]
      BY <1>1, <2>2
    <3> QED BY <3>1, <3>2 DEF RunHolds
  <2> QED BY <2>1, <2>2
<1> QED BY <1>2 DEF FeedInv

LEMMA QueueStays ==
  ASSUME FeedInv, UNCHANGED queue, cycles \subseteq cycles', cycles' \subseteq Slots \X Versions
  PROVE  \A t \in DOMAIN queue' : TaskHolds(t)'
BY DEF FeedInv, TaskHolds, Feed!Availability, Feed!Telemetry

LEMMA StartKeepsFeed ==
  ASSUME FeedInv, FeedIsSet, NEW s \in Scripts, NEW F \in RecordFiles, NEW slot \in Slots,
         NEW version \in Versions,
         Feed!StartScript(s, F, slot, version)
  PROVE  FeedInv'
<1>1. PICK p : p = [pc |-> "cycle", file |-> F, cycle |-> Feed!CycleOf(slot, version),
        version |-> version]
  OBVIOUS
<1>2. /\ UNCHANGED <<cycles, queue, finished>> /\ runs < MaxRuns /\ runs' = runs + 1
      /\ script' = [script EXCEPT ![s] = p]
  BY <1>1 DEF Feed!StartScript
<1>3. RunHolds(p)'
  BY <1>1, <1>2 DEF RunHolds, Feed!CycleOf
<1>4. DOMAIN script' = Scripts /\ \A q \in Scripts : RunHolds(script[q])'
  BY <1>2, <1>3, ScriptsMove
<1>5. \A t \in DOMAIN queue' : TaskHolds(t)'
  BY <1>2, QueueStays DEF FeedInv
<1> QED BY <1>2, <1>4, <1>5 DEF FeedInv, FeedIsSet, Feed!Tasks, Feed!TaskId, Feed!Direct, Feed!Synthetic

LEMMA CycleKeepsFeed ==
  ASSUME FeedInv, FeedIsSet, NEW s \in Scripts, Feed!CreateCycle(s) PROVE FeedInv'
<1>1. PICK q : q = script[s]
  OBVIOUS
<1>2. PICK p : p = [q EXCEPT !.pc = "tasks"]
  OBVIOUS
<1>3. /\ UNCHANGED <<queue, finished, runs>> /\ q.pc = "cycle" /\ cycles' = cycles \cup {q.cycle}
      /\ script' = [script EXCEPT ![s] = p]
  BY <1>1, <1>2 DEF Feed!CreateCycle
<1>4. /\ q \in [pc : {"cycle", "tasks"}, file : RecordFiles, cycle : Slots \X Versions,
         version : Versions]
      /\ q.cycle[2] = q.version
  <2>1. RunHolds(q)
    BY <1>1 DEF FeedInv
  <2> QED BY <2>1, <1>3 DEF RunHolds, Feed!Idle
<1>5. RunHolds(p)'
  BY <1>2, <1>3, <1>4 DEF RunHolds
<1>6. cycles' \subseteq Slots \X Versions /\ cycles \subseteq cycles'
  BY <1>3, <1>4 DEF FeedInv
<1>7. DOMAIN script' = Scripts /\ \A t \in Scripts : RunHolds(script[t])'
  BY <1>3, <1>5, <1>6, ScriptsMove
<1>8. \A t \in DOMAIN queue' : TaskHolds(t)'
  BY <1>3, <1>6, QueueStays
<1> QED BY <1>3, <1>6, <1>7, <1>8 DEF FeedInv, Feed!Tasks, Feed!TaskId, Feed!Direct, Feed!Synthetic

LEMMA EnqueueKeepsFeed ==
  ASSUME FeedInv, FeedIsSet, NEW s \in Scripts, Feed!EnqueueTasks(s) PROVE FeedInv'
<1>1. PICK q : q = script[s]
  OBVIOUS
<1>2. PICK new : new = Feed!Tasks(q.file, q.cycle)
  OBVIOUS
<1>3. PICK fresh : fresh = [status |-> "available", version |-> q.version, measured |-> FALSE]
  OBVIOUS
<1>4. /\ UNCHANGED <<cycles, runs>> /\ q.pc = "tasks" /\ script' = [script EXCEPT ![s] = Feed!Idle]
      /\ finished' = finished \cup {[file |-> q.file, cycle |-> q.cycle]}
      /\ queue' = [t \in DOMAIN queue \cup new |-> IF t \in DOMAIN queue THEN queue[t] ELSE fresh]
  BY <1>1, <1>2, <1>3 DEF Feed!EnqueueTasks, Feed!Fresh
<1>5. q.version \in Versions /\ q.cycle[2] = q.version /\ q.cycle \in cycles
  <2>1. RunHolds(q)
    BY <1>1 DEF FeedInv
  <2> QED BY <2>1, <1>4 DEF RunHolds, Feed!Idle
<1>6. PICK p : p = Feed!Idle
  OBVIOUS
<1>7. RunHolds(p)'
  BY <1>6 DEF RunHolds, Feed!Idle
<1>8. DOMAIN script' = Scripts /\ \A t \in Scripts : RunHolds(script[t])'
  BY <1>4, <1>6, <1>7, ScriptsMove
<1>9. DOMAIN queue' = DOMAIN queue \cup new
  BY <1>4
<1>10. ASSUME NEW t \in DOMAIN queue' PROVE TaskHolds(t)'
  <2>1. CASE t \in DOMAIN queue
    <3>1. queue'[t] = queue[t]
      BY <1>4, <2>1
    <3>2. TaskHolds(t)
      BY <2>1 DEF FeedInv
    <3> QED BY <3>1, <3>2, <1>4 DEF TaskHolds, Feed!Availability, Feed!Telemetry
  <2>2. CASE t \notin DOMAIN queue
    <3>1. queue'[t] = fresh
      BY <1>4, <1>9, <2>2
    <3>2. t.cycle = q.cycle
      BY <1>2, <1>9, <2>2, TaskOfCycle
    <3> QED BY <3>1, <3>2, <1>3, <1>4, <1>5 DEF TaskHolds
  <2> QED BY <2>1, <2>2
<1>11. ASSUME NEW f \in finished' PROVE Feed!Tasks(f.file, f.cycle) \subseteq DOMAIN queue'
  BY <1>2, <1>4, <1>9 DEF FeedInv
<1>12. \A f \in finished' : Feed!Tasks(f.file, f.cycle)' = Feed!Tasks(f.file, f.cycle)
  BY DEF Feed!Tasks, Feed!TaskId, Feed!Direct, Feed!Synthetic
<1> QED BY <1>4, <1>8, <1>10, <1>11 DEF FeedInv, Feed!Tasks, Feed!TaskId, Feed!Direct, Feed!Synthetic

LEMMA DiesKeepsFeed ==
  ASSUME FeedInv, NEW s \in Scripts, Feed!Dies(s) PROVE FeedInv'
<1>1. PICK p : p = Feed!Idle
  OBVIOUS
<1>2. UNCHANGED <<cycles, queue, finished, runs>> /\ script' = [script EXCEPT ![s] = p]
  BY <1>1 DEF Feed!Dies
<1>3. RunHolds(p)'
  BY <1>1 DEF RunHolds, Feed!Idle
<1>4. DOMAIN script' = Scripts /\ \A t \in Scripts : RunHolds(script[t])'
  BY <1>2, <1>3, ScriptsMove
<1>5. \A t \in DOMAIN queue' : TaskHolds(t)'
  BY <1>2, QueueStays DEF FeedInv
<1> QED BY <1>2, <1>4, <1>5 DEF FeedInv, Feed!Tasks, Feed!TaskId, Feed!Direct, Feed!Synthetic

LEMMA ExecuteKeepsFeed ==
  ASSUME FeedInv, NEW t \in DOMAIN queue, Feed!Execute(t) PROVE FeedInv'
<1>1. PICK m \in BOOLEAN : m = (t.protocol # "ICMP" \/ Feed!Availability(t.metric, Feed!None))
  BY Zenon DEF Feed!Availability
<1>2. /\ UNCHANGED <<script, cycles, finished, runs>> /\ queue[t].status = "available"
      /\ queue' = [queue EXCEPT ![t].status = "completed", ![t].measured = m]
  BY <1>1 DEF Feed!Execute
<1>3. TaskHolds(t)
  BY DEF FeedInv
<1>4. queue'[t] = [queue[t] EXCEPT !.status = "completed", !.measured = m]
        /\ DOMAIN queue' = DOMAIN queue
  BY <1>2
<1>5. /\ queue'[t] \in [status : {"available", "completed"}, version : Versions, measured : BOOLEAN]
      /\ queue'[t].version = queue[t].version /\ queue'[t].measured = m
  BY <1>1, <1>3, <1>4 DEF TaskHolds
<1>6. ASSUME NEW u \in DOMAIN queue' PROVE TaskHolds(u)'
  <2>1. CASE u = t
    BY <1>1, <1>2, <1>3, <1>5, <2>1 DEF TaskHolds, Feed!Availability, Feed!Telemetry
  <2>2. CASE u # t
    <3>1. queue'[u] = queue[u] /\ TaskHolds(u)
      BY <1>2, <1>4, <2>2 DEF FeedInv
    <3> QED BY <3>1, <1>2 DEF TaskHolds, Feed!Availability, Feed!Telemetry
  <2> QED BY <2>1, <2>2
<1>7. \A s \in Scripts : RunHolds(script[s])'
  BY <1>2 DEF FeedInv, RunHolds
<1> QED BY <1>2, <1>4, <1>6, <1>7 DEF FeedInv, Feed!Tasks, Feed!TaskId, Feed!Direct, Feed!Synthetic

LEMMA FeedStep ==
  ASSUME FeedIsSet, FeedInv, [Feed!Next]_(Feed!vars) PROVE FeedInv'
<1>1. CASE UNCHANGED Feed!vars
  BY <1>1 DEF Feed!vars, FeedInv, RunHolds, TaskHolds, Feed!Availability, Feed!Telemetry,
     Feed!Tasks, Feed!TaskId, Feed!Direct, Feed!Synthetic
<1>2. CASE Feed!Next
  BY <1>2, StartKeepsFeed, CycleKeepsFeed, EnqueueKeepsFeed, DiesKeepsFeed, ExecuteKeepsFeed,
  Zenon DEF Feed!Next
<1> QED BY <1>1, <1>2

LEMMA FeedStarts == ASSUME FeedIsSet, Feed!Init PROVE FeedInv
BY DEF Feed!Init, FeedInv, RunHolds, FeedIsSet

LEMMA FeedKeepsItsWord == ASSUME FeedIsSet, FeedInv PROVE Feed!FeedInvariant
<1>1. Feed!TypeOK
  <2>1. \A s \in Scripts : script[s] # Feed!Idle => script[s].pc \in {"cycle", "tasks"}
          /\ script[s].file \in RecordFiles
    BY DEF FeedInv, RunHolds
  <2>2. cycles \subseteq {Feed!CycleOf(s, v) : s \in Slots, v \in Versions}
    BY DEF FeedInv, Feed!CycleOf
  <2> QED BY <2>1, <2>2 DEF FeedInv, TaskHolds, Feed!TypeOK
<1>2. Feed!OneVersionPerCycle
  BY DEF FeedInv, TaskHolds, Feed!OneVersionPerCycle
<1>3. ASSUME NEW f \in finished, NEW w \in (Feed!Wanted(f.file)
             \cup Feed!Explicit(f.file)) \ Feed!Misnamed(f.file)
      PROVE  \E t \in DOMAIN queue :
               /\ t.cycle = f.cycle /\ t.protocol = "ICMP" /\ <<t.ci, t.addr>> = w
               /\ Feed!Availability(t.metric, Feed!None)
                  /\ (queue[t].status = "completed" => queue[t].measured)
  <2>1. ASSUME NEW t \in Feed!Tasks(f.file, f.cycle), t.protocol = "ICMP", <<t.ci, t.addr>> = w,
               Feed!Availability(t.metric, Feed!None)
        PROVE  \E u \in DOMAIN queue :
                 /\ u.cycle = f.cycle /\ u.protocol = "ICMP" /\ <<u.ci, u.addr>> = w
                 /\ Feed!Availability(u.metric, Feed!None)
                    /\ (queue[u].status = "completed" => queue[u].measured)
    <3>1. t \in DOMAIN queue
      BY <2>1 DEF FeedInv
    <3>2. queue[t].status = "completed" => queue[t].measured
      BY <2>1, <3>1 DEF FeedInv, TaskHolds
    <3> QED BY <2>1, <3>1, <3>2, TaskOfCycle
  <2>2. CASE w \in Feed!Explicit(f.file)
    <3>1. PICK r \in Feed!Direct(f.file) :
            r.protocol = "ICMP" /\ Feed!Availability(r.metric, r.kind) /\ w = Feed!Source(r)
      BY <2>2 DEF Feed!Explicit
    <3>2. Feed!Availability(r.metric, Feed!None)
      BY <1>3, <3>1 DEF Feed!Misnamed, Feed!Availability, Feed!Telemetry, Feed!None
    <3>3. PICK t : t = Feed!TaskId(r, f.cycle)
      OBVIOUS
    <3>4. t \in Feed!Tasks(f.file, f.cycle)
      BY <3>1, <3>3 DEF Feed!Tasks
    <3>5. t.protocol = "ICMP" /\ <<t.ci, t.addr>> = w /\ t.metric = r.metric
      BY <3>1, <3>3 DEF Feed!TaskId, Feed!Source
    <3> QED BY <2>1, <3>2, <3>4, <3>5
  <2>3. CASE w \in Feed!Wanted(f.file) \ Feed!Explicit(f.file)
    <3>1. PICK r : r = [ci |-> w[1], metric |-> "icmp_availability", protocol |-> "ICMP", addr |-> w[2]]
      OBVIOUS
    <3>2. r \in Feed!Synthetic(f.file)
      BY <2>3, <3>1 DEF Feed!Synthetic
    <3>3. PICK t : t = Feed!TaskId(r, f.cycle)
      OBVIOUS
    <3>4. t \in Feed!Tasks(f.file, f.cycle)
      BY <3>2, <3>3 DEF Feed!Tasks
    <3>5. w = <<w[1], w[2]>>
      BY <2>3 DEF Feed!Wanted, Feed!Source
    <3>6. t.protocol = "ICMP" /\ <<t.ci, t.addr>> = w /\ t.metric = "icmp_availability"
      BY <3>1, <3>3, <3>5 DEF Feed!TaskId
    <3>7. Feed!Availability(t.metric, Feed!None)
      BY <3>6 DEF Feed!Availability, Feed!Telemetry, Feed!None, Feed!Sidecars, Feed!Pings
    <3> QED BY <2>1, <3>4, <3>6, <3>7
  <2> QED BY <2>2, <2>3, <1>3
<1>4. Feed!WantedIsPolled
  BY <1>3 DEF Feed!WantedIsPolled
<1> QED BY <1>1, <1>2, <1>4 DEF Feed!FeedInvariant, FeedInv, TaskHolds

\* A task stays, and a polled one as it is.
LEMMA FeedPolledOnce == ASSUME FeedInv, [Feed!Next]_(Feed!vars) PROVE Feed!PolledOnce
<1>1. CASE UNCHANGED queue
  BY <1>1 DEF Feed!PolledOnce
<1>2. ASSUME NEW s \in Scripts, Feed!EnqueueTasks(s) PROVE Feed!PolledOnce
  <2>1. PICK q : q = script[s]
    OBVIOUS
  <2>2. \E new, fresh : queue' = [t \in DOMAIN queue \cup new |-> IF t \in DOMAIN queue
          THEN queue[t] ELSE fresh]
    BY <1>2, Zenon DEF Feed!EnqueueTasks
  <2> QED BY <2>2 DEF Feed!PolledOnce
<1>3. ASSUME NEW t \in DOMAIN queue, Feed!Execute(t) PROVE Feed!PolledOnce
  BY <1>3 DEF Feed!Execute, Feed!PolledOnce
<1>4. CASE Feed!Next
  <2>1. UNCHANGED queue \/ (\E s \in Scripts : Feed!EnqueueTasks(s))
          \/ \E t \in DOMAIN queue : Feed!Execute(t)
    BY <1>4, Zenon DEF Feed!Next, Feed!StartScript, Feed!CreateCycle, Feed!Dies
  <2> QED BY <2>1, <1>1, <1>2, <1>3
<1> QED BY <1>1, <1>4 DEF Feed!vars

-----------------------------------------------------------------------------
(* CliPoll                                                                  *)

(* The remainder of a later number, as long as it does not begin again.     *)
LEMMA Remainder ==
  ASSUME NEW x \in Nat, NEW k \in Nat, NEW d \in Nat \ {0}
  PROVE  /\ x % d \in Nat /\ (x % d) < d
         /\ (x % d) + k < d => (x + k) % d = (x % d) + k
<1> DEFINE q == x \div d
           r == x % d
           u == (x + k) \div d
           s == (x + k) % d
<1>1. r \in 0..(d-1) /\ q \in Int /\ x = d * q + r
  OBVIOUS
<1>2. s \in 0..(d-1) /\ u \in Int /\ x + k = d * u + s
  OBVIOUS
<1>3. ASSUME r + k < d PROVE s = r + k
  <2> HIDE DEF q, r, u, s
  <2>1. d * u - d * q = r + k - s
    BY <1>1, <1>2
  <2>2. d * u - d * q = d * (u - q)
    BY <1>1, <1>2
  <2>3. CASE u >= q + 1
    <3>1. d * (u - q) >= d
      BY <1>1, <1>2, <2>3
    <3> QED BY <3>1, <2>1, <2>2, <1>1, <1>2, <1>3
  <2>4. CASE u <= q - 1
    <3>1. d * (u - q) <= -d
      BY <1>1, <1>2, <2>4
    <3> QED BY <3>1, <2>1, <2>2, <1>1, <1>2, <1>3
  <2>5. CASE u = q
    BY <2>5, <1>1, <1>2
  <2> QED BY <2>3, <2>4, <2>5, <1>1, <1>2
<1> QED BY <1>1, <1>3

CliTypes ==
  /\ cNow \in 0..CliTime /\ cFaults \in 0..CliFaults
  /\ pc \in {"pause", "due", "polling", "down"} /\ due \subseteq CliPairs
  /\ DOMAIN batch \subseteq CliPairs /\ \A p \in DOMAIN batch : batch[p] \in 0..cNow
  /\ pc # "polling" => due = {} /\ DOMAIN batch = {}
  /\ {last, stored} \subseteq [CliPairs -> 0..cNow \cup {Asking!Never}]
  /\ tried \in [CliPairs -> 0..cNow]
  /\ tracker \in [CliMetrics -> Nat]
  /\ misses \in [CliMetrics -> [run : Nat, alerted : SUBSET Nat]]

(* The engine counts the misses in a row, for each metric.                  *)
CountsAreRuns ==
  \A m \in CliMetrics :
    /\ tracker[m] = misses[m].run
    /\ \A n \in misses[m].alerted : n >= Threshold
    /\ tracker[m] >= Threshold => tracker[m] \in misses[m].alerted

(* A stamp is not newer than the sample that is to be stored, or was.       *)
StampsHaveSamples ==
  /\ \A p \in DOMAIN batch : last[p] <= batch[p]
  /\ \A p \in CliPairs \ (unbacked \cup DOMAIN batch) : last[p] <= stored[p]

(* A pair that is not due in this cycle waits for the next one, which comes *)
(* in so many units at most.  Either no cycle began since it was tried, or  *)
(* the last that did was too early for it: then less seconds had passed     *)
(* than its interval, and they grow without starting again before the next. *)
Work(S) == MaxTakes * Cardinality(S)
Others == MaxTakes * (Cardinality(CliPairs) - 1)
UntilCycle == IF pc = "pause" THEN 1 ELSE IF pc = "due" THEN 0 ELSE Work(due) + 1
Untried(p) == cNow - tried[p]
JustTried(p) == Untried(p) + UntilCycle <= Others + 1
TooEarly(p) ==
  /\ Untried(p) <= Others + 1 + Asking!Seconds(p)
  /\ Asking!Seconds(p) + UntilCycle <= CliInterval[p[2]] + Others
InTurn(p) ==
  IF p \in due THEN Untried(p) + Work(due) <= CliInterval[p[2]] + 3 * Others + 1 + MaxTakes
  ELSE JustTried(p) \/ TooEarly(p)
IntervalFits(p) == CliInterval[p[2]] + Others < Day
TurnsCome == pc # "down" => \A p \in CliPairs : IntervalFits(p) => InTurn(p)

CliInv == CliTypes /\ CountsAreRuns /\ StampsHaveSamples /\ TurnsCome

LEMMA AskingCount == \A S : Asking!Cardinality(S) = Cardinality(S)
BY DEF Asking!Cardinality, Cardinality

\* The time that the others of a pair take, and that a set of pairs takes.
LEMMA WorkIsCounted ==
  ASSUME CliIsSet
  PROVE  /\ MaxTakes \in Nat /\ Cardinality(CliPairs) \in Nat
         /\ \A m \in Nat, n \in Nat : MaxTakes * m \in Nat /\ (m <= n => MaxTakes * m <= MaxTakes * n)
         /\ \A n \in Int : MaxTakes * (n - 1) = MaxTakes * n - MaxTakes
<1>1. MaxTakes \in Nat /\ Cardinality(CliPairs) \in Nat
  BY FS_CardinalityType DEF CliIsSet
<1> QED BY <1>1

LEMMA OthersAre ==
  ASSUME CliIsSet, NEW p \in CliPairs
  PROVE  /\ Others \in Nat /\ MaxTakes \in Nat
         /\ Others = MaxTakes * Cardinality(CliPairs) - MaxTakes
<1>1. Cardinality(CliPairs) - 1 \in Nat
  <2>1. IsFiniteSet(CliPairs \ {p}) /\ Cardinality(CliPairs \ {p}) = Cardinality(CliPairs) - 1
    BY FS_RemoveElement DEF CliIsSet
  <2> QED BY <2>1, FS_CardinalityType
<1> QED BY <1>1, WorkIsCounted DEF Others

LEMMA WorkBeside ==
  ASSUME CliIsSet, NEW S \in SUBSET CliPairs, NEW p \in CliPairs
  PROVE  Work(S) \in Nat /\ Work(S) <= Others + MaxTakes /\ (p \notin S => Work(S) <= Others)
<1>1. PICK c \in Nat, n \in Nat, k \in Nat : c = Cardinality(S) /\ n = Cardinality(CliPairs) /\ k = MaxTakes
  BY FS_Subset, FS_CardinalityType, WorkIsCounted DEF CliIsSet
<1>2. c <= n /\ (p \notin S => c <= n - 1)
  <2>1. IsFiniteSet(CliPairs) /\ IsFiniteSet(CliPairs \ {p}) /\ Cardinality(CliPairs \ {p}) = n - 1
    BY <1>1, FS_RemoveElement DEF CliIsSet
  <2>2. ASSUME p \notin S PROVE c <= n - 1
    <3>1. S \subseteq CliPairs \ {p}
      BY <2>2
    <3> QED BY <1>1, <2>1, <3>1, FS_Subset
  <2> QED BY <1>1, <2>1, <2>2, FS_Subset
<1>3. /\ k * c \in Nat /\ k * n \in Nat /\ k * c <= k * n
      /\ c <= n - 1 => k * c <= k * n - k
  <2>1. c <= n - 1 => k * c <= k * (n - 1) /\ k * (n - 1) = k * n - k
    BY <1>1
  <2> QED BY <1>1, <1>2, <2>1
<1>4. Work(S) = k * c /\ Others = k * n - k
  BY <1>1, OthersAre DEF Work
<1> QED BY <1>1, <1>2, <1>3, <1>4

LEMMA WorkWithout ==
  ASSUME CliIsSet, NEW S \in SUBSET CliPairs, NEW p \in S
  PROVE  /\ Work(S) \in Nat /\ Work(S) >= MaxTakes
         /\ Work(S \ {p}) = Work(S) - MaxTakes /\ Work(S \ {p}) \in Nat
<1>1. PICK c \in Nat, k \in Nat : c = Cardinality(S) /\ k = MaxTakes
  BY FS_Subset, FS_CardinalityType, WorkIsCounted DEF CliIsSet
<1>2. Cardinality(S \ {p}) = c - 1 /\ c - 1 \in Nat
  <2>1. IsFiniteSet(S)
    BY FS_Subset DEF CliIsSet
  <2>2. IsFiniteSet(S \ {p}) /\ Cardinality(S \ {p}) = c - 1
    BY <1>1, <2>1, FS_RemoveElement
  <2> QED BY <2>2, FS_CardinalityType
<1>3. k * c \in Nat /\ k * (c - 1) \in Nat /\ k * (c - 1) = k * c - k
  BY <1>1, <1>2
<1>4. Work(S) = k * c /\ Work(S \ {p}) = k * (c - 1)
  BY <1>1, <1>2 DEF Work
<1> QED BY <1>1, <1>3, <1>4

\* The seconds since the last stamp, and some units later.
LEMMA SecondsGrow ==
  ASSUME CliIsSet, CliTypes, NEW p \in CliPairs
  PROVE  /\ Asking!Seconds(p) \in Nat /\ CliInterval[p[2]] \in Nat /\ Day \in Nat
         /\ \A by \in Nat : cNow' = cNow + by /\ last'[p] = last[p] /\ Asking!Seconds(p) + by < Day =>
              Asking!Seconds(p)' = Asking!Seconds(p) + by
         /\ cNow' = cNow /\ last'[p] = last[p] => Asking!Seconds(p)' = Asking!Seconds(p)
<1> DEFINE x == IF last[p] = Asking!Never THEN cNow ELSE cNow - last[p]
<1>1. cNow \in Nat /\ last[p] \in 0..cNow \cup {Asking!Never} /\ Day \in Nat \ {0}
      /\ CliInterval[p[2]] \in Nat
  BY DEF CliTypes, CliIsSet
<1>2. x \in Nat
  BY <1>1 DEF Asking!Never
<1>3. Asking!Seconds(p) = x % Day
  BY DEF Asking!Seconds
<1>4. ASSUME NEW by \in Nat, cNow' = cNow + by, last'[p] = last[p]
      PROVE  Asking!Seconds(p)' = (x + by) % Day
  <2>1. x' = x + by
    BY <1>1, <1>4 DEF Asking!Never
  <2>2. Asking!Seconds(p)' = x' % Day
    BY DEF Asking!Seconds
  <2> QED BY <2>1, <2>2
<1>5. cNow' = cNow /\ last'[p] = last[p] => Asking!Seconds(p)' = Asking!Seconds(p)
  BY DEF Asking!Seconds
<1> HIDE DEF x
<1>6. x % Day \in Nat /\ \A by \in Nat : (x % Day) + by < Day => (x + by) % Day = (x % Day) + by
  BY <1>1, <1>2, Remainder
<1> QED BY <1>1, <1>3, <1>4, <1>5, <1>6

\* Time passes for a pair that is not asked.
LEMMA TurnsWait ==
  ASSUME CliIsSet, CliTypes, NEW p \in CliPairs, IntervalFits(p), p \notin due, JustTried(p) \/ TooEarly(p),
         NEW by \in Nat, cNow' = cNow + by, last'[p] = last[p], tried'[p] = tried[p],
         UntilCycle' <= UntilCycle - by, UntilCycle \in Nat, UntilCycle' \in Nat
  PROVE  (JustTried(p) \/ TooEarly(p))'
<1> DEFINE secs == Asking!Seconds(p)
           wait == CliInterval[p[2]]
<1>1. /\ secs \in Nat /\ wait \in Nat /\ Day \in Nat /\ cNow \in Nat /\ tried[p] \in Nat
      /\ Others \in Nat /\ cNow' \in Nat
  BY SecondsGrow, OthersAre DEF CliTypes
<1>2. secs + by < Day => secs' = secs + by
  BY SecondsGrow
<1>3. wait + Others < Day /\ Others' = Others /\ wait' = wait
  BY DEF IntervalFits, Others
<1>4. PICK n \in Int, m \in Int, u \in Int, v \in Int :
        n = cNow - tried[p] /\ m = n + by /\ m = cNow' - tried'[p] /\ u = UntilCycle /\ v = UntilCycle'
  BY <1>1
<1>5. v <= u - by /\ v >= 0
  BY <1>4
<1>6. CASE JustTried(p)
  <2>1. n + u <= Others + 1
    BY <1>4, <1>6 DEF JustTried, Untried
  <2>2. m + v <= Others + 1
    BY <1>1, <1>4, <1>5, <2>1
  <2> QED BY <1>3, <1>4, <2>2 DEF JustTried, Untried
<1>7. CASE TooEarly(p)
  <2>1. n <= Others + 1 + secs /\ secs + u <= wait + Others
    BY <1>4, <1>7 DEF TooEarly, Untried
  <2> HIDE DEF secs, wait
  <2>2. secs' = secs + by
    BY <1>1, <1>2, <1>3, <1>4, <1>5, <2>1
  <2>3. PICK s \in Int, t \in Int, o \in Int, z \in Int : s = secs /\ t = s + by /\ o = Others /\ z = wait
    BY <1>1
  <2>4. m <= o + 1 + t /\ t + v <= z + o
    <3>1. n <= o + 1 + s /\ s + u <= z + o /\ m = n + by
      BY <1>4, <2>1, <2>3
    <3> QED BY <1>5, <2>3, <3>1
  <2>5. secs' = t
    BY <2>2, <2>3
  <2> QED BY <1>3, <1>4, <2>3, <2>4, <2>5 DEF TooEarly, Untried, secs, wait
<1> QED BY <1>6, <1>7

LEMMA TickKeepsCli == ASSUME CliIsSet, CliInv, Asking!Tick PROVE CliInv'
<1> USE DEF CliInv, CliTypes
<1>1. /\ cNow' = cNow + 1 /\ cNow < CliTime /\ pc \in {"pause", "down"}
      /\ pc' = IF pc = "pause" THEN "due" ELSE pc
      /\ UNCHANGED <<due, batch, last, stored, tracker, tried, misses, unbacked, cFaults>>
  BY DEF Asking!Tick
<1>2. CliTypes'
  BY <1>1 DEF CliIsSet
<1>3. CountsAreRuns' /\ StampsHaveSamples'
  BY <1>1 DEF CountsAreRuns, StampsHaveSamples
<1>4. ASSUME pc' # "down", NEW p \in CliPairs, IntervalFits(p)' PROVE InTurn(p)'
  <2>1. pc = "pause" /\ pc' = "due" /\ due = {} /\ due' = {} /\ IntervalFits(p)
    BY <1>1, <1>4 DEF IntervalFits, Others
  <2>2. UntilCycle = 1 /\ UntilCycle' = 0
    BY <2>1 DEF UntilCycle
  <2>3. JustTried(p) \/ TooEarly(p)
    BY <2>1 DEF TurnsCome, InTurn
  <2>4. (JustTried(p) \/ TooEarly(p))'
    BY <1>1, <2>1, <2>2, <2>3, TurnsWait
  <2> QED BY <2>1, <2>4 DEF InTurn
<1> QED BY <1>2, <1>3, <1>4 DEF TurnsCome

LEMMA CycleKeepsCli == ASSUME CliIsSet, CliInv, Asking!StartCycle PROVE CliInv'
<1> USE DEF CliInv, CliTypes
<1>1. /\ pc = "due" /\ pc' = "polling" /\ due = {} /\ due' = {p \in CliPairs : Asking!IsDue(p)}
      /\ UNCHANGED <<cNow, batch, last, stored, tracker, tried, misses, unbacked, cFaults>>
  BY DEF Asking!StartCycle
<1>2. CliTypes'
  BY <1>1
<1>3. CountsAreRuns' /\ StampsHaveSamples'
  BY <1>1 DEF CountsAreRuns, StampsHaveSamples
<1>4. ASSUME NEW p \in CliPairs, IntervalFits(p)' PROVE InTurn(p)'
  <2> DEFINE s == Asking!Seconds(p)
             i == CliInterval[p[2]]
             d == Work(due')
  <2>1. /\ s \in Nat /\ i \in Nat /\ s' = s /\ Others \in Nat /\ Others' = Others
        /\ cNow \in Nat /\ tried[p] \in Nat /\ Untried(p)' = Untried(p) /\ MaxTakes \in Nat
    <3>1. s \in Nat /\ i \in Nat /\ s' = s
      BY <1>1, SecondsGrow
    <3>2. Others \in Nat /\ MaxTakes \in Nat
      BY OthersAre
    <3>3. Others' = Others
      BY DEF Others
    <3>4. cNow \in Nat /\ tried[p] \in Nat /\ Untried(p)' = Untried(p)
      BY <1>1 DEF Untried
    <3> QED BY <3>1, <3>2, <3>3, <3>4
  <2>2. /\ d \in Nat /\ d <= Others + MaxTakes /\ (p \notin due' => d <= Others)
    <3>1. PICK S \in SUBSET CliPairs : S = due'
      BY <1>1
    <3>2. Work(S) \in Nat /\ Work(S) <= Others + MaxTakes /\ (p \notin S => Work(S) <= Others)
      BY WorkBeside
    <3> QED BY <3>1, <3>2
  <2>3. p \in due' <=> s >= i
    BY <1>1 DEF Asking!IsDue
  <2>4. UntilCycle = 0 /\ UntilCycle' = d + 1 /\ Work(due)' = d
    BY <1>1 DEF UntilCycle, Work
  <2>5. JustTried(p) \/ TooEarly(p)
    BY <1>1, <1>4 DEF TurnsCome, InTurn, IntervalFits, Others
  <2>6. /\ Untried(p) \in Int
        /\ \/ Untried(p) <= Others + 1 + s /\ s <= i + Others
           \/ Untried(p) <= Others + 1
    BY <2>1, <2>4, <2>5 DEF JustTried, TooEarly, Untried
  <2> HIDE DEF s, i, d
  <2>7. CASE p \in due'
    <3>1. Untried(p) <= i + 2 * Others + 1
      BY <2>1, <2>6
    <3>2. Untried(p) + d <= i + 3 * Others + 1 + MaxTakes
      BY <2>1, <2>2, <2>6, <3>1
    <3> QED BY <2>1, <2>4, <2>7, <3>2 DEF InTurn, i
  <2>8. CASE p \notin due'
    <3>1. Untried(p) <= Others + 1 + s /\ s + (d + 1) <= i + Others
      BY <2>1, <2>2, <2>3, <2>6, <2>8
    <3>2. TooEarly(p)'
      BY <2>1, <2>4, <3>1 DEF TooEarly, s, i
    <3> QED BY <2>8, <3>2 DEF InTurn
  <2> QED BY <2>7, <2>8
<1> QED BY <1>2, <1>3, <1>4 DEF TurnsCome

LEMMA AskKeepsCli ==
  ASSUME CliIsSet, CliInv, NEW p \in due, NEW reply, NEW takes \in 0..MaxTakes,
         Asking!Ask(p, reply, takes)
  PROVE  CliInv'
<1> USE DEF CliInv, CliTypes
<1> DEFINE m == p[2]
           missed == reply # "value"
           count == IF missed THEN tracker[m] + 1 ELSE 0
           streak == IF missed THEN misses[m].run + 1 ELSE 0
<1>1. /\ pc = "polling" /\ due' = due \ {p} /\ cNow' = cNow + takes /\ cNow' <= CliTime
      /\ tried' = [tried EXCEPT ![p] = cNow']
      /\ batch' = [q \in DOMAIN batch \cup {p} |-> IF q = p THEN cNow' ELSE batch[q]]
      /\ tracker' = [tracker EXCEPT ![m] = count]
      /\ misses' = [misses EXCEPT ![m] =
           [run |-> streak,
            alerted |-> IF missed /\ count >= Threshold
                        THEN misses[m].alerted \cup {streak} ELSE misses[m].alerted]]
      /\ last' = IF reply = "none" THEN last ELSE [last EXCEPT ![p] = cNow']
      /\ UNCHANGED <<pc, stored, unbacked, cFaults>>
  BY DEF Asking!Ask, Asking!Count
<1>2. p \in CliPairs /\ m \in CliMetrics /\ cNow' \in 0..CliTime /\ cNow <= cNow'
  BY <1>1 DEF CliIsSet
<1>3. CliTypes'
  <2>1. count \in Nat /\ streak \in Nat
    BY <1>2
  <2>2. tracker' \in [CliMetrics -> Nat] /\ misses' \in [CliMetrics -> [run : Nat, alerted : SUBSET Nat]]
    <3> HIDE DEF count, streak, missed
    <3> QED BY <1>1, <1>2, <2>1
  <2>3. {last', stored'} \subseteq [CliPairs -> 0..cNow' \cup {Asking!Never}]
        /\ tried' \in [CliPairs -> 0..cNow']
    BY <1>1, <1>2
  <2>4. DOMAIN batch' \subseteq CliPairs /\ \A q \in DOMAIN batch' : batch'[q] \in 0..cNow'
    BY <1>1, <1>2
  <2> QED BY <1>1, <1>2, <2>2, <2>3, <2>4
<1>4. CountsAreRuns'
  <2>1. count = streak /\ Threshold \in Nat /\ Threshold >= 1
    BY <1>2 DEF CountsAreRuns, CliIsSet
  <2>2. count \in Nat
    BY <1>2
  <2>3. ~missed => count = 0
    OBVIOUS
  <2> HIDE DEF count, streak, missed
  <2>4. /\ tracker'[m] = count
        /\ misses'[m].run = streak
        /\ misses'[m].alerted = IF missed /\ count >= Threshold
                                THEN misses[m].alerted \cup {streak} ELSE misses[m].alerted
    BY <1>1, <1>2
  <2>5. \A n \in CliMetrics \ {m} : tracker'[n] = tracker[n] /\ misses'[n] = misses[n]
    BY <1>1, <1>2
  <2>6. ASSUME NEW n \in CliMetrics
        PROVE  /\ tracker'[n] = misses'[n].run
               /\ \A a \in misses'[n].alerted : a >= Threshold
               /\ tracker'[n] >= Threshold => tracker'[n] \in misses'[n].alerted
    <3>1. /\ tracker[n] = misses[n].run
          /\ \A a \in misses[n].alerted : a >= Threshold
          /\ tracker[n] >= Threshold => tracker[n] \in misses[n].alerted
      BY <2>6 DEF CountsAreRuns
    <3>2. CASE n # m
      BY <2>5, <2>6, <3>1, <3>2
    <3>3. CASE n = m
      <4>1. \A a \in misses'[m].alerted : a >= Threshold
        BY <2>1, <2>4, <3>1, <3>3
      <4>2. count >= Threshold => count \in misses'[m].alerted
        BY <2>1, <2>2, <2>3, <2>4
      <4> QED BY <2>1, <2>4, <3>3, <4>1, <4>2
    <3> QED BY <3>2, <3>3
  <2> QED BY <2>6 DEF CountsAreRuns
<1>5. StampsHaveSamples'
  BY <1>1, <1>2 DEF StampsHaveSamples, Asking!Never
<1>6. ASSUME NEW q \in CliPairs, IntervalFits(q)' PROVE InTurn(q)'
  <2>1. PICK d \in Nat, e \in Nat : d = Work(due) /\ e = Work(due)'
    <3>1. Work(due \ {p}) \in Nat /\ Work(due) \in Nat
      BY WorkWithout
    <3>2. Work(due)' = Work(due \ {p})
      BY <1>1 DEF Work
    <3> QED BY <3>1, <3>2
  <2>2. /\ Others \in Nat /\ Others' = Others /\ MaxTakes \in Nat
        /\ d <= Others + MaxTakes /\ (q \notin due => d <= Others)
    <3>1. Others' = Others
      BY DEF Others
    <3> QED BY <2>1, <3>1, OthersAre, WorkBeside
  <2>3. e = d - MaxTakes /\ takes \in Nat /\ takes <= MaxTakes
    <3>1. Work(due)' = Work(due \ {p})
      BY <1>1 DEF Work
    <3>2. Work(due \ {p}) = Work(due) - MaxTakes
      BY WorkWithout
    <3> QED BY <2>1, <2>2, <3>1, <3>2
  <2>4. UntilCycle = d + 1 /\ UntilCycle' = e + 1
    BY <1>1, <2>1 DEF UntilCycle
  <2>5. CASE q = p
    <3>1. Untried(q)' = 0 /\ q \notin due'
      BY <1>1, <1>2, <2>5 DEF Untried
    <3>2. e + 1 <= Others + 1
      BY <2>2, <2>3
    <3> QED BY <2>2, <2>4, <3>1, <3>2 DEF InTurn, JustTried
  <2>6. CASE q # p
    <3>1. tried'[q] = tried[q] /\ last'[q] = last[q] /\ (q \in due' <=> q \in due)
          /\ IntervalFits(q) /\ InTurn(q)
      BY <1>1, <1>2, <1>6, <2>6 DEF TurnsCome, IntervalFits, Others
    <3>2. CASE q \in due
      <4>1. Untried(q) + d <= CliInterval[q[2]] + 3 * Others + 1 + MaxTakes
        BY <2>1, <3>1, <3>2 DEF InTurn
      <4>2. PICK n \in Int, u \in Int : n = Untried(q) /\ u = Untried(q)' /\ u = n + takes
        <5>1. cNow \in Int /\ tried[q] \in Int /\ takes \in Int /\ cNow' = cNow + takes
          BY <1>1
        <5> QED BY <3>1, <5>1 DEF Untried
      <4>3. PICK i \in Nat : i = CliInterval[q[2]]
        BY SecondsGrow
      <4>4. u + e <= i + 3 * Others + 1 + MaxTakes
        <5>1. PICK o \in Nat, k \in Nat : o = 3 * Others /\ k = MaxTakes
          BY <2>2
        <5>2. n + d <= i + o + 1 + k
          BY <4>1, <4>2, <4>3, <5>1
        <5>3. u = n + takes /\ e = d - k /\ takes <= k /\ takes \in Nat
          BY <2>3, <4>2, <5>1
        <5>4. u + e <= i + o + 1 + k
          BY <5>2, <5>3
        <5> QED BY <5>1, <5>4
      <4> QED BY <2>1, <2>2, <3>1, <3>2, <4>2, <4>3, <4>4 DEF InTurn
    <3>3. CASE q \notin due
      <4>1. e + 1 <= (d + 1) - takes
        BY <2>2, <2>3
      <4>2. UntilCycle \in Nat /\ UntilCycle' \in Nat /\ UntilCycle' <= UntilCycle - takes
        BY <2>4, <4>1
      <4>3. JustTried(q) \/ TooEarly(q)
        BY <3>1, <3>3 DEF InTurn
      <4>4. (JustTried(q) \/ TooEarly(q))'
        BY <1>1, <2>3, <3>1, <3>3, <4>2, <4>3, TurnsWait
      <4> QED BY <3>1, <3>3, <4>4 DEF InTurn
    <3> QED BY <3>2, <3>3
  <2> QED BY <2>5, <2>6
<1> QED BY <1>3, <1>4, <1>5, <1>6 DEF TurnsCome

LEMMA EndKeepsCli == ASSUME CliIsSet, CliInv, Asking!EndCycle PROVE CliInv'
<1> USE DEF CliInv, CliTypes
<1>1. /\ pc = "polling" /\ due = {} /\ pc' = "pause"
      /\ stored' = [p \in CliPairs |-> IF p \in DOMAIN batch THEN batch[p] ELSE stored[p]]
      /\ unbacked' = unbacked \ DOMAIN batch /\ batch' = <<>>
      /\ UNCHANGED <<cNow, due, last, tracker, tried, misses, cFaults>>
  BY DEF Asking!EndCycle
<1>2. DOMAIN batch' = {}
  BY <1>1
<1>3. CliTypes'
  BY <1>1, <1>2
<1>4. CountsAreRuns' /\ StampsHaveSamples'
  BY <1>1, <1>2 DEF CountsAreRuns, StampsHaveSamples
<1>5. UntilCycle = 1 /\ UntilCycle' = 1
  <2>1. Work(due) = 0
    BY <1>1, FS_EmptySet DEF Work, CliIsSet
  <2> QED BY <1>1, <2>1 DEF UntilCycle
<1>6. ASSUME NEW p \in CliPairs, IntervalFits(p)' PROVE InTurn(p)'
  <2>1. (JustTried(p) \/ TooEarly(p)) /\ Asking!Seconds(p)' = Asking!Seconds(p)
    BY <1>1, <1>6 DEF TurnsCome, InTurn, IntervalFits, Others, Asking!Seconds
  <2> QED BY <1>1, <1>5, <2>1 DEF InTurn, JustTried, TooEarly, Untried, Others
<1> QED BY <1>3, <1>4, <1>6 DEF TurnsCome

LEMMA FailureKeepsCli ==
  ASSUME CliIsSet, CliInv, Asking!CycleFails \/ Asking!Dies PROVE CliInv'
<1> USE DEF CliInv, CliTypes
<1>1. /\ cFaults' = cFaults + 1 /\ cFaults < CliFaults
      /\ unbacked' = unbacked \cup DOMAIN batch /\ batch' = <<>> /\ due' = {}
      /\ UNCHANGED <<cNow, last, stored, tracker, misses>>
      /\ \/ pc' = "pause" /\ tried' = [p \in CliPairs |-> cNow]
         \/ pc' = "down" /\ tried' = tried
  BY DEF Asking!CycleFails, Asking!Dies
<1>2. DOMAIN batch' = {}
  BY <1>1
<1>3. CliTypes'
  BY <1>1, <1>2 DEF CliIsSet
<1>4. CountsAreRuns' /\ StampsHaveSamples'
  BY <1>1, <1>2 DEF CountsAreRuns, StampsHaveSamples
<1>5. ASSUME pc' # "down", NEW p \in CliPairs PROVE InTurn(p)'
  <2>1. Others \in Nat
    BY OthersAre
  <2>3. Others' = Others
    BY DEF Others
  <2>2. UntilCycle' = 1 /\ Untried(p)' = 0 /\ p \notin due'
    BY <1>1, <1>5 DEF UntilCycle, Untried
  <2> QED BY <2>1, <2>2, <2>3 DEF InTurn, JustTried
<1> QED BY <1>3, <1>4, <1>5 DEF TurnsCome

LEMMA StartKeepsCli == ASSUME CliIsSet, CliInv, Asking!StartEngine PROVE CliInv'
<1> USE DEF CliInv, CliTypes
<1>1. /\ pc = "down" /\ pc' = "pause" /\ due = {}
      /\ tracker' = [m \in CliMetrics |-> 0] /\ tried' = [p \in CliPairs |-> cNow]
      /\ misses' = [m \in CliMetrics |-> [run |-> 0, alerted |-> {}]]
      /\ UNCHANGED <<cNow, due, batch, last, stored, unbacked, cFaults>>
  BY DEF Asking!StartEngine
<1>2. CliTypes'
  BY <1>1
<1>3. CountsAreRuns' /\ StampsHaveSamples'
  BY <1>1 DEF CountsAreRuns, StampsHaveSamples, CliIsSet
<1>4. ASSUME NEW p \in CliPairs PROVE InTurn(p)'
  <2>1. Others \in Nat
    BY OthersAre
  <2>3. Others' = Others
    BY DEF Others
  <2>2. UntilCycle' = 1 /\ Untried(p)' = 0 /\ p \notin due'
    BY <1>1, <1>4 DEF UntilCycle, Untried
  <2> QED BY <2>1, <2>2, <2>3 DEF InTurn, JustTried
<1> QED BY <1>2, <1>3, <1>4 DEF TurnsCome

LEMMA CliStep == ASSUME CliIsSet, CliInv, [Asking!Next]_(Asking!vars) PROVE CliInv'
<1>1. CASE UNCHANGED Asking!vars
  BY <1>1 DEF Asking!vars, CliInv, CliTypes, CountsAreRuns, StampsHaveSamples, TurnsCome, InTurn,
     JustTried, TooEarly, IntervalFits, Untried, UntilCycle, Work, Others, Asking!Seconds
<1>2. CASE Asking!Next
  <2>1. ASSUME NEW p \in due, NEW reach \in Asking!Reaches, NEW takes \in 0..MaxTakes,
               NEW reply \in Asking!Answers(p[2], reach), Asking!Ask(p, reply, takes)
        PROVE  CliInv'
    BY <2>1, AskKeepsCli
  <2> QED BY <1>2, <2>1, TickKeepsCli, CycleKeepsCli, EndKeepsCli, FailureKeepsCli, StartKeepsCli
      DEF Asking!Next
<1> QED BY <1>1, <1>2

LEMMA CliStarts == ASSUME CliIsSet, Asking!Init PROVE CliInv
<1> USE DEF Asking!Init
<1>1. DOMAIN batch = {}
  OBVIOUS
<1>2. CliTypes
  BY <1>1 DEF CliTypes, CliIsSet
<1>3. CountsAreRuns
  BY DEF CountsAreRuns, CliIsSet
<1>4. StampsHaveSamples
  BY <1>1 DEF StampsHaveSamples, Asking!Never
<1>5. ASSUME NEW p \in CliPairs PROVE InTurn(p)
  <2>1. Others \in Nat /\ UntilCycle = 1 /\ Untried(p) = 0 /\ p \notin due
    <3>1. Others \in Nat
      BY OthersAre
    <3> QED BY <3>1 DEF UntilCycle, Untried
  <2> QED BY <2>1 DEF InTurn, JustTried
<1> QED BY <1>2, <1>3, <1>4, <1>5 DEF CliInv, TurnsCome

LEMMA CliKeepsItsWord == ASSUME CliIsSet, CliInv PROVE Asking!CliHolds
<1> USE DEF CliInv, CliTypes
<1>1. Asking!TypeOK
  BY DEF Asking!TypeOK
<1>2. Asking!AlertsAreEarned
  BY DEF Asking!AlertsAreEarned, CountsAreRuns
<1>3. Asking!StampsAreBacked
  BY DEF Asking!StampsAreBacked, StampsHaveSamples, Asking!Never
<1>4. ASSUME NEW p \in CliPairs, pc # "down", CliInterval[p[2]] + Others < Day
      PROVE  cNow - tried[p] <= CliInterval[p[2]] + 3 * Others + 1
  <2>1. PICK s \in Nat, i \in Nat, n \in Int, d \in Nat :
          s = Asking!Seconds(p) /\ i = CliInterval[p[2]] /\ n = cNow - tried[p] /\ d = Work(due)
    <3>1. Asking!Seconds(p) \in Nat /\ CliInterval[p[2]] \in Nat
      BY SecondsGrow
    <3>2. Work(due) \in Nat /\ cNow - tried[p] \in Int
      BY WorkBeside
    <3> QED BY <3>1, <3>2
  <2>2. Others \in Nat /\ MaxTakes \in Nat /\ (p \in due => d >= MaxTakes)
    BY <2>1, OthersAre, WorkWithout
  <2>3. UntilCycle \in Nat
    BY <2>1 DEF UntilCycle
  <2>4. \/ p \in due /\ n + d <= i + 3 * Others + 1 + MaxTakes
        \/ n + UntilCycle <= Others + 1
        \/ n <= Others + 1 + s /\ s + UntilCycle <= i + Others
    BY <1>4, <2>1 DEF TurnsCome, InTurn, IntervalFits, JustTried, TooEarly, Untried
  <2>5. n <= i + 3 * Others + 1
    <3>1. PICK o \in Nat, k \in Nat, u \in Nat : o = Others /\ k = MaxTakes /\ u = UntilCycle
      BY <2>2, <2>3
    <3>2. \/ d >= k /\ n + d <= i + 3 * o + 1 + k
          \/ n + u <= o + 1
          \/ n <= o + 1 + s /\ s + u <= i + o
      BY <2>2, <2>4, <3>1
    <3>3. n <= i + 3 * o + 1
      BY <3>2
    <3> QED BY <3>1, <3>3
  <2> QED BY <2>1, <2>5
<1>5. Asking!AskedInTime
  BY <1>4, AskingCount DEF Asking!AskedInTime, Others
<1> QED BY <1>1, <1>2, <1>3, <1>5 DEF Asking!CliHolds

-----------------------------------------------------------------------------
(* All the parts. The others leave a part's variables alone, so that each   *)
(* runs as if it were by itself.                                            *)

\* Each part runs as its own specification says.
LEMMA EachPartRuns ==
  Spec => Dumps!Spec /\ Desk!Spec /\ Granting!Spec /\ Assigning!Spec
          /\ Cables!Spec /\ Graph!Spec /\ Feed!Spec /\ Asking!Spec
<1> USE DEF DumpsNext, DeskNext, GrantingNext, AssigningNext, CablesNext, GraphNext, FeedNext,
            AskingNext, vars, bVars, tVars, rVars, aVars, lVars, gVars, fVars, cVars
<1>1. [Next]_vars => [Dumps!Next]_Dumps!vars
  BY DEF Next, Dumps!vars
<1>2. [Next]_vars => [Desk!Next]_Desk!vars
  BY DEF Next, Desk!vars
<1>3. [Next]_vars => [Granting!Next]_Granting!vars
  BY DEF Next, Granting!vars
<1>4. [Next]_vars => [Assigning!Next]_Assigning!vars
  BY DEF Next, Assigning!vars, Assigning!data, Assigning!guard
<1>5. [Next]_vars => [Cables!Next]_Cables!vars
  BY DEF Next, Cables!vars
<1>6. [Next]_vars => [Graph!Next]_Graph!vars
  BY DEF Next, Graph!vars
<1>7. [Next]_vars => [Feed!Next]_Feed!vars
  BY DEF Next, Feed!vars
<1>8. [Next]_vars => [Asking!Next]_Asking!vars
  BY DEF Next, Asking!vars
<1>9. Init => Dumps!Init /\ Desk!Init /\ Granting!Init /\ Assigning!Init
              /\ Cables!Init /\ Graph!Init /\ Feed!Init /\ Asking!Init
  BY DEF Init
<1> QED BY <1>1, <1>2, <1>3, <1>4, <1>5, <1>6, <1>7, <1>8, <1>9, PTL
        DEF Spec, Dumps!Spec, Desk!Spec, Granting!Spec, Assigning!Spec, Cables!Spec, Graph!Spec,
        Feed!Spec, Asking!Spec

(* Whatever the retention is set to, whoever triggers runs beside the       *)
(* schedule, and however often a run fails or the backend restarts: once a  *)
(* dump succeeded a whole one remains, and what the history calls a success *)
(* within the retention can be restored (backup_service.py).                *)
THEOREM BackupsAlwaysHold == ASSUME DumpsApart PROVE Spec => []BackupsHold
<1>1. Dumps!Init => BackupInv
  BY BackupStart, SettingsAssumption
<1>2. BackupInv /\ [Dumps!Next]_Dumps!vars => BackupInv'
  BY BackupStep, SettingsAssumption
<1>3. BackupInv => BackupsHold
  BY DEF BackupInv, BackupsHold
<1> QED BY <1>1, <1>2, <1>3, EachPartRuns, PTL DEF Dumps!Spec

(* For any number of workers and users: a ticket's type is that of its      *)
(* service, a user's lock is held by a request that creates a ticket for    *)
(* the user, a closed ticket is archived, with its reason unless an update  *)
(* overtook the closing; and a settled user has what the role has, and      *)
(* nobody a permission that was not given (ticket_folio_service.py,         *)
(* permission seeding and backfill).                                        *)
THEOREM DeskAlwaysHolds == Spec => []DeskHolds
<1>1. Desk!Init => DeskInv /\ StaleInv
  BY DeskStart, StaleStarts, SettingsAssumption
<1>2. DeskInv /\ StaleInv /\ [Desk!Next]_Desk!vars => DeskInv' /\ StaleInv'
  BY DeskStep, StaleStep, SettingsAssumption
<1>3. Granting!Init => GrantInv
  BY GrantStart, SettingsAssumption
<1>4. GrantInv /\ [Granting!Next]_Granting!vars => GrantInv'
  BY GrantStep, SettingsAssumption
<1>5. DeskInv /\ StaleInv /\ GrantInv => DeskHolds
  BY DeskKeepsItsWord, GrantHolds DEF DeskHolds
<1> QED BY <1>1, <1>2, <1>3, <1>4, <1>5, EachPartRuns, PTL DEF Desk!Spec, Granting!Spec

\* What is promised of the types follows from them.
LEMMA TypesAreSeen == ASSUME NamesAreApart, AssignInv PROVE Assigning!TypeOK
<1>1. \A n \in {0} \cup Assigning!Entries : n \in 0..Assigning!Cardinality(Threads)
  BY EntriesAreNumbers, AssigningCount DEF Assigning!Entries
<1>2. entry \in [Metrics -> 0..Assigning!Cardinality(Threads)]
  BY <1>1 DEF AssignInv, AssignTypes
<1>3. \A h \in Assigning!Holders : has[h] \subseteq {m \in Metrics : def[m] # Assigning!NoDef}
  BY DEF AssignInv, AssignTypes, LinksJoin
<1> QED BY <1>2, <1>3 DEF AssignInv, AssignTypes, LinksJoin, Assigning!TypeOK

\* The three invariants of metrics and dictionaries hold at all times.
LEMMA AssignmentsInv == Spec => []AssignInv /\ []RegistryInv /\ []LinkInv
<1>1. NamesAreApart
  BY SettingsAssumption
<1>2. Assigning!Spec => []AssignInv /\ []RegistryInv
  BY <1>1, AssignmentsAlways, PTL
<1>3. Assigning!Init => LinkInv
  BY <1>1, LinksStart
<1>4. AssignInv /\ RegistryInv /\ LinkInv /\ [Assigning!Next]_Assigning!vars => LinkInv'
  BY <1>1, LinksStep
<1> QED BY <1>2, <1>3, <1>4, EachPartRuns, PTL DEF Assigning!Spec

(* However many threads enter and leave the registry of locks, and whatever *)
(* fails, one creation or deletion of a metric is at work at a time, and    *)
(* the registry keeps no lock that no thread has a reference to             *)
(* (metric_operation_guard.py).                                             *)
THEOREM OperationsExcludeEachOther ==
  Spec => []Assigning!OneOperationPerMetric /\ []Assigning!RegistryIsClean
<1>1. AssignInv /\ RegistryInv => Assigning!OneOperationPerMetric
  BY OneAtATime
<1>2. RegistryInv => Assigning!RegistryIsClean
  BY DEF RegistryInv
<1> QED BY <1>1, <1>2, AssignmentsInv, PTL

(* Once nothing is under way, a CI whose last reconciliation ended well,    *)
(* with no other write to the CI or to a definition in the midst of it, is  *)
(* polled for every metric whose criteria it meets, and for no other but    *)
(* those that name it: of the saves, creations and deletions of metrics     *)
(* that were interleaved none is forgotten (metric_assignment_service.py).  *)
THEOREM CriteriaAreMetAtRest == Spec => []Assigning!CriteriaAreMet
<1>1. AssignInv /\ LinkInv => Assigning!CriteriaAreMet
  BY LinksSeen
<1> QED BY <1>1, AssignmentsInv, PTL

(* For any files of records, slots, versions and number of scripts, however *)
(* they overlap, die or are run again: the tasks of a finished run are      *)
(* those that its records ask for, of the version of their cycle, and every *)
(* source that is to be pinged is (scheduler.py, polling_enqueue_cycle.py). *)
THEOREM TasksAreWanted == Spec => []Feed!FeedInvariant
<1>1. FeedIsSet
  BY SettingsAssumption
<1>2. Feed!Init => FeedInv
  BY <1>1, FeedStarts
<1>3. FeedInv /\ [Feed!Next]_Feed!vars => FeedInv'
  BY <1>1, FeedStep
<1>4. FeedInv => Feed!FeedInvariant
  BY <1>1, FeedKeepsItsWord
<1> QED BY <1>2, <1>3, <1>4, EachPartRuns, PTL DEF Feed!Spec

(* For any metrics, CIs, intervals and credentials, whatever devices answer,*)
(* whichever cycles fail and whenever the engine dies: a metric whose        *)
(* interval leaves room for a cycle in a day is asked again in its interval  *)
(* and three times what all other metrics take at most, connect timeouts     *)
(* included, an alert is of as many misses in a row as it says, and a stamp  *)
(* of a poll has its sample (cli_worker.py).                                 *)
THEOREM MetricsAreAskedInTime == Spec => []Asking!CliHolds
<1>1. CliIsSet
  BY SettingsAssumption
<1>2. Asking!Init => CliInv
  BY <1>1, CliStarts
<1>3. CliInv /\ [Asking!Next]_Asking!vars => CliInv'
  BY <1>1, CliStep
<1>4. CliInv => Asking!CliHolds
  BY <1>1, CliKeepsItsWord
<1> QED BY <1>2, <1>3, <1>4, EachPartRuns, PTL DEF Asking!Spec

(* All that is promised of metrics, dictionaries, tasks and the CLI engine. *)
THEOREM AssignmentsAlwaysHold == Spec => []AssignmentsHold
<1>1. AssignInv => Assigning!TypeOK
  BY TypesAreSeen, SettingsAssumption
<1>2. AssignInv /\ RegistryInv /\ LinkInv => Assigning!AssignmentInvariant
  BY <1>1, OneAtATime, LinksSeen DEF Assigning!AssignmentInvariant, RegistryInv
<1>3. Assigning!AssignmentInvariant /\ Feed!FeedInvariant /\ Asking!CliHolds => AssignmentsHold
  BY DEF AssignmentsHold
<1> QED BY <1>2, <1>3, AssignmentsInv, TasksAreWanted, MetricsAreAskedInTime, PTL

(* For any CIs, links, windows and octets, whatever fails, restarts or is   *)
(* edited meanwhile: a physical link joins CIs that exist, a stamp of the   *)
(* bridge is backed by a sample and a utilization by what passed; a tunnel  *)
(* ends in a hub, and mass creations and the graph say what they find       *)
(* (physical_link_service.py, physical_link_bridge.py, link_service.py).    *)
THEOREM LinksAlwaysHold == Spec => []LinksHold
<1>1. LinksAreSet /\ GraphIsSet
  BY SettingsAssumption
<1>2. Cables!Init => CablesInv
  BY <1>1, CablesStart
<1>3. CablesInv /\ [Cables!Next]_Cables!vars => CablesInv'
  BY <1>1, CablesStep
<1>4. Graph!Init => GraphInv
  BY <1>1, GraphStarts
<1>5. GraphInv /\ [Graph!Next]_Graph!vars => GraphInv'
  BY <1>1, GraphStep
<1>6. CablesInv /\ GraphInv => LinksHold
  BY <1>1, CablesHold, GraphHolds DEF LinksHold
<1> QED BY <1>2, <1>3, <1>4, <1>5, <1>6, EachPartRuns, PTL DEF Cables!Spec, Graph!Spec

(* For any instance: no step of a desk opens a ticket on an inactive        *)
(* service, or moves one other than one status forward, but for updates     *)
(* that another has overtaken since they read the ticket;                   *)
(* no step of the backend takes from a system role; the bridge declares and *)
(* ends no outage of an operator; a mass request touches what its user sees *)
(* listed; and no task is polled twice.                                     *)
THEOREM StepsAlwaysHold == Spec => StepsHold
<1>1. DeskIsSet /\ RolesAreSet /\ LinksAreSet /\ GraphIsSet /\ FeedIsSet
  BY SettingsAssumption
<1>2. Desk!Init => DeskInv /\ StaleInv
  BY <1>1, DeskStart, StaleStarts
<1>3. DeskInv /\ StaleInv /\ [Desk!Next]_Desk!vars => DeskInv' /\ StaleInv' /\ Desk!DeskSteps
  BY <1>1, DeskStep, StaleStep, DeskStepsHold
<1>4. Granting!Init => GrantInv
  BY <1>1, GrantStart
<1>5. GrantInv /\ [Granting!Next]_Granting!vars => GrantInv' /\ Granting!SystemRolesGrow
  BY <1>1, GrantStep, RolesStepsHold
<1>6. Cables!Init => CablesInv
  BY <1>1, CablesStart
<1>7. CablesInv /\ [Cables!Next]_Cables!vars => CablesInv' /\ Cables!OutagesAreOperators
  BY <1>1, CablesStep, OutagesStay
<1>8. Graph!Init => GraphInv
  BY <1>1, GraphStarts
<1>9. GraphInv /\ [Graph!Next]_Graph!vars => GraphInv' /\ Graph!MassSteps
  BY <1>1, GraphStep, MassStepsHold
<1>10. Feed!Init => FeedInv
  BY <1>1, FeedStarts
<1>11. FeedInv /\ [Feed!Next]_Feed!vars => FeedInv' /\ Feed!PolledOnce
  BY <1>1, FeedStep, FeedPolledOnce
<1> QED BY <1>2, <1>3, <1>4, <1>5, <1>6, <1>7, <1>8, <1>9, <1>10, <1>11, EachPartRuns, PTL
        DEF StepsHold, Desk!Spec, Granting!Spec, Cables!Spec, Graph!Spec, Feed!Spec
=============================================================================
