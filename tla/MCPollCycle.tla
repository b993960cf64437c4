------------------------------ MODULE MCPollCycle ------------------------------
(***************************************************************************)
(* The engine's cycle over two pairs of CIs, and the event batches of the  *)
(* queue's writer, which share no state and go side by side in one run;     *)
(* part says which one a behaviour is about:                                *)
(*   cycle   PollCycle, CI b behind CI a, both over ICMP                    *)
(*   mixed   PollCycle, d over ICMP with jitter behind c over SNMP          *)
(*   batch   EventBatch, two polls                                          *)
(***************************************************************************)
EXTENDS PollCycle

CONSTANT Parts     \* those of the run

VARIABLES part, outcome, waiting, rows, statement, active, displayed, bfailures

MCParents == [c \in CIs |-> IF c = "b" THEN {"a"} ELSE IF c = "d" THEN {"c"} ELSE {}]
MCUnconfirmed == {<<"b", "a">>, <<"d", "c">>}

B == INSTANCE EventBatch WITH
       Polls <- {1, 2}, Outcomes <- {"ok", "breach", "fail", "slow", "fast", "down"},
       BatchSize <- 2, MaxFailures <- 2,
       batch <- rows, pc <- statement, shown <- displayed, failures <- bfailures

batchVars == <<outcome, waiting, rows, statement, active, displayed, bfailures>>
allVars == <<part, vars, batchVars>>

Pair == [cycle |-> {"a", "b"}, mixed |-> {"c", "d"}, batch |-> {}][part]

MCInit ==
  /\ part \in Parts
  /\ Init /\ \A c \in CIs \ Pair : up[c]
  /\ B!Init /\ (part # "batch" => outcome = [p \in {1, 2} |-> "ok"])

\* The other pair answers and is never due; the bounds of the two differ.
OnPair ==
  /\ UNCHANGED <<part, batchVars>>
  /\ \A c \in CIs \ Pair : up'[c]
  /\ \A k \in Keys : k[1] \notin Pair => obs'[k] = "none"
  /\ part = "cycle" => closings' = 0
  /\ part = "mixed" => flips' <= 1 /\ restarts' = 0

CycleNext == part \in {"cycle", "mixed"} /\ Next /\ OnPair
BatchNext == part = "batch" /\ B!Next /\ UNCHANGED <<part, vars>>

\* The fairness of PollCycle, for the pair whose metrics are all due at times.
MCSpec ==
  /\ MCInit /\ [][CycleNext \/ BatchNext]_allVars
  /\ WF_allVars(part = "cycle" /\ Cycle /\ OnPair)
  /\ SF_allVars(part = "cycle" /\ Poll({Main("a"), Main("b")}) /\ OnPair)

-----------------------------------------------------------------------------
(* PollCycle: a CI that stays down is seen in the events in the end.        *)
MCDownIsSeen == part = "cycle" => DownIsSeen

(* PollCycle: a CI that answers again loses its active event in the end.    *)
MCAnsweringIsRecovered == part = "cycle" => AnsweringIsRecovered

(* EventBatch: a batch leaves what its newest rows say.  Breach events and  *)
(* the status shown follow them, whatever the order in the batch, and a     *)
(* number leaves no collection failure.                                     *)
BatchLeavesNewest == B!TypeOK /\ B!BreachIsNewest /\ B!NumberEndsFailure /\ B!ShownIsNewest
=============================================================================
