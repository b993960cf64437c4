CONSTANTS
  s1 = s1
  s2 = s2
  s3 = s3
  s4 = s4
  availA = availA
  failA = failA
  latB = latB
  failB = failB
  Sessions <- MCSessions
  Triplets <- MCTriplets
  Rank <- MCRank
  Family <- MCFamily
  Hash <- MCRank
  Collector <- MCCollector
  MaxTriplets = 3
  MixedRuns = FALSE
SPECIFICATION FairSpec
INVARIANTS NoDeadlock
PROPERTIES EveryRunEnds
