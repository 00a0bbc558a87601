SPECIFICATION FairSpec
CONSTANTS
  Answers <- Limits
  Ttl = 1
  MaxDrops = 2
  Half = 3
  ClockSteps <- BackAndForth
  MaxTime = 2
  MaxSetBack = 1
  MaxRequests = 2
INVARIANTS
  TypeOK
PROPERTIES
  PassesAreLicensed
  NoEarlyRetry
  BurstWithinValue
  StateArrives
