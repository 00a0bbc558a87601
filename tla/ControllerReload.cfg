SPECIFICATION FairSpec
CONSTANTS
  Leaves = {}
  Host <- NoHost
  InitiallyUp = {0}
  LateConfig = {0}
  Retries = 1
  MaxLoads = 2
  MaxDowns = 1
INVARIANTS
  TypeOK
PROPERTIES
  LoadingEnds
  DevicesSetUp
\* The bounds on loads and on devices going down stop the system.
CHECK_DEADLOCK FALSE
