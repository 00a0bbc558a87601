SPECIFICATION FairSpec
CONSTANTS
  Leaves = {1}
  Host <- OneHost
  InitiallyUp = {0}
  LateConfig = {}
  Retries = 1
  MaxLoads = 1
  MaxDowns = 1
INVARIANTS
  DevicesAccountedFor
  HostsAccountedWhileUp
PROPERTIES
  HostsLearned
\* The bounds on loads and on devices going down stop the system.
CHECK_DEADLOCK FALSE
