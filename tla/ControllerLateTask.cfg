SPECIFICATION Spec
CONSTANTS
  Leaves = {1}
  Host <- OneHost
  InitiallyUp = {0, 1}
  LateConfig = {}
  Retries = 1
  MaxLoads = 1
  MaxDowns = 0
INVARIANTS
  UnloadedIsClean
\* The bounds on loads and on devices going down stop the system.
CHECK_DEADLOCK FALSE
