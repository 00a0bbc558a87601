SPECIFICATION Spec
CONSTANTS
  MaxRec = 5
  Leaves = {1, 2}
  Host <- TwoHosts
  Payloads <- OnePayload
  Kinds = {"ip"}
  InitialHosts <- TwoHosts
  InitialRules <- MetricsOnly
  LateConfig = {}
  Operations = {"bridging", "enable"}
  MaxPackets = 1
  MaxOps = 2
  Careful = FALSE
INVARIANTS
  HeaderStaysInside
\* The bounds on packets and operations stop the system.
CHECK_DEADLOCK FALSE
