SPECIFICATION Spec
CONSTANTS
  MaxRec = 5
  Leaves = {1, 2}
  Host <- TwoHosts
  Payloads <- OnePayload
  Kinds = {"ip", "probe"}
  InitialHosts <- TwoHosts
  InitialRules <- AllSetUp
  LateConfig = {}
  Operations = {"enable", "stop"}
  MaxPackets = 1
  MaxOps = 2
  Careful = TRUE
INVARIANTS
  ReportedBySinkOnly
\* The bounds on packets and operations stop the system.
CHECK_DEADLOCK FALSE
