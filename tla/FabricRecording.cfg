SPECIFICATION FairSpec
CONSTANTS
  MaxRec = 5
  Leaves = {1, 2}
  Host <- ThreeHosts
  Payloads <- TwoPayloads
  Kinds = {"ip"}
  InitialHosts <- ThreeHosts
  InitialRules <- NearlySetUp
  LateConfig = {}
  Operations = {"bridging", "metrics", "enable", "stop"}
  MaxPackets = 1
  MaxOps = 4
  Careful = TRUE
INVARIANTS
  TypeOK
  TransparencyInv
  PayloadIntact
  ReportIsPath
  StrippedIsReported
PROPERTIES
  UnicastArrives
\* The bounds on packets and operations stop the system.
CHECK_DEADLOCK FALSE
