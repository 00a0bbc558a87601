SPECIFICATION FairSpec
CONSTANTS
  MaxRec = 5
  Leaves = {1, 2}
  Host <- ThreeHosts
  Payloads <- OnePayload
  Kinds = {"arp", "lldp", "probe"}
  InitialHosts <- NoHosts
  InitialRules <- Flooding
  LateConfig = {}
  Operations = {"learn", "cleanup"}
  MaxPackets = 1
  MaxOps = 1
  Careful = TRUE
INVARIANTS
  BroadcastOnce
  DiscoveryIsTrue
PROPERTIES
  BroadcastReachesAll
\* The bounds on packets and operations stop the system.
CHECK_DEADLOCK FALSE
