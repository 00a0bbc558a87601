SPECIFICATION NetSpec
CONSTANTS
  NoSwitch = "none"
  Switch <- AllSwitches
  Hosts <- AllHosts
  Files <- MCFiles
  Infos <- MCInfos
  TooLong <- LongRequests
  Setups <- OwnPrograms
  Timeout = 3
INVARIANTS
  OwnPorts
