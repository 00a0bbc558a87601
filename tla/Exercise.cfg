SPECIFICATION NetSpec
CONSTANTS
  NoSwitch = "none"
  Switch <- AllSwitches
  Hosts <- AllHosts
  Files <- MCFiles
  Infos <- MCInfos
  TooLong <- LongRequests
  Setups <- MCSetups
  Timeout = 3
INVARIANTS
  TypeOK
  EncodingIsFaithful
  NoImpostor
  CommandsReachTheirSwitch
  DumpTells
  NoOpenStreams
  PromptMeansProgrammed
  NoLoop
  NoStray
  ArrivalsTellTheWay
PROPERTIES
  ProgramsByStages
  ComesUp
  Answered
\* The script ends.
CHECK_DEADLOCK FALSE
