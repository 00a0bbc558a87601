SPECIFICATION FairSpec
CONSTANTS
  None = None
  Setups <- MCSetups
INVARIANTS
  ExitTells
  PortsAgree
  PathIsShortest
  RoutesLead
PROPERTIES
  AppEnds
\* The script waits as long as a command that does not end.
CHECK_DEADLOCK FALSE
