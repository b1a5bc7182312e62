SPECIFICATION FairSpec
CONSTANTS
  Pipelines = {p1}
  Clients = {c1}
  Approvals = {a1}
  StartBlocks = {b1}
  MaxVersion = 1
  MaxStops = 1
  MaxDeployments = 2
  None = None
PROPERTIES
  ShutdownEnds
  ExitIsSeen
