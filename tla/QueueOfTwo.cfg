SPECIFICATION FairSpec
CONSTANTS
  Pipelines = {p1, p2}
  Clients = {c1}
  StartBlocks = {b1}
  MaxVersion = 1
  MaxStops = 0
  None = None
PROPERTIES
  PendingIsServed
  ActiveBuildSettles
