SPECIFICATION Spec
CONSTANTS
  Pipelines = {p1}
  Clients = {c1}
  Approvals = {a1, a2}
  StartBlocks = {b1}
  MaxVersion = 1
  MaxStops = 1
  MaxDeployments = 2
  None = None
SYMMETRY Symmetry
INVARIANTS
  TypeOK
  LiveHasProduct
  StoppedHasNoSink
  DeployInv
PROPERTIES
  SinkStartsForOpenRow
  ListensWithSinks
