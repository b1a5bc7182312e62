SPECIFICATION Spec
CONSTANTS
  Pipelines = {p1}
  Clients = {c1}
  Approvals = {a1}
  StartBlocks = {b1, b2}
  MaxVersion = 2
  MaxStops = 0
  MaxDeployments = 1
  None = None
INVARIANTS
  DeployedStartIsValidated
