SPECIFICATION Spec
CONSTANTS
  Pipelines = {p1}
  Clients = {c1, c2}
  StartBlocks = {b1}
  MaxVersion = 1
  MaxStops = 0
  None = None
INVARIANT CancelledChildIsKilled
