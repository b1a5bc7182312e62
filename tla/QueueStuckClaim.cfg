SPECIFICATION Spec
CONSTANTS
  Pipelines = {p1}
  Clients = {c1}
  StartBlocks = {b1}
  MaxVersion = 1
  MaxStops = 1
  None = None
INVARIANT InterruptedJobIsRetryable
