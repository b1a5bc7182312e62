SPECIFICATION Spec
CONSTANTS
  Pipelines = {p1}
  Clients = {c1, c2}
  StartBlocks = {b1}
  MaxVersion = 2
  MaxStops = 1
  None = None
SYMMETRY Symmetry
INVARIANTS
  TypeOK
  LiveJobIsActiveVersion
  ApprovableIsValidated
  ActiveStateHasWorker
  OrphanRunIsCancelled
  QueueInv
PROPERTIES
  RunsEndOnce
  OnlyCancellationIsLost
  ImplementsBuildJobs
