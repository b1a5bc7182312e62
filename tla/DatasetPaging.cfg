SPECIFICATION FairSpec
CONSTANTS
  Readers = {c1}
  MaxBlock = 3
  Forks = {0, 1}
  LogsOf <- MCLogsOf
  HourOf <- MCHourOf
  Queries <- MCQueries
  MaxUndos = 2
  None = None
CHECK_DEADLOCK FALSE
INVARIANTS
  PagingInv
  WalkDescends
  NothingStableIsSkipped
  AggregatesAgree
PROPERTIES
  WalkEnds
