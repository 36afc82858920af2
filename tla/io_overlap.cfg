SPECIFICATION FairSpec
CONSTANTS
  o1 = o1
  o2 = o2
  Ops = {o1, o2}
  Kinds = {"read", "write"}
  Apis = {"async", "sync"}
  Shapes <- TwoShapes
  Conds <- TwoConds
  FdTypes = {TRUE}
  Overlap = TRUE
  Temporary = {}
  Seeks = {1}
  FileLen = 3
  FileMax = 4
  Faults = {"error"}
INVARIANTS
  RequestsWhatIsMissing
  OffsetCountsTransfers
PROPERTIES
  CallbackIsInvoked
CHECK_DEADLOCK FALSE
