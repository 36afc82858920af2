SPECIFICATION Spec
CONSTANTS
  o1 = o1
  o2 = o2
  Ops = {o1, o2}
  Kinds = {"read", "write"}
  Apis = {"async", "sync"}
  Shapes <- SomeShapes
  Conds <- SomeConds
  FdTypes = {TRUE, FALSE}
  Overlap = FALSE
  Temporary = {}
  Seeks = {1}
  FileLen = 4
  FileMax = 6
  Faults = {"error", "refused"}
INVARIANTS
  TypeOK
  AnswerIsTrue
  RequestsWhatIsMissing
  TransferIsContiguous
CHECK_DEADLOCK FALSE
