SPECIFICATION Spec
CONSTANTS
  o1 = o1
  o2 = o2
  Ops = {o1}
  Kinds = {"write"}
  Apis = {"async"}
  Shapes <- OneShape
  Conds <- OneCond
  FdTypes = {FALSE}
  Overlap = FALSE
  Temporary = {o1}
  Seeks = {}
  FileLen = 3
  FileMax = 4
  Faults = {}
INVARIANTS
  AnswerIsTrue
CHECK_DEADLOCK FALSE
