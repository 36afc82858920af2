SPECIFICATION FairSpec
CONSTANTS
  f1 = f1
  f2 = f2
  f3 = f3
  s1 = s1
  s2 = s2
  loop = loop
  starter = starter
  op = op
  acc = acc
  nobody = nobody
  Tasks = {f1, f2, f3}
  Series = {s1, s2}
  Loop = loop
  Starters = {starter}
  Guarded = {f1}
  Transfers = {op}
  Connects = {op}
  Accepts = {acc}
  Faults = {"accept", "refused"}
  Nobody = nobody
INVARIANTS
  TypeOK
  CallbackFindsFrame
  ResumedByOne
  RunsOnce
  ValueLifetime
PROPERTIES
  ActsLikeCalls
  SyncWait
CHECK_DEADLOCK FALSE
