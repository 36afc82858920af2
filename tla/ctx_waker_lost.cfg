SPECIFICATION FairSpec
CONSTANTS
  c1 = c1
  c2 = c2
  o1 = o1
  o2 = o2
  Loop = Loop
  Waker = Waker
  NoThread = NoThread
  Clients = {c1}
  Ops = {o1, o2}
  Silent = {}
  SqEntries = 2
  BatchSize = 2
  ErrExiters = {}
  Faults = {}
PROPERTIES
  ExitEndsRun
