SPECIFICATION Spec
CONSTANTS
  c1 = c1
  c2 = c2
  o1 = o1
  o2 = o2
  Loop = Loop
  Waker = Waker
  NoThread = NoThread
  Clients = {c1}
  Ops = {}
  Silent = {}
  SqEntries = 2
  BatchSize = 2
  ErrExiters = {c1}
  Faults = {}
INVARIANTS
  RequestedErrorKept
