SPECIFICATION Spec
CONSTANTS
  c1 = c1
  c2 = c2
  o1 = o1
  o2 = o2
  Loop = Loop
  Waker = Waker
  NoThread = NoThread
  Clients = {c1}
  Ops = {o1, o2}
  Silent = {o2}
  SqEntries = 2
  BatchSize = 2
  ErrExiters = {Loop}
  Faults = {"wake", "poll", "read", "wait", "submit"}
INVARIANTS
  TypeOK
  SqExclusive
  NoOrphanCompletion
  NoLeakedCallback
  ExactlyOnce
  WakerReadReady
PROPERTIES
  KeepsPromise
CHECK_DEADLOCK FALSE
