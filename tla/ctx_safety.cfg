SPECIFICATION Spec
CONSTANTS
  c1 = c1
  c2 = c2
  o1 = o1
  o2 = o2
  Loop = Loop
  Waker = Waker
  NoThread = NoThread
  Clients = {c1, c2}
  Ops = {o1, o2}
  Silent = {o2}
  SqEntries = 2
  BatchSize = 1
  ErrExiters = {Loop}
  Faults = {}
SYMMETRY Symmetry
INVARIANTS
  SqExclusive
  NoOrphanCompletion
  NoLeakedCallback
  ExactlyOnce
  NoLostWakeup
  WakerArmed
  WakerReadReady
  RequestedErrorKept
