SPECIFICATION FairSpec
CONSTANTS
  c1 = c1
  c2 = c2
  o1 = o1
  o2 = o2
  Loop = Loop
  Waker = Waker
  NoThread = NoThread
  Clients = {c1}
  Ops = {o1, o2}
  Silent = {o2}
  SqEntries = 3
  BatchSize = 1
  ErrExiters = {c1, Loop}
  Faults = {}
PROPERTIES
  RequestIsSubmitted
  CompletionIsHeard
  ExitEndsRun
