SPECIFICATION Spec
CONSTANTS
  Words <- SomeWords
  Blocks <- SomeBlocks
  Texts <- SomeTexts
  Invalid = "invalid"
  Pton <- SomePton
  Ntop <- SomeNtop
  p1 = p1
  p2 = p2
  p3 = p3
  c1 = c1
  c2 = c2
  Places = {p1, p2}
  Calls = {c1}
  MaxFds = 2
  MaxFiles = 3
  Faults = {}
INVARIANT
  ClosedOnlyOnce
CHECK_DEADLOCK FALSE
