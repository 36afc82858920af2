SPECIFICATION Spec
CONSTANTS
  Words <- SomeWords
  Blocks <- SomeBlocks
  Texts <- SomeTexts
  Invalid = "invalid"
  Pton <- SomePton
  Ntop <- SomeNtop
  p1 = p1
  p2 = p2
  p3 = p3
  c1 = c1
  c2 = c2
  Places = {p1, p2, p3}
  Calls = {c1, c2}
  MaxFds = 2
  MaxFiles = 3
  Faults = {"refused", "error"}
SYMMETRY Symmetry
INVARIANTS
  TypeOK
  OneOwner
  RequestHitsItsFile
CHECK_DEADLOCK FALSE
