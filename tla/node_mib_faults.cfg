CONSTANTS
  MibStatus = {"OK", "ERROR"}
  MaxResets = 2
  MaxFrames = 3
SPECIFICATION CountersSpec
INVARIANTS
  IInv
  CountersInv
