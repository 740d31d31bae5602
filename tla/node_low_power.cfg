CONSTANTS
  MibStatus = {"OK"}
  MaxResets = 0
SPECIFICATION Spec
INVARIANT
  LowPowerOnlyWhenIdle
