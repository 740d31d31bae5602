CONSTANTS
  Temperatures = {0, 401, 65378}
  PowerOnValue = 1360
  BatteryLevels = {254}
SPECIFICATION Spec
INVARIANTS
  UndisturbedFrameIsFresh
  FailureSendsZero
  IInv
PROPERTY
  ImplementsContract
