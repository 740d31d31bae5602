CONSTANTS
  Temperatures = {401}
  PowerOnValue = 1360
  BatteryLevels = {254}
SPECIFICATION Spec
INVARIANT
  SuccessIsMeasured
