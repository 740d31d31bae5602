CONSTANTS
  MibStatus = {"OK"}
  MaxResets = 1
  Samples = {s1, s2}
  AppDataSize = 3
  IsTxConfirmed = FALSE
  Garbage <- MCGarbage
  s1 = s1
  s2 = s2
SPECIFICATION FramesFairSpec
INVARIANTS
  ReportFitsFrame
  FramesInv
PROPERTY
  WantedIsSent
