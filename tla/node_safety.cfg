CONSTANTS
  MibStatus = {"OK"}
  MaxResets = 2
  MaxFrames = 3
SPECIFICATION CountersFairSpec
INVARIANTS
  CountersStepsEnabled
  NeverStranded
  InterruptMeetsSleepingLoop
  DueUplinkCanBeSent
  OneJoinAtATime
  DelayFitsSession
  LowPowerMissesNoMacEvent
  ReplacedOnlyAfterTwoRestarts
PROPERTIES
  DueUplinkIsAttempted
  UplinksKeepComing
  UplinkIsAnswered
  JoinKeepsBeingTried
  ImplementsContract
  CatchesUp
