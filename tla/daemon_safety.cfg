CONSTANTS
  Uplinks = {u1, u2}
  Events = {ack}
  NonObjects = {number}
  Malformed = {garbage}
  NTopics = 5
  MaxDeliveries = 3
  u1 = u1
  u2 = u2
  ack = ack
  number = number
  garbage = garbage
SPECIFICATION FairSpec
INVARIANTS
  StepsEnabled
  CleanExit
  NoSilentShutdown
  ExceptionIsSettled
  SubscribedOrGone
  PayloadFitsMessage
  IInv
PROPERTIES
  QuitIsHonoured
  ErrorReachesUser
  ImplementsContract
