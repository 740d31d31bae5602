CONSTANTS
  Uplinks = {u1}
  Events = {ack}
  NonObjects = {number}
  Malformed = {garbage}
  NTopics = 1
  MaxDeliveries = 1
  u1 = u1
  ack = ack
  number = number
  garbage = garbage
SPECIFICATION Spec
INVARIANT
  ThreadStopsBeforeClient
