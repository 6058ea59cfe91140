\* One transfer over a line that loses and delays and keeps the order.
SPECIFICATION FairSpec
CONSTANTS
  WindowSize = 2
  LastPacket = 4
  MaxSessions = 1
  Faults <- LossyLine
  MaxFaults = 3
  LocalPort = 5010
PROPERTIES
  Completes
