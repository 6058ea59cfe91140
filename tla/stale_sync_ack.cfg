\* A late SYNC and its ACK cost the file packet 0.
SPECIFICATION Spec
CONSTANTS
  WindowSize = 2
  LastPacket = 2
  MaxSessions = 1
  Faults <- LossyLine
  MaxFaults = 2
  LocalPort = 5010
INVARIANTS
  DoneIsComplete
