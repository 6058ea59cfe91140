\* Two transfers over such a line, the second one without its SYNC.
SPECIFICATION Spec
CONSTANTS
  WindowSize = 2
  LastPacket = 3
  MaxSessions = 2
  Faults <- LossyLine
  MaxFaults = 3
  LocalPort = 5010
INVARIANTS
  OneTransferPerFile
