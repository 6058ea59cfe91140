\* The second file a listener gets is never closed.
SPECIFICATION Spec
CONSTANTS
  WindowSize = 2
  LastPacket = 2
  MaxSessions = 2
  Faults <- NoFaults
  MaxFaults = 0
  LocalPort = 5010
INVARIANTS
  FinishedIsSaved
