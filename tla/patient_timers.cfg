\* Timers that outlast the network: the transfer is a FileCopy.
SPECIFICATION Spec
CONSTANTS
  WindowSize = 2
  LastPacket = 3
  MaxSessions = 1
  Faults <- PatientTimers
  MaxFaults = 4
  LocalPort = 5010
INVARIANTS
  DoneIsComplete
  DoneIsSaved
PROPERTIES
  CopySpec
