\* Two transfers and every kind of fault.
SPECIFICATION Spec
CONSTANTS
  WindowSize = 2
  LastPacket = 2
  MaxSessions = 2
  Faults <- EveryFault
  MaxFaults = 3
  LocalPort = 5010
INVARIANTS
  TypeOK
  NumberInv
  WindowInv
  TransferInv
  ConfirmedIsWritten
  FinishedIsComplete
  NoStaleBlocks
  NothingLeftBehind
  LaterConfirmedIsWritten
  WritesGoToOpenFile
