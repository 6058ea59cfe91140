\* Two calls of start_daemon and numbers of one, two and three bytes; a byte in
\* the wrong place makes one of them another.
SPECIFICATION FairSpec
CONSTANTS
  Pids = {6, 261, 65541}
  Callers = {c1, c2}
INVARIANTS
  TypeOK
  DaemonsStayKnown
PROPERTIES
  OthersAreSpared
  StopEnds
