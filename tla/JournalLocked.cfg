CONSTANTS
  w1 = w1  w2 = w2  w3 = w3
  p1 = p1  p2 = p2
  l1 = l1  l2 = l2  l3 = l3
  None = None  LF = LF  CR = CR
  Writers <- MCWriters
  Processes <- MCProcesses
  ThreadLocks <- MCThreadLocks
  ProcessOf <- MCProcessOf
  ThreadLockOf <- MCAliasedPaths
  HasFileLock = TRUE
  Faults = {"early", "fsync", "kill", "power"}
  MaxAppends = 1
  MaxWindow = 4
SPECIFICATION FairSpec
INVARIANTS TypeOK ChainIntact CheckpointCoversPrefix
PROPERTIES EveryAppendEnds ImplementsEvidenceLog
