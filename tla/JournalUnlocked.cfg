CONSTANTS
  w1 = w1  w2 = w2  w3 = w3
  p1 = p1  p2 = p2
  l1 = l1  l2 = l2  l3 = l3
  None = None  LF = LF  CR = CR
  Writers <- MCWriters
  Processes <- MCProcesses
  ThreadLocks <- MCThreadLocks
  ProcessOf <- MCProcessOf
  ThreadLockOf <- MCOnePath
  HasFileLock = FALSE
  Faults = {"early", "flush", "torn", "fsync", "kill", "power", "new"}
  MaxAppends = 1
  MaxWindow = 4
SPECIFICATION Spec
INVARIANTS VerifiedMeansComplete LossIsWhole ForkIsDetected WindowsFindTheTail
