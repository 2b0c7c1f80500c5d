CONSTANTS
  a = a  b = b  x = x  y = y  k1 = k1  k2 = k2
  None = None  Blank = Blank  Garbled = Garbled
  Absent = Absent  Malformed = Malformed
  MaxDepth = 1
  MinScrubbable = 1
  MaxErrorChars = 1
  MaxValueChars = 1
  MaxSummaryParts = 1
  SensitiveBases = {"token"}
  Sayings <- MCSayings
  Keys = {k1, k2}
  OtherKey = other
  Authors = {"home", "other"}
  MaxEvents = 3
  MaxDamaged = 2
SPECIFICATION Spec
SYMMETRY KeySymmetry
INVARIANTS TypeOK ReportsAreOfWhatWasWritten AuditSucceedsWhenReconciled SafeMeansNothingInTheClear OldEventsStayVerifiable
