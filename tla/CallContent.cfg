CONSTANTS
  o1 = o1  o2 = o2
  Absent = Absent  Malformed = Malformed  Refused = Refused
  MaxDepth = 2
  MinScrubbable = 2
  MaxErrorChars = 5
  MaxValueChars = 3
  MaxSummaryParts = 1
  SensitiveBases = {"token"}
  Objects <- MCObjects
  Contents <- MCContents
  Registrations <- MCRegistrations
  ArgumentsOf <- MCArgumentsOf
  Default <- LongText
  Ordinary <- MCOrdinary
  MaxEdits = 2
SPECIFICATION Spec
INVARIANTS TypeOK WalkShowsTheVisible ApprovedIsRecorded ReceivedIsRecorded ReportHidesNothing LongRemovedTextsStayOut MetadataAsDeclared
