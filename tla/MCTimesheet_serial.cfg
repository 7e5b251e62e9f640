SPECIFICATION Spec
CONSTANTS
  u1 = u1
  u2 = u2
  w1 = w1
  NoUser = NoUser
  NoLeave = NoLeave
  Days <- TwoDays
  OffDays <- SecondDay
  Elapsed <- TwoDays
  Users <- TwoUsers
  Workers <- OneWorker
  Marks <- SomeMarks
  LeaveKinds <- PaidAndHalf
  EnforceMakerChecker = TRUE
INVARIANTS
  TypeOK MakerChecker StaleOnlyByImport GridFollowsLeave
PROPERTIES
  ReviewedIsFrozen
