SPECIFICATION Spec
CONSTANTS
  u1 = u1
  u2 = u2
  w1 = w1
  NoUser = NoUser
  NoRequest = NoRequest
  Requests <- SomeRequests
  Span <- SomeSpans
  Days <- SomeDays
  Credits <- SomeCredits
  Users <- TwoUsers
  Workers <- OneWorker
  EnforceMakerChecker = TRUE
INVARIANTS
  TypeOK ApprovedByOther NoDoubleLeave NeverOverdrawn LedgerMatches
PROPERTIES
  DecidedIsFinal
