SPECIFICATION FairSpec
CONSTANTS
  e1 = e1
  e2 = e2
  w1 = w1
  w2 = w2
  NoPay = NoPay
  NoPayslip = NoPayslip
  NoTotals = NoTotals
  NoTarget = NoTarget
  NoRow = NoRow
  Employees <- TwoEmployees
  Workers <- TwoWorkers
  PayScales <- OneScale
  Served <- AllOps
  PayEdits <- NoEdits
  Leavers <- Nobody
  KeyOrder <- KeyOrder12
  Targets <- OneDeduction
CHECK_DEADLOCK FALSE
INVARIANTS
  NoPaymentWithoutApproval PaidSlipsAreStamped OrderlyUnlessOvertaken
PROPERTIES
  RequestsTerminate SettledUnlessOvertaken
