SPECIFICATION ReleaseSpec
CONSTANTS
  e1 = e1
  e2 = e2
  w1 = w1
  NoPay = NoPay
  NoPayslip = NoPayslip
  NoTotals = NoTotals
  NoTarget = NoTarget
  NoRow = NoRow
  Employees <- TwoEmployees
  Workers <- OneWorker
  PayScales <- OneScale
  Served <- AllOps
  PayEdits <- AllEdits
  Leavers <- TwoEmployees
  KeyOrder <- KeyOrder12
  Targets <- Deductions
CHECK_DEADLOCK TRUE
INVARIANTS
  TypeOK TotalsMatchPayslips StampedWithCycle MailedIsPaid
PROPERTIES
  ImplementsLifecycle PaidIsTerminal ApprovalLocksPayslips
