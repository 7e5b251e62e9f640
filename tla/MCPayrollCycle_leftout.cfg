SPECIFICATION Spec
CONSTANTS
  e1 = e1
  e2 = e2
  w1 = w1
  w2 = w2
  NoPay = NoPay
  NoPayslip = NoPayslip
  NoTotals = NoTotals
  NoTarget = NoTarget
  NoRow = NoRow
  Employees <- OneEmployee
  Workers <- OneWorker
  PayScales <- OneScale
  Served <- AllOps
  PayEdits <- AllEdits
  Leavers <- OneEmployee
  KeyOrder <- NoOrder
  Targets <- BothKinds
PROPERTY
  LeftOutNotPaid
