SPECIFICATION Spec
CONSTANTS
  Above = Above
  Omitted = Omitted
  Running = Running
  NoSlip = NoSlip
  Refused = Refused
  PTSlabs <- SomePTSlabs
  Slabs <- BothSlabs
  Caps <- TheCaps
  Drafts <- SomeDrafts
INVARIANTS
  TypeOK
  BalanceFillsCTC
  AdjustmentsAside
  LossNeverPays
  PensionWithinShare
  PreviewMatchesRun
  YearIsWithheld
