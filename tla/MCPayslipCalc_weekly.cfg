SPECIFICATION Spec
CONSTANTS
  Above = Above
  Omitted = Omitted
  Running = Running
  NoSlip = NoSlip
  Refused = Refused
  PTSlabs <- SomePTSlabs
  Slabs <- BothSlabs
  Caps <- TheCaps
  Drafts <- SomeDrafts
INVARIANTS
  ProjectsTheYear
