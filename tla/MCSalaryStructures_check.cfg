SPECIFICATION Spec
CONSTANTS
  e1 = e1
  e2 = e2
  s1 = s1
  s2 = s2
  s3 = s3
  w1 = w1
  w2 = w2
  NoEmployee = NoEmployee
  NoWorker = NoWorker
  NoRow = NoRow
  Employees <- TwoEmployees
  Rows <- SomeRows
  Workers <- TwoWorkers
  Batches <- SomeBatches
SYMMETRY Symmetry
INVARIANTS
  OneActive LoneNeverFails
PROPERTIES
  ReplacementKeepsPay
