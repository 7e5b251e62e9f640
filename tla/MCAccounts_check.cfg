SPECIFICATION Spec
CONSTANTS
  c1 = c1
  c2 = c2
  m1 = m1
  m2 = m2
  u1 = u1
  u2 = u2
  e1 = e1
  e2 = e2
  w1 = w1
  w2 = w2
  Nobody = Nobody
  Companies <- TwoCompanies
  Emails <- TwoEmails
  Users <- TwoUsers
  Employees <- TwoEmployees
  Workers <- TwoWorkers
SYMMETRY Symmetry
INVARIANTS
  EmailsUniqueUnlessRaced OneLoginUnlessRaced LoneFailsOnFormerStaff
