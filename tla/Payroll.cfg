CONSTANTS
  r1 = r1
  r2 = r2
  r3 = r3
  r4 = r4
  c1 = c1
  c2 = c2
  None = None
  Employees <- ThreeEmployees
  Companies <- TwoCompanies
  Employer <- TwoAndOne
  Requests <- FourCalls
  Kinds = {"generate", "finalize", "pay"}
  Nets = {0, 2}
  Amounts = {1, 2}
  MaxInFlight = 4
SPECIFICATION Spec
INVARIANTS
  TypeOK
  SalaryPaidOnce
PROPERTIES
  FinalizesBooked
SYMMETRY CallSymmetry
