CONSTANTS
  daily = daily
  c1 = c1
  c2 = c2
  r1 = r1
  r2 = r2
  r3 = r3
  r4 = r4
  Schedules <- OneSchedule
  MaxInFlight = 2
  Limit = 1
  Challans <- OneChallan
  Amounts = {1}
  Charges <- OneMore
  Requests <- ThreeCalls
  Kinds = {"invoice", "recurring", "bill", "challan"}
  Apart <- Unrelated
  GivenNumbers = {2}
  StartNumbers = {1}
  MaxDate = 2
  MaxUpsets = 1
SYMMETRY CallSymmetry
SPECIFICATION Spec
CHECK_DEADLOCK FALSE
INVARIANTS
  TypeOK
  SeriesGrows
  NoDateSkipped
  
PROPERTIES
  LimitExceededOnlyBy
