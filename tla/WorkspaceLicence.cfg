CONSTANTS
  online = online
  shot = shot
  cash = cash
  extra = extra
  r1 = r1
  r2 = r2
  r3 = r3
  r4 = r4
  billing = billing
  other = other
  Payments <- FourPayments
  Route <- Routes
  Months <- OneOrTwo
  Keys <- TwoKeys
  Billing <- billing
  Kinds = {"checkout", "submit", "return", "approve", "reject", "offline", "activate", "settings", "pause", "mall"}
  MaxInFlight = 2
  Requests <- FourCalls
  Apart <- SameRow
  MaxMonth = 2
  MaxCrashes = 0
SYMMETRY CallSymmetry
SPECIFICATION Spec
CHECK_DEADLOCK FALSE
PROPERTIES
  ImplementsLicence
