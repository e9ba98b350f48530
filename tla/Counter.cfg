CONSTANTS
  b1 = b1
  b2 = b2
  x = x
  y = y
  o1 = o1
  d1 = d1
  d2 = d2
  q1 = q1
  q2 = q2
  Bills <- TwoBills
  OnCredit <- LastOnCredit
  Items <- TwoItems
  Lines <- TwoAndOne
  Stocked <- OneEach
  Strict = TRUE
  HubOrders <- OneOrder
  Supply <- OfTheFirst
  Desks <- TwoDesks
  Calls <- TwoCallsAtOnce
  Apart <- Conflicts
  Overlap = FALSE
  MaxServed = 3
  MaxLosses = 1
SYMMETRY Symmetry
SPECIFICATION Spec
CHECK_DEADLOCK FALSE
INVARIANTS
  TypeOK
  KeptUntilPaid
  StockIsCovered
