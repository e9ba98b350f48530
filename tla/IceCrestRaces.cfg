CONSTANTS
  r1 = r1
  r2 = r2
  r3 = r3
  r4 = r4
  a = a
  b = b
  None = None
  Requests <- ThreeCalls
  Items <- TwoItems
  Kinds = {"order", "invoice", "orderInvoice", "cancel", "inward", "outward"}
  Quantities = {1, 2}
  Stocked <- Scarce
  MaxInFlight = 3
  Alone = {}
SYMMETRY CallSymmetry
SPECIFICATION Spec
INVARIANTS
  TypeOK
  LockedStockIsCurrent
PROPERTIES
  TakesOnlyWhatIsHeld
  SellsOnlyWhatIsFree
