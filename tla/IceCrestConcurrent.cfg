CONSTANTS
  r1 = r1
  r2 = r2
  r3 = r3
  r4 = r4
  a = a
  b = b
  None = None
  Requests <- FourCalls
  Items <- TwoItems
  Kinds = {"order", "invoice", "orderInvoice", "cancel", "inward"}
  Quantities = {1, 2}
  Stocked <- Scarce
  MaxInFlight = 2
  Alone = {"cancel", "inward"}
SYMMETRY CallSymmetry
SPECIFICATION Spec
INVARIANTS
  ReservedIsHeld
  InvoicedWhenTaken
PROPERTIES
  ImplementsStockBook
