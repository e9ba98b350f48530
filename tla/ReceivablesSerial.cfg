CONSTANTS
  r1 = r1
  r2 = r2
  r3 = r3
  r4 = r4
  i1 = i1
  i2 = i2
  None = None
  Requests <- FourCalls
  Invoices <- TwoInvoices
  Kinds = {"record", "club", "deleteReceipt", "credit", "debit", "counterReturn", "deleteInvoice"}
  Amounts = {150, 397}
  Total <- Bills
  Party <- OneCustomer
  Days = {"new"}
  Deducted = {i1}
  MaxInFlight = 1
  MaxCrashes = 0
  ReversalsApart = FALSE
  PoolSize = 5
  GatewayIds = {}
  AcceptPartial = FALSE
SYMMETRY CallSymmetry
SPECIFICATION Spec
INVARIANTS
  DeletedHasNoMoney
  StockRestoredOnce
  PaidMeansSettled
