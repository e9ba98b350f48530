CONSTANTS
  r1 = r1
  r2 = r2
  r3 = r3
  r4 = r4
  i1 = i1
  i2 = i2
  None = None
  Requests <- ThreeCalls
  Invoices <- TwoInvoices
  Kinds = {"club", "deleteReceipt", "credit", "debit"}
  Amounts = {150}
  Total <- Bills
  Party <- OneCustomer
  Days = {"new"}
  Deducted = {}
  MaxInFlight = 3
  MaxCrashes = 1
  ReversalsApart = TRUE
  PoolSize = 4
  GatewayIds = {}
  AcceptPartial = FALSE
SPECIFICATION FairSpec
PROPERTIES
  ImplementsLedger
  EveryCallEnds
