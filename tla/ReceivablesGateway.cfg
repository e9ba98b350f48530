CONSTANTS
  r1 = r1
  r2 = r2
  r3 = r3
  r4 = r4
  i1 = i1
  i2 = i2
  None = None
  Requests <- FourCalls
  Invoices <- OneInvoice
  Kinds = {"checkout", "payuReturn", "record", "club", "deleteReceipt"}
  Amounts = {150, 397}
  Total <- Bills
  Party <- OneCustomer
  Days = {"new"}
  Deducted = {}
  MaxInFlight = 1
  MaxCrashes = 1
  ReversalsApart = FALSE
  PoolSize = 5
  GatewayIds = {r1}
  AcceptPartial = TRUE
SPECIFICATION Spec
INVARIANTS
  GatewayPaidOnce
PROPERTIES
  NoOverReceipt
