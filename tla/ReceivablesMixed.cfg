CONSTANTS
  r1 = r1
  r2 = r2
  r3 = r3
  r4 = r4
  i1 = i1
  i2 = i2
  None = None
  Requests <- ThreeCalls
  Invoices <- TwoInvoices
  Kinds = {"record", "club", "deleteReceipt", "credit", "debit", "counterReturn", "deleteInvoice", "checkout", "payuReturn", "updateInvoice"}
  Amounts = {198}
  Total <- Bills
  Party <- OneCustomer
  Days = {"old"}
  Deducted = {i1}
  MaxInFlight = 2
  MaxCrashes = 1
  ReversalsApart = FALSE
  PoolSize = 5
  GatewayIds = {}
  AcceptPartial = FALSE
SYMMETRY CallSymmetry
SPECIFICATION Spec
INVARIANTS
  TypeOK
  LockedRowIsCurrent
PROPERTIES
  ReceiptPostsExactly
  ReceiptAllOrNothing
  ReceiptSettlesRight
