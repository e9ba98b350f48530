CONSTANTS
  a = a
  b = b
  r1 = r1
  r2 = r2
  r3 = r3
  r4 = r4
  r5 = r5
  s1 = s1
  s2 = s2
  Cron = Cron
  Orders <- TwoOrders
  ByPlatform <- OneOrder
  Sellers <- TwoSellers
  Seller <- OwnSeller
  SettleDays <- OneAtOnce
  Requests <- FourCalls
  Kinds = {"checkout", "pay", "return", "markPaid", "deliver", "build", "runNow"}
  Apart <- Conflicts
  HoursPerDay = 2
  MaxAge = 3
  MaxInFlight = 2
  MaxCrashes = 1
SPECIFICATION FairSpec
INVARIANTS
  TypeOK
  StampedIsIncluded
  OnlyPaidIsSettled
  SettledOnce
PROPERTIES
  SettlesOnlyRipe
  PaidIsSettled
