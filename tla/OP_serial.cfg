SPECIFICATION Spec
CONSTANTS
  o1 = o1
  o2 = o2
  p1 = p1
  p2 = p2
  Nil = Nil
  Orders = {o1}
  Payments = {p1, p2}
  Workers = {w1}
  OrderOf <- OneOrder
  ProviderOf <- WaveBictorys
  Unreferenced = {}
  Pickup = {}
  Units <- OneUnit
  InitialStock <- Oversold
  Handlers = {"initiate", "webhook", "verify", "cron", "customer", "staff", "staffPayment"}
  StaffStatuses = {"CONFIRMED", "IN_DELIVERY", "DELIVERED", "CANCELLED"}
  StaffPaymentStatuses = {"FAILED", "PAID"}
  MaxHolds = 1
INVARIANT TypeOK
INVARIANT StockMatchesOrder
PROPERTY FullLifecycle
CHECK_DEADLOCK FALSE
