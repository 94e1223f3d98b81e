SPECIFICATION Spec
CONSTANTS
  o1 = o1
  o2 = o2
  p1 = p1
  p2 = p2
  Nil = Nil
  Orders = {o1}
  Payments = {p1}
  Workers = {w1}
  OrderOf <- OneOrder
  ProviderOf <- AllWave
  Unreferenced = {}
  Pickup = {}
  Units <- OneUnit
  InitialStock = 1
  Handlers = {"initiate", "cron"}
  StaffStatuses = {}
  StaffPaymentStatuses = {}
  MaxHolds = 1
INVARIANT ExpiredKeepsOrder
CHECK_DEADLOCK FALSE
