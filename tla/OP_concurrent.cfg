SPECIFICATION Spec
CONSTANTS
  o1 = o1
  o2 = o2
  p1 = p1
  p2 = p2
  Nil = Nil
  Orders = {o1, o2}
  Payments = {p1, p2}
  Workers = {w1, w2}
  OrderOf <- OrderEach
  ProviderOf <- WaveOrangeMoney
  Unreferenced = {p1}
  Pickup = {}
  Units <- OneUnit
  InitialStock = 1
  Handlers = {"initiate", "webhook", "cron"}
  StaffStatuses = {}
  StaffPaymentStatuses = {}
  MaxHolds = 1
INVARIANT PaidHasProof
PROPERTY GuardedLifecycle
CHECK_DEADLOCK FALSE
