SPECIFICATION LiveSpec
CONSTANTS
  o1 = o1
  o2 = o2
  p1 = p1
  p2 = p2
  Nil = Nil
  Orders = {o1}
  Payments = {p1}
  Workers = {w1, w2, w3}
  OrderOf <- OneOrder
  ProviderOf <- AllBictorys
  Unreferenced = {}
  Pickup = {}
  Units <- OneUnit
  InitialStock = 1
  Handlers = {"initiate", "webhook", "verify", "cron"}
  StaffStatuses = {}
  StaffPaymentStatuses = {}
  MaxHolds = 1
INVARIANT StockMatchesOrder
INVARIANT PaidShowsOnOrder
PROPERTY PaidOrderNotCancelled
PROPERTY SuccessIsHonoured
PROPERTY AttemptsSettle
CHECK_DEADLOCK FALSE
