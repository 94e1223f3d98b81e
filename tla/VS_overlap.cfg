SPECIFICATION Spec
CONSTANTS
  v1 = v1
  v2 = v2
  w1 = w1
  w2 = w2
  o1 = o1
  o2 = o2
  product = product
  Variants = {v1, v2}
  Product = product
  Workers = {w1, w2}
  Orders = {o1, o2}
  Quantities = {1}
  MaxStock = 2
  FirstVariants = {v1}
  MaxRequests = 3
  FirstOrders = {o1}
  Handlers = {"order", "return", "reopen", "adjust", "receive", "create", "update", "remove", "edit"}
SYMMETRY SameWorkers
INVARIANT TypeOK
INVARIANT LedgerAccounts
PROPERTY OversellBound
PROPERTY RequestRepairs
CHECK_DEADLOCK FALSE
