SPECIFICATION Spec
CONSTANTS
  p1 = p1
  p2 = p2
  t1 = t1
  t2 = t2
  c1 = c1
  w1 = w1
  None = None
  Attempts = {p1}
  Transactions = {t1, t2}
  TxOf <- PaysFirst
  Crons = {c1}
  Workers = {w1}
  Take = 1
  Lifetime = 1
  Grace = 1
  Retry = 2
  MaxAge = 1
  MaxWait = 1
  Unsettleable = {}
  Keys = {"reads", "forbidden"}
  MaxHolds = 1
  MaxErrors = 0
INVARIANT PaidIsEarned
INVARIANT ClosedForAReason
CHECK_DEADLOCK FALSE
