SPECIFICATION Spec
CONSTANTS
  p1 = p1
  p2 = p2
  t1 = t1
  c1 = c1
  t2 = t2
  w1 = w1
  None = None
  Attempts = {p1, p2}
  Transactions = {t1}
  TxOf <- PaysFirst
  Crons = {c1}
  Workers = {w1}
  Take = 1
  Lifetime = 1
  Grace = 1
  Retry = 2
  MaxAge = 1
  MaxWait = 0
  Unsettleable = {p2}
  Keys = {"reads", "forbidden"}
  MaxHolds = 1
  MaxErrors = 1
INVARIANT TypeOK
PROPERTY AttemptsGetTheirTurn
CHECK_DEADLOCK FALSE
