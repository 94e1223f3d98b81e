SPECIFICATION Spec
CONSTANTS
  u1 = u1
  u2 = u2
  i1 = i1
  t1 = t1
  t2 = t2
  t3 = t3
  t4 = t4
  l1 = l1
  l2 = l2
  l3 = l3
  a1 = a1
  w1 = w1
  w2 = w2
  Nil = Nil
  Users = {u1, u2}
  Registered = {u1}
  Identities = {i1}
  EmailOf <- NewAddress
  Tokens = {t1, t2, t3, t4}
  FirstToken <- OneSession
  Links = {l1, l2, l3}
  States = {a1}
  Workers = {w1, w2}
  MaxRequests = 3
  Handlers = {"register", "login", "refresh", "logout", "forgot", "reset", "change", "remove", "status", "social", "apple"}
SYMMETRY SameIds
INVARIANT TypeOK
INVARIANT OnlySurvivors
INVARIANT ExchangesBounded
INVARIANT LinksBounded
INVARIANT OneSessionPerSignIn
PROPERTY OverForGood
CHECK_DEADLOCK FALSE
