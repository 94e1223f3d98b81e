SPECIFICATION Spec
CONSTANTS
  u1 = u1
  u2 = u2
  s1 = s1
  p1 = p1
  p2 = p2
  c1 = c1
  c2 = c2
  c3 = c3
  o1 = o1
  o2 = o2
  o3 = o3
  w1 = w1
  w2 = w2
  Nil = Nil
  Users = {u1}
  Sessions = {s1}
  Contexts <- CustomerAndGuest
  Products = {p1}
  Carts = {c1, c2, c3}
  Orders = {o1, o2}
  Workers = {w1}
  Quantities = {1, 2}
  MaxQuantity = 2
  InitialStock <- TwoEach
  UsageLimit = 1
  Handlers = {"add", "update", "remove", "clear", "merge", "orderCart", "orderActive", "orderItems"}
SYMMETRY SameIds
INVARIANT TypeOK
INVARIANT LinesUnique
INVARIANT StockNotOversold
PROPERTY MergeKeepsUnits
CHECK_DEADLOCK FALSE
