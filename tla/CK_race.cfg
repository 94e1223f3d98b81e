SPECIFICATION Spec
CONSTANTS
  u1 = u1
  u2 = u2
  s1 = s1
  p1 = p1
  p2 = p2
  c1 = c1
  c2 = c2
  c3 = c3
  o1 = o1
  o2 = o2
  o3 = o3
  w1 = w1
  w2 = w2
  Nil = Nil
  Users = {u1}
  Sessions = {s1}
  Contexts <- Customer
  Products = {p1}
  Carts = {c1, c2, c3}
  Orders = {o1, o2, o3}
  Workers = {w1, w2}
  Quantities = {1}
  MaxQuantity = 1
  InitialStock <- ThreeEach
  UsageLimit = 1
  Handlers = {"add", "orderCart", "orderActive"}
SYMMETRY SameIds
INVARIANT CouponBound
INVARIANT CartOrdersBound
INVARIANT ActiveCartsBound
CHECK_DEADLOCK FALSE
