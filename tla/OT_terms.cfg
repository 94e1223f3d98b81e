SPECIFICATION Spec
CONSTANTS
  k1 = k1
  k2 = k2
  z1 = z1
  z2 = z2
  h1 = h1
  o1 = o1
  o2 = o2
  w1 = w1
  w2 = w2
  None = None
  Gone = Gone
  Coupons = {k1, k2}
  Zones = {z1, z2}
  Hoods = {h1}
  Orders = {o1, o2}
  Workers = {w1, w2}
  NewCoupons <- Asked
  Patches <- Edits
  FirstCoupons <- OneCoupon
  FirstZone <- InFirstZone
  Prices = {3}
  Fees = {1, 2}
  Quantities = {1, 2}
  MaxRequests = 3
SYMMETRY Ids
INVARIANT TypeOK
INVARIANT QuoteHonoured
INVARIANT UsesAccounted
PROPERTY DestinationKept
CHECK_DEADLOCK FALSE
