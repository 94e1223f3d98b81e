SPECIFICATION Spec
CONSTANTS
  e1 = e1
  buy = buy
  s1 = s1
  w1 = w1
  w2 = w2
  meta = meta
  tiktok = tiktok
  None = None
  Events = {e1, buy}
  Purchases = {buy}
  Meta = meta
  TikTok = tiktok
  Configurations = {{meta}, {tiktok}}
  Deliverable <- Names
  Sessions = {s1}
  Batches <- Doubled
  Repeats = 2
  Workers = {w1, w2}
  Take = 1
  MaxAttempts = 2
  MaxRequests = 2
  MaxFaults = 1
INVARIANT TypeOK
INVARIANT SentIsAccepted
INVARIANT NothingForgotten
INVARIANT AttemptsBounded
PROPERTY FailuresSettle
CHECK_DEADLOCK FALSE
