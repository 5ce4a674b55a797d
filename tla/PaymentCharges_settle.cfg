SPECIFICATION FairSpec
CONSTANTS
  Charges = {1, 2}
  Intents = {i1, i2}
  NoIntent = NoIntent
  Calls = {c1}
  Handlers = {h1, h2}
  Worker = worker
  Foreign = {1}
  BatchLimit = 2
  Jsonb = FALSE
INVARIANT ExecutedRefundApplies
PROPERTY PaidChargeSettles
