SPECIFICATION Spec
CONSTANTS
  Charges = {1, 2}
  Intents = {i1, i2, i3}
  NoIntent = NoIntent
  Calls = {c1, c2}
  Handlers = {h1, h2}
  Worker = worker
  Foreign = {2}
  BatchLimit = 1
  Jsonb = TRUE
SYMMETRY Symmetry
INVARIANTS TypeOK EventBeforeStatus
PROPERTY Mirror
