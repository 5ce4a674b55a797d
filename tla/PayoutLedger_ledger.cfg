SPECIFICATION Spec
CONSTANTS
  Payouts = {1, 2}
  Drivers = {d1, d2}
  NoDriver = NoDriver
  Amounts = {2, 3}
  Opening <- MCOpening
  Calls = {c1, c2}
  Workers = {w1}
  BatchLimit = 2
  AdminSettles = TRUE
  RetryRefused = TRUE
SYMMETRY Symmetry
INVARIANTS
  TypeOK
  RowsAgree
  LedgerReconciles
PROPERTY
  Escrow
