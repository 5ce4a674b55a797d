SPECIFICATION Spec
CONSTANTS
  Payouts = {1}
  Drivers = {d1}
  NoDriver = NoDriver
  Amounts = {2}
  Opening <- MCOpening
  Calls = {c1}
  Workers = {w1}
  BatchLimit = 1
  AdminSettles = FALSE
  RetryRefused = TRUE
INVARIANT NoReversalInFlight
