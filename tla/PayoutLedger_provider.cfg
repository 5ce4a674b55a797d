SPECIFICATION FairSpec
CONSTANTS
  Payouts = {1, 2}
  Drivers = {d1, d2}
  NoDriver = NoDriver
  Amounts = {2}
  Opening <- MCOpening
  Calls = {c1}
  Workers = {w1}
  BatchLimit = 1
  AdminSettles = FALSE
  RetryRefused = FALSE
INVARIANTS
  NoReversalInFlight
  CompletedIsPaid
PROPERTY
  PayoutSettles
