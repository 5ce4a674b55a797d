SPECIFICATION SpecServices
CONSTANTS
  Rows = {1, 2, 3, 4, 5}
  PageSize = 2
  MaxChurn = 3
  Transfers = {t1}
  Callers = {d1, d2}
  NoEscort = NoEscort
  TransferCalls = {c1, c2}
  ReviewedRides = {r1, r2}
  ReviewCalls = {c1, c2}
  Tickets = {k1}
  Disputes = {k2}
  Incidents = {k3}
  Alarms = {k4}
  Admins = {a1, a2}
  Participants = {p1}
  CaseCalls = {c1, c2}
  MaxEntries = 2
  Members = {m1, m2}
  Founder = m1
  Bookings = {b1, b2}
  Keys = {key1}
  NoLimit = NoLimit
  Fares = {5}
  Limits = {5}
  Requests = {c1, c2}
  MaxEdits = 1
  Codes = {code1}
  Passengers = {x1, x2}
  PromoRides = {y1, y2, y3}
  MaxUses = 2
  PromoCalls = {c1, c2}
  Kinds = {kyc, marketing}
  Marketing = marketing
  NoPrefs = NoPrefs
  NoticeCalls = {c1, c2}
  Quotes = {c1, c2}
  TTL = 1
  MaxVersion = 1
  MaxTime = 3
  Prices = {1, 2}
  ZoneCalls = {c1, c2}
  ZoneQuotes = {g1}
  Visits = {c1, c2}
  StatusCalls = {c1, c2}
  FreeCancellationWindow = 2
  DriverAssignedFreeWindow = 1
  NoShowTimeout = 4
  BaseFee = 2
  MaxFee = 5
  MaxWait = 8
  Trips = {r1, r2}
  RideFare = 4
  Tenders = {3, 4, 5}
  BillingCalls = {c1, c2}
  Earners = {e1}
  Sums = {2, 3}
  MaxEarned = 6
  WalletCalls = {c1, c2}
  Chauffeurs = {h1, h2}
  Plates = {p1, p2}
  NoProfile = NoProfile
  NoDate = NoDate
  LastDay = 1
  Lists <- InstanceLists
SYMMETRY Symmetry
INVARIANTS
  TypesOK
  PagesBounded
  RatingComplete
  AuditTrail
  ResolvedByOne
  SpendingBounded
  UsesBounded
  QuietAfterOptOut
  RatesExpire
  ClosedZoneStaysOff
  DeactivationHolds
  WalletReconciles
  PaidTwiceExplained
PROPERTIES
  EndedUnlessOverwritten
  FeeNeverFalls
CHECK_DEADLOCK FALSE
