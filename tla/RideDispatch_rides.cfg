SPECIFICATION Spec
CONSTANTS
  Rides = {1, 2}
  Drivers = {d1, d2}
  NoDriver = NoDriver
  Calls = {c1, c2}
  NilUserExists = TRUE
  ScheduledRides = {1}
  BusinessRides = {1}
  PinRides = {}
  AgingRides = {}
  ReviewedDrivers = {}
SYMMETRY Symmetry
INVARIANTS TypeOK DriverIffAssigned OfferOnlyWhileUnassigned OnlyApprovedAndDueRidesRun
PROPERTIES RiderCannotCancelTrip OfferEndReleasesDriver Lifecycle
