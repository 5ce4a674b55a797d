SPECIFICATION FairSpec
CONSTANTS
  Rides = {1, 2}
  Drivers = {d1}
  NoDriver = NoDriver
  Calls = {c1}
  NilUserExists = TRUE
  ScheduledRides = {}
  BusinessRides = {2}
  PinRides = {1}
  AgingRides = {1, 2}
  ReviewedDrivers = {d1}
PROPERTIES LapsedOfferCloses StaleRequestLeavesPool
