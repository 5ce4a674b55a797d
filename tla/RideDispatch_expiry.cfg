SPECIFICATION FairSpec
CONSTANTS
  Rides = {1}
  Drivers = {d1}
  NoDriver = NoDriver
  Calls = {c1}
  NilUserExists = FALSE
  ScheduledRides = {}
  BusinessRides = {}
  PinRides = {}
  AgingRides = {1}
  ReviewedDrivers = {}
PROPERTIES StaleRequestLeavesPool
