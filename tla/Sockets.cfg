SPECIFICATION MCSpec
CONSTANTS
  Pollers = {p1, p2}
  Descriptors = {1, 2}
  MaxOpens = 3
  thread = thread
  device1 = device1
  device2 = device2
  MaximumWait = 5
  MaxRegistrations = 3
  MaxAsks = 3
  Clients = {c1, c2}
  Table = {0, 1, 2, 3, 4, 5, 6, 7}
  MayRefuse = TRUE
  MaxFailures = 2
CHECK_DEADLOCK FALSE
INVARIANTS
  EventReachesOwner
  EveryDescriptorOwned
PROPERTIES
  AllEventsHandled
  Served
  Stops
