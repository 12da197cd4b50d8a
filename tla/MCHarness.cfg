\* Every mode of the driver.
SPECIFICATION Spec
CONSTANTS
  NumConvs = 3
  Turns = 2
  Concurrency = 2
  Schedule <- RiseAndFall
  Duration = 5
  MaxLaunches = 4
INVARIANTS
  InFlightExact
  EveryRequestRecorded
CHECK_DEADLOCK FALSE
