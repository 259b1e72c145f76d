SPECIFICATION FairSpec
CONSTANTS
  Ids = {1, 2}
  MediaOf <- MCMediaOf
  Infected = {"virus"}
  Undecodable = {"broken"}
  SweepLimit = 1
  MaxRetries = 1
  MaxPayments = 2
  MaxCrashes = 1
  Clock = {9, 10}
  Scenarios <- MCScenarios
  None = None
INVARIANTS ServedIsCleared ReadyIsServable 
PROPERTIES ScansSettle
CHECK_DEADLOCK FALSE
