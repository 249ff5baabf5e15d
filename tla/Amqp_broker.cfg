SPECIFICATION FairSpec
CONSTANTS
  write = write
  garbled = garbled
  stop = stop
  none = none
  NoRequest = NoRequest
  Requests <- Pair
  Malformed <- Garbled
  Operation <- PairOperation
  NoOperation = none
  MaxFaults = 2
  MaxErrors = 1
  MaxStops = 1
INVARIANTS TypeOK NoLeakedConnection OneOutcomePerDelivery NoTwinJobs OneAtATime
PROPERTIES ImplementsDelivery EventuallyServing RequestsSettle
CHECK_DEADLOCK FALSE
