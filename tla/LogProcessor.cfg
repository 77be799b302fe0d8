SPECIFICATION FairSpec
CONSTANTS
  Producer = {"main", "poller", "task"}
  MaxMessages = 2
INVARIANTS TypeOK MessagesKeepOrder NoSleepOverMessage AllIsPrinted
PROPERTY LogStops
CHECK_DEADLOCK FALSE
