SPECIFICATION FairSpec
CONSTANTS
  request = request
  cron = cron
  fetch = fetch
  Requests <- Invocations
  Bare <- Triggers
  Fetches <- OneFetch
CHECK_DEADLOCK FALSE
INVARIANTS NothingLost CompleteOnce
PROPERTIES EventSettles
