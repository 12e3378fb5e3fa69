\* Four events: a garbled one and one of the bot; two failures exhaust an event, two more are left for another.
SPECIFICATION FairSpec
CONSTANTS
  Newest = 4
  Own = {3}
  Garbled = {2}
  MaxAttempts = 2
  MaxFailures = 4
  MaxInterrupts = 1
  MaxToggles = 1
INVARIANTS
  DeadLettersEarned
  LogsAreAccounted
PROPERTIES
  DeliverySpec
  EventuallySettled
CHECK_DEADLOCK FALSE
