\* Two files, two attempts, two decisions, faults or changes of links.
SPECIFICATION Spec
CONSTANTS
  Account = {a1, a2}
  Linked = {a1}
  MaxFiles = 2
  MaxAttempts = 2
  MaxChanges = 2
INVARIANTS InstalledAsReviewed NoBlindRetry
PROPERTIES BadgeReachesAll EventuallyBadged
CHECK_DEADLOCK FALSE
