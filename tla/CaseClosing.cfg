\* Two decisions, two deleted threads, a crash and a failed call against a fair repair pass.
SPECIFICATION FairSpec
CONSTANTS
  Thread = {t1, t2, t3}
  Handler = {h1}
  Closer = Closer
  Verdict = {v1, v2}
  None = None
  MaxDecisions = 2
  MaxCrashes = 1
  MaxErrors = 1
INVARIANTS
  DoneIsPosted
  OneThread
  RepeatsAreAccounted
PROPERTY EventuallyDone
CHECK_DEADLOCK FALSE
