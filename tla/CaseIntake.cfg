\* Three reports, two staff decisions, a crash: two deliveries may be lost to decisions, the third stores the report.
SPECIFICATION FairSpec
CONSTANTS
  Submission = {"g1", "d1", "d2"}
  Discord = {"d1", "d2"}
  By <- MCBy
  About <- MCAbout
  Target = {"x", "y"}
  None = None
  MaxOpen = 1
  MergeTries = 2
  MaxAttempts = 3
  MaxStaff = 2
  MaxCrashes = 1
INVARIANTS
  FiledOnce
  OpenCap
PROPERTY
  EventuallyFiled
CHECK_DEADLOCK FALSE
