\* One press against a fair repair pass, two of whose passes may die.
SPECIFICATION FairSpec
CONSTANTS
  Attempt = {a1}
  Verb = {"ban"}
  AuditedVerb = {"ban"}
  Repair = Repair
  None = None
  Observed = Observed
  CasTries = 2
  MaxRevision = 4
  MaxFailures = 2
PROPERTIES
  GuardIsFreed
  AuditedCaseCloses
CHECK_DEADLOCK FALSE
