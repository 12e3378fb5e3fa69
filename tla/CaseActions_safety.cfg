\* Two presses, all interleavings; the five CAS tries cut to two. Dead processes are in the live run.
SPECIFICATION Spec
CONSTANTS
  Attempt = {a1, a2}
  Verb = {"ban", "reject"}
  AuditedVerb = {"ban"}
  Repair = Repair
  None = None
  Observed = Observed
  CasTries = 2
  MaxRevision = 4
  MaxFailures = 0
SYMMETRY Symmetric
INVARIANTS
  EffectUnderGuard
  DecisionIsCurrent
PROPERTY LifecycleSpec
CHECK_DEADLOCK FALSE
