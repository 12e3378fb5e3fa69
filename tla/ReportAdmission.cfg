SPECIFICATION Spec
CONSTANTS
  s1 = s1  s2 = s2  s3 = s3
  r1 = r1  r2 = r2
  p1 = p1  p2 = p2
  None = None
  Submission = {s1, s2, s3}
  Reporter = {r1, r2}
  Target = {p1, p2}
  By <- MCBy
  About <- MCAbout
  Cooldown = 1
  Window = 1
  BurstLimit = 1
  Tries = 2
  MaxAttempts = 2
  MaxTime = 1
  MaxFaults = 1
  MaxStaff = 1
INVARIANTS OneVerdict CooldownHeld
PROPERTY EventuallyAnswered
CHECK_DEADLOCK FALSE
