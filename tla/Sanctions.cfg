\* Two sanctions and two decisions, crashes among them, two clock readings.
SPECIFICATION SanctionsSpec
CONSTANTS
  Subject = subject
  Bystander = bystander
  Address <- MCAddress
  NoPlayer = NoPlayer
  MaxTime = 1
  MaxDuration = 2
  MaxSanctions = 2
  MaxChanges = 2
INVARIANTS ChosenSanction ObservedAnswers
PROPERTIES AppealTouchesItsOwn EventuallyAnswered
CHECK_DEADLOCK FALSE
