SPECIFICATION Spec
CONSTANTS
  a1 = a1  a2 = a2
  opener = opener
  Opener = opener
  Joiner = joiner
  Staff = {a1, a2}
  Subjects = {a1, opener}
  None = None
  MaxThreads = 4
  MaxSelections = 2
  MaxChanges = 3
  MaxDeletions = 1
  MaxFaults = 2
  MaxTrouble = 4
INVARIANTS NoSharedThread MembersAreRecorded
PROPERTIES SubjectStaysOut EventuallyPrivate HistoryOfSubject EventuallyShown
CHECK_DEADLOCK FALSE
