\* Two members, two changes, two failures: a request and its repetition may be lost.
SPECIFICATION FairSyncSpec
CONSTANTS
  Person = {p, q}
  Role = {r}
  Nobody = Nobody
  MaxChanges = 2
  MaxLosses = 2
INVARIANTS
  NoSilentStale
  PassSendsSeen
PROPERTY EventuallyInSync
