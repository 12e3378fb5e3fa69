\* Two previews over three accounts, one game, two bans, failures or deaths.
SPECIFICATION MergeSpec
CONSTANTS
  a = a
  b = b
  c = c
  v1 = v1
  v2 = v2
  Account <- MCAccount
  Linked = {a}
  View <- MCView
  Commanded <- MCCommanded
  NoAccount = NoAccount
  MaxAsked = 2
  MaxJoins = 1
  MaxChanges = 2
PROPERTIES MergeIsWhole MergesSettle
CHECK_DEADLOCK FALSE
