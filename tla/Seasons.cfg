\* Two commands asked of two servers, three events, two faults.
SPECIFICATION Spec
CONSTANTS
  Command = {c1, c2}
  None = None
  MaxServers = 2
  MaxEvents = 3
  MaxFaults = 2
SYMMETRY Symmetric
INVARIANTS ChangedOnce ToldOnce
CHECK_DEADLOCK FALSE
