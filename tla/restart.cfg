SPECIFICATION FairSpec
CONSTANTS
  Apps = {a1, a2}
  Bypass = {a1}
  Clients = {c1, c2}
  Dead = Dead
  None = None
INVARIANTS NothingIsAbandoned RestartedIsRestored
PROPERTIES QuiescingEnds ImplementsCycle
CHECK_DEADLOCK FALSE
