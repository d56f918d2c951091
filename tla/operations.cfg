SPECIFICATION FairSpec
CONSTANTS
  Apps = {a1, a2}
  OpIds = {o1, o2}
  Clients = {c1, c2}
  Lifecycle = {start, stop}
  Gates = {rename}
  RetentionLimit = 1
  MaxRestarts = 1
  None = None
INVARIANTS TypeOK RunsExclusive GateExcludesRuns ToldIsDurable AskedIsServed ClosedIsQuiet
PROPERTIES ImplementsLedger EveryCallAnswered
CHECK_DEADLOCK FALSE
