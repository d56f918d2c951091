SPECIFICATION FairSpec
CONSTANTS
  Packages = {k1}
  Apps = {a1, a2}
  MemberSets <- MCMemberSets
  RunIds = {r1, r2}
  Editors = {e1}
  Concurrency = 1
  MaxRevision = 2
  MaxRestarts = 1
  None = None
  Deleted = Deleted
INVARIANTS OneActiveRun RunsAreDriven VerdictFitsMembers
PROPERTIES DefinitionsStable AbortStopsEnqueueing HistoryStands RunsMoveOn RunsEnd
CHECK_DEADLOCK FALSE
