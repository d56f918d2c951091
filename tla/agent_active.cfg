SPECIFICATION Spec
CONSTANTS
  Sessions = {s1}
  RunIds = {r1, r2}
  ApprovalIds = {p1, p2}
  Clients = {c1}
  MaxRestarts = 0
  None = None
INVARIANTS OneActiveRun
CHECK_DEADLOCK FALSE
