SPECIFICATION Spec
CONSTANTS
  Sessions = {s1}
  RunIds = {r1, r2, r3}
  ApprovalIds = {p1, p2}
  Clients = {c1, c2}
  MaxRestarts = 2
  None = None
SYMMETRY Symmetry
INVARIANTS OneWorker BudgetsAreReturned EntriesHaveWorkers OpenApprovalsAreDue
PROPERTIES OverStands ImplementsApprovals
CHECK_DEADLOCK FALSE
