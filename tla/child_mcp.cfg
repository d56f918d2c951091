SPECIFICATION Spec
CONSTANTS
  Conns = {k1, k2, k3, k4}
  Calls = {c1, c2}
  None = None
SYMMETRY Symmetry
INVARIANTS TypeOK NeverAbandoned StopIsFinal
CHECK_DEADLOCK FALSE
