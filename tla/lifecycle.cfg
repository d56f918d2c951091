SPECIFICATION Spec
CONSTANTS
  a1 = a1
  a2 = a2
  Apps = {a1, a2}
  Ports = {1, 2}
  PortRange = {1, 2}
  UpstreamPort <- OnePinned
  External = {}
  PreStart = {a1}
  StopCommand = {}
  VerifyCommand = {a2}
  Windows = TRUE
  Procs = {p1, p2}
  ForeignPorts = {1}
  Foreign = Foreign
  None = None
SYMMETRY Symmetry
INVARIANTS ReservationsHaveOwners RunningHasProcess ChildrenAreReachable
PROPERTIES StopIsVerified ActionsMoveOn
CHECK_DEADLOCK FALSE
