SPECIFICATION Spec
CONSTANTS
  a1 = a1
  a2 = a2
  Apps = {a1}
  Ports = {1}
  PortRange = {1}
  UpstreamPort <- Unpinned
  External = {}
  PreStart = {}
  StopCommand = {}
  VerifyCommand = {}
  Windows = FALSE
  Procs = {p1, p2}
  ForeignPorts = {}
  Foreign = Foreign
  None = None
PROPERTY RunningAfterHealth
CHECK_DEADLOCK FALSE
