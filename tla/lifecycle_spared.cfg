SPECIFICATION Spec
CONSTANTS
  a1 = a1
  a2 = a2
  Apps = {a1}
  Ports = {1}
  PortRange = {1}
  UpstreamPort <- Unpinned
  External = {}
  PreStart = {}
  StopCommand = {}
  VerifyCommand = {}
  Windows = TRUE
  Procs = {p1}
  ForeignPorts = {1}
  Foreign = Foreign
  None = None
PROPERTY OthersAreSpared
CHECK_DEADLOCK FALSE
