SPECIFICATION FairSpec
CONSTANTS
  a1 = a1
  a2 = a2
  Apps = {a1, a2}
  Ports = {1, 2}
  PortRange = {1}
  UpstreamPort <- OtherPinned
  External = {a2}
  PreStart = {a1}
  StopCommand = {a1}
  VerifyCommand = {a1}
  Windows = FALSE
  Procs = {p1}
  ForeignPorts = {2}
  Foreign = Foreign
  None = None
PROPERTIES MutationsEnd ImplementsLifecycle
CHECK_DEADLOCK FALSE
