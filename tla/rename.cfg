SPECIFICATION Spec
CONSTANTS
  Apps = {a1, a2}
  Names = {n1, n2}
  Paths = {p1, p2}
  Inline = Inline
  Clients = {c1, c2}
  Absent = Absent
  None = None
SYMMETRY Symmetry
CONSTRAINT NoRace
INVARIANTS RecoverySucceeds NamesAgree MemoryIsDurable
PROPERTY RenameIsAtomic
CHECK_DEADLOCK FALSE
