SPECIFICATION Spec
CONSTANTS
  Procs = {p1, p2}
  Machines = {m1, m2}
  Layouts <- Apart
  Exts = {x1, x2}
  None = none
  MaxChanges = 3
  MaxFaults = 0
INVARIANT PendingHandlesAll
SYMMETRY Symmetry
CHECK_DEADLOCK FALSE
