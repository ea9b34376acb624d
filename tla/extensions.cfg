SPECIFICATION Spec
CONSTANTS
  Procs = {p1, p2}
  Machines = {m1, m2}
  Layouts <- AnyPlace
  Exts = {x1, x2}
  None = none
  MaxChanges = 2
  MaxFaults = 1
INVARIANTS TypeOK OneSyncer CounterHasSyncer WaiterIsServed StatusFileTells InstalledIsLoaded SettingsAreLoaded
PROPERTY ImplementsLock
SYMMETRY Symmetry
CHECK_DEADLOCK FALSE
