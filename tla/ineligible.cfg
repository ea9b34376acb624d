SPECIFICATION Spec
CONSTANTS
  Apps = {a1}
  Identities = {i1}
  NoIdentity = noIdentity
  FormFacts <- MCFacts
  Requirements <- OnlyStrict
  EngineMayFail = FALSE
  MaxFaults = 0
  Submitters = {s1}
  Completers = {h1}
  MaxRounds = 1
  Polls = {p1}
  MaxTasks = 10
INVARIANTS IneligibleGetsNoLicense
CHECK_DEADLOCK FALSE
