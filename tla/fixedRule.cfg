SPECIFICATION Spec
CONSTANTS
  Apps = {a1, a2}
  Identities = {i1, i2}
  NoIdentity = noIdentity
  FormFacts <- MCFacts
  Requirements <- OnlyStrict
  EngineMayFail = TRUE
  MaxFaults = 2
  Submitters = {s1, s2}
  Completers = {}
  MaxRounds = 0
  Polls = {}
  MaxTasks = 10
INVARIANTS VerdictAgreesWithEngine OneApplicationPerIdentity
CHECK_DEADLOCK FALSE
