SPECIFICATION Spec
CONSTANTS
  Apps = {a1}
  Identities = {i1}
  NoIdentity = noIdentity
  FormFacts <- OnlyGood
  Requirements <- MCRequirements
  EngineMayFail = FALSE
  MaxFaults = 1
  Submitters = {s1}
  Completers = {h1, h2}
  MaxRounds = 1
  Polls = {p1}
  MaxTasks = 10
SYMMETRY Slots
INVARIANTS TypeOK LicenseOnlyWhenDecided DecisionAgreesWithEngine EffectsPrecedeProgress
PROPERTIES NoSecondCode
CHECK_DEADLOCK FALSE
