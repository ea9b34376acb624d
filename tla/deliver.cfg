SPECIFICATION FairSpec
CONSTANTS
  Apps = {a1}
  Identities = {i1}
  NoIdentity = noIdentity
  FormFacts <- OnlyGood
  Requirements <- OnlyStrict
  EngineMayFail = FALSE
  MaxFaults = 1
  Submitters = {s1}
  Completers = {h1}
  MaxRounds = 1
  Polls = {p1, p2}
  MaxTasks = 10
INVARIANTS PollsDisjoint
PROPERTIES ApprovedGetsLicense EscalationIsDelivered PaidIsScheduled ImplementsLifecycle
CHECK_DEADLOCK FALSE
