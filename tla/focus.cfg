SPECIFICATION Spec
CONSTANTS
  n1 = n1  n2 = n2  c1 = c1  c2 = c2  h1 = h1  h2 = h2
  Nodes <- TwoNodes
  Clients = {c1, c2}
  Fields = {f1}
  Home <- HomeApart
  Inside = {c1}
  Cleaners = {}
  Handlers = {h1, h2}
  None = none
  MaxMessages = 3
  MaxEvents = 1
INVARIANTS FocusExclusive
CHECK_DEADLOCK FALSE
