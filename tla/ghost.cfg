SPECIFICATION FairSpec
CONSTANTS
  n1 = n1  n2 = n2  c1 = c1  c2 = c2  h1 = h1  h2 = h2
  Nodes <- OneNode
  Clients = {c1, c2}
  Fields = {f1}
  Home <- HomeTogether
  Inside = {c2}
  Cleaners = {n1}
  Handlers = {h1}
  None = none
  MaxMessages = 1
  MaxEvents = 1
PROPERTY GhostsLeave
CHECK_DEADLOCK FALSE
