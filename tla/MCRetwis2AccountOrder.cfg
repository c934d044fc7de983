CONSTANTS
  Clients = {0, 1, 2}
  NumRandom = 1

SPECIFICATION Spec
INVARIANT AccountBeforeUse
