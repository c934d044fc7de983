CONSTANTS
  Calls = {c1, c2}
  Chunks = 2
  Retries = 10
  RenameOverwrites = FALSE
  RenameStatus = {4, 7}

SPECIFICATION Spec
INVARIANT OkMeansInstalled
