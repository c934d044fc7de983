CONSTANTS
  Codes = {0, 1}
  ExitStatusFirst = FALSE
  ExitsOnStdinEof = TRUE

SPECIFICATION Spec
INVARIANT ExitCodeTruthful
