CONSTANTS
  Codes = {0, 1}
  ExitStatusFirst = TRUE
  ExitsOnStdinEof = TRUE

SPECIFICATION Spec
INVARIANT NeverPanics
