CONSTANTS
  Calls = {c1, c2}
  Chunks = 2
  Retries = 10
  RenameOverwrites = FALSE
  RenameStatus = {7}
  Codes = {0, 1}
  ExitStatusFirst = TRUE
  ExitsOnStdinEof = TRUE
  b1 = b1
  b2 = b2
  h1 = h1
  h2 = h2
  Binaries = {b1, b2}
  Hosts = {h1, h2}
  HostOf <- OneHostEach
  HasSetup = TRUE
  RawOutfile = TRUE

SPECIFICATION Spec
INVARIANT TypeOK
INVARIANT BinaryIntact
INVARIANT OkMeansInstalled
INVARIANT NoTempLeftOnOk
INVARIANT ExitCodeTruthful
INVARIANT StopOkMeansStopped
INVARIANT ProfileOwn
PROPERTY StopReturns
