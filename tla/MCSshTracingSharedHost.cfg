CONSTANTS
  b1 = b1
  b2 = b2
  h1 = h1
  Binaries = {b1, b2}
  Hosts = {h1}
  HostOf <- SharedHost
  Codes = {0, 1}
  ExitStatusFirst = TRUE
  HasSetup = TRUE
  RawOutfile = TRUE

SPECIFICATION TracingSpec
INVARIANT ProfileOwn
