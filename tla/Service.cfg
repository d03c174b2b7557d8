SPECIFICATION Spec
CONSTANTS
  Threads = {t1, t2}
  Clients = {c1, c2}
  NoClient = NoClient
  BOs = {b1, b2}
  NoBO = NoBO
  MaxSlots = 2
  MaxIterations = 2
  AckReads = {"set", "sentinel"}
  Methods = {"CreateBuffer", "Submit", "Wait", "GetGTConfig"}
  BootArgs <- MCBootArgs
  BarLengths <- MCBarLengths
SYMMETRY Symmetry
CONSTRAINT OneRace
INVARIANTS TypeOK AccessesAreMapped AccessesInBounds FlagsKeepOffEngine StopLeavesDecoding RegistryLiveInUse IssuedAlive ReleasesAreWhole CookieNamesBuffer NoBufferLeft LastClientsLeave
PROPERTIES ComponentsImplemented ImplementsTable ImplementsAPI
