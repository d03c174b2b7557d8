SPECIFICATION GuardFairSpec
CONSTANTS
  Threads = {t1, t2, t3}
  MaxIterations = 3
  AckReads = {"set", "sentinel"}
  BootArgs <- MCBootArgs
INVARIANTS GuardTypeOK RequestOwned HolderAwake FlagsHonoured
PROPERTIES GuardReturns RequestDropped
