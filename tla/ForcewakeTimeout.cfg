SPECIFICATION GuardSpec
CONSTANTS
  Threads = {t1}
  MaxIterations = 50
  AckReads = {"set"}
  BootArgs <- MCBootArgs
INVARIANT RequestReleased
