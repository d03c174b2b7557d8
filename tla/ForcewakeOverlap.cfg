SPECIFICATION GuardSpec
CONSTANTS
  Threads = {t1, t2}
  MaxIterations = 3
  AckReads = {"set"}
  BootArgs <- MCBootArgs
INVARIANT AwakeWhileReading
