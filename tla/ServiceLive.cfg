SPECIFICATION FairSpec
CONSTANTS
  Threads = {t1, t2}
  Clients = {c1}
  NoClient = NoClient
  BOs = {b1}
  NoBO = NoBO
  MaxSlots = 1
  MaxIterations = 2
  AckReads = {"set", "sentinel"}
  Methods = {"CreateBuffer", "Submit", "GetGTConfig"}
  BootArgs <- MCBootArgs
  BarLengths <- MCBarLengths
PROPERTIES CallsRunDown CallsReturn TerminationCompletes
