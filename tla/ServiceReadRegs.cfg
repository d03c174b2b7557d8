SPECIFICATION Spec
CONSTANTS
  Threads = {t1}
  Clients = {c1}
  NoClient = NoClient
  BOs = {b1}
  NoBO = NoBO
  MaxSlots = 2
  MaxIterations = 2
  AckReads = {"set", "sentinel"}
  Methods = {"CreateBuffer", "Submit", "Wait", "ReadRegs", "GetGTConfig", "GetDisplayInfo"}
  BootArgs <- MCStrictSafe
  BarLengths <- MCBarLengths
INVARIANT ReadRegsSamplesOnly
