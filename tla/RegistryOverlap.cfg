SPECIFICATION RegistrySpec
CONSTANTS
  Threads = {t1, t2}
  BOs = {b1, b2}
  NoBO = NoBO
  MaxSlots = 3
SYMMETRY Symmetry
INVARIANT CookieIndexesArray
