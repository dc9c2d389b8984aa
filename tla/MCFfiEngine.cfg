SPECIFICATION Spec
CONSTANTS
  ta = ta  tb = tb
  Threads <- MCThreads
  Keys = {"k1", "k2"}
  BadKey = "short"
  NoKey = "no key"
  Free = Free
  None = None
  MaxCalls = 3
  MaxOpens = 2
INVARIANTS
  SavedStateOpens
PROPERTIES
  FilesNeverGoBack
  EveryCallReturns
CHECK_DEADLOCK FALSE
