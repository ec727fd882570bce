SPECIFICATION FairSpec
CONSTANTS
  Threads = {t1, t2}
  Entries <- SampleEntries
  NoScript = NoScript
  NoThread = NoThread
  NoState = NoState
  NoEntry = NoEntry
INVARIANTS
  Exclusive
  NeverDry
  OwnScript
  IInv
PROPERTIES
  StatesStick
  SomeHandlerRuns
  PSSpec
