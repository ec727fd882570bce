SPECIFICATION Spec
CONSTANTS
  Threads = {t1, t2, t3}
  Entries <- CollidingEntries
  NoScript = NoScript
  NoThread = NoThread
  NoState = NoState
  NoEntry = NoEntry
INVARIANTS
  OwnScript
