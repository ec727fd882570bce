\* Three threads make and collect handles for two
\* connection strings, and for one that libmongoc refuses.
SPECIFICATION Spec
CONSTANTS
  None = None
  Threads = {t1, t2, t3}
  Uris = {u1, u2, u3}
  BadUris = {u3}
  Handles = {h1, h2, h3, h4}
SYMMETRY Symmetry
INVARIANTS
  CountIsHandles
  HeldAlive
  UnusedDestroyed
  IInv
PROPERTIES
  NoEarlyDestroy
  SPSpec
CHECK_DEADLOCK FALSE
