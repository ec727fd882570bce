\* NewPoolIsAlive does not hold: see the findings in README.md.
SPECIFICATION Spec
CONSTANTS
  None = None
  Threads = {t1}
  Uris = {u1}
  BadUris = {}
  Handles = {h1, h2}
INVARIANT NewPoolIsAlive
CHECK_DEADLOCK FALSE
