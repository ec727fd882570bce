\* Three userdata and three places for RSA objects.
SPECIFICATION FairSpec
CONSTANTS
  None = None
  Null = Null
  Garbage = Garbage
  Keys = {k1, k2, k3}
  Rsas = {r1, r2, r3}
INVARIANTS
  FreedOnce
  NothingLeaks
PROPERTY KeysAreFreed
CHECK_DEADLOCK FALSE
