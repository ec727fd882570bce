\* Two threads with two wrapper objects and two collections each, and a pool
\* of three clients.
SPECIFICATION CSpec
CONSTANTS
  None = None
  Null = Null
  Threads = {t1, t2}
  Objects = {o1, o2}
  Clients = {c1, c2, c3}
  Colls = {k1, k2}
  StrayColls = {k1}
  MaxScopes = 2
SYMMETRY Symmetry
INVARIANTS
  ClientExclusive
  ClientsReturned
  NoDeadlock
  UseExclusive
  ClosedBeforeReturned
  CollectionsClosed
  NothingClosedTwice
  CInv
PROPERTY CPSpec
CHECK_DEADLOCK FALSE
