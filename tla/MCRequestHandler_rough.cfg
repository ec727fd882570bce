\* Nulls, documents that are not objects, and scripts that do not keep to
\* README.MD, on two threads.
SPECIFICATION Spec
CONSTANTS
  t1 = t1
  t2 = t2
  Threads = {t1, t2}
  Bodies <- RoughBodies
  Outcomes <- RoughOutcomes
  MaxStack = 2
  Slots = 6
SYMMETRY Symmetry
INVARIANTS
  CallsOnRequest
  StackLedger
  JInv
PROPERTY SRSpec
CHECK_DEADLOCK FALSE
