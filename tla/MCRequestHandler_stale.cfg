\* HeadersArrive does not hold: see the findings in README.md.
SPECIFICATION Spec
CONSTANTS
  t1 = t1
  t2 = t2
  Threads = {t1}
  Bodies <- StaleBodies
  Outcomes <- BenignOutcomes
  MaxStack = 2
  Slots = 6
INVARIANT HeadersArrive
CHECK_DEADLOCK FALSE
