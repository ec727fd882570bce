\* Scripts and bodies that keep to README.MD, on two threads.
SPECIFICATION FairSpec
CONSTANTS
  t1 = t1
  t2 = t2
  Threads = {t1, t2}
  Bodies <- BenignBodies
  Outcomes <- BenignOutcomes
  MaxStack = 2
  Slots = 6
INVARIANTS
  ServerSurvives
  ContractKept
PROPERTY Answered
CHECK_DEADLOCK FALSE
