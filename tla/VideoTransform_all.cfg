SPECIFICATION Spec
CONSTANTS
  WRAP = 14
  EXACT = 4
  Configs <- Scripts
INVARIANTS OneAfterTheOther GoalReached
PROPERTIES TagsAnswered CycleKeeps
CHECK_DEADLOCK FALSE
