SPECIFICATION Spec
CONSTANTS
  MAXORD = 2
  Configs <- Scripts
INVARIANTS CountersExact StoresExact FamilyTree ListsExact Persists
PROPERTIES CascadeExact
CHECK_DEADLOCK FALSE
