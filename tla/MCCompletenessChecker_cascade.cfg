SPECIFICATION CheckerSpec
CONSTANTS
  Stream <- MCStream
  Disclosures <- MCDisclosures
  Servings <- MCServings
  Conflicts <- MCConflicts
INVARIANTS FindingsDoNotCascade
CHECK_DEADLOCK FALSE
