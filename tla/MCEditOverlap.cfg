SPECIFICATION Spec
CONSTANTS
  Editors = {e1, e2}
  Days = 9
  Apart = FALSE
  Rollbacks = FALSE
  Restarts = FALSE
  MaxTime = 3
  MaxSaves = 2
  MaxForms = 2
SYMMETRY EditorSymmetry
INVARIANT NothingSavedIsLost
CHECK_DEADLOCK FALSE
