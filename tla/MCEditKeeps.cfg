SPECIFICATION Spec
CONSTANTS
  Editors = {e1, e2, e3}
  Days = 2
  Apart = TRUE
  Rollbacks = TRUE
  Restarts = TRUE
  MaxTime = 6
  MaxSaves = 3
  MaxForms = 3
SYMMETRY EditorSymmetry
INVARIANTS
  EditTypeOK
  NothingSavedIsLost
  SeesWhatItReplaces
CHECK_DEADLOCK FALSE
