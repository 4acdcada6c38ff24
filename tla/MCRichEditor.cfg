SPECIFICATION Spec
CONSTANTS
  Changes <- MCChanges
  Tables = {"table"}
  Templates = {"template"}
  Unreadable = {"unreadable"}
  Unwritable = {"unwritable"}
PROPERTIES
  KeepsTheContent
  LeavingAsks
  LiteralBreaksComeFromATable
