SPECIFICATION Spec
CONSTANTS
  Lines <- MCLines
  MaxLines = 4
  MaxLooks = 2
INVARIANTS TypeOK ReadsWhatIsTidy
PROPERTIES NothingIsHidden LinesStayApart SeesTheSameAgain LooksSettle
CHECK_DEADLOCK FALSE
