SPECIFICATION Spec
CONSTANTS
  Tasks <- TwoTasks
  MaxEdits = 3
  MaxErrors = 0
PROPERTY ReadyWhenLoaded
CHECK_DEADLOCK FALSE
