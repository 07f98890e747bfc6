SPECIFICATION Spec
CONSTANTS
  Tasks <- IngressTask
  MaxEdits = 3
  MaxErrors = 0
INVARIANT NoLostUpdate
CHECK_DEADLOCK FALSE
