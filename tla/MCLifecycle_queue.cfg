SPECIFICATION FairSpec
CONSTANTS
  Tasks <- TwoTasks
  MaxEdits = 3
  MaxErrors = 1
INVARIANTS TypeOK NoLostUpdate WorkerDoneClosedOnce QuietBeforeQuit
PROPERTIES Converges RunningShutdownCompletes
CHECK_DEADLOCK FALSE
