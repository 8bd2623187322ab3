SPECIFICATION Spec
CONSTANTS
  NTasks = 3
  DropReaders = TRUE
  MoveBusyViews = FALSE
INVARIANTS ReadersFirst
