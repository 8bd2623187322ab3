SPECIFICATION Spec
CONSTANTS
  NTasks = 3
  DropReaders = FALSE
  MoveBusyViews = TRUE
INVARIANTS SubviewsHoldBack
