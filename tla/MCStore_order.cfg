SPECIFICATION FairSpec
CONSTANTS
  NTasks = 3
  DropReaders = FALSE
  MoveBusyViews = FALSE
INVARIANTS TypeOK WritersFirst ReadersFirst ExclusiveUse NoUseAfterFree
PROPERTIES ImplementsDatum WindsDown
