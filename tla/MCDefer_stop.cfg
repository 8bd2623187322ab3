SPECIFICATION FairSpec
CONSTANTS Data = {x}
          Gpu = {g}
          Cpu = {c}
          Modes = {"plain", "split", "ordered"}
          NTasks = 3
          Reach = 1
          Uses = {}
INVARIANTS TypeOK ConflictsInOrder AfterToken ArgumentsAlive SyncedMeansOver QuietAtShutdown
PROPERTIES Stops
