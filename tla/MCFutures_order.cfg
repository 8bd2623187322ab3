SPECIFICATION FairSpec
CONSTANTS NTasks = 3
          MaxArgs = 2
          Uses = {}
INVARIANTS TypeOK NobodyMisses ReadyMeansValue WarIsStronger ReadersKeepValue
PROPERTIES AllResolved
