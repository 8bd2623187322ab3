SPECIFICATION FairSpec
CONSTANTS fb = fb
          sys = sys
          s1 = s1
          s2 = s2
          Mem = {fb, sys}
          Shape = {s1, s2}
          KeyOf <- MCKeyOf
          Capacity <- MCCapacity
          NInst = 2
          NArrays = 2
          NOps = 3
          MinSizes = {1, 2}
INVARIANTS TypeOK OneOwner SafeAccess ReadsCurrent UniqueIds
PROPERTIES CachesGiveWay Progress
