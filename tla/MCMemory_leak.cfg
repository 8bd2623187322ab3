SPECIFICATION FairSpec
CONSTANTS fb = fb
          sys = sys
          s1 = s1
          s2 = s2
          Mem = {fb, sys}
          Shape = {s1, s2}
          KeyOf <- MCKeyOf
          Capacity <- MCCapacity
          NInst = 2
          NArrays = 2
          NOps = 2
          MinSizes = {1}
PROPERTIES FailsOnlyWhenFull
