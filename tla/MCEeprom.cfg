SPECIFICATION FairSpec
CONSTANTS PageSize = 2
          Bank = 6
          MaxNum = 5
          MaxRead = 3
          MayHold = FALSE
          MaxAstray = 1
INVARIANTS TypeOK Written PagesInOrder ReadBack
PROPERTY WaiterReleased
