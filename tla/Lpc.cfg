SPECIFICATION FairSpec
CONSTANTS
  t1 = t1
  t2 = t2
  h1 = h1
  h2 = h2
  BufSize = 3
  Code <- Codes
  Junk = Junk
  Task = {t1, t2}
  Handler = {h1, h2}
  Snoop = Snoop
  NumSlots = 3
  NoHandler = NoHandler
  MaxCode = 7
  Settings <- Crowds
INVARIANT TypeOK
INVARIANT ResetReachesWaiters
INVARIANT EventCleared
INVARIANT CurrentIsTail
INVARIANT PreviousIsLastBoot
 
INVARIANT LastCodeKept
INVARIANT CallbackFindsLive
PROPERTY WaitersServed
