\* Two delegating requests and one other over a pool of two connections.
SPECIFICATION FairSpec
CONSTANTS
  r1 = r1
  d1 = d1
  d2 = d2
  Requests = {r1, d1, d2}
  Delegating = {d1, d2}
  MaxConns = 2
CHECK_DEADLOCK FALSE
INVARIANT TypeOK
INVARIANT SuccessIsCurrent
PROPERTY NoUpdateIsLost
PROPERTY AnsweredUnlessPoolHeld
