SPECIFICATION FairSpec
CONSTANTS
  DEMOS = 3
  Stacks = {s1, s2, s3}
  SLOTS = 2
INVARIANTS
  JoinSound
PROPERTIES
  JoinReturns
CHECK_DEADLOCK FALSE
