SPECIFICATION FairSpec
CONSTANTS
  Op = 1
  Others = {2}
  MaxCookie = 2
  MaxCalls = 2
  MaxJoin = 1
CHECK_DEADLOCK FALSE
INVARIANT TypeOK
INVARIANT BackOnLink
PROPERTY TimerEndsItsOwn
PROPERTY RochEnds
