SPECIFICATION FairSpec
CONSTANTS
  NumSta = 2
  Macs = {m1, m2}
  m1 = m1
  m2 = m2
  MaxAid = 2
  MaxNumSta = 1
  RrAid = FALSE
  AuthTo = 1
  AssocTo = 1
  ExpireTo = 1
  KeepAlive = 1
  MaxFrames = 4
  MaxCalls = 1
CHECK_DEADLOCK FALSE
INVARIANT TypeOK
INVARIANT AidsMatch
INVARIANT NoStationForgotten
PROPERTY StationsLeave
