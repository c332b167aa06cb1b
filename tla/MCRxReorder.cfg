SPECIFICATION FairSpec
CONSTANTS
  SN = 16
  WSize = 3
  MaxGap = 2
  FirstSeq = 13
  MaxSeq = 16
  RxBar = TRUE
  SMP = FALSE
INVARIANT TypeOK
INVARIANT InOrder
INVARIANT WindowHolds
INVARIANT PendingHasTimer
PROPERTY ParkedFramesLeave
INVARIANT FreedIsQuiet
