SPECIFICATION Spec
CONSTANTS
  SN = 16
  WSize = 3
  MaxGap = 3
  FirstSeq = 13
  MaxSeq = 17
  RxBar = FALSE
  SMP = FALSE
INVARIANT BufferedNotBelowWindow
