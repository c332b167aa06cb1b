\* One try of a roam, no repetition of a frame; connecting and scanning.
SPECIFICATION FairSpec
CONSTANTS
  MaxRoam = 1
  ReLimit = 0
  NumCh = 1
  MaxQueue = 1
  Operations = {"connect", "scan"}
PROPERTY RequestsEnd
