\* Two tries of a roam, one repetition of a frame, scans of one channel; a call starts when no command waits, frames come while at most one does.
SPECIFICATION Spec
CONSTANTS
  MaxRoam = 2
  ReLimit = 1
  NumCh = 1
  MaxQueue = 1
  Operations = {"connect", "disconnect", "scan", "abort_scan"}
INVARIANT TypeOK
INVARIANT LinkingIsWatched
INVARIANT ScanIsWatched
INVARIANT ConnectedMeansAssociated
INVARIANT DisconnectSticks
