\* A waiter and an acker share two buffers; a report arrives before its timeout or not at all.
SPECIFICATION FairSpec
CONSTANTS
  Waiters = {w1}
  Ackers = {a1}
  Bufs = {b1, b2}
  SeqMod = 2
  LateReports = FALSE
PROPERTY CallsReturn
INVARIANT TypeOK
INVARIANT SctxIsLive
INVARIANT BufsInOnePlace
INVARIANT SuccessMeansAcked
