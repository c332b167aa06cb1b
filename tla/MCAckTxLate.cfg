\* Two ackers; a report may arrive after its wait has timed out.
SPECIFICATION Spec
CONSTANTS
  Waiters = {}
  Ackers = {a1, a2}
  Bufs = {b1, b2}
  SeqMod = 2
  LateReports = TRUE
INVARIANT SuccessMeansAcked
