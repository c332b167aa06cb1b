SPECIFICATION FairSpec
CONSTANTS
  Cmds = {c1, c2}
  Callers = {w, s}
  Waiters = {w}
  NoIo = {c1}
  NoCmd = NoCmd
  NoCaller = NoCaller
  MaxSema = 1
  SMP = FALSE
  c1 = c1
  c2 = c2
  s = s
  w = w
PROPERTY ServiceIsKept
PROPERTY NoWaitForEver
INVARIANT TypeOK
INVARIANT SctxIsLive
INVARIANT DetachIsSafe
