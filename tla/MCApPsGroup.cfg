\* Group frames, and a second station that only authenticates.
SPECIFICATION Spec
CONSTANTS
  Stas = {1, 2}
  Profiles = {{}}
  NFrame = 1
  NExt = 1
  MaxBmc = 1
  MaxCmds = 2
  LenMod = 8
  SMP = FALSE
INVARIANT GroupFramesAnnounced
