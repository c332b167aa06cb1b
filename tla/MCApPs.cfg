\* A station with one or all categories delivery-enabled, and group frames, on one CPU.
SPECIFICATION Spec
CONSTANTS
  Stas = {1}
  Profiles = {{"vo"}, {"vo", "be"}}
  NFrame = 2
  NExt = 1
  MaxBmc = 1
  MaxCmds = 2
  LenMod = 4
  SMP = FALSE
INVARIANT TypeOK
INVARIANT ParkedIsAnnounced
INVARIANT UnicastInOrder
INVARIANT AwakeHoldsNothing
INVARIANT TimReachesAir
