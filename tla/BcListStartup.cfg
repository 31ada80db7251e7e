\* Two RTs come up one after the other, on a noisy bus, under a late task, and
\* statuses of r1 may count as answers that a variable never set has left.
SPECIFICATION Spec
CONSTANTS
  r1 = r1
  r2 = r2
  RT <- TwoRTs
  NumberOfRts = 1
  SoftTriggers <- Soft
  Late = 1
  MaxLost = 1
  Misreads = {r1}
  TimeMod = 2
INVARIANTS TypeOK PnpRead RunBeforeData
PROPERTIES TimeStarted StartsUp
