\* The task gives the trigger, and stops giving it.
SPECIFICATION Spec
CONSTANTS
  r1 = r1
  r2 = r2
  RT <- OneRT
  NumberOfRts = 1
  SoftTriggers <- Soft
  Late = 0
  MaxLost = 0
  Misreads = {}
  TimeMod = 3
PROPERTIES SoftShutsDown
