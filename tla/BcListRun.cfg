\* A bus that runs and is shut down, with either trigger and calls on time.
SPECIFICATION Spec
CONSTANTS
  r1 = r1
  r2 = r2
  RT <- OneRT
  NumberOfRts = 1
  SoftTriggers <- EitherTrigger
  Late = 0
  MaxLost = 0
  Misreads = {}
  TimeMod = 3
INVARIANTS NextTimeKnown
PROPERTIES NoTriggerLost ShutsDown
