\* A service routine that interrupts memscrubr_stop and restarts the core.
SPECIFICATION Spec
CONSTANTS
  Thresholds <- MCThreshold
  MaxRun = 2
  QueueLen = 2
INVARIANTS StopStops
