\* One start-up, then starts, stops and options at any time.
SPECIFICATION Spec
CONSTANTS
  Thresholds <- MCThreshold
  MaxRun = 2
  QueueLen = 1
INVARIANTS TypeOK EventsServed KeepsScrubbing RegenInterrupts SilentArmed
PROPERTIES RegenResumes
