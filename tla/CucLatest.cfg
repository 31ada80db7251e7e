\* No packet may be left behind when the flag says there is none.
SPECIFICATION CucSpec
CONSTANTS
  MaxPackets = 4
  MaxPolls = 2
INVARIANT LatestSent
\* the time packets end at their bound
CHECK_DEADLOCK FALSE
