\* 1-bit data times, 2-bit entry times, 2-bit time words: all of them wrap.
SPECIFICATION Spec
CONSTANTS
  T13 = 2
  T24 = 4
  T30 = 4
  Capacity = 3
  MaxDma = 2
  MaxTime = 9
INVARIANTS TypeOK DecodedRight NeverStops
CHECK_DEADLOCK FALSE
