\* Errors, interrupts, get_totals, and restarts of the scrubber.
SPECIFICATION Spec
CONSTANTS
  Kinds <- MCKinds
  Width <- MCWidth
  MaxErrors = 7
INVARIANTS TypeOK NeverOvercount ExactWhenClean NewErrorServed
PROPERTIES TotalsMonotone
CHECK_DEADLOCK FALSE
