CONSTANTS
  Faults <- MCFaults
  MaxFaults = 2
  Spaced = FALSE
  Lines = TRUE
SPECIFICATION Spec
INVARIANT ReadsActiveCodes
