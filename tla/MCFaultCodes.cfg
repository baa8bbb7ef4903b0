CONSTANTS
  Faults <- MCFaults
  MaxFaults = 2
  Spaced = TRUE
  Lines = TRUE
SPECIFICATION Spec
INVARIANTS CodesIdentify ReadsActiveCodes
