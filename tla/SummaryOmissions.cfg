\* Chains of three functions that pass a pointer on.
CONSTANTS
  Programs <- Chains  LimitChoices <- NoLimits
SPECIFICATION Spec
INVARIANTS OmissionsAreReported
CHECK_DEADLOCK FALSE
