\* The binary is replaced and put back before the final check.
CONSTANTS
  N = 3  Workers = 2  Registries = 2  Domain = 1  SpoolLimit = 2  MaxFacts = 0  MaxSwaps = 2
  Faults = {"analysis", "close"}
SPECIFICATION Spec
INVARIANTS CompleteMeansOneAnalyzer
