\* Three units, two analyzers, two converters, every failure, one replacement of
\* the analyzer binary, and the spool budget one unit short.
CONSTANTS
  N = 3  Workers = 2  Registries = 2  Domain = 2  SpoolLimit = 1  MaxFacts = 1  MaxSwaps = 1
  Faults = {"analysis", "conversion", "request", "telemetry", "close"}
SPECIFICATION FairSpec
INVARIANTS AdmissionBounds NothingLeaks RootCauseReported OnlySoundPrefix CompleteMeansOneAnalyzer
PROPERTIES EarliestFailureWins NoAdmissionAfterCancel Terminates ImplementsStream
