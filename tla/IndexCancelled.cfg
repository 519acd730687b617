\* A run of two variants is cancelled after the first one is committed.
CONSTANTS
  Procs = {p1}  Units = {u1}  Variants = 2  Profiles = {"full"}
  MaxVersion = 2  MaxLists = 0  HashRace = FALSE  Failing = TRUE
SPECIFICATION Spec
INVARIANTS FailedRunLeavesNothing
