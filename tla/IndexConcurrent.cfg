\* Two index runs of one build variant, edits in between, failures and crashes.
CONSTANTS
  Procs = {p1, p2}  Units = {u1, u2}  Variants = 1  Profiles = {"full"}
  MaxVersion = 2  MaxLists = 0  HashRace = FALSE  Failing = TRUE
SPECIFICATION Spec
INVARIANTS FailedFreshRunLeavesNothing
PROPERTIES CommitIsCurrent OnlyWriterChanges
