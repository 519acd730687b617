\* A file edited between its analysis and its hashing is never reindexed.
CONSTANTS
  Procs = {p1}  Units = {u1, u2}  Variants = 1  Profiles = {"full"}
  MaxVersion = 2  MaxLists = 0  HashRace = TRUE  Failing = FALSE
SPECIFICATION Spec
PROPERTIES CommitIsCurrent
