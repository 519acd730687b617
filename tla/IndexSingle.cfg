\* One process, two build variants, both profiles: edits, rewritten compilation
\* databases, cancellation, failures, crashes, and readers in between.
CONSTANTS
  Procs = {p1}  Units = {u1, u2}  Variants = 2  Profiles = {"navigation", "full"}
  MaxVersion = 2  MaxLists = 1  HashRace = FALSE  Failing = TRUE
SPECIFICATION FairSpec
PROPERTIES CommitCoversList AppearsWhole RunsEnd
