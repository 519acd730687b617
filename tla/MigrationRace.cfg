\* Two processes open a database of version 16 at the same time; neither dies.
CONSTANTS
  Openers = {p, q}  InitialVersions = {16}  MayCrash = FALSE  MaxOpens = 2
SPECIFICATION SchemaSpec
INVARIANTS CanBeOpened
CHECK_DEADLOCK FALSE
