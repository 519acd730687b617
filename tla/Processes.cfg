\* Three tool calls; one analyzer run with up to five records; two analyzer slots
\* over two units with a queue of two events and a clock of three units.
CONSTANTS
  Calls = {c1, c2, c3}  FirstRuntime = first  NoOne = noOne
  MaxRecords = 5
  Slots = {s1, s2}  Configurations = 2  Held = 2  QueueLimit = 2  MaxIdle = 1  MaxTime = 3
SPECIFICATION Spec
INVARIANTS WorkersExclude RuntimesInUse NothingOpenLeft
  SuccessIsWhole NothingLeftBehind BlameIsJust DeliveredWhole LongIdleIsNoticed
PROPERTIES CallsAndRunsEnd
CHECK_DEADLOCK FALSE
