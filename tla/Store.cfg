\* Two processes that open the database of any release twice, and may die; four
\* units of two builds; two variants of one build and one of another; programs of
\* three functions; the facts of two functions; responses of eleven records.
CONSTANTS
  Openers = {p, q}  InitialVersions = {0, 1, 7, 10, 16, 26}  MayCrash = TRUE  MaxOpens = 2
  BuildOf <- TwoBuilds  Symbols = {"f", "g", "h", "k"}  FactsOf <- UnitsFacts  Closures = {{3}, {2, 3}}
  VariantBuild <- ThreeVariants  TextOf <- OneText  Namespaces = {"m"}  Vectors <- TwoDimensions  BatchSize = 2
  Programs <- SmallPrograms  LimitChoices <- SmallLimits
  Streams <- FactStreams
  Deliveries <- AllDeliveries  FieldOrder <- TextFields
SPECIFICATION Spec
INVARIANTS CanBeOpenedAlone OldFactsAreMarked IncrementalIsFresh TokensSawOverrides
  VectorsFit PassIsComplete SummariesAreWhole RowsStayInTheirFunction
  DecodingIsExact ResponsesAreExact
PROPERTIES MigrationKeepsFacts
CHECK_DEADLOCK FALSE
