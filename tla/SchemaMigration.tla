--------------------------- MODULE SchemaMigration ---------------------------
(***************************************************************************)
(* The schema of the index: SQLiteStore._migrate and its steps 2 to 25     *)
(* (src/cpp_context_engine/storage/sqlite.py), run by every process that   *)
(* opens the database, on a database any earlier release may have left.    *)
(*                                                                         *)
(* A step is a function of the database: the tables, views and columns it  *)
(* finds decide whether it applies, changes nothing or fails, and it sets  *)
(* the version last.  Only names that a step creates or looks for appear;  *)
(* indexes are left out.  The facts of the database are one unit, one      *)
(* variant of a symbol with its snapshot, its summary and its vectors.     *)
(***************************************************************************)
EXTENDS Naturals

CONSTANTS
  Openers,          \* processes that open the database
  InitialVersions,  \* versions of the database when the behavior starts
  MayCrash,         \* whether processes die
  MaxOpens          \* bound of the model: openings of all processes

ASSUME SchemaAssumption == MaxOpens \in Nat

Current == 25      \* SCHEMA_VERSION
Families == {"navigation", "cfg", "data_flow", "summary"}

-----------------------------------------------------------------------------
(* Statements.                                                             *)

At(d, version) == [d EXCEPT !.version = version]
Fails(d) == [d EXCEPT !.ok = FALSE]

CreateTables(d, names) ==
  IF names \cap (d.tables \cup d.views) = {} THEN [d EXCEPT !.tables = @ \cup names] ELSE Fails(d)

IfNotExists(d, names) == [d EXCEPT !.tables = @ \cup (names \ d.views)]

AddColumns(d, table, names) ==
  IF table \in d.tables /\ {table} \X names \cap d.columns = {}
  THEN [d EXCEPT !.columns = @ \cup {table} \X names] ELSE Fails(d)

Has(d, table, column) == <<table, column>> \in d.columns

\* A table is replaced by others and a view of the same name and columns.
Normalize(d, table, parts) ==
  LET split == CreateTables(d, parts)
  IN [split EXCEPT !.tables = @ \ {table}, !.views = @ \cup {table}]

\* Native rows that looked complete lack the facts of a new family.
Outdate(d) == IF d.unit.native THEN [d EXCEPT !.unit.advanced = FALSE] ELSE d

-----------------------------------------------------------------------------
(* The steps.                                                              *)

BaseTables == {"build_configurations", "translation_units", "dependencies", "symbols",
               "translation_unit_symbols", "occurrences", "edges", "embeddings", "symbol_fts"}

\* Creation of a database, and the new trigger of version 2: executescript commits
\* every statement by itself.  The first one, then the others.
FirstStatement(d, seen) ==
  IF seen = 0 THEN CreateTables(d, {"projects"})
  ELSE IF "symbols_au" \in d.tables THEN [d EXCEPT !.tables = @ \ {"symbols_au"}] ELSE Fails(d)

OtherStatements(d, seen) ==
  At(IF seen = 0
     THEN [CreateTables(d, BaseTables \cup {"symbols_au"}) EXCEPT
             !.columns = @ \cup {<<"translation_unit_symbols", "snapshot_json">>}]
     ELSE CreateTables(d, {"symbols_au"}), 2)

\* Baseline units become units of the build "default", to be indexed again.
V3(d) ==
  LET made == CreateTables(d, {"build_variants", "symbol_variants", "variant_embeddings",
                               "symbol_variant_fts"})
      scoped == AddColumns(AddColumns(AddColumns(AddColumns(made,
                  "build_configurations", {"build_variant"}), "translation_units", {"build_variant"}),
                  "occurrences", {"build_variant"}), "edges", {"id", "build_variant"})
  IN At([scoped EXCEPT !.columns = @ \cup {<<"symbol_variants", "snapshot_json">>},
                       !.unit.reindex = d.unit.present,
                       !.snapshot.variant = IF d.snapshot.membership THEN "json" ELSE @,
                       !.documents = IF d.snapshot.membership THEN "own" ELSE @], 3)

V4(d) == At(AddColumns(AddColumns(d, "occurrences", {"metadata_json"}),
              "translation_units", {"analysis_backend", "advanced_facts_complete"}), 4)

V5(d) == At(Outdate(CreateTables(d, {"cfg_graphs", "cfg_blocks", "cfg_elements", "cfg_edges"})), 5)
V6(d) == At(Outdate(CreateTables(d, {"callsites", "call_targets"})), 6)
V7(d) == At(Outdate(CreateTables(d, {"data_flow_analyses", "memory_locations", "data_accesses",
                                     "data_flow_evidence"})), 7)

\* Mutant: rows indexed before there were summaries stay complete.
V8Trusting(d) ==
  At(CreateTables(d, {"function_summaries", "summary_effects", "summary_return_origins",
       "call_argument_bindings", "call_result_bindings", "interprocedural_flows"}), 8)
V8(d) ==
  At(Outdate(CreateTables(d, {"function_summaries", "summary_effects", "summary_return_origins",
       "call_argument_bindings", "call_result_bindings", "interprocedural_flows"})), 8)

\* Indexes, all IF NOT EXISTS.
V9(d) == At(d, 9)

V10(d) == At([d EXCEPT !.columns = @ \ {<<"translation_unit_symbols", "snapshot_json">>},
                       !.snapshot.membership = FALSE], 10)

\* Propagated solutions move from rows into one payload of the summary.
V11(d) ==
  LET made == IfNotExists(d, {"summary_solution_payloads"})
  IN At([made EXCEPT !.solution = IF @ = "rows" THEN "payload" ELSE @], 11)

\* Mutant: vectors that do not decode are dropped.
V12Dropping(d) ==
  IF Has(d, "variant_embeddings", "configuration_id") THEN At(d, 12)
  ELSE LET made == CreateTables(d, {"embedding_vectors"})
       IN At([made EXCEPT !.columns = @ \cup {<<"variant_embeddings", "configuration_id">>},
                          !.vectors = @ \ {"unnamed", "damaged"}], 12)

\* Vectors whose endpoint is unknown are dropped; the others must be sound.
V12(d) ==
  IF Has(d, "variant_embeddings", "configuration_id") THEN At(d, 12)
  ELSE IF "damaged" \in d.vectors THEN Fails(d)
  ELSE LET made == CreateTables(d, {"embedding_vectors"})
       IN At([made EXCEPT !.columns = @ \cup {<<"variant_embeddings", "configuration_id">>},
                          !.vectors = @ \ {"unnamed"}], 12)

\* The old marker is copied even where the new ones exist.
V13(d) ==
  At([d EXCEPT !.columns = @ \cup {<<"build_variants", "index_profile">>}
                             \cup {"translation_units"} \X {"index_profile", "facts_complete"},
               !.unit.claims = IF d.unit.advanced THEN Families ELSE {}], 13)

V14(d) ==
  IF Has(d, "embedding_vectors", "vector_encoding") THEN At(d, 14)
  ELSE IF "damaged" \in d.vectors THEN Fails(d)
  ELSE At([d EXCEPT !.columns = @ \cup {<<"embedding_vectors", "vector_encoding">>}], 14)

V15(d) == At(IfNotExists(d, {"deep_materializations", "deep_tu_cache",
                             "deep_materialization_units"}), 15)
V16(d) == At([d EXCEPT !.columns = @ \cup {<<"build_variants", "generated_source_roots_json">>}], 16)
V17(d) == At([d EXCEPT !.columns = @ \cup {<<"translation_units", "analyzer_identity">>}], 17)

\* Snapshots are decoded, in either form, and compressed.
V18(d) ==
  IF Has(d, "symbol_variants", "snapshot_json")
  THEN At([d EXCEPT !.snapshot.variant = IF @ = "none" THEN @ ELSE "compressed"], 18)
  ELSE Fails(d)

\* The variants refer to pooled snapshots.
V19(d) ==
  LET made == CreateTables(d, {"symbol_snapshot_contents"})
  IN At([made EXCEPT !.columns = @ \ {<<"symbol_variants", "snapshot_json">>},
                     !.views = @ \cup {"symbol_variant_snapshots"},
                     !.snapshot.variant = IF @ = "none" THEN @ ELSE "pooled"], 19)

\* Indexes of the edges, where these are a table.
V20(d) == At(d, 20)

\* Documents are checked against the snapshots and then taken from them.
V21(d) ==
  LET made == CreateTables(d, {"symbol_variant_fts_rows"})
  IN IF (d.documents = "none") # (d.snapshot.variant = "none") THEN Fails(d)
     ELSE At([made EXCEPT !.views = @ \cup {"symbol_variant_fts_source"},
                          !.documents = IF @ = "none" THEN @ ELSE "external"], 21)

V22(d) == IF "variant_embeddings" \in d.tables THEN At(d, 22) ELSE Fails(d)

V23(d) ==
  IF "edges" \in d.tables
  THEN At(Normalize(d, "edges", {"edge_provenance", "edge_symbols", "edge_records"}), 23)
  ELSE At(d, 23)

V24(d) ==
  IF "occurrences" \in d.tables
  THEN At(Normalize(d, "occurrences",
            {"occurrence_units", "occurrence_contexts", "occurrence_records"}), 24)
  ELSE At(d, 24)

V25(d) ==
  IF "embedding_vectors" \in d.tables
  THEN At(Normalize(Normalize(d, "embedding_vectors",
              {"embedding_namespaces", "embedding_content_records"}),
            "variant_embeddings", {"embedding_attachment_records"}), 25)
  ELSE At(d, 25)

\* One transaction: the step that ends at a version, for a process that found the
\* version seen.  Steps 11 and 12, and 13 and 14, are one unless seen lies between.
Step(d, n, seen) ==
  CASE n = 3 -> V3(d) [] n = 4 -> V4(d) [] n = 5 -> V5(d) [] n = 6 -> V6(d) [] n = 7 -> V7(d)
    [] n = 8 -> V8(d) [] n = 9 -> V9(d) [] n = 10 -> V10(d)
    [] n = 12 -> V12(IF seen <= 10 THEN V11(d) ELSE d)
    [] n = 14 -> V14(IF seen <= 12 THEN V13(d) ELSE d)
    [] n = 15 -> V15(d) [] n = 16 -> V16(d) [] n = 17 -> V17(d) [] n = 18 -> V18(d)
    [] n = 19 -> V19(d) [] n = 20 -> V20(d) [] n = 21 -> V21(d) [] n = 22 -> V22(d)
    [] n = 23 -> V23(d) [] n = 24 -> V24(d) [] n = 25 -> V25(d)

StepVersions == (3 .. Current) \ {11, 13}

\* Mutant: the last step is taken again.
ChainAgain(seen) == {n \in StepVersions : seen <= n}

\* The steps a process that found the version seen takes after version 2.
Chain(seen) == {n \in StepVersions : seen < n}

NextStep(steps) == CHOOSE n \in steps : \A m \in steps : n <= m

\* What a single process makes of a database.
Onward(d, n, seen) == IF d.ok /\ n \in Chain(seen) THEN Step(d, n, seen) ELSE d

Upgraded(d) ==
  LET second == IF d.version < 2 THEN OtherStatements(FirstStatement(d, d.version), d.version) ELSE d
      upgraded[n \in 2 .. Current] ==
        IF n = 2 THEN second ELSE Onward(upgraded[n - 1], n, d.version)
  IN upgraded[Current]

-----------------------------------------------------------------------------
(* Databases that releases left.                                           *)

Empty ==
  [ok |-> TRUE, version |-> 0, tables |-> {}, views |-> {}, columns |-> {},
   unit |-> [present |-> FALSE, native |-> FALSE, era |-> 0, has |-> {}, advanced |-> FALSE,
             claims |-> {}, reindex |-> FALSE],
   snapshot |-> [membership |-> FALSE, variant |-> "none"], documents |-> "none",
   solution |-> "none", vectors |-> {}]

\* The database of a release that knew the versions up to v, one step for each.
Single(d, n) == CASE n = 11 -> V11(d) [] n = 13 -> V13(d) [] OTHER -> Step(d, n, n - 1)

Released(v) ==
  LET release[n \in 2 .. Current] ==
        IF n = 2 THEN OtherStatements(FirstStatement(Empty, 0), 0) ELSE Single(release[n - 1], n)
  IN IF v = 0 THEN Empty ELSE At(release[IF v = 1 THEN 2 ELSE v], v)

\* Families of facts that a release put into the rows of a native unit.
Introduced(v) == {f \in Families :
  v >= CASE f = "cfg" -> 5 [] f = "navigation" -> 6 [] f = "data_flow" -> 7 [] f = "summary" -> 8}

\* A release of version v fills its database; the profiles come with version 13.
Filled(v, native, profile, vectors) ==
  LET d == Released(v)
      has == IF native THEN (IF profile = "full" THEN Introduced(v) ELSE {"navigation"}) ELSE {}
  IN [d EXCEPT
        !.unit = [present |-> TRUE, native |-> native, era |-> v, has |-> has,
                  advanced |-> native /\ profile = "full",
                  claims |-> IF v >= 13 THEN has ELSE {}, reindex |-> FALSE],
        !.snapshot = [membership |-> v < 10,
                      variant |-> CASE v < 3 -> "none" [] v \in 3..17 -> "json"
                                    [] v = 18 -> "compressed" [] v > 18 -> "pooled"],
        !.documents = CASE v < 3 -> "none" [] v \in 3..20 -> "own" [] v > 20 -> "external",
        !.solution = IF v < 8 \/ ~native THEN "none" ELSE IF v < 11 THEN "rows" ELSE "payload",
        !.vectors = vectors]

-----------------------------------------------------------------------------
(* Processes.                                                              *)

VARIABLES
  db,       \* what is committed
  opener,   \* "closed", "creating", "created", "migrating", "open" or "failed"
  seen,     \* the version it read
  todo,     \* the steps it has still to take
  opens,    \* openings so far
  alone     \* no process began while another migrated, none died while creating

schemaVars == <<db, opener, seen, todo, opens, alone>>

SchemaInit ==
  /\ \/ \E v \in InitialVersions \cap 0..2 : db = Released(v)
     \/ \E v \in InitialVersions \cap 2..Current, native \in BOOLEAN,
           profile \in {"full", "navigation"}, vectors \in SUBSET {"local", "unnamed", "damaged"} :
          /\ native => v >= 4
          /\ profile = "navigation" => native /\ v >= 13
          /\ vectors # {} => v >= 3
          /\ vectors \cap {"unnamed", "damaged"} # {} => v < 12
          /\ db = Filled(v, native, profile, vectors)
     \/ InitialVersions \cap {26} # {} /\ db = At(Released(Current), 26)
  /\ opener = [p \in Openers |-> "closed"]
  /\ seen = [p \in Openers |-> 0] /\ todo = [p \in Openers |-> {}]
  /\ opens = 0 /\ alone = TRUE

Migrating(p) == opener[p] \in {"creating", "created", "migrating"}

\* The version is read outside every transaction.
Open(p) ==
  /\ opener[p] = "closed" /\ opens < MaxOpens
  /\ opens' = opens + 1
  /\ seen' = [seen EXCEPT ![p] = db.version]
  /\ opener' = [opener EXCEPT ![p] =
       CASE db.version > Current -> "failed" [] db.version < 2 -> "creating"
         [] db.version = Current -> "open" [] OTHER -> "migrating"]
  /\ todo' = [todo EXCEPT ![p] = Chain(db.version)]
  /\ alone' = (alone /\ \A q \in Openers : ~Migrating(q))
  /\ UNCHANGED db

\* The statements before version 2.  A process that lost the race to the first fails.
Create(p) ==
  /\ opener[p] \in {"creating", "created"}
  /\ LET next == IF opener[p] = "creating" THEN FirstStatement(db, seen[p])
                                           ELSE OtherStatements(db, seen[p])
     IN \/ /\ next.ok /\ db' = next
           /\ opener' = [opener EXCEPT ![p] = IF @ = "creating" THEN "created" ELSE "migrating"]
        \/ /\ ~next.ok /\ opener' = [opener EXCEPT ![p] = "failed"] /\ UNCHANGED db
  /\ UNCHANGED <<seen, todo, opens, alone>>

\* A step commits, or is rolled back whatever the reason: a check that fails, a full
\* disk, a lock that was not obtained, an interrupt.
Migrate(p) ==
  /\ opener[p] = "migrating"
  /\ LET n == NextStep(todo[p])
         next == Step(db, n, seen[p])
     IN \/ /\ next.ok
           /\ db' = next /\ todo' = [todo EXCEPT ![p] = @ \ {n}]
           /\ opener' = IF todo[p] = {n} THEN [opener EXCEPT ![p] = "open"] ELSE opener
        \/ /\ opener' = [opener EXCEPT ![p] = "failed"] /\ UNCHANGED <<db, todo>>
  /\ UNCHANGED <<seen, opens, alone>>

\* An open store indexes the unit again, or embeds the variant.
Reindex(p) ==
  /\ opener[p] = "open" /\ db.unit.present
  /\ \E profile \in {"full", "navigation"} :
       LET has == IF profile = "full" THEN Families ELSE {"navigation"}
       IN db' = [db EXCEPT
            !.unit = [present |-> TRUE, native |-> TRUE, era |-> Current, has |-> has,
                      advanced |-> profile = "full", claims |-> has, reindex |-> FALSE],
            !.solution = IF profile = "full" THEN "payload" ELSE "none"]
  /\ UNCHANGED <<opener, seen, todo, opens, alone>>

Embed(p) ==
  /\ opener[p] = "open" /\ db.snapshot.variant # "none"
  /\ db' = [db EXCEPT !.vectors = @ \cup {"local", "hosted"}]
  /\ UNCHANGED <<opener, seen, todo, opens, alone>>

\* The process ends, before, while or after it migrates.
Close(p) ==
  /\ opener[p] \in {"open", "failed"} \/ (MayCrash /\ Migrating(p))
  /\ opener' = [opener EXCEPT ![p] = "closed"]
  /\ todo' = [todo EXCEPT ![p] = {}] /\ seen' = [seen EXCEPT ![p] = 0]
  /\ alone' = (alone /\ opener[p] # "created")
  /\ UNCHANGED <<db, opens>>

SchemaNext == \E p \in Openers :
  Open(p) \/ Create(p) \/ Migrate(p) \/ Reindex(p) \/ Embed(p) \/ Close(p)

SchemaSpec == SchemaInit /\ [][SchemaNext]_schemaVars

-----------------------------------------------------------------------------
(* Properties.                                                             *)

SchemaTypes ==
  /\ opens \in 0..MaxOpens /\ db.ok /\ db.version \in 0..26 /\ db.tables \cap db.views = {}
  /\ db.unit.has \subseteq Families /\ db.unit.claims \subseteq Families
  /\ db.vectors \subseteq {"local", "hosted", "unnamed", "damaged"}
  /\ \A p \in Openers : /\ opener[p] \in {"closed", "creating", "created", "migrating", "open", "failed"}
                        /\ seen[p] \in 0..26

\* A later release can be opened: whatever happened to the processes so far, the next
\* one that opens the database alone finds its version and its tables in accord
\* (docs/indexing.md: "The migration and every TU replacement are atomic").  Damaged
\* vectors, which the steps 12 and 14 refuse, are the exception.
CanBeOpened ==
  (\A p \in Openers : ~Migrating(p)) /\ db.version <= Current /\ "damaged" \notin db.vectors
    => Upgraded(db).ok

\* It holds for processes that migrate one after the other, failures and crashes
\* between the steps included.
CanBeOpenedAlone == alone => CanBeOpened

\* No row passes for complete whose facts an older release could not know, and rows
\* from before the builds are marked for another run.
OldFactsAreMarked ==
  /\ SchemaTypes
  /\ (\E p \in Openers : opener[p] = "open") =>
    /\ db.unit.claims \subseteq db.unit.has
    /\ db.unit.advanced => db.unit.has = Families
    /\ db.unit.present /\ db.unit.era < 3 => db.unit.reindex

\* What a database holds stays readable in every form it is given, and only vectors
\* whose endpoint is unknown go: in every step of a migration, also when two
\* processes migrate the database at once.
MigrationKeepsFacts ==
  [][(\E p \in Openers : Migrating(p) /\ todo'[p] # todo[p] /\ opener'[p] # "closed") =>
       /\ db'.unit.has = db.unit.has
       /\ db.snapshot.membership \/ db.snapshot.variant # "none" =>
            db'.snapshot.membership \/ db'.snapshot.variant # "none"
       /\ (db'.solution = "none") = (db.solution = "none")
       /\ db.vectors \ db'.vectors \subseteq {"unnamed"}
       /\ db'.version >= 12 => "unnamed" \notin db'.vectors]_schemaVars
=============================================================================
