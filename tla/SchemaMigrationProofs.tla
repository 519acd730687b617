------------------------ MODULE SchemaMigrationProofs ------------------------
(***************************************************************************)
(* Theorems about SchemaMigration for any processes, any openings and any  *)
(* of the databases that releases left: what a migration keeps, what it    *)
(* marks, and that a database can be opened after migrations by one        *)
(* process at a time, whatever becomes of them.                            *)
(***************************************************************************)
EXTENDS SchemaMigration, WellFoundedInduction, TLAPS

-----------------------------------------------------------------------------
(* What the statements do to the fields of a database.                     *)

\* The fields of a database.
IsDb(d) ==
  /\ {"ok", "version", "tables", "views", "columns", "unit", "snapshot", "documents",
      "solution", "vectors"} \subseteq DOMAIN d
  /\ {"present", "native", "era", "has", "advanced", "claims", "reindex"} \subseteq DOMAIN d.unit
  /\ {"membership", "variant"} \subseteq DOMAIN d.snapshot
  /\ d.ok \in BOOLEAN

SameFacts(d, e) == /\ e.unit = d.unit /\ e.snapshot = d.snapshot /\ e.documents = d.documents
                   /\ e.solution = d.solution /\ e.vectors = d.vectors

LEMMA CreateTablesIs ==
  ASSUME NEW d, IsDb(d), NEW names
  PROVE  LET e == CreateTables(d, names)
         IN /\ IsDb(e) /\ SameFacts(d, e) /\ e.views = d.views /\ e.columns = d.columns
            /\ e.version = d.version
            /\ e.ok <=> d.ok /\ names \cap (d.tables \cup d.views) = {}
            /\ e.ok => e.tables = d.tables \cup names
BY DEF CreateTables, Fails, IsDb, SameFacts

LEMMA IfNotExistsIs ==
  ASSUME NEW d, IsDb(d), NEW names
  PROVE  LET e == IfNotExists(d, names)
         IN /\ IsDb(e) /\ SameFacts(d, e) /\ e.views = d.views /\ e.columns = d.columns
            /\ e.version = d.version /\ e.ok = d.ok /\ e.tables = d.tables \cup (names \ d.views)
BY DEF IfNotExists, IsDb, SameFacts

LEMMA AddColumnsIs ==
  ASSUME NEW d, IsDb(d), NEW table, NEW names
  PROVE  LET e == AddColumns(d, table, names)
         IN /\ IsDb(e) /\ SameFacts(d, e) /\ e.tables = d.tables /\ e.views = d.views
            /\ e.version = d.version
            /\ e.ok <=> d.ok /\ table \in d.tables /\ {table} \X names \cap d.columns = {}
            /\ e.ok => e.columns = d.columns \cup {table} \X names
BY DEF AddColumns, Fails, IsDb, SameFacts

LEMMA AtIs ==
  ASSUME NEW d, IsDb(d), NEW version
  PROVE  LET e == At(d, version)
         IN /\ IsDb(e) /\ SameFacts(d, e) /\ e.tables = d.tables /\ e.views = d.views
            /\ e.columns = d.columns /\ e.version = version /\ e.ok = d.ok
BY DEF At, IsDb, SameFacts

LEMMA FailsIs == ASSUME NEW d, IsDb(d) PROVE IsDb(Fails(d)) /\ ~Fails(d).ok
BY DEF Fails, IsDb

-----------------------------------------------------------------------------
(* What the steps do.                                                      *)

Tables3 == {"build_variants", "symbol_variants", "variant_embeddings", "symbol_variant_fts"}
Scoped == {"build_configurations", "translation_units", "occurrences", "edges"}
Columns3 == {"build_configurations", "translation_units", "occurrences"} \X {"build_variant"}
              \cup {"edges"} \X {"id", "build_variant"}

SameUnit(d, e) ==
  /\ e.unit.present = d.unit.present /\ e.unit.native = d.unit.native /\ e.unit.era = d.unit.era
  /\ e.unit.has = d.unit.has

LEMMA V3Is ==
  ASSUME NEW d, IsDb(d)
  PROVE  LET e == V3(d)
         IN /\ IsDb(e) /\ e.version = 3
            /\ e.ok <=> /\ d.ok /\ Tables3 \cap (d.tables \cup d.views) = {}
                        /\ Scoped \subseteq d.tables \cup Tables3 /\ Columns3 \cap d.columns = {}
            /\ e.ok => /\ e.tables = d.tables \cup Tables3 /\ e.views = d.views
                       /\ e.columns = d.columns \cup Columns3
                                        \cup {<<"symbol_variants", "snapshot_json">>}
            /\ SameUnit(d, e) /\ e.unit.advanced = d.unit.advanced /\ e.unit.claims = d.unit.claims
            /\ e.unit.reindex = d.unit.present
            /\ e.snapshot.membership = d.snapshot.membership
            /\ e.snapshot.variant = IF d.snapshot.membership THEN "json" ELSE d.snapshot.variant
            /\ e.documents = IF d.snapshot.membership THEN "own" ELSE d.documents
            /\ e.solution = d.solution /\ e.vectors = d.vectors
<1> DEFINE a == CreateTables(d, Tables3)
           b == AddColumns(a, "build_configurations", {"build_variant"})
           c == AddColumns(b, "translation_units", {"build_variant"})
           f == AddColumns(c, "occurrences", {"build_variant"})
           g == AddColumns(f, "edges", {"id", "build_variant"})
           h == [g EXCEPT !.columns = @ \cup {<<"symbol_variants", "snapshot_json">>},
                          !.unit.reindex = d.unit.present,
                          !.snapshot.variant = IF d.snapshot.membership THEN "json" ELSE @,
                          !.documents = IF d.snapshot.membership THEN "own" ELSE @]
<1>1. V3(d) = At(h, 3)
  BY DEF V3, Tables3
<1>2. /\ IsDb(a) /\ SameFacts(d, a) /\ a.views = d.views /\ a.columns = d.columns
      /\ a.ok <=> d.ok /\ Tables3 \cap (d.tables \cup d.views) = {}
      /\ a.ok => a.tables = d.tables \cup Tables3
  BY CreateTablesIs
<1> HIDE DEF a
<1>3. /\ IsDb(b) /\ SameFacts(a, b) /\ b.tables = a.tables /\ b.views = a.views
      /\ b.ok <=> a.ok /\ "build_configurations" \in a.tables
                  /\ {"build_configurations"} \X {"build_variant"} \cap a.columns = {}
      /\ b.ok => b.columns = a.columns \cup {"build_configurations"} \X {"build_variant"}
  BY <1>2, AddColumnsIs
<1> HIDE DEF b
<1>4. /\ IsDb(c) /\ SameFacts(b, c) /\ c.tables = b.tables /\ c.views = b.views
      /\ c.ok <=> b.ok /\ "translation_units" \in b.tables
                  /\ {"translation_units"} \X {"build_variant"} \cap b.columns = {}
      /\ c.ok => c.columns = b.columns \cup {"translation_units"} \X {"build_variant"}
  BY <1>3, AddColumnsIs
<1> HIDE DEF c
<1>5. /\ IsDb(f) /\ SameFacts(c, f) /\ f.tables = c.tables /\ f.views = c.views
      /\ f.ok <=> c.ok /\ "occurrences" \in c.tables
                  /\ {"occurrences"} \X {"build_variant"} \cap c.columns = {}
      /\ f.ok => f.columns = c.columns \cup {"occurrences"} \X {"build_variant"}
  BY <1>4, AddColumnsIs
<1> HIDE DEF f
<1>6. /\ IsDb(g) /\ SameFacts(f, g) /\ g.tables = f.tables /\ g.views = f.views
      /\ g.ok <=> f.ok /\ "edges" \in f.tables
                  /\ {"edges"} \X {"id", "build_variant"} \cap f.columns = {}
      /\ g.ok => g.columns = f.columns \cup {"edges"} \X {"id", "build_variant"}
  BY <1>5, AddColumnsIs
<1> HIDE DEF g
<1>7. SameFacts(d, g)
  BY <1>2, <1>3, <1>4, <1>5, <1>6 DEF SameFacts
<1>8. /\ IsDb(h) /\ h.ok = g.ok /\ h.tables = g.tables /\ h.views = g.views
      /\ h.columns = g.columns \cup {<<"symbol_variants", "snapshot_json">>}
      /\ SameUnit(d, h) /\ h.unit.advanced = d.unit.advanced /\ h.unit.claims = d.unit.claims
      /\ h.unit.reindex = d.unit.present
      /\ h.snapshot.membership = d.snapshot.membership
      /\ h.snapshot.variant = IF d.snapshot.membership THEN "json" ELSE d.snapshot.variant
      /\ h.documents = IF d.snapshot.membership THEN "own" ELSE d.documents
      /\ h.solution = d.solution /\ h.vectors = d.vectors
  BY <1>6, <1>7 DEF IsDb, SameFacts, SameUnit
<1> HIDE DEF h
<1>9. /\ IsDb(V3(d)) /\ V3(d).version = 3 /\ V3(d).ok = h.ok /\ V3(d).tables = h.tables
      /\ V3(d).views = h.views /\ V3(d).columns = h.columns /\ SameFacts(h, V3(d))
  BY <1>1, <1>8, AtIs
<1>10. g.ok <=> /\ d.ok /\ Tables3 \cap (d.tables \cup d.views) = {}
                /\ Scoped \subseteq d.tables \cup Tables3 /\ Columns3 \cap d.columns = {}
  <2>1. Columns3 = UNION {{"build_configurations"} \X {"build_variant"},
                          {"translation_units"} \X {"build_variant"},
                          {"occurrences"} \X {"build_variant"}, {"edges"} \X {"id", "build_variant"}}
    BY DEF Columns3
  <2>2. QED BY <1>2, <1>3, <1>4, <1>5, <1>6, <2>1 DEF Scoped
<1>11. g.ok => g.columns = d.columns \cup Columns3 /\ g.tables = d.tables \cup Tables3
  BY <1>2, <1>3, <1>4, <1>5, <1>6 DEF Columns3
<1>12. g.views = d.views
  BY <1>2, <1>3, <1>4, <1>5, <1>6
<1>13. QED
  BY <1>8, <1>9, <1>10, <1>11, <1>12 DEF SameFacts, SameUnit

-----------------------------------------------------------------------------
(* What a step does, whichever it is.                                      *)

ViewNames == {"symbol_variant_snapshots", "symbol_variant_fts_source"}
Named(d) == Has(d, "variant_embeddings", "configuration_id")

\* What holds of a database at all times, also when several processes migrate it.
Fit(d) ==
  /\ IsDb(d) /\ d.ok /\ d.version \in 0..26
  /\ d.tables \cap d.views = {} /\ ViewNames \cap d.tables = {}
  /\ d.unit.advanced => d.unit.native
  /\ d.unit.claims \subseteq d.unit.has /\ d.unit.has \subseteq Families
  /\ d.vectors \subseteq {"local", "hosted", "unnamed", "damaged"}
  /\ (d.documents = "none") <=> (d.snapshot.variant = "none")
  /\ Named(d) => "unnamed" \notin d.vectors

\* What the steps 3, 8 and 12 bring about for good.
Scopes(d) == /\ d.snapshot.membership => d.snapshot.variant # "none"
             /\ d.unit.present /\ d.unit.era < 3 => d.unit.reindex
Outdates(d) == d.unit.advanced => d.unit.has = Families
Names(d) == "unnamed" \notin d.vectors

Marked(d, steps) ==
  (3 \notin steps => Scopes(d)) /\ (8 \notin steps => Outdates(d)) /\ (12 \notin steps => Names(d))

Readable(d) == d.snapshot.membership \/ d.snapshot.variant # "none"

Keeps(d, e) ==
  /\ e.unit.has = d.unit.has /\ (Readable(d) => Readable(e))
  /\ (e.solution = "none") <=> (d.solution = "none")
  /\ e.vectors \subseteq d.vectors /\ d.vectors \subseteq e.vectors \cup {"unnamed"}

\* The step at which a table comes that must not be there before.
Since(t) ==
  CASE t \in Tables3 -> 3
    [] t \in {"cfg_graphs", "cfg_blocks", "cfg_elements", "cfg_edges"} -> 5
    [] t \in {"callsites", "call_targets"} -> 6
    [] t \in {"data_flow_analyses", "memory_locations", "data_accesses", "data_flow_evidence"} -> 7
    [] t \in {"function_summaries", "summary_effects", "summary_return_origins",
              "call_argument_bindings", "call_result_bindings", "interprocedural_flows"} -> 8
    [] t = "embedding_vectors" -> 12
    [] t = "symbol_snapshot_contents" -> 19
    [] t = "symbol_variant_fts_rows" -> 21
    [] t \in {"edge_provenance", "edge_symbols", "edge_records"} -> 23
    [] t \in {"occurrence_units", "occurrence_contexts", "occurrence_records"} -> 24
    [] t \in {"embedding_namespaces", "embedding_content_records",
              "embedding_attachment_records"} -> 25
    [] OTHER -> 0

LEMMA SinceNat == ASSUME NEW t PROVE Since(t) \in Nat
BY DEF Since

Columns4 == {<<"occurrences", "metadata_json">>} \cup
            {"translation_units"} \X {"analysis_backend", "advanced_facts_complete"}

\* The tables and columns that the steps to come rely on, one way or the other.
Whole(d) ==
  /\ \A t \in d.tables \cup d.views : Since(t) <= d.version
  /\ d.version \in 1..3 => Scoped \subseteq d.tables
  /\ d.version \in 3..24 => "variant_embeddings" \in d.tables
  /\ d.version \in 3..18 => Has(d, "symbol_variants", "snapshot_json")
  /\ d.version < 3 => Columns3 \cap d.columns = {}
  /\ d.version < 4 => Columns4 \cap d.columns = {}
  /\ d.version < 12 => ~Named(d)

\* The outcome e of the step n for the database d.
Does(d, e, n) ==
  /\ IsDb(e)
  /\ e.ok => /\ e.version = n /\ Fit(e) /\ Keeps(d, e)
             /\ Scopes(d) \/ n = 3 => Scopes(e)
             /\ Outdates(d) \/ n = 8 => Outdates(e)
             /\ Names(d) \/ n = 12 => Names(e)
  /\ Whole(d) /\ d.version = n - 1 => (e.ok => Whole(e)) /\ ("damaged" \notin d.vectors => e.ok)

LEMMA V3Does == ASSUME NEW d, Fit(d) PROVE Does(d, V3(d), 3)
<1> DEFINE e == V3(d)
<1>1. /\ IsDb(e) /\ e.version = 3
      /\ e.ok <=> /\ d.ok /\ Tables3 \cap (d.tables \cup d.views) = {}
                  /\ Scoped \subseteq d.tables \cup Tables3 /\ Columns3 \cap d.columns = {}
      /\ e.ok => /\ e.tables = d.tables \cup Tables3 /\ e.views = d.views
                 /\ e.columns = d.columns \cup Columns3
                                  \cup {<<"symbol_variants", "snapshot_json">>}
      /\ SameUnit(d, e) /\ e.unit.advanced = d.unit.advanced /\ e.unit.claims = d.unit.claims
      /\ e.unit.reindex = d.unit.present
      /\ e.snapshot.membership = d.snapshot.membership
      /\ e.snapshot.variant = IF d.snapshot.membership THEN "json" ELSE d.snapshot.variant
      /\ e.documents = IF d.snapshot.membership THEN "own" ELSE d.documents
      /\ e.solution = d.solution /\ e.vectors = d.vectors
  BY V3Is DEF Fit
<1> HIDE DEF e
<1>2. ASSUME e.ok PROVE Fit(e)
  BY <1>1, <1>2 DEF Fit, SameUnit, Named, Has, Columns3, Tables3, ViewNames
<1>3. Keeps(d, e) /\ Scopes(e) /\ (Outdates(d) => Outdates(e)) /\ (Names(d) => Names(e))
  BY <1>1 DEF Keeps, Scopes, Outdates, Names, SameUnit, Readable
<1>4. ASSUME Whole(d), d.version = 2 PROVE e.ok /\ Whole(e)
  <2>1. \A t \in Tables3 : Since(t) = 3
    BY DEF Since, Tables3
  <2>2. e.ok
    BY <1>1, <1>4, <2>1 DEF Whole, Fit
  <2>3. \A t \in e.tables \cup e.views : Since(t) <= e.version
    BY <1>1, <1>4, <2>1, <2>2, SinceNat DEF Whole
  <2>4. Scoped \subseteq e.tables /\ "variant_embeddings" \in e.tables
    BY <1>1, <1>4, <2>2 DEF Whole, Tables3
  <2>5. Columns4 \cap e.columns = {}
    <3>1. Columns4 \cap (Columns3 \cup {<<"symbol_variants", "snapshot_json">>}) = {}
      BY DEF Columns3, Columns4
    <3>2. QED BY <1>1, <1>4, <2>2, <3>1 DEF Whole
  <2>6. Has(e, "symbol_variants", "snapshot_json") /\ ~Named(e)
    BY <1>1, <1>4, <2>2 DEF Whole, Columns3, Has, Named
  <2>7. QED
    BY <1>1, <2>2, <2>3, <2>4, <2>5, <2>6 DEF Whole
<1>5. QED BY <1>1, <1>2, <1>3, <1>4 DEF Does, e

LEMMA V4Does == ASSUME NEW d, Fit(d) PROVE Does(d, V4(d), 4)
<1> DEFINE a == AddColumns(d, "occurrences", {"metadata_json"})
           b == AddColumns(a, "translation_units", {"analysis_backend", "advanced_facts_complete"})
           e == V4(d)
<1>1. /\ IsDb(a) /\ SameFacts(d, a) /\ a.tables = d.tables /\ a.views = d.views
      /\ a.ok <=> d.ok /\ "occurrences" \in d.tables
                  /\ {"occurrences"} \X {"metadata_json"} \cap d.columns = {}
      /\ a.ok => a.columns = d.columns \cup {"occurrences"} \X {"metadata_json"}
  BY AddColumnsIs DEF Fit
<1> HIDE DEF a
<1>2. /\ IsDb(b) /\ SameFacts(a, b) /\ b.tables = a.tables /\ b.views = a.views
      /\ b.ok <=> a.ok /\ "translation_units" \in a.tables
           /\ {"translation_units"} \X {"analysis_backend", "advanced_facts_complete"}
                \cap a.columns = {}
      /\ b.ok => b.columns = a.columns \cup
           {"translation_units"} \X {"analysis_backend", "advanced_facts_complete"}
  BY <1>1, AddColumnsIs
<1>3. e = At(b, 4)
  BY DEF V4, a
<1> HIDE DEF b, e
<1>4. /\ IsDb(e) /\ SameFacts(b, e) /\ e.tables = b.tables /\ e.views = b.views
      /\ e.columns = b.columns /\ e.version = 4 /\ e.ok = b.ok
  BY <1>2, <1>3, AtIs
<1>5. SameFacts(d, e) /\ e.tables = d.tables /\ e.views = d.views
  BY <1>1, <1>2, <1>4 DEF SameFacts
<1>6. e.ok <=> d.ok /\ {"occurrences", "translation_units"} \subseteq d.tables
               /\ Columns4 \cap d.columns = {}
  BY <1>1, <1>2, <1>4 DEF Columns4
<1>7. e.ok => e.columns = d.columns \cup Columns4
  BY <1>1, <1>2, <1>4 DEF Columns4
<1>8. ASSUME e.ok PROVE Fit(e)
  BY <1>4, <1>5, <1>7, <1>8 DEF Fit, SameFacts, Named, Has, Columns4
<1>9. Keeps(d, e) /\ (Scopes(d) => Scopes(e)) /\ (Outdates(d) => Outdates(e)) /\ (Names(d) => Names(e))
  BY <1>5 DEF Keeps, Scopes, Outdates, Names, SameFacts, Readable
<1>10. ASSUME Whole(d), d.version = 3 PROVE e.ok /\ Whole(e)
  <2>1. e.ok
    BY <1>6, <1>10 DEF Whole, Fit, Scoped
  <2>2. \A t \in e.tables \cup e.views : Since(t) <= e.version
    BY <1>4, <1>5, <1>10, SinceNat DEF Whole
  <2>3. Has(e, "symbol_variants", "snapshot_json") /\ ~Named(e)
    BY <1>7, <1>10, <2>1 DEF Whole, Columns4, Has, Named
  <2>4. QED
    BY <1>4, <1>5, <1>10, <2>1, <2>2, <2>3 DEF Whole
<1>11. QED BY <1>4, <1>8, <1>9, <1>10 DEF Does, e

\* The steps 5 to 8 make tables for a family of facts.
LEMMA FamilyDoes ==
  ASSUME NEW d, Fit(d), NEW names, NEW n \in 5..8, \A t \in names : Since(t) = n,
         ViewNames \cap names = {}
  PROVE  Does(d, At(Outdate(CreateTables(d, names)), n), n)
<1> DEFINE a == CreateTables(d, names)
           b == Outdate(a)
           e == At(b, n)
<1>1. /\ IsDb(a) /\ SameFacts(d, a) /\ a.views = d.views /\ a.columns = d.columns
      /\ a.ok <=> d.ok /\ names \cap (d.tables \cup d.views) = {}
      /\ a.ok => a.tables = d.tables \cup names
  BY CreateTablesIs DEF Fit
<1> HIDE DEF a
<1>2. /\ IsDb(b) /\ b.ok = a.ok /\ b.tables = a.tables /\ b.views = a.views
      /\ b.columns = a.columns /\ SameUnit(a, b)
      /\ b.unit.advanced = IF a.unit.native THEN FALSE ELSE a.unit.advanced
      /\ b.unit.claims = a.unit.claims /\ b.unit.reindex = a.unit.reindex
      /\ b.snapshot = a.snapshot /\ b.documents = a.documents /\ b.solution = a.solution
      /\ b.vectors = a.vectors
  BY <1>1 DEF Outdate, IsDb, SameUnit
<1> HIDE DEF b
<1>3. /\ IsDb(e) /\ SameFacts(b, e) /\ e.tables = b.tables /\ e.views = b.views
      /\ e.columns = b.columns /\ e.version = n /\ e.ok = b.ok
  BY <1>2, AtIs
<1> HIDE DEF e
<1>4. /\ e.views = d.views /\ e.columns = d.columns /\ SameUnit(d, e)
      /\ e.unit.claims = d.unit.claims /\ e.unit.reindex = d.unit.reindex
      /\ e.snapshot = d.snapshot /\ e.documents = d.documents /\ e.solution = d.solution
      /\ e.vectors = d.vectors
      /\ e.unit.advanced = IF d.unit.native THEN FALSE ELSE d.unit.advanced
  BY <1>1, <1>2, <1>3 DEF SameFacts, SameUnit
<1>5. /\ e.ok <=> d.ok /\ names \cap (d.tables \cup d.views) = {}
      /\ e.ok => e.tables = d.tables \cup names
  BY <1>1, <1>2, <1>3
<1>6. ~e.unit.advanced
  BY <1>4 DEF Fit
<1>7. ASSUME e.ok PROVE Fit(e)
  BY <1>3, <1>4, <1>5, <1>6, <1>7 DEF Fit, SameUnit, Named, Has
<1>8. Keeps(d, e) /\ (Scopes(d) => Scopes(e)) /\ Outdates(e) /\ (Names(d) => Names(e))
  BY <1>4, <1>6 DEF Keeps, Scopes, Outdates, Names, SameUnit, Readable
<1>9. ASSUME Whole(d), d.version = n - 1 PROVE e.ok /\ Whole(e)
  <2>1. e.ok
    BY <1>5, <1>9 DEF Whole, Fit
  <2>2. \A t \in e.tables \cup e.views : Since(t) <= e.version
    BY <1>3, <1>4, <1>5, <1>9, <2>1, SinceNat DEF Whole
  <2>3. QED
    BY <1>3, <1>4, <1>5, <1>9, <2>1, <2>2 DEF Whole, Has, Named
<1>10. QED BY <1>3, <1>7, <1>8, <1>9 DEF Does, a, b, e

LEMMA FamiliesDo ==
  ASSUME NEW d, Fit(d)
  PROVE  Does(d, V5(d), 5) /\ Does(d, V6(d), 6) /\ Does(d, V7(d), 7) /\ Does(d, V8(d), 8)
<1>1. Does(d, V5(d), 5)
  <2> DEFINE names == {"cfg_graphs", "cfg_blocks", "cfg_elements", "cfg_edges"}
  <2>1. (\A t \in names : Since(t) = 5) /\ ViewNames \cap names = {}
    BY DEF Since, ViewNames, Tables3
  <2> HIDE DEF names
  <2>2. Does(d, At(Outdate(CreateTables(d, names)), 5), 5)
    BY <2>1, FamilyDoes
  <2>3. QED BY <2>2 DEF V5, names
<1>2. Does(d, V6(d), 6)
  <2> DEFINE names == {"callsites", "call_targets"}
  <2>1. (\A t \in names : Since(t) = 6) /\ ViewNames \cap names = {}
    BY DEF Since, ViewNames, Tables3
  <2> HIDE DEF names
  <2>2. Does(d, At(Outdate(CreateTables(d, names)), 6), 6)
    BY <2>1, FamilyDoes
  <2>3. QED BY <2>2 DEF V6, names
<1>3. Does(d, V7(d), 7)
  <2> DEFINE names == {"data_flow_analyses", "memory_locations", "data_accesses",
                       "data_flow_evidence"}
  <2>1. (\A t \in names : Since(t) = 7) /\ ViewNames \cap names = {}
    BY DEF Since, ViewNames, Tables3
  <2> HIDE DEF names
  <2>2. Does(d, At(Outdate(CreateTables(d, names)), 7), 7)
    BY <2>1, FamilyDoes
  <2>3. QED BY <2>2 DEF V7, names
<1>4. Does(d, V8(d), 8)
  <2> DEFINE names == {"function_summaries", "summary_effects", "summary_return_origins",
                       "call_argument_bindings", "call_result_bindings", "interprocedural_flows"}
  <2>1. (\A t \in names : Since(t) = 8) /\ ViewNames \cap names = {}
    BY DEF Since, ViewNames, Tables3
  <2> HIDE DEF names
  <2>2. Does(d, At(Outdate(CreateTables(d, names)), 8), 8)
    BY <2>1, FamilyDoes
  <2>3. QED BY <2>2 DEF V8, names
<1>5. QED BY <1>1, <1>2, <1>3, <1>4

\* What has to be seen of a step after the eighth: what becomes of the facts, ...
FactsDo(d, e, n) ==
  /\ e.unit.advanced => e.unit.native
  /\ e.unit.claims \subseteq e.unit.has
  /\ (e.documents = "none") <=> (e.snapshot.variant = "none")
  /\ Named(e) => "unnamed" \notin e.vectors
  /\ Keeps(d, e) /\ (Scopes(d) => Scopes(e)) /\ (Outdates(d) => Outdates(e))
  /\ Names(d) \/ n = 12 => Names(e)

\* ... and what becomes of tables and columns.
TablesDo(d, e, n) ==
  /\ e.tables \cap e.views = {} /\ ViewNames \cap e.tables = {}
  /\ Named(e) => Named(d) \/ n = 12
  /\ \A t \in e.tables \cup e.views : t \in d.tables \cup d.views \/ Since(t) <= n
  /\ n <= 24 /\ "variant_embeddings" \in d.tables => "variant_embeddings" \in e.tables
  /\ n <= 18 /\ Has(d, "symbol_variants", "snapshot_json") => Has(e, "symbol_variants", "snapshot_json")

LEMMA StepDoes ==
  ASSUME NEW d, Fit(d), NEW e, NEW n \in 9..25, IsDb(e), e.version = n,
         e.ok => FactsDo(d, e, n) /\ TablesDo(d, e, n),
         Whole(d) /\ d.version = n - 1 /\ "damaged" \notin d.vectors => e.ok
  PROVE  Does(d, e, n)
<1>1. ASSUME e.ok PROVE Fit(e)
  BY <1>1 DEF Fit, FactsDo, TablesDo, Keeps
<1>2. ASSUME Whole(d), d.version = n - 1, e.ok PROVE Whole(e)
  <2>1. \A t \in e.tables \cup e.views : Since(t) <= e.version
    BY <1>2, SinceNat DEF Whole, TablesDo
  <2>2. QED BY <1>2, <2>1 DEF Whole, TablesDo
<1>3. QED BY <1>1, <1>2 DEF Does, FactsDo

LEMMA SameFactsDo ==
  ASSUME NEW d, Fit(d), NEW e, SameFacts(d, e), Named(e) => Named(d), NEW n \in 9..25 \ {12}
  PROVE  FactsDo(d, e, n)
BY DEF Fit, SameFacts, FactsDo, Keeps, Scopes, Outdates, Names, Readable

\* A step that changes nothing but the version.
LEMMA AtDoes == ASSUME NEW d, Fit(d), NEW n \in 9..25 \ {12} PROVE Does(d, At(d, n), n)
<1> DEFINE e == At(d, n)
<1>1. /\ IsDb(e) /\ SameFacts(d, e) /\ e.tables = d.tables /\ e.views = d.views
      /\ e.columns = d.columns /\ e.version = n /\ e.ok = d.ok
  BY AtIs DEF Fit
<1> HIDE DEF e
<1>2. FactsDo(d, e, n)
  BY <1>1, SameFactsDo DEF Named, Has
<1>3. TablesDo(d, e, n) /\ e.ok
  BY <1>1 DEF TablesDo, Fit, Named, Has
<1>4. Does(d, e, n)
  BY <1>1, <1>2, <1>3, StepDoes
<1>5. QED BY <1>4 DEF e

LEMMA V10Does == ASSUME NEW d, Fit(d), Scopes(d) PROVE Does(d, V10(d), 10)
<1> DEFINE e == V10(d)
<1>1. /\ IsDb(e) /\ e.version = 10 /\ e.ok = d.ok /\ e.tables = d.tables /\ e.views = d.views
      /\ e.columns = d.columns \ {<<"translation_unit_symbols", "snapshot_json">>}
      /\ e.unit = d.unit /\ ~e.snapshot.membership /\ e.snapshot.variant = d.snapshot.variant
      /\ e.documents = d.documents /\ e.solution = d.solution /\ e.vectors = d.vectors
  BY DEF V10, At, Fit, IsDb
<1> HIDE DEF e
<1>2. FactsDo(d, e, 10)
  BY <1>1 DEF Fit, FactsDo, Keeps, Scopes, Outdates, Names, Readable, Named, Has
<1>3. TablesDo(d, e, 10) /\ e.ok
  BY <1>1 DEF TablesDo, Fit, Named, Has
<1>4. Does(d, e, 10)
  BY <1>1, <1>2, <1>3, StepDoes
<1>5. QED BY <1>4 DEF e

LEMMA V11Does == ASSUME NEW d, Fit(d) PROVE Does(d, V11(d), 11) /\ V11(d).ok
<1> DEFINE a == IfNotExists(d, {"summary_solution_payloads"})
           e == V11(d)
<1>1. /\ IsDb(a) /\ SameFacts(d, a) /\ a.views = d.views /\ a.columns = d.columns
      /\ a.ok = d.ok /\ a.tables = d.tables \cup ({"summary_solution_payloads"} \ d.views)
  BY IfNotExistsIs DEF Fit
<1>2. e = At([a EXCEPT !.solution = IF @ = "rows" THEN "payload" ELSE @], 11)
  BY DEF V11
<1> HIDE DEF a, e
<1>3. /\ IsDb(e) /\ e.version = 11 /\ e.ok = a.ok /\ e.tables = a.tables /\ e.views = a.views
      /\ e.columns = a.columns /\ e.unit = a.unit /\ e.snapshot = a.snapshot
      /\ e.documents = a.documents /\ e.vectors = a.vectors
      /\ e.solution = IF a.solution = "rows" THEN "payload" ELSE a.solution
  BY <1>1, <1>2 DEF At, IsDb
<1>4. FactsDo(d, e, 11)
  BY <1>1, <1>3 DEF Fit, FactsDo, Keeps, Scopes, Outdates, Names, Readable, Named, Has, SameFacts
<1>5. Since("summary_solution_payloads") = 0
  BY DEF Since, Tables3
<1>6. TablesDo(d, e, 11) /\ e.ok
  BY <1>1, <1>3, <1>5 DEF TablesDo, Fit, Named, Has, ViewNames
<1>7. Does(d, e, 11)
  BY <1>1, <1>3, <1>4, <1>6, StepDoes
<1>8. QED BY <1>6, <1>7 DEF e

LEMMA V12Does == ASSUME NEW d, Fit(d) PROVE Does(d, V12(d), 12)
<1>1. CASE Named(d)
  <2> DEFINE e == At(d, 12)
  <2>1. /\ IsDb(e) /\ SameFacts(d, e) /\ e.tables = d.tables /\ e.views = d.views
        /\ e.columns = d.columns /\ e.version = 12 /\ e.ok = d.ok
    BY AtIs DEF Fit
  <2> HIDE DEF e
  <2>2. FactsDo(d, e, 12)
    BY <1>1, <2>1 DEF Fit, FactsDo, Keeps, Scopes, Outdates, Names, Readable, Named, Has, SameFacts
  <2>3. TablesDo(d, e, 12) /\ e.ok
    BY <2>1 DEF TablesDo, Fit, Named, Has
  <2>4. Does(d, e, 12)
    BY <2>1, <2>2, <2>3, StepDoes
  <2>5. QED BY <1>1, <2>4 DEF e, V12, Named
<1>2. CASE ~Named(d) /\ "damaged" \in d.vectors
  <2>1. V12(d) = Fails(d)
    BY <1>2 DEF V12, Named
  <2>2. IsDb(Fails(d)) /\ ~Fails(d).ok
    BY FailsIs DEF Fit
  <2>3. QED BY <1>2, <2>1, <2>2 DEF Does
<1>3. CASE ~Named(d) /\ "damaged" \notin d.vectors
  <2> DEFINE a == CreateTables(d, {"embedding_vectors"})
             e == At([a EXCEPT !.columns = @ \cup {<<"variant_embeddings", "configuration_id">>},
                               !.vectors = @ \ {"unnamed"}], 12)
  <2>1. V12(d) = e
    BY <1>3 DEF V12, Named
  <2>2. /\ IsDb(a) /\ SameFacts(d, a) /\ a.views = d.views /\ a.columns = d.columns
        /\ a.ok <=> d.ok /\ {"embedding_vectors"} \cap (d.tables \cup d.views) = {}
        /\ a.ok => a.tables = d.tables \cup {"embedding_vectors"}
    BY CreateTablesIs DEF Fit
  <2> HIDE DEF a
  <2>3. /\ IsDb(e) /\ e.version = 12 /\ e.ok = a.ok /\ e.tables = a.tables /\ e.views = a.views
        /\ e.columns = a.columns \cup {<<"variant_embeddings", "configuration_id">>}
        /\ e.unit = a.unit /\ e.snapshot = a.snapshot /\ e.documents = a.documents
        /\ e.solution = a.solution /\ e.vectors = a.vectors \ {"unnamed"}
    BY <2>2 DEF At, IsDb
  <2> HIDE DEF e
  <2>4. FactsDo(d, e, 12)
    BY <2>2, <2>3 DEF Fit, FactsDo, Keeps, Scopes, Outdates, Names, Readable, SameFacts
  <2>5. Since("embedding_vectors") = 12
    BY DEF Since, Tables3
  <2>6. ASSUME e.ok PROVE TablesDo(d, e, 12)
    BY <2>2, <2>3, <2>5, <2>6 DEF TablesDo, Fit, Has, ViewNames
  <2>7. ASSUME Whole(d), d.version = 11 PROVE e.ok
    BY <2>2, <2>3, <2>5, <2>7 DEF Whole, Fit
  <2>8. Does(d, e, 12)
    BY <2>3, <2>4, <2>6, <2>7, StepDoes
  <2>9. QED BY <2>1, <2>8
<1>4. QED BY <1>1, <1>2, <1>3

LEMMA V13Does == ASSUME NEW d, Fit(d), Outdates(d) PROVE Does(d, V13(d), 13) /\ V13(d).ok
<1> DEFINE new == {<<"build_variants", "index_profile">>}
                    \cup {"translation_units"} \X {"index_profile", "facts_complete"}
           e == V13(d)
<1>1. /\ IsDb(e) /\ e.version = 13 /\ e.ok = d.ok /\ e.tables = d.tables /\ e.views = d.views
      /\ e.columns = d.columns \cup new
      /\ SameUnit(d, e) /\ e.unit.advanced = d.unit.advanced /\ e.unit.reindex = d.unit.reindex
      /\ e.unit.claims = IF d.unit.advanced THEN Families ELSE {}
      /\ e.snapshot = d.snapshot /\ e.documents = d.documents /\ e.solution = d.solution
      /\ e.vectors = d.vectors
  BY DEF V13, At, Fit, IsDb, SameUnit
<1>2. Named(e) => Named(d)
  BY <1>1 DEF Named, Has
<1>3. Has(d, "symbol_variants", "snapshot_json") => Has(e, "symbol_variants", "snapshot_json")
  BY <1>1 DEF Has
<1> HIDE DEF e, new
<1>4. FactsDo(d, e, 13)
  BY <1>1, <1>2 DEF Fit, FactsDo, Keeps, Scopes, Outdates, Names, Readable, SameUnit
<1>5. TablesDo(d, e, 13) /\ e.ok
  BY <1>1, <1>2, <1>3 DEF TablesDo, Fit
<1>6. Does(d, e, 13)
  BY <1>1, <1>4, <1>5, StepDoes
<1>7. QED BY <1>5, <1>6 DEF e

\* A step that adds columns nobody asks for later.
LEMMA NewColumns ==
  ASSUME NEW d, Fit(d), NEW table, NEW column, NEW n \in 9..25 \ {12},
         table \notin {"variant_embeddings", "symbol_variants"}
  PROVE  Does(d, At([d EXCEPT !.columns = @ \cup {<<table, column>>}], n), n)
<1> DEFINE e == At([d EXCEPT !.columns = @ \cup {<<table, column>>}], n)
<1>1. /\ IsDb(e) /\ e.version = n /\ e.ok = d.ok /\ e.tables = d.tables /\ e.views = d.views
      /\ e.columns = d.columns \cup {<<table, column>>} /\ SameFacts(d, e)
  BY DEF At, Fit, IsDb, SameFacts
<1> HIDE DEF e
<1>2. Named(e) => Named(d)
  BY <1>1 DEF Named, Has
<1>3. FactsDo(d, e, n)
  BY <1>1, <1>2, SameFactsDo
<1>4. TablesDo(d, e, n) /\ e.ok
  BY <1>1, <1>2 DEF TablesDo, Fit, Has
<1>5. Does(d, e, n)
  BY <1>1, <1>3, <1>4, StepDoes
<1>6. QED BY <1>5 DEF e

LEMMA V14Does == ASSUME NEW d, Fit(d) PROVE Does(d, V14(d), 14)
<1>1. CASE Has(d, "embedding_vectors", "vector_encoding")
  BY <1>1, AtDoes DEF V14
<1>2. CASE ~Has(d, "embedding_vectors", "vector_encoding") /\ "damaged" \in d.vectors
  <2>1. V14(d) = Fails(d)
    BY <1>2 DEF V14
  <2>2. IsDb(Fails(d)) /\ ~Fails(d).ok
    BY FailsIs DEF Fit
  <2>3. QED BY <1>2, <2>1, <2>2 DEF Does
<1>3. CASE ~Has(d, "embedding_vectors", "vector_encoding") /\ "damaged" \notin d.vectors
  BY <1>3, NewColumns DEF V14
<1>4. QED BY <1>1, <1>2, <1>3

LEMMA V15Does == ASSUME NEW d, Fit(d) PROVE Does(d, V15(d), 15)
<1> DEFINE names == {"deep_materializations", "deep_tu_cache", "deep_materialization_units"}
           a == IfNotExists(d, names)
           e == At(a, 15)
<1>1. V15(d) = e
  BY DEF V15
<1>2. (\A t \in names : Since(t) = 0) /\ names \cap ViewNames = {}
  BY DEF Since, Tables3, ViewNames
<1> HIDE DEF names
<1>3. /\ IsDb(a) /\ SameFacts(d, a) /\ a.views = d.views /\ a.columns = d.columns
      /\ a.ok = d.ok /\ a.tables = d.tables \cup (names \ d.views)
  BY IfNotExistsIs DEF Fit
<1> HIDE DEF a
<1>4. /\ IsDb(e) /\ SameFacts(a, e) /\ e.tables = a.tables /\ e.views = a.views
      /\ e.columns = a.columns /\ e.version = 15 /\ e.ok = a.ok
  BY <1>3, AtIs
<1> HIDE DEF e
<1>5. FactsDo(d, e, 15)
  BY <1>3, <1>4, SameFactsDo DEF SameFacts, Named, Has
<1>6. TablesDo(d, e, 15) /\ e.ok
  BY <1>2, <1>3, <1>4 DEF TablesDo, Fit, Named, Has
<1>7. QED BY <1>1, <1>4, <1>5, <1>6, StepDoes

LEMMA V16Does == ASSUME NEW d, Fit(d) PROVE Does(d, V16(d), 16)
<1> DEFINE e == At([d EXCEPT !.columns =
                      @ \cup {<<"build_variants", "generated_source_roots_json">>}], 16)
<1>1. V16(d) = e
  BY DEF V16
<1>2. Does(d, e, 16)
  BY NewColumns
<1>3. QED BY <1>1, <1>2

LEMMA V17Does == ASSUME NEW d, Fit(d) PROVE Does(d, V17(d), 17)
<1> DEFINE e == At([d EXCEPT !.columns = @ \cup {<<"translation_units", "analyzer_identity">>}], 17)
<1>1. V17(d) = e
  BY DEF V17
<1>2. Does(d, e, 17)
  BY NewColumns
<1>3. QED BY <1>1, <1>2

LEMMA V18Does == ASSUME NEW d, Fit(d) PROVE Does(d, V18(d), 18)
<1>1. CASE ~Has(d, "symbol_variants", "snapshot_json")
  <2>1. V18(d) = Fails(d)
    BY <1>1 DEF V18
  <2>2. IsDb(Fails(d)) /\ ~Fails(d).ok
    BY FailsIs DEF Fit
  <2>3. QED BY <1>1, <2>1, <2>2 DEF Does, Whole
<1>2. CASE Has(d, "symbol_variants", "snapshot_json")
  <2> DEFINE e == At([d EXCEPT !.snapshot.variant = IF @ = "none" THEN @ ELSE "compressed"], 18)
  <2>1. V18(d) = e
    BY <1>2 DEF V18
  <2>2. /\ IsDb(e) /\ e.version = 18 /\ e.ok = d.ok /\ e.tables = d.tables /\ e.views = d.views
        /\ e.columns = d.columns /\ e.unit = d.unit
        /\ e.snapshot.membership = d.snapshot.membership
        /\ e.snapshot.variant = IF d.snapshot.variant = "none" THEN "none" ELSE "compressed"
        /\ e.documents = d.documents /\ e.solution = d.solution /\ e.vectors = d.vectors
    BY DEF At, Fit, IsDb
  <2> HIDE DEF e
  <2>3. FactsDo(d, e, 18)
    BY <2>2 DEF Fit, FactsDo, Keeps, Scopes, Outdates, Names, Readable, Named, Has
  <2>4. TablesDo(d, e, 18) /\ e.ok
    BY <2>2 DEF TablesDo, Fit, Named, Has
  <2>5. QED BY <2>1, <2>2, <2>3, <2>4, StepDoes
<1>3. QED BY <1>1, <1>2

LEMMA V19Does == ASSUME NEW d, Fit(d) PROVE Does(d, V19(d), 19)
<1> DEFINE a == CreateTables(d, {"symbol_snapshot_contents"})
           e == At([a EXCEPT !.columns = @ \ {<<"symbol_variants", "snapshot_json">>},
                             !.views = @ \cup {"symbol_variant_snapshots"},
                             !.snapshot.variant = IF @ = "none" THEN @ ELSE "pooled"], 19)
<1>1. V19(d) = e
  BY DEF V19
<1>2. /\ IsDb(a) /\ SameFacts(d, a) /\ a.views = d.views /\ a.columns = d.columns
      /\ a.ok <=> d.ok /\ {"symbol_snapshot_contents"} \cap (d.tables \cup d.views) = {}
      /\ a.ok => a.tables = d.tables \cup {"symbol_snapshot_contents"}
  BY CreateTablesIs DEF Fit
<1> HIDE DEF a
<1>3. /\ IsDb(e) /\ e.version = 19 /\ e.ok = a.ok /\ e.tables = a.tables
      /\ e.views = a.views \cup {"symbol_variant_snapshots"}
      /\ e.columns = a.columns \ {<<"symbol_variants", "snapshot_json">>}
      /\ e.unit = a.unit /\ e.snapshot.membership = a.snapshot.membership
      /\ e.snapshot.variant = IF a.snapshot.variant = "none" THEN "none" ELSE "pooled"
      /\ e.documents = a.documents /\ e.solution = a.solution /\ e.vectors = a.vectors
  BY <1>2 DEF At, IsDb
<1> HIDE DEF e
<1>4. Named(e) => Named(d)
  BY <1>2, <1>3 DEF Named, Has
<1>5. FactsDo(d, e, 19)
  BY <1>2, <1>3, <1>4 DEF Fit, FactsDo, Keeps, Scopes, Outdates, Names, Readable, SameFacts
<1>6. Since("symbol_snapshot_contents") = 19 /\ Since("symbol_variant_snapshots") = 0
  BY DEF Since, Tables3
<1>7. ASSUME e.ok PROVE TablesDo(d, e, 19)
  BY <1>2, <1>3, <1>4, <1>6, <1>7 DEF TablesDo, Fit, ViewNames
<1>8. ASSUME Whole(d), d.version = 18 PROVE e.ok
  BY <1>2, <1>3, <1>6, <1>8 DEF Whole, Fit
<1>9. QED BY <1>1, <1>3, <1>5, <1>7, <1>8, StepDoes

LEMMA V21Does == ASSUME NEW d, Fit(d) PROVE Does(d, V21(d), 21)
<1> DEFINE a == CreateTables(d, {"symbol_variant_fts_rows"})
           e == At([a EXCEPT !.views = @ \cup {"symbol_variant_fts_source"},
                             !.documents = IF @ = "none" THEN @ ELSE "external"], 21)
<1>1. V21(d) = e
  BY DEF V21, Fit
<1>2. /\ IsDb(a) /\ SameFacts(d, a) /\ a.views = d.views /\ a.columns = d.columns
      /\ a.ok <=> d.ok /\ {"symbol_variant_fts_rows"} \cap (d.tables \cup d.views) = {}
      /\ a.ok => a.tables = d.tables \cup {"symbol_variant_fts_rows"}
  BY CreateTablesIs DEF Fit
<1> HIDE DEF a
<1>3. /\ IsDb(e) /\ e.version = 21 /\ e.ok = a.ok /\ e.tables = a.tables
      /\ e.views = a.views \cup {"symbol_variant_fts_source"} /\ e.columns = a.columns
      /\ e.unit = a.unit /\ e.snapshot = a.snapshot
      /\ e.documents = IF a.documents = "none" THEN "none" ELSE "external"
      /\ e.solution = a.solution /\ e.vectors = a.vectors
  BY <1>2 DEF At, IsDb
<1> HIDE DEF e
<1>4. Named(e) => Named(d)
  BY <1>2, <1>3 DEF Named, Has
<1>5. FactsDo(d, e, 21)
  BY <1>2, <1>3, <1>4 DEF Fit, FactsDo, Keeps, Scopes, Outdates, Names, Readable, SameFacts
<1>6. Since("symbol_variant_fts_rows") = 21 /\ Since("symbol_variant_fts_source") = 0
  BY DEF Since, Tables3
<1>7. ASSUME e.ok PROVE TablesDo(d, e, 21)
  BY <1>2, <1>3, <1>4, <1>6, <1>7 DEF TablesDo, Fit, ViewNames
<1>8. ASSUME Whole(d), d.version = 20 PROVE e.ok
  BY <1>2, <1>3, <1>6, <1>8 DEF Whole, Fit
<1>9. QED BY <1>1, <1>3, <1>5, <1>7, <1>8, StepDoes

LEMMA V22Does == ASSUME NEW d, Fit(d) PROVE Does(d, V22(d), 22)
<1>1. CASE "variant_embeddings" \in d.tables
  BY <1>1, AtDoes DEF V22
<1>2. CASE "variant_embeddings" \notin d.tables
  <2>1. V22(d) = Fails(d)
    BY <1>2 DEF V22
  <2>2. IsDb(Fails(d)) /\ ~Fails(d).ok
    BY FailsIs DEF Fit
  <2>3. QED BY <1>2, <2>1, <2>2 DEF Does, Whole
<1>3. QED BY <1>1, <1>2

LEMMA NormalizeIs ==
  ASSUME NEW d, IsDb(d), NEW table, NEW parts
  PROVE  LET e == Normalize(d, table, parts)
         IN /\ IsDb(e) /\ SameFacts(d, e) /\ e.views = d.views \cup {table}
            /\ e.columns = d.columns /\ e.version = d.version
            /\ e.ok <=> d.ok /\ parts \cap (d.tables \cup d.views) = {}
            /\ e.ok => e.tables = (d.tables \cup parts) \ {table}
<1> DEFINE a == CreateTables(d, parts)
           e == [a EXCEPT !.tables = @ \ {table}, !.views = @ \cup {table}]
<1>1. Normalize(d, table, parts) = e
  BY DEF Normalize
<1>2. /\ IsDb(a) /\ SameFacts(d, a) /\ a.views = d.views /\ a.columns = d.columns
      /\ a.version = d.version
      /\ a.ok <=> d.ok /\ parts \cap (d.tables \cup d.views) = {}
      /\ a.ok => a.tables = d.tables \cup parts
  BY CreateTablesIs
<1> HIDE DEF a
<1>3. /\ IsDb(e) /\ SameFacts(a, e) /\ e.views = a.views \cup {table} /\ e.columns = a.columns
      /\ e.version = a.version /\ e.ok = a.ok /\ e.tables = a.tables \ {table}
  BY <1>2 DEF IsDb, SameFacts
<1> HIDE DEF e
<1>4. QED BY <1>1, <1>2, <1>3 DEF SameFacts

\* The steps 23 and 24 put a view in the place of a table.
LEMMA NormalizeDoes ==
  ASSUME NEW d, Fit(d), NEW table, NEW parts, NEW n \in 23..24, table # "variant_embeddings",
         table \in d.tables, parts \cap ViewNames = {}, \A t \in parts : Since(t) = n
  PROVE  Does(d, At(Normalize(d, table, parts), n), n)
<1> DEFINE a == Normalize(d, table, parts)
           e == At(a, n)
<1>1. /\ IsDb(a) /\ SameFacts(d, a) /\ a.views = d.views \cup {table} /\ a.columns = d.columns
      /\ a.ok <=> d.ok /\ parts \cap (d.tables \cup d.views) = {}
      /\ a.ok => a.tables = (d.tables \cup parts) \ {table}
  BY NormalizeIs DEF Fit
<1> HIDE DEF a
<1>2. /\ IsDb(e) /\ SameFacts(a, e) /\ e.tables = a.tables /\ e.views = a.views
      /\ e.columns = a.columns /\ e.version = n /\ e.ok = a.ok
  BY <1>1, AtIs
<1> HIDE DEF e
<1>3. FactsDo(d, e, n)
  BY <1>1, <1>2, SameFactsDo DEF SameFacts, Named, Has
<1>4. ASSUME e.ok PROVE TablesDo(d, e, n)
  BY <1>1, <1>2, <1>4 DEF TablesDo, Fit, Named, Has
<1>5. ASSUME Whole(d), d.version = n - 1 PROVE e.ok
  BY <1>1, <1>2, <1>5 DEF Whole, Fit
<1>6. Does(d, e, n)
  BY <1>2, <1>3, <1>4, <1>5, StepDoes
<1>7. QED BY <1>6 DEF e, a

LEMMA V23Does == ASSUME NEW d, Fit(d) PROVE Does(d, V23(d), 23)
<1>1. CASE "edges" \notin d.tables
  BY <1>1, AtDoes DEF V23
<1>2. CASE "edges" \in d.tables
  <2> DEFINE parts == {"edge_provenance", "edge_symbols", "edge_records"}
  <2>1. (\A t \in parts : Since(t) = 23) /\ parts \cap ViewNames = {}
    BY DEF Since, Tables3, ViewNames
  <2>2. V23(d) = At(Normalize(d, "edges", parts), 23)
    BY <1>2 DEF V23
  <2> HIDE DEF parts
  <2>3. QED BY <1>2, <2>1, <2>2, NormalizeDoes
<1>3. QED BY <1>1, <1>2

LEMMA V24Does == ASSUME NEW d, Fit(d) PROVE Does(d, V24(d), 24)
<1>1. CASE "occurrences" \notin d.tables
  BY <1>1, AtDoes DEF V24
<1>2. CASE "occurrences" \in d.tables
  <2> DEFINE parts == {"occurrence_units", "occurrence_contexts", "occurrence_records"}
  <2>1. (\A t \in parts : Since(t) = 24) /\ parts \cap ViewNames = {}
    BY DEF Since, Tables3, ViewNames
  <2>2. V24(d) = At(Normalize(d, "occurrences", parts), 24)
    BY <1>2 DEF V24
  <2> HIDE DEF parts
  <2>3. QED BY <1>2, <2>1, <2>2, NormalizeDoes
<1>3. QED BY <1>1, <1>2

LEMMA V25Does == ASSUME NEW d, Fit(d) PROVE Does(d, V25(d), 25)
<1>1. CASE "embedding_vectors" \notin d.tables
  BY <1>1, AtDoes DEF V25
<1>2. CASE "embedding_vectors" \in d.tables
  <2> DEFINE parts == {"embedding_namespaces", "embedding_content_records"}
             records == {"embedding_attachment_records"}
             a == Normalize(d, "embedding_vectors", parts)
             b == Normalize(a, "variant_embeddings", records)
             e == At(b, 25)
  <2>1. V25(d) = e
    BY <1>2 DEF V25
  <2>2. /\ IsDb(a) /\ SameFacts(d, a) /\ a.views = d.views \cup {"embedding_vectors"}
        /\ a.columns = d.columns
        /\ a.ok <=> d.ok /\ parts \cap (d.tables \cup d.views) = {}
        /\ a.ok => a.tables = (d.tables \cup parts) \ {"embedding_vectors"}
    BY NormalizeIs DEF Fit
  <2> HIDE DEF a
  <2>3. /\ IsDb(b) /\ SameFacts(a, b) /\ b.views = a.views \cup {"variant_embeddings"}
        /\ b.columns = a.columns
        /\ b.ok <=> a.ok /\ records \cap (a.tables \cup a.views) = {}
        /\ b.ok => b.tables = (a.tables \cup records) \ {"variant_embeddings"}
    BY <2>2, NormalizeIs
  <2> HIDE DEF b
  <2>4. /\ IsDb(e) /\ SameFacts(b, e) /\ e.tables = b.tables /\ e.views = b.views
        /\ e.columns = b.columns /\ e.version = 25 /\ e.ok = b.ok
    BY <2>3, AtIs
  <2> HIDE DEF e
  <2>5. FactsDo(d, e, 25)
    BY <2>2, <2>3, <2>4, SameFactsDo DEF SameFacts, Named, Has
  <2>6. /\ \A t \in parts \cup records : Since(t) = 25
        /\ Since("embedding_vectors") = 12 /\ Since("variant_embeddings") = 3
    BY DEF Since, Tables3
  <2>7. ASSUME e.ok PROVE TablesDo(d, e, 25)
    BY <2>2, <2>3, <2>4, <2>6, <2>7 DEF TablesDo, Fit, Named, Has, ViewNames
  <2>8. ASSUME Whole(d), d.version = 24 PROVE e.ok
    <3>1. \A t \in parts \cup records : t \notin d.tables \cup d.views
      BY <2>6, <2>8 DEF Whole
    <3>2. QED BY <2>2, <2>3, <2>4, <3>1 DEF Fit
  <2>9. QED BY <2>1, <2>4, <2>5, <2>7, <2>8, StepDoes
<1>3. QED BY <1>1, <1>2

\* The outcome e of a transaction that ends at version n, and two steps in one.
Commits(d, e, n) ==
  /\ IsDb(e)
  /\ e.ok => /\ e.version = n /\ Fit(e) /\ Keeps(d, e)
             /\ Scopes(d) \/ n = 3 => Scopes(e)
             /\ Outdates(d) \/ n = 8 => Outdates(e)
             /\ Names(d) \/ n = 12 => Names(e)

LEMMA DoesCommit == ASSUME NEW d, NEW e, NEW n, Does(d, e, n) PROVE Commits(d, e, n)
BY DEF Does, Commits

LEMMA CommitTwice ==
  ASSUME NEW d, NEW e, NEW f, NEW m \in {11, 13}, NEW n \in {12, 14},
         Commits(d, e, m), e.ok, Commits(e, f, n)
  PROVE  Commits(d, f, n)
<1>1. ASSUME f.ok PROVE Keeps(d, f)
  BY <1>1 DEF Commits, Keeps
<1>2. QED BY <1>1 DEF Commits

\* A process that found the version seen takes the step n where it is due.
Due(d, n, version) ==
  IF n \in {12, 14} /\ d.version # n - 1 THEN d.version = n - 2 /\ version <= n - 2
  ELSE d.version = n - 1 /\ (n \in {12, 14} => version = n - 1)

LEMMA StepCommits ==
  ASSUME NEW d, Fit(d), NEW n \in StepVersions, NEW version \in Nat,
         n > 3 => Scopes(d), n > 8 => Outdates(d)
  PROVE  /\ Commits(d, Step(d, n, version), n)
         /\ Whole(d) /\ Due(d, n, version) =>
              /\ Step(d, n, version).ok => Whole(Step(d, n, version))
              /\ "damaged" \notin d.vectors => Step(d, n, version).ok
<1> DEFINE e == Step(d, n, version)
           Goal == /\ Commits(d, e, n)
                   /\ Whole(d) /\ Due(d, n, version) =>
                        (e.ok => Whole(e)) /\ ("damaged" \notin d.vectors => e.ok)
<1> HIDE DEF e
<1>1. ASSUME n \notin {12, 14}, Does(d, e, n) PROVE Goal
  <2>1. Commits(d, e, n)
    BY <1>1, DoesCommit
  <2>2. QED BY <1>1, <2>1 DEF Does, Due
<1> HIDE DEF Goal
<1> SUFFICES Goal
  BY DEF Goal, e
<1>2. CASE n = 3
  <2>1. Step(d, n, version) = V3(d)
    BY <1>2 DEF Step
  <2>2. QED BY <1>1, <1>2, <2>1, V3Does DEF e
<1>3. CASE n = 4
  <2>1. Step(d, n, version) = V4(d)
    BY <1>3 DEF Step
  <2>2. QED BY <1>1, <1>3, <2>1, V4Does DEF e
<1>4. CASE n \in 5..8
  <2>1. CASE n = 5
    <3>1. Step(d, n, version) = V5(d)
      BY <2>1 DEF Step
    <3>2. QED BY <1>1, <2>1, <3>1, FamiliesDo DEF e
  <2>2. CASE n = 6
    <3>1. Step(d, n, version) = V6(d)
      BY <2>2 DEF Step
    <3>2. QED BY <1>1, <2>2, <3>1, FamiliesDo DEF e
  <2>3. CASE n = 7
    <3>1. Step(d, n, version) = V7(d)
      BY <2>3 DEF Step
    <3>2. QED BY <1>1, <2>3, <3>1, FamiliesDo DEF e
  <2>4. CASE n = 8
    <3>1. Step(d, n, version) = V8(d)
      BY <2>4 DEF Step
    <3>2. QED BY <1>1, <2>4, <3>1, FamiliesDo DEF e
  <2>5. QED BY <1>4, <2>1, <2>2, <2>3, <2>4
<1>5. CASE n \in {9, 20}
  <2>1. Step(d, n, version) = At(d, n)
    BY <1>5 DEF Step, V9, V20
  <2>2. QED BY <1>1, <1>5, <2>1, AtDoes DEF e
<1>6. CASE n = 10
  <2>1. Step(d, n, version) = V10(d)
    BY <1>6 DEF Step
  <2>2. QED BY <1>1, <1>6, <2>1, V10Does DEF e
<1>7. CASE n = 12
  <2> DEFINE a == V11(d)
  <2>1. Does(d, a, 11) /\ a.ok
    BY V11Does
  <2> HIDE DEF a
  <2>2. Does(d, V12(d), 12) /\ Fit(a) /\ Does(a, V12(a), 12) /\ a.version = 11
    BY <2>1, V12Does DEF Does
  <2>3. e = IF version <= 10 THEN V12(a) ELSE V12(d)
    BY <1>7 DEF Step, a, e
  <2> HIDE DEF e
  <2>4. Commits(d, e, 12)
    <3>1. Commits(d, V12(d), 12) /\ Commits(d, a, 11) /\ Commits(a, V12(a), 12)
      BY <2>1, <2>2, DoesCommit
    <3>2. Commits(d, V12(a), 12)
      BY <2>1, <3>1, CommitTwice
    <3>3. QED BY <2>3, <3>1, <3>2
  <2>5. ASSUME Whole(d), Due(d, 12, version)
        PROVE  (e.ok => Whole(e)) /\ ("damaged" \notin d.vectors => e.ok)
    <3>1. CASE d.version = 11
      BY <2>2, <2>3, <2>5, <3>1 DEF Due, Does
    <3>2. CASE d.version = 10
      <4>1. Whole(a) /\ ("damaged" \notin d.vectors => "damaged" \notin a.vectors)
        BY <2>1, <2>5, <3>2 DEF Does, Keeps
      <4>2. e = V12(a)
        BY <2>3, <2>5, <3>2 DEF Due
      <4>3. QED BY <2>2, <4>1, <4>2 DEF Does
    <3>3. QED BY <2>5, <3>1, <3>2 DEF Due
  <2>6. QED BY <1>7, <2>4, <2>5 DEF Goal
<1>8. CASE n = 14
  <2> DEFINE a == V13(d)
  <2>1. Does(d, a, 13) /\ a.ok
    BY <1>8, V13Does
  <2> HIDE DEF a
  <2>2. Does(d, V14(d), 14) /\ Fit(a) /\ Does(a, V14(a), 14) /\ a.version = 13
    BY <2>1, V14Does DEF Does
  <2>3. e = IF version <= 12 THEN V14(a) ELSE V14(d)
    BY <1>8 DEF Step, a, e
  <2> HIDE DEF e
  <2>4. Commits(d, e, 14)
    <3>1. Commits(d, V14(d), 14) /\ Commits(d, a, 13) /\ Commits(a, V14(a), 14)
      BY <2>1, <2>2, DoesCommit
    <3>2. Commits(d, V14(a), 14)
      BY <2>1, <3>1, CommitTwice
    <3>3. QED BY <2>3, <3>1, <3>2
  <2>5. ASSUME Whole(d), Due(d, 14, version)
        PROVE  (e.ok => Whole(e)) /\ ("damaged" \notin d.vectors => e.ok)
    <3>1. CASE d.version = 13
      BY <2>2, <2>3, <2>5, <3>1 DEF Due, Does
    <3>2. CASE d.version = 12
      <4>1. Whole(a) /\ ("damaged" \notin d.vectors => "damaged" \notin a.vectors)
        BY <2>1, <2>5, <3>2 DEF Does, Keeps
      <4>2. e = V14(a)
        BY <2>3, <2>5, <3>2 DEF Due
      <4>3. QED BY <2>2, <4>1, <4>2 DEF Does
    <3>3. QED BY <2>5, <3>1, <3>2 DEF Due
  <2>6. QED BY <1>8, <2>4, <2>5 DEF Goal
<1>9. CASE n \in 15..18
  <2>1. CASE n = 15
    <3>1. Step(d, n, version) = V15(d)
      BY <2>1 DEF Step
    <3>2. QED BY <1>1, <2>1, <3>1, V15Does DEF e
  <2>2. CASE n = 16
    <3>1. Step(d, n, version) = V16(d)
      BY <2>2 DEF Step
    <3>2. QED BY <1>1, <2>2, <3>1, V16Does DEF e
  <2>3. CASE n = 17
    <3>1. Step(d, n, version) = V17(d)
      BY <2>3 DEF Step
    <3>2. QED BY <1>1, <2>3, <3>1, V17Does DEF e
  <2>4. CASE n = 18
    <3>1. Step(d, n, version) = V18(d)
      BY <2>4 DEF Step
    <3>2. QED BY <1>1, <2>4, <3>1, V18Does DEF e
  <2>5. QED BY <1>9, <2>1, <2>2, <2>3, <2>4
<1>10. CASE n \in {19, 21, 22}
  <2>1. CASE n = 19
    <3>1. Step(d, n, version) = V19(d)
      BY <2>1 DEF Step
    <3>2. QED BY <1>1, <2>1, <3>1, V19Does DEF e
  <2>2. CASE n = 21
    <3>1. Step(d, n, version) = V21(d)
      BY <2>2 DEF Step
    <3>2. QED BY <1>1, <2>2, <3>1, V21Does DEF e
  <2>3. CASE n = 22
    <3>1. Step(d, n, version) = V22(d)
      BY <2>3 DEF Step
    <3>2. QED BY <1>1, <2>3, <3>1, V22Does DEF e
  <2>4. QED BY <1>10, <2>1, <2>2, <2>3
<1>11. CASE n \in 23..25
  <2>1. CASE n = 23
    <3>1. Step(d, n, version) = V23(d)
      BY <2>1 DEF Step
    <3>2. QED BY <1>1, <2>1, <3>1, V23Does DEF e
  <2>2. CASE n = 24
    <3>1. Step(d, n, version) = V24(d)
      BY <2>2 DEF Step
    <3>2. QED BY <1>1, <2>2, <3>1, V24Does DEF e
  <2>3. CASE n = 25
    <3>1. Step(d, n, version) = V25(d)
      BY <2>3 DEF Step
    <3>2. QED BY <1>1, <2>3, <3>1, V25Does DEF e
  <2>4. QED BY <1>11, <2>1, <2>2, <2>3
<1>12. n \in {3, 4, 10, 12, 14} \cup 5..8 \cup {9, 20} \cup 15..18 \cup {19, 21, 22} \cup 23..25
  BY DEF StepVersions, Current
<1>13. QED
  BY <1>2, <1>3, <1>4, <1>5, <1>6, <1>7, <1>8, <1>9, <1>10, <1>11, <1>12

-----------------------------------------------------------------------------
(* The steps one after the other.                                          *)

\* The strict order of the naturals as a set of pairs.
LessThan == {ss \in Nat \X Nat : ss[1] < ss[2]}

\* A nonempty set of naturals has a least element.
LEMMA LeastOf ==
  ASSUME NEW S, S \subseteq Nat, S # {}
  PROVE  \E m \in S : \A k \in S : m <= k
<1>1. IsWellFoundedOn(LessThan, Nat)
  BY NatLessThanWellFounded DEF OpToRel, LessThan
<1>2. PICK m \in S : \A y \in S : ~(<<y, m>> \in LessThan)
  BY <1>1, WFMin
<1>3. ASSUME NEW k \in S PROVE m <= k
  <2>1. k \in Nat /\ m \in Nat /\ ~(<<k, m>> \in LessThan)
    BY <1>2
  <2>2. QED BY <2>1 DEF LessThan
<1>4. QED BY <1>3

\* What holds at version 2 and goes on from each version to the next holds of all.
LEMMA UpToCurrent ==
  ASSUME NEW G, 2 \in G, \A n \in 2 .. Current - 1 : n \in G => n + 1 \in G
  PROVE  \A n \in 2 .. Current : n \in G
<1> DEFINE Bad == {n \in 2 .. Current : n \notin G}
<1> SUFFICES ASSUME NEW n \in 2 .. Current, n \notin G PROVE FALSE
  OBVIOUS
<1>1. Bad \subseteq Nat /\ Bad # {}
  BY DEF Current
<1>2. PICK m \in Bad : \A k \in Bad : m <= k
  BY <1>1, LeastOf
<1>3. m \in 2 .. Current /\ m \notin G /\ m # 2
  BY <1>2
<1>4. m - 1 \in 2 .. Current - 1 /\ ~(m <= m - 1)
  BY <1>3 DEF Current
<1>5. m - 1 \in G
  BY <1>2, <1>4 DEF Current
<1>6. QED BY <1>3, <1>4, <1>5

\* One step of an upgrade of a database of the given version, or of its making.
StepBy(kind, d, n, version) ==
  IF kind = "upgrade" THEN Onward(d, n, version) ELSE Single(d, n)

Values(t, kind, z, version) ==
  t = [n \in 2 .. Current |-> IF n = 2 THEN z ELSE StepBy(kind, t[n - 1], n, version)]

\* The recursive functions of Upgraded and Released exist.
LEMMA ValuesExist == ASSUME NEW kind, NEW z, NEW version PROVE \E t : Values(t, kind, z, version)
<1> DEFINE Next1(t, n) == StepBy(kind, t[n - 1], n, version)
           Good(t, m) == /\ t = [n \in 2 .. Current |-> t[n]] /\ t[2] = z
                         /\ \A n \in 3 .. m : t[n] = Next1(t, n)
           G == {m \in 2 .. Current : \E t : Good(t, m)}
<1>0. Current = 25
  BY DEF Current
<1>1. 2 \in G
  <2> DEFINE t == [n \in 2 .. Current |-> z]
  <2>1. t[2] = z /\ 2 \in 2 .. Current /\ 3 .. 2 = {}
    BY <1>0
  <2>2. t = [n \in 2 .. Current |-> t[n]]
    OBVIOUS
  <2> HIDE DEF t
  <2>3. Good(t, 2)
    BY <2>1, <2>2
  <2>4. QED BY <2>1, <2>3
<1>2. ASSUME NEW m \in 2 .. Current - 1, m \in G PROVE m + 1 \in G
  <2>1. PICK t : Good(t, m)
    BY <1>2
  <2> DEFINE next == Next1(t, m + 1)
             u == [n \in 2 .. Current |-> IF n = m + 1 THEN next ELSE t[n]]
  <2>2. m + 1 \in 2 .. Current /\ m \in Nat /\ m >= 2
    BY <1>0
  <2>3. u[m + 1] = next
    BY <2>2
  <2> HIDE DEF next
  <2>4. \A n \in 2 .. m : u[n] = t[n]
    BY <1>0
  <2>5. u = [n \in 2 .. Current |-> u[n]]
    OBVIOUS
  <2> HIDE DEF u
  <2>6. u[2] = z
    <3>1. 2 \in 2 .. m /\ t[2] = z
      BY <2>1, <2>2
    <3>2. QED BY <2>4, <3>1
  <2>7. ASSUME NEW n \in 3 .. m + 1 PROVE u[n] = Next1(u, n)
    <3>1. u[n - 1] = t[n - 1]
      BY <2>2, <2>4
    <3>2. CASE n = m + 1
      BY <2>3, <3>1, <3>2 DEF next
    <3>3. CASE n # m + 1
      <4>1. n \in 3 .. m /\ n \in 2 .. m
        BY <2>2, <3>3
      <4>2. t[n] = Next1(t, n)
        BY <2>1, <4>1
      <4>3. QED BY <2>4, <3>1, <4>1, <4>2
    <3>4. QED BY <3>2, <3>3
  <2>8. Good(u, m + 1)
    BY <2>5, <2>6, <2>7
  <2>9. QED BY <2>2, <2>8
<1>3. Current \in G
  <2> HIDE DEF G
  <2>1. \A k \in 2 .. Current : k \in G
    BY <1>1, <1>2, UpToCurrent
  <2>2. QED BY <1>0, <2>1
<1>4. PICK t : Good(t, Current)
  BY <1>3
<1> DEFINE w == [n \in 2 .. Current |-> IF n = 2 THEN z ELSE Next1(t, n)]
<1>5. ASSUME NEW n \in 2 .. Current PROVE w[n] = t[n]
  <2>1. CASE n = 2
    BY <1>4, <2>1
  <2>2. CASE n # 2
    <3>1. n \in 3 .. Current
      BY <1>0, <2>2
    <3>2. t[n] = Next1(t, n)
      BY <1>4, <3>1
    <3>3. QED BY <2>2, <3>2
  <2>3. QED BY <2>1, <2>2
<1>6. w = [n \in 2 .. Current |-> w[n]] /\ t = [n \in 2 .. Current |-> t[n]]
  BY <1>4
<1>7. w = t
  <2> HIDE DEF w
  <2>1. QED BY <1>5, <1>6
<1>8. Values(t, kind, z, version)
  BY <1>7 DEF Values, w
<1>9. QED BY <1>8

LEMMA ValuesAre ==
  ASSUME NEW t, NEW kind, NEW z, NEW version, Values(t, kind, z, version)
  PROVE  t[2] = z /\ \A n \in 3 .. Current : t[n] = StepBy(kind, t[n - 1], n, version)
<1>1. t = [n \in 2 .. Current |-> IF n = 2 THEN z ELSE StepBy(kind, t[n - 1], n, version)]
  BY DEF Values
<1>2. 2 \in 2 .. Current
  BY DEF Current
<1>3. t[2] = z
  BY <1>1, <1>2
<1>4. ASSUME NEW n \in 3 .. Current PROVE t[n] = StepBy(kind, t[n - 1], n, version)
  <2>1. n \in 2 .. Current /\ n # 2
    BY DEF Current
  <2>2. QED BY <1>1, <2>1
<1>5. QED BY <1>3, <1>4

\* What a process starts from when it has found version 2, or made it.
Second(d) == IF d.version < 2 THEN OtherStatements(FirstStatement(d, d.version), d.version) ELSE d

LEMMA UpgradedIs ==
  ASSUME NEW d
  PROVE  \E t : /\ t[2] = Second(d)
                /\ \A n \in 3 .. Current : t[n] = Onward(t[n - 1], n, d.version)
                /\ Upgraded(d) = t[Current]
<1> DEFINE Rule(v) == [n \in 2 .. Current |-> IF n = 2 THEN Second(d) ELSE Onward(v[n - 1], n, d.version)]
           t == CHOOSE v : v = Rule(v)
<1>1. \A v : Values(v, "upgrade", Second(d), d.version) <=> v = Rule(v)
  BY DEF Values, StepBy
<1>2. \E v : v = Rule(v)
  BY <1>1, ValuesExist
<1>3. t = Rule(t)
  <2> HIDE DEF Rule
  <2>1. QED BY <1>2
<1>4. Upgraded(d) = t[Current]
  BY DEF Upgraded, Second
<1> HIDE DEF t
<1>5. Values(t, "upgrade", Second(d), d.version)
  BY <1>1, <1>3
<1>6. /\ t[2] = Second(d)
      /\ \A n \in 3 .. Current : t[n] = StepBy("upgrade", t[n - 1], n, d.version)
  BY <1>5, ValuesAre
<1>7. QED BY <1>4, <1>6 DEF StepBy

Born == OtherStatements(FirstStatement(Empty, 0), 0)

LEMMA ReleasedIs ==
  ASSUME NEW v, v # 0
  PROVE  \E t : /\ t[2] = Born /\ \A n \in 3 .. Current : t[n] = Single(t[n - 1], n)
                /\ Released(v) = At(t[IF v = 1 THEN 2 ELSE v], v)
<1> DEFINE Rule(u) == [n \in 2 .. Current |-> IF n = 2 THEN Born ELSE Single(u[n - 1], n)]
           t == CHOOSE u : u = Rule(u)
<1>1. \A u : Values(u, "release", Born, 0) <=> u = Rule(u)
  BY DEF Values, StepBy
<1>2. \E u : u = Rule(u)
  BY <1>1, ValuesExist
<1>3. t = Rule(t)
  <2> HIDE DEF Rule
  <2>1. QED BY <1>2
<1>4. Released(v) = At(t[IF v = 1 THEN 2 ELSE v], v)
  BY DEF Released, Born
<1> HIDE DEF t
<1>5. Values(t, "release", Born, 0)
  BY <1>1, <1>3
<1>6. t[2] = Born /\ \A n \in 3 .. Current : t[n] = StepBy("release", t[n - 1], n, 0)
  BY <1>5, ValuesAre
<1>7. QED BY <1>4, <1>6 DEF StepBy

-----------------------------------------------------------------------------
(* Creation.                                                               *)

\* Before the statements that lead to version 2, and between the first and the others.
Started(d) ==
  /\ d.version = 0 => d.tables = {} /\ d.views = {} /\ d.columns = {}
  /\ d.version = 1 => "symbols_au" \in d.tables

HalfMade(d) ==
  /\ d.version = 0 => d.tables = {"projects"} /\ d.views = {} /\ d.columns = {}
  /\ d.version = 1 => "symbols_au" \notin d.tables \cup d.views

LEMMA SameFactsKeep ==
  ASSUME NEW d, NEW e, SameFacts(d, e)
  PROVE  /\ Keeps(d, e) /\ (\A steps : Marked(d, steps) => Marked(e, steps))
BY DEF SameFacts, Keeps, Readable, Marked, Scopes, Outdates, Names

LEMMA FirstDoes ==
  ASSUME NEW d, Fit(d), NEW version \in {0, 1}
  PROVE  LET e == FirstStatement(d, version)
         IN /\ e.ok => Fit(e) /\ e.version = d.version /\ SameFacts(d, e)
            /\ d.version = version /\ Whole(d) /\ Started(d) => e.ok /\ Whole(e) /\ HalfMade(e)
<1> DEFINE e == FirstStatement(d, version)
<1>0. Since("projects") = 0
  BY DEF Since, Tables3
<1>1. CASE version = 0
  <2>1. e = CreateTables(d, {"projects"})
    BY <1>1 DEF FirstStatement
  <2> HIDE DEF e
  <2>2. /\ IsDb(e) /\ SameFacts(d, e) /\ e.views = d.views /\ e.columns = d.columns
        /\ e.version = d.version
        /\ e.ok <=> d.ok /\ {"projects"} \cap (d.tables \cup d.views) = {}
        /\ e.ok => e.tables = d.tables \cup {"projects"}
    BY <2>1, CreateTablesIs DEF Fit
  <2>3. ASSUME e.ok PROVE Fit(e)
    BY <2>2, <2>3 DEF Fit, SameFacts, Named, Has, ViewNames
  <2>4. ASSUME d.version = 0, Whole(d), Started(d) PROVE e.ok /\ Whole(e) /\ HalfMade(e)
    <3>1. e.ok /\ HalfMade(e)
      BY <2>2, <2>4 DEF Started, HalfMade, Fit
    <3>2. Whole(e)
      BY <1>0, <2>2, <2>4, <3>1 DEF Whole, Named, Has
    <3>3. QED BY <3>1, <3>2
  <2>5. QED BY <1>1, <2>2, <2>3, <2>4 DEF e
<1>2. CASE version = 1 /\ "symbols_au" \in d.tables
  <2>1. e = [d EXCEPT !.tables = @ \ {"symbols_au"}]
    BY <1>2 DEF FirstStatement
  <2> HIDE DEF e
  <2>2. /\ IsDb(e) /\ SameFacts(d, e) /\ e.views = d.views /\ e.columns = d.columns
        /\ e.version = d.version /\ e.ok = d.ok /\ e.tables = d.tables \ {"symbols_au"}
    BY <2>1 DEF IsDb, SameFacts, Fit
  <2>3. Fit(e)
    BY <2>2 DEF Fit, SameFacts, Named, Has
  <2>4. ASSUME d.version = 1, Whole(d) PROVE Whole(e) /\ HalfMade(e)
    <3>1. HalfMade(e)
      BY <1>2, <2>2, <2>4 DEF HalfMade, Fit
    <3>2. Whole(e)
      BY <2>2, <2>4 DEF Whole, Named, Has, Scoped
    <3>3. QED BY <3>1, <3>2
  <2>5. QED BY <1>2, <2>2, <2>3, <2>4 DEF e, Fit
<1>3. CASE version = 1 /\ "symbols_au" \notin d.tables
  <2>1. e = Fails(d)
    BY <1>3 DEF FirstStatement
  <2>2. ~e.ok
    BY <2>1, FailsIs DEF Fit
  <2>3. QED BY <1>3, <2>2 DEF Started
<1>4. QED BY <1>1, <1>2, <1>3

LEMMA OtherDoes ==
  ASSUME NEW d, Fit(d), NEW version \in {0, 1}
  PROVE  LET e == OtherStatements(d, version)
         IN /\ e.ok => Fit(e) /\ e.version = 2 /\ SameFacts(d, e) /\ "symbols_au" \in e.tables
            /\ d.version = version /\ Whole(d) /\ HalfMade(d) => e.ok /\ Whole(e)
<1> DEFINE e == OtherStatements(d, version)
           names == IF version = 0 THEN BaseTables \cup {"symbols_au"} ELSE {"symbols_au"}
           new == IF version = 0 THEN {<<"translation_unit_symbols", "snapshot_json">>} ELSE {}
           a == CreateTables(d, names)
           b == [a EXCEPT !.columns = @ \cup {<<"translation_unit_symbols", "snapshot_json">>}]
<1>1. /\ IsDb(a) /\ SameFacts(d, a) /\ a.views = d.views /\ a.columns = d.columns
      /\ a.ok <=> d.ok /\ names \cap (d.tables \cup d.views) = {}
      /\ a.ok => a.tables = d.tables \cup names
  <2> HIDE DEF names
  <2>1. QED BY CreateTablesIs DEF Fit
<1>2. version = 0 => e = At(b, 2)
  BY DEF OtherStatements
<1>3. version = 1 => e = At(a, 2)
  BY DEF OtherStatements
<1> HIDE DEF a, e
<1>4. /\ IsDb(b) /\ SameFacts(a, b) /\ b.ok = a.ok /\ b.tables = a.tables /\ b.views = a.views
      /\ b.columns = a.columns \cup {<<"translation_unit_symbols", "snapshot_json">>}
  BY <1>1 DEF IsDb, SameFacts
<1> HIDE DEF b
<1>5. /\ IsDb(e) /\ SameFacts(d, e) /\ e.ok = a.ok /\ e.tables = a.tables /\ e.views = a.views
      /\ e.columns = a.columns \cup new /\ e.version = 2
  <2>1. CASE version = 0
    BY <1>1, <1>2, <1>4, <2>1, AtIs DEF SameFacts
  <2>2. CASE version = 1
    BY <1>1, <1>3, <2>2, AtIs DEF SameFacts
  <2>3. QED BY <2>1, <2>2
<1>6. /\ \A t \in BaseTables \cup {"symbols_au", "projects"} : Since(t) = 0
      /\ ViewNames \cap (BaseTables \cup {"symbols_au"}) = {} /\ Scoped \subseteq BaseTables
      /\ {"symbols_au", "projects"} \cap BaseTables = {}
  BY DEF Since, Tables3, ViewNames, BaseTables, Scoped
<1>7. (Named(e) => Named(d)) /\ (Columns3 \cup Columns4) \cap new = {}
  BY <1>1, <1>5 DEF Named, Has, Columns3, Columns4
<1>8. ASSUME e.ok PROVE Fit(e)
  BY <1>1, <1>5, <1>6, <1>7, <1>8 DEF Fit, SameFacts
<1>9. ASSUME d.version = version, Whole(d), HalfMade(d) PROVE e.ok /\ Whole(e)
  <2>1. e.ok
    BY <1>1, <1>5, <1>6, <1>9 DEF HalfMade, Fit
  <2>2. \A t \in e.tables \cup e.views : Since(t) <= e.version
    BY <1>1, <1>5, <1>6, <1>9, <2>1, SinceNat DEF Whole
  <2>3. Scoped \subseteq e.tables
    BY <1>1, <1>5, <1>6, <1>9, <2>1 DEF Whole
  <2>4. Columns3 \cap e.columns = {} /\ Columns4 \cap e.columns = {} /\ ~Named(e)
    BY <1>1, <1>5, <1>7, <1>9 DEF Whole
  <2>5. QED BY <1>5, <2>1, <2>2, <2>3, <2>4 DEF Whole
<1>10. e.ok => "symbols_au" \in e.tables
  BY <1>1, <1>5
<1>11. QED BY <1>5, <1>8, <1>9, <1>10 DEF e

-----------------------------------------------------------------------------
(* The next step of a process.                                             *)

\* Whatever others do: a step leaves a database fit, and marked.
LEMMA MarkedStep ==
  ASSUME NEW d, Fit(d), NEW steps, steps \subseteq StepVersions, Marked(d, steps),
         NEW n \in steps, \A m \in steps : n <= m, NEW version \in Nat, Step(d, n, version).ok
  PROVE  LET e == Step(d, n, version)
         IN /\ Fit(e) /\ e.version = n /\ Keeps(d, e)
            /\ Marked(e, steps \ {n}) /\ Marked(e, Chain(n))
            /\ \A others : Marked(d, others) => Marked(e, others)
<1> DEFINE e == Step(d, n, version)
<1>1. /\ n \in StepVersions /\ n \in Nat
      /\ (n > 3 => Scopes(d)) /\ (n > 8 => Outdates(d)) /\ (n > 12 => Names(d))
  <2>1. n \in StepVersions /\ n \in Nat
    BY DEF StepVersions, Current
  <2>2. (n > 3 => 3 \notin steps) /\ (n > 8 => 8 \notin steps) /\ (n > 12 => 12 \notin steps)
    BY <2>1
  <2>3. QED BY <2>1, <2>2 DEF Marked
<1>2. Commits(d, e, n)
  BY <1>1, StepCommits
<1> HIDE DEF e
<1>3. e.ok
  BY DEF e
<1>4. /\ Fit(e) /\ e.version = n /\ Keeps(d, e)
      /\ Scopes(d) \/ n = 3 => Scopes(e)
      /\ Outdates(d) \/ n = 8 => Outdates(e)
      /\ Names(d) \/ n = 12 => Names(e)
  BY <1>2, <1>3 DEF Commits
<1>5. Marked(e, steps \ {n}) /\ \A others : Marked(d, others) => Marked(e, others)
  BY <1>4 DEF Marked
<1>6. Marked(e, Chain(n))
  <2>1. (3 \notin Chain(n) => n = 3 \/ n > 3) /\ (8 \notin Chain(n) => n = 8 \/ n > 8)
        /\ (12 \notin Chain(n) => n = 12 \/ n > 12)
    BY <1>1 DEF Chain, StepVersions, Current
  <2>2. QED BY <1>1, <1>4, <2>1 DEF Marked
<1>7. QED BY <1>4, <1>5, <1>6 DEF e

\* A database on its way, alone with a process that found the version seen.
OnTheWay(d, version, steps) ==
  /\ Fit(d) /\ Whole(d) /\ d.version \in 2..Current /\ version \in Nat
  /\ version <= d.version /\ (d.version \in {11, 13} => version = d.version)
  /\ steps = Chain(d.version) /\ Marked(d, steps)

LEMMA OneStep ==
  ASSUME NEW d, NEW version, NEW steps, OnTheWay(d, version, steps),
         NEW n \in steps, \A m \in steps : n <= m
  PROVE  LET e == Step(d, n, version)
         IN /\ e.ok => OnTheWay(e, version, steps \ {n}) /\ Keeps(d, e)
            /\ "damaged" \notin d.vectors => e.ok
<1> DEFINE e == Step(d, n, version)
<1>1. n \in StepVersions /\ n > d.version /\ d.version \in 2..25 /\ version \in Nat
  BY DEF OnTheWay, Chain, Current
<1>2. \A m \in StepVersions : m > d.version => n <= m
  BY DEF OnTheWay, Chain
<1>3. Due(d, n, version)
  <2>1. CASE d.version \in {10, 12}
    <3>1. d.version + 2 \in StepVersions
      BY <2>1 DEF StepVersions, Current
    <3>2. n = d.version + 2
      BY <1>1, <1>2, <2>1, <3>1 DEF StepVersions, Current
    <3>3. QED BY <1>1, <2>1, <3>2 DEF Due, OnTheWay
  <2>2. CASE d.version \notin {10, 12}
    <3>1. n <= 25 /\ n \in Nat
      BY <1>1 DEF StepVersions, Current
    <3>2. d.version + 1 \in StepVersions
      BY <1>1, <2>2, <3>1 DEF StepVersions, Current
    <3>3. n = d.version + 1
      BY <1>1, <1>2, <3>1, <3>2
    <3>4. QED BY <1>1, <2>2, <3>3 DEF Due, OnTheWay
  <2>3. QED BY <2>1, <2>2
<1>4. /\ n > 3 => Scopes(d)
      /\ n > 8 => Outdates(d)
  <2>1. (n > 3 => 3 \notin steps) /\ (n > 8 => 8 \notin steps)
    BY <1>1 DEF StepVersions, Current
  <2>2. QED BY <2>1 DEF OnTheWay, Marked
<1>5. /\ Commits(d, e, n) /\ (e.ok => Whole(e)) /\ ("damaged" \notin d.vectors => e.ok)
  BY <1>1, <1>3, <1>4, StepCommits DEF OnTheWay
<1>6. ASSUME e.ok PROVE OnTheWay(e, version, steps \ {n}) /\ Keeps(d, e)
  <2>1. /\ Fit(e) /\ e.version = n /\ Keeps(d, e) /\ Marked(e, steps \ {n})
    <3>1. steps \subseteq StepVersions /\ Fit(d) /\ Marked(d, steps)
      BY DEF OnTheWay, Chain
    <3>2. QED BY <1>1, <1>6, <3>1, MarkedStep
  <2> HIDE DEF e
  <2>2. steps \ {n} = Chain(n)
    <3>1. steps = {m \in StepVersions : d.version < m}
      BY DEF OnTheWay, Chain
    <3>2. \A m \in StepVersions : m \in Nat
      BY DEF StepVersions, Current
    <3>3. QED BY <1>1, <1>2, <3>1, <3>2 DEF Chain
  <2>3. n \in 2..Current /\ n \notin {11, 13} /\ version <= n
    BY <1>1 DEF StepVersions, Current, OnTheWay
  <2>4. Whole(e)
    BY <1>5, <1>6
  <2>5. QED BY <1>1, <2>1, <2>2, <2>3, <2>4 DEF OnTheWay
<1>7. QED BY <1>5, <1>6 DEF e

LEMMA FirstChains ==
  /\ \A v \in 0..2 : Chain(v) = StepVersions
  /\ \A d : Marked(d, StepVersions)
BY DEF Chain, Marked, StepVersions, Current

\* A single process brings a database that is in order to the current version.
LEMMA UpgradeSucceeds ==
  ASSUME NEW d, Fit(d), d.version <= Current, Whole(d), Started(d),
         Marked(d, Chain(d.version)), "damaged" \notin d.vectors
  PROVE  Upgraded(d).ok
<1> DEFINE v == d.version
<1>0. v \in 0..25 /\ Current = 25
  BY DEF Fit, Current
<1>1. PICK t : /\ t[2] = Second(d) /\ \A n \in 3 .. Current : t[n] = Onward(t[n - 1], n, v)
               /\ Upgraded(d) = t[Current]
  BY UpgradedIs
<1> DEFINE Left(n) == {m \in Chain(v) : n < m}
           Good(n) == /\ t[n].ok /\ "damaged" \notin t[n].vectors
                      /\ OnTheWay(t[n], v, Left(n))
           G == {n \in 2 .. Current : Good(n)}
<1>2. Good(2)
  <2>1. Left(2) = Chain(v)
    BY <1>0 DEF Chain, StepVersions
  <2>2. CASE v \in {0, 1}
    <3> DEFINE a == FirstStatement(d, v)
               b == OtherStatements(a, v)
    <3>1. a.ok /\ Fit(a) /\ a.version = v /\ SameFacts(d, a) /\ Whole(a) /\ HalfMade(a)
      BY <2>2, FirstDoes
    <3> HIDE DEF a
    <3>2. b.ok /\ Fit(b) /\ b.version = 2 /\ SameFacts(a, b) /\ Whole(b)
      BY <2>2, <3>1, OtherDoes
    <3> HIDE DEF b
    <3>3. t[2] = b
      BY <1>1, <2>2 DEF Second, a, b
    <3>4. Chain(v) = Chain(2) /\ Marked(b, Chain(2))
      BY <2>2, FirstChains
    <3>5. "damaged" \notin b.vectors
      BY <3>1, <3>2 DEF SameFacts
    <3>6. OnTheWay(b, v, Chain(v))
      BY <1>0, <2>2, <3>2, <3>4 DEF OnTheWay
    <3>7. QED BY <2>1, <3>2, <3>3, <3>5, <3>6
  <2>3. CASE v \in 2..25
    <3>1. t[2] = d
      BY <1>1, <2>3 DEF Second
    <3>2. OnTheWay(d, v, Chain(v))
      BY <1>0, <2>3 DEF OnTheWay
    <3>3. QED BY <2>1, <3>1, <3>2 DEF Fit
  <2>4. QED BY <1>0, <2>2, <2>3
<1>3. ASSUME NEW n \in 2 .. Current - 1, n \in G PROVE n + 1 \in G
  <2>1. n + 1 \in 3 .. Current /\ n \in Nat /\ n + 1 \in 2 .. Current
    BY <1>0
  <2>2. t[n + 1] = Onward(t[n], n + 1, v)
    BY <1>1, <2>1
  <2>3. \A m \in Chain(v) : m \in Nat
    BY DEF Chain, StepVersions, Current
  <2>4. CASE n + 1 \in Chain(v)
    <3>1. t[n + 1] = Step(t[n], n + 1, v)
      BY <1>3, <2>2, <2>4 DEF Onward
    <3>2. n + 1 \in Left(n) /\ \A m \in Left(n) : n + 1 <= m
      BY <2>1, <2>3, <2>4
    <3>3. Left(n) \ {n + 1} = Left(n + 1)
      BY <2>1, <2>3
    <3> HIDE DEF Left
    <3>4. /\ t[n + 1].ok
          /\ OnTheWay(t[n + 1], v, Left(n) \ {n + 1}) /\ Keeps(t[n], t[n + 1])
      BY <1>3, <3>1, <3>2, OneStep
    <3>5. "damaged" \notin t[n + 1].vectors
      BY <1>3, <3>4 DEF Keeps
    <3>6. QED BY <2>1, <3>3, <3>4, <3>5
  <2>5. CASE n + 1 \notin Chain(v)
    <3>1. t[n + 1] = t[n]
      BY <2>2, <2>5 DEF Onward
    <3>2. Left(n) = Left(n + 1)
      BY <2>1, <2>3, <2>5
    <3> HIDE DEF Left
    <3>3. QED BY <1>3, <2>1, <3>1, <3>2
  <2>6. QED BY <2>4, <2>5
<1>4. Current \in G
  <2>1. 2 \in G
    BY <1>0, <1>2
  <2> HIDE DEF G
  <2>2. QED BY <1>0, <1>3, <2>1, UpToCurrent
<1>5. QED BY <1>1, <1>4

-----------------------------------------------------------------------------
(* Databases that releases left.                                           *)

LEMMA EmptyIs ==
  /\ Fit(Empty) /\ Empty.version = 0 /\ Whole(Empty) /\ Started(Empty)
  /\ Empty.vectors = {} /\ ~Empty.unit.native
<1> DEFINE e == Empty
<1>1. /\ e.version = 0 /\ e.ok = TRUE /\ e.tables = {} /\ e.views = {} /\ e.columns = {}
      /\ e.unit.advanced = FALSE /\ e.unit.native = FALSE /\ e.unit.has = {} /\ e.unit.claims = {}
      /\ e.documents = "none" /\ e.snapshot.variant = "none" /\ e.vectors = {}
  BY DEF Empty
<1>2. IsDb(e)
  BY DEF Empty, IsDb
<1> HIDE DEF e
<1>3. Fit(e) /\ Whole(e) /\ Started(e)
  BY <1>1, <1>2 DEF Fit, Whole, Started, Named, Has, Families
<1>4. QED BY <1>1, <1>3 DEF e

\* A release of version v makes a database that is in order.
InOrder(d, v) ==
  /\ Fit(d) /\ d.version = v /\ Whole(d) /\ Marked(d, Chain(v)) /\ d.vectors = {}

LEMMA ReleaseInOrder ==
  ASSUME NEW t, t[2] = Born, \A n \in 3 .. Current : t[n] = Single(t[n - 1], n)
  PROVE  \A n \in 2 .. Current : InOrder(t[n], n)
<1>0. Current = 25
  BY DEF Current
<1> DEFINE G == {n \in 2 .. Current : InOrder(t[n], n)}
<1>1. 2 \in G
  <2> DEFINE a == FirstStatement(Empty, 0)
             b == OtherStatements(a, 0)
  <2>1. a.ok /\ Fit(a) /\ a.version = 0 /\ SameFacts(Empty, a) /\ Whole(a) /\ HalfMade(a)
    BY EmptyIs, FirstDoes
  <2> HIDE DEF a
  <2>2. b.ok /\ Fit(b) /\ b.version = 2 /\ SameFacts(a, b) /\ Whole(b)
    BY <2>1, OtherDoes
  <2> HIDE DEF b
  <2>3. b = t[2]
    BY DEF Born, a, b
  <2>4. b.vectors = {}
    BY <2>1, <2>2, EmptyIs DEF SameFacts
  <2>5. Marked(b, Chain(2))
    BY FirstChains
  <2>6. QED BY <1>0, <2>2, <2>3, <2>4, <2>5 DEF InOrder
<1>2. ASSUME NEW m \in 2 .. Current - 1, m \in G PROVE m + 1 \in G
  <2> DEFINE d == t[m]
             n == m + 1
             e == t[n]
  <2>1. n \in 3 .. Current /\ n \in 2 .. Current /\ m \in Nat /\ m = n - 1 /\ n \in Nat /\ m \in 2..24
    BY <1>0
  <2>2. InOrder(d, n - 1) /\ e = Single(d, n)
    BY <1>2, <2>1
  <2>3. n \in {11, 13} \/ n \in StepVersions
    BY <2>1 DEF StepVersions
  <2> HIDE DEF d, n, e
  <2>4. Fit(d) /\ d.version = n - 1 /\ Whole(d) /\ Marked(d, Chain(n - 1)) /\ d.vectors = {}
    BY <2>2 DEF InOrder
  <2>5. (n > 3 => Scopes(d)) /\ (n > 8 => Outdates(d)) /\ Names(d)
    <3>1. (n > 3 => 3 \notin Chain(n - 1)) /\ (n > 8 => 8 \notin Chain(n - 1))
      BY <2>1 DEF Chain
    <3>2. QED BY <2>4, <3>1 DEF Marked, Names
  <2>6. Commits(d, e, n) /\ e.ok /\ Whole(e)
    <3>1. CASE n = 11
      <4>1. e = V11(d)
        BY <2>2, <3>1 DEF Single
      <4>2. QED BY <2>4, <3>1, <4>1, V11Does, DoesCommit DEF Does
    <3>2. CASE n = 13
      <4>1. e = V13(d)
        BY <2>2, <3>2 DEF Single
      <4>2. QED BY <2>4, <2>5, <3>2, <4>1, V13Does, DoesCommit DEF Does
    <3>3. CASE n \in StepVersions
      <4>1. e = Step(d, n, n - 1)
        BY <2>2, <3>3 DEF Single, StepVersions
      <4>2. Due(d, n, n - 1) /\ n - 1 \in Nat
        BY <2>1, <2>4 DEF Due
      <4>3. QED BY <2>4, <2>5, <3>3, <4>1, <4>2, StepCommits
    <3>4. QED BY <2>3, <3>1, <3>2, <3>3
  <2>7. Fit(e) /\ e.version = n /\ e.vectors = {} /\ (n >= 3 => Scopes(e)) /\ (n >= 8 => Outdates(e))
        /\ Names(e)
    BY <2>1, <2>4, <2>5, <2>6 DEF Commits, Keeps, Names
  <2>8. Marked(e, Chain(n))
    <3>1. (3 \notin Chain(n) => n >= 3) /\ (8 \notin Chain(n) => n >= 8)
      BY <2>1 DEF Chain, StepVersions, Current
    <3>2. QED BY <2>7, <3>1 DEF Marked
  <2>9. InOrder(e, n)
    BY <2>6, <2>7, <2>8 DEF InOrder
  <2>10. QED BY <2>1, <2>9 DEF e, n
<1>3. QED
  <2> HIDE DEF G
  <2>1. \A n \in 2 .. Current : n \in G
    BY <1>1, <1>2, UpToCurrent
  <2>2. QED BY <2>1 DEF G

LEMMA ReleasedInOrder ==
  ASSUME NEW v \in 0 .. Current
  PROVE  InOrder(Released(v), v) /\ Started(Released(v))
<1>0. Current = 25
  BY DEF Current
<1>1. CASE v = 0
  <2>1. Released(v) = Empty
    BY <1>1 DEF Released
  <2>2. Marked(Empty, Chain(0))
    BY FirstChains
  <2>3. QED BY <1>1, <2>1, <2>2, EmptyIs DEF InOrder
<1>2. CASE v # 0
  <2>1. PICK t : /\ t[2] = Born /\ \A n \in 3 .. Current : t[n] = Single(t[n - 1], n)
                 /\ Released(v) = At(t[IF v = 1 THEN 2 ELSE v], v)
    BY <1>2, ReleasedIs
  <2> DEFINE n == IF v = 1 THEN 2 ELSE v
             d == t[n]
             e == Released(v)
  <2>2. n \in 2 .. Current
    BY <1>0, <1>2
  <2>3. InOrder(d, n)
    BY <2>1, <2>2, ReleaseInOrder
  <2>4. e = At(d, v)
    BY <2>1
  <2>5. v = 1 => d = Born
    BY <2>1
  <2> HIDE DEF d, e
  <2>6. Fit(d) /\ Whole(d) /\ Marked(d, Chain(n)) /\ d.vectors = {} /\ d.version = n
    BY <2>3 DEF InOrder
  <2>7. /\ IsDb(e) /\ SameFacts(d, e) /\ e.tables = d.tables /\ e.views = d.views
        /\ e.columns = d.columns /\ e.version = v /\ e.ok = d.ok
    <3>1. IsDb(d)
      BY <2>6 DEF Fit
    <3>2. QED BY <2>4, <3>1, AtIs
  <2>8. Fit(e) /\ e.vectors = {}
    BY <1>0, <2>6, <2>7 DEF Fit, SameFacts, Named, Has
  <2>9. CASE v # 1
    <3>1. Whole(e) /\ Started(e)
      BY <1>2, <2>6, <2>7, <2>9 DEF Whole, Named, Has, Started
    <3>2. Marked(e, Chain(v))
      BY <2>6, <2>7, <2>9, SameFactsKeep
    <3>3. QED BY <2>7, <2>8, <3>1, <3>2 DEF InOrder, e
  <2>10. CASE v = 1
    <3>1. "symbols_au" \in d.tables
      <4> DEFINE a == FirstStatement(Empty, 0)
                 b == OtherStatements(a, 0)
      <4>1. a.ok /\ Fit(a) /\ a.version = 0 /\ Whole(a) /\ HalfMade(a)
        BY EmptyIs, FirstDoes
      <4> HIDE DEF a
      <4>2. b.ok /\ "symbols_au" \in b.tables
        BY <4>1, OtherDoes
      <4> HIDE DEF b
      <4>3. d = b
        BY <2>5, <2>10 DEF Born, a, b
      <4>4. QED BY <4>2, <4>3
    <3>2. \A s : Since(s) \notin {1, 2}
      BY DEF Since
    <3>3. \A s \in e.tables \cup e.views : Since(s) <= 1
      <4>1. \A s \in d.tables \cup d.views : Since(s) <= 2
        BY <2>6, <2>10 DEF Whole
      <4>2. QED BY <2>7, <3>2, <4>1, SinceNat
    <3>4. Whole(e) /\ Started(e)
      BY <2>6, <2>7, <2>10, <3>1, <3>3 DEF Whole, Named, Has, Started
    <3>5. Marked(e, Chain(v))
      BY <2>10, FirstChains
    <3>6. QED BY <2>7, <2>8, <3>4, <3>5 DEF InOrder, e
  <2>11. QED BY <2>9, <2>10
<1>3. QED BY <1>1, <1>2

LEMMA IntroducedIs ==
  ASSUME NEW v \in Nat PROVE Introduced(v) \subseteq Families /\ (v >= 8 => Introduced(v) = Families)
<1>1. Introduced(v) \subseteq Families
  BY DEF Introduced
<1>2. ASSUME v >= 8, NEW f \in Families PROVE f \in Introduced(v)
  BY <1>2 DEF Introduced, Families
<1>3. QED BY <1>1, <1>2

\* A database that such a release has filled.
LEMMA FilledInOrder ==
  ASSUME NEW v \in 2 .. Current, NEW native \in BOOLEAN, NEW profile \in {"full", "navigation"},
         NEW vectors \in SUBSET {"local", "unnamed", "damaged"},
         vectors \cap {"unnamed", "damaged"} # {} => v < 12
  PROVE  LET e == Filled(v, native, profile, vectors)
         IN Fit(e) /\ e.version = v /\ Whole(e) /\ Started(e) /\ Marked(e, Chain(v))
<1> DEFINE d == Released(v)
           e == Filled(v, native, profile, vectors)
           has == IF native THEN (IF profile = "full" THEN Introduced(v) ELSE {"navigation"}) ELSE {}
           advanced == native /\ profile = "full"
           unit == [present |-> TRUE, native |-> native, era |-> v, has |-> has,
                    advanced |-> advanced, claims |-> IF v >= 13 THEN has ELSE {},
                    reindex |-> FALSE]
           snapshot == [membership |-> v < 10,
                        variant |-> CASE v < 3 -> "none" [] v \in 3..17 -> "json"
                                      [] v = 18 -> "compressed" [] v > 18 -> "pooled"]
           documents == CASE v < 3 -> "none" [] v \in 3..20 -> "own" [] v > 20 -> "external"
           solution == IF v < 8 \/ ~native THEN "none" ELSE IF v < 11 THEN "rows" ELSE "payload"
<1>0. Current = 25 /\ v \in Nat
  BY DEF Current
<1>1. e = [d EXCEPT !.unit = unit, !.snapshot = snapshot, !.documents = documents,
                    !.solution = solution, !.vectors = vectors]
  BY DEF Filled
<1>2. InOrder(d, v)
  <2>1. v \in 0 .. Current
    BY <1>0
  <2>2. QED BY <2>1, ReleasedInOrder
<1>3. advanced \in BOOLEAN /\ (advanced => native /\ has = Introduced(v))
  OBVIOUS
<1>4. has \subseteq Families
  BY <1>0, IntroducedIs DEF Families
<1> HIDE DEF d, has, advanced
<1>5. /\ unit.native = native /\ unit.era = v /\ unit.has = has
      /\ unit.advanced = advanced /\ unit.claims = (IF v >= 13 THEN has ELSE {})
      /\ {"present", "native", "era", "has", "advanced", "claims", "reindex"} \subseteq DOMAIN unit
  OBVIOUS
<1>6. /\ (snapshot.variant = "none") <=> v < 3
      /\ {"membership", "variant"} \subseteq DOMAIN snapshot
  BY <1>0
<1>7. (documents = "none") <=> v < 3
  BY <1>0
<1> HIDE DEF unit, snapshot, documents, solution
<1>8. Fit(d) /\ Whole(d) /\ d.version = v
  BY <1>2 DEF InOrder
<1> HIDE DEF e
<1>9. /\ IsDb(e) /\ e.tables = d.tables /\ e.views = d.views /\ e.columns = d.columns
      /\ e.version = v /\ e.ok = d.ok /\ e.unit = unit /\ e.snapshot = snapshot
      /\ e.documents = documents /\ e.vectors = vectors
  BY <1>1, <1>5, <1>6, <1>8 DEF Fit, IsDb
<1>10. Whole(e) /\ Started(e)
  BY <1>0, <1>8, <1>9 DEF Whole, Named, Has, Started
<1>11. Fit(e)
  <2>1. Named(e) => "unnamed" \notin e.vectors
    BY <1>9, <1>10 DEF Whole
  <2>2. e.unit.claims \subseteq e.unit.has /\ e.unit.has \subseteq Families
    BY <1>4, <1>5, <1>9
  <2>3. e.unit.advanced => e.unit.native
    BY <1>3, <1>5, <1>9
  <2>4. QED BY <1>0, <1>6, <1>7, <1>8, <1>9, <2>1, <2>2, <2>3 DEF Fit
<1>12. Marked(e, Chain(v))
  <2>1. (3 \notin Chain(v) => v >= 3) /\ (8 \notin Chain(v) => v >= 8) /\ (12 \notin Chain(v) => v >= 12)
    BY <1>0 DEF Chain, StepVersions
  <2>2. v >= 3 => Scopes(e)
    BY <1>0, <1>5, <1>6, <1>9 DEF Scopes
  <2>3. v >= 8 => Outdates(e)
    BY <1>0, <1>3, <1>5, <1>9, IntroducedIs DEF Outdates
  <2>4. v >= 12 => Names(e)
    BY <1>0, <1>9 DEF Names
  <2>5. QED BY <2>1, <2>2, <2>3, <2>4 DEF Marked
<1>13. QED BY <1>9, <1>10, <1>11, <1>12 DEF e

-----------------------------------------------------------------------------
(* The invariant.                                                          *)

States == {"closed", "creating", "created", "migrating", "open", "failed"}

\* What a process has still to do tells what is done already.
OpenerInv(p) ==
  /\ opener[p] \in {"creating", "created"} => seen[p] \in {0, 1} /\ todo[p] = StepVersions
  /\ opener[p] = "migrating" => todo[p] # {}
  /\ opener[p] = "open" => todo[p] = {}
  /\ opener[p] \in {"creating", "created", "migrating", "open"} => Marked(db, todo[p])

MarkInv ==
  /\ opens \in 0..MaxOpens /\ alone \in BOOLEAN
  /\ opener \in [Openers -> States] /\ seen \in [Openers -> 0..26]
  /\ todo \in [Openers -> SUBSET StepVersions]
  /\ Fit(db) /\ Marked(db, Chain(db.version))
  /\ \A p \in Openers : OpenerInv(p)

\* A process that migrates alone goes on from where the database is.
TurnInv(p) ==
  /\ opener[p] = "creating" => db.version = seen[p]
  /\ opener[p] = "created" => db.version = seen[p] /\ HalfMade(db)
  /\ opener[p] = "migrating" => OnTheWay(db, seen[p], todo[p])

AloneInv == alone =>
  /\ \A p, q \in Openers : Migrating(p) /\ Migrating(q) => p = q
  /\ db.version <= Current => Whole(db)
  /\ (\A p \in Openers : opener[p] # "created") => Started(db)
  /\ \A p \in Openers : TurnInv(p)

SchemaInv == MarkInv /\ AloneInv

\* What depends on the schema alone, and on version and facts alone.
SameSchema(d, e) == /\ e.tables = d.tables /\ e.views = d.views /\ e.columns = d.columns
                    /\ e.version = d.version

LEMMA SameSchemaKeeps ==
  ASSUME NEW d, NEW e, SameSchema(d, e)
  PROVE  /\ Whole(d) => Whole(e)
         /\ Started(d) => Started(e)
         /\ HalfMade(d) => HalfMade(e)
BY DEF SameSchema, Whole, Started, HalfMade, Named, Has

\* New rows in an open database are fit and marked as far as any can be.
LEMMA RowsKeepInv ==
  ASSUME SchemaInv, Fit(db'), SameSchema(db, db'),
         \A steps : Marked(db, steps) => Marked(db', steps),
         UNCHANGED <<opener, seen, todo, opens, alone>>
  PROVE  SchemaInv'
<1>1. MarkInv'
  <2>1. \A p \in Openers : OpenerInv(p)'
    BY DEF SchemaInv, MarkInv, OpenerInv
  <2>2. Marked(db', Chain(db'.version))
    BY DEF SchemaInv, MarkInv, SameSchema
  <2>3. QED BY <2>1, <2>2 DEF SchemaInv, MarkInv
<1>2. AloneInv'
  <2>1. ASSUME alone, NEW p \in Openers PROVE TurnInv(p)'
    <3>1. TurnInv(p)
      BY <2>1 DEF SchemaInv, AloneInv
    <3>2. ASSUME OnTheWay(db, seen[p], todo[p]) PROVE OnTheWay(db', seen[p], todo[p])
      BY <3>2, SameSchemaKeeps DEF OnTheWay, SameSchema
    <3>3. db'.version = db.version /\ (HalfMade(db) => HalfMade(db'))
      BY SameSchemaKeeps DEF SameSchema
    <3>4. QED BY <3>1, <3>2, <3>3 DEF TurnInv
  <2>2. db'.version = db.version /\ (Whole(db) => Whole(db')) /\ (Started(db) => Started(db'))
    BY SameSchemaKeeps DEF SameSchema
  <2>3. QED BY <2>1, <2>2 DEF SchemaInv, AloneInv, Migrating
<1>3. QED BY <1>1, <1>2 DEF SchemaInv

LEMMA InitInv == SchemaInit => SchemaInv
<1> SUFFICES ASSUME SchemaInit PROVE SchemaInv
  OBVIOUS
<1>0. Current = 25
  BY DEF Current
<1>1. Fit(db) /\ Marked(db, Chain(db.version)) /\ (db.version <= Current => Whole(db) /\ Started(db))
  <2>1. ASSUME NEW v \in InitialVersions \cap 0..2, db = Released(v)
        PROVE Fit(db) /\ Marked(db, Chain(db.version)) /\ Whole(db) /\ Started(db)
    <3>1. v \in 0 .. Current
      BY <1>0
    <3>2. QED BY <2>1, <3>1, ReleasedInOrder DEF InOrder
  <2>2. ASSUME NEW v \in InitialVersions \cap 2..Current, NEW native \in BOOLEAN,
               NEW profile \in {"full", "navigation"},
               NEW vectors \in SUBSET {"local", "unnamed", "damaged"},
               vectors \cap {"unnamed", "damaged"} # {} => v < 12,
               db = Filled(v, native, profile, vectors)
        PROVE Fit(db) /\ Marked(db, Chain(db.version)) /\ Whole(db) /\ Started(db)
    <3>1. v \in 2 .. Current
      OBVIOUS
    <3>2. QED BY <2>2, <3>1, FilledInOrder
  <2>3. ASSUME db = At(Released(Current), 26) PROVE Fit(db) /\ Marked(db, Chain(db.version)) /\ db.version = 26
    <3> DEFINE d == Released(Current)
    <3>1. InOrder(d, Current)
      BY <1>0, ReleasedInOrder
    <3> HIDE DEF d
    <3>2. Fit(d) /\ Marked(d, Chain(Current)) /\ d.vectors = {}
      BY <3>1 DEF InOrder
    <3>3. /\ IsDb(db) /\ SameFacts(d, db) /\ db.tables = d.tables /\ db.views = d.views
          /\ db.columns = d.columns /\ db.version = 26 /\ db.ok = d.ok
      <4>1. IsDb(d) /\ db = At(d, 26)
        BY <2>3, <3>2 DEF Fit, d
      <4>2. QED BY <4>1, AtIs
    <3>4. Fit(db)
      BY <3>2, <3>3 DEF Fit, SameFacts, Named, Has
    <3>5. Chain(26) = {} /\ Chain(Current) = {}
      BY DEF Chain, StepVersions, Current
    <3>6. QED BY <3>2, <3>3, <3>4, <3>5, SameFactsKeep
  <2>4. QED BY <1>0, <2>1, <2>2, <2>3 DEF SchemaInit
<1>2. /\ opener = [p \in Openers |-> "closed"] /\ seen = [p \in Openers |-> 0]
      /\ todo = [p \in Openers |-> {}] /\ opens = 0 /\ alone = TRUE
  BY DEF SchemaInit
<1>3. MarkInv
  <2>1. \A p \in Openers : OpenerInv(p)
    BY <1>2 DEF OpenerInv
  <2>2. opens \in 0..MaxOpens
    BY <1>2, SchemaAssumption
  <2>3. /\ opener \in [Openers -> States] /\ seen \in [Openers -> 0..26]
        /\ todo \in [Openers -> SUBSET StepVersions]
    BY <1>2 DEF States
  <2>4. QED BY <1>1, <1>2, <2>1, <2>2, <2>3 DEF MarkInv
<1>4. AloneInv
  <2>1. db.version <= Current \/ Started(db)
    BY <1>0, <1>1 DEF Fit, Started
  <2>2. \A p \in Openers : ~Migrating(p) /\ TurnInv(p)
    BY <1>2 DEF Migrating, TurnInv
  <2>3. QED BY <1>1, <2>1, <2>2 DEF AloneInv
<1>5. QED BY <1>3, <1>4 DEF SchemaInv

LEMMA OpenKeeps == ASSUME SchemaInv, NEW p \in Openers, Open(p) PROVE SchemaInv'
<1>0. Current = 25
  BY DEF Current
<1> DEFINE next == CASE db.version > Current -> "failed" [] db.version < 2 -> "creating"
                     [] db.version = Current -> "open" [] OTHER -> "migrating"
<1>1. /\ opener[p] = "closed" /\ opens' \in 0..MaxOpens /\ db' = db
      /\ seen' = [seen EXCEPT ![p] = db.version] /\ todo' = [todo EXCEPT ![p] = Chain(db.version)]
      /\ opener' = [opener EXCEPT ![p] = next]
      /\ alone' = (alone /\ \A q \in Openers : ~Migrating(q))
  BY SchemaAssumption DEF Open, SchemaInv, MarkInv
<1>2. db.version \in 0..26 /\ Fit(db) /\ Marked(db, Chain(db.version))
  BY DEF SchemaInv, MarkInv, Fit
<1>3. /\ db.version = 26 => next = "failed"
      /\ db.version \in {0, 1} => next = "creating"
      /\ db.version = 25 => next = "open"
      /\ db.version \in 2..24 => next = "migrating"
  BY <1>0, <1>2
<1>4. next \in {"failed", "creating", "open", "migrating"}
  BY <1>2, <1>3
<1> HIDE DEF next
<1>5. Chain(db.version) \in SUBSET StepVersions
  BY DEF Chain
<1>6. /\ opener \in [Openers -> States] /\ seen \in [Openers -> 0..26]
      /\ todo \in [Openers -> SUBSET StepVersions]
  BY DEF SchemaInv, MarkInv
<1>7. /\ opener'[p] = next /\ seen'[p] = db.version /\ todo'[p] = Chain(db.version)
      /\ \A q \in Openers \ {p} : opener'[q] = opener[q] /\ seen'[q] = seen[q] /\ todo'[q] = todo[q]
  BY <1>1, <1>6
<1>8. MarkInv'
  <2>1. OpenerInv(p)'
    <3>1. db.version \in {0, 1} => Chain(db.version) = StepVersions
      BY FirstChains
    <3>2. db.version \in 2..24 => Chain(db.version) # {}
      <4>1. 25 \in StepVersions
        BY DEF StepVersions, Current
      <4>2. QED BY <4>1 DEF Chain
    <3>3. db.version = 25 => Chain(db.version) = {}
      BY DEF Chain, StepVersions, Current
    <3>4. QED BY <1>1, <1>2, <1>3, <1>7, <3>1, <3>2, <3>3 DEF OpenerInv
  <2>2. ASSUME NEW q \in Openers \ {p} PROVE OpenerInv(q)'
    BY <1>1, <1>7 DEF OpenerInv, SchemaInv, MarkInv
  <2>3. /\ opener' \in [Openers -> States] /\ seen' \in [Openers -> 0..26]
        /\ todo' \in [Openers -> SUBSET StepVersions]
    BY <1>1, <1>2, <1>4, <1>5, <1>6 DEF States
  <2>4. alone' \in BOOLEAN
    BY <1>1
  <2>5. QED BY <1>1, <1>2, <2>1, <2>2, <2>3, <2>4 DEF MarkInv
<1>9. AloneInv'
  <2> SUFFICES ASSUME alone' PROVE /\ \A q, r \in Openers : Migrating(q)' /\ Migrating(r)' => q = r
                                   /\ db'.version <= Current => Whole(db')
                                   /\ (\A q \in Openers : opener'[q] # "created") => Started(db')
                                   /\ \A q \in Openers : TurnInv(q)'
    BY DEF AloneInv
  <2>1. alone /\ \A q \in Openers : ~Migrating(q)
    BY <1>1
  <2>2. \A q \in Openers \ {p} : ~Migrating(q)'
    BY <1>7, <2>1 DEF Migrating
  <2>3. (db.version <= Current => Whole(db)) /\ Started(db)
    BY <2>1 DEF SchemaInv, AloneInv, Migrating
  <2>4. TurnInv(p)'
    <3>1. next = "migrating" => db.version \in 2..24
      BY <1>2, <1>3
    <3>2. ASSUME db.version \in 2..24 PROVE OnTheWay(db, db.version, Chain(db.version))
      BY <1>0, <1>2, <2>3, <3>2 DEF OnTheWay
    <3>3. next # "created"
      BY <1>4
    <3>4. QED BY <1>1, <1>7, <3>1, <3>2, <3>3 DEF TurnInv
  <2>5. \A q \in Openers \ {p} : TurnInv(q)'
    BY <2>2 DEF TurnInv, Migrating
  <2>6. QED BY <1>1, <2>2, <2>3, <2>4, <2>5
<1>10. QED BY <1>8, <1>9 DEF SchemaInv

LEMMA CloseKeeps == ASSUME SchemaInv, NEW p \in Openers, Close(p) PROVE SchemaInv'
<1>1. /\ opener' = [opener EXCEPT ![p] = "closed"] /\ todo' = [todo EXCEPT ![p] = {}]
      /\ seen' = [seen EXCEPT ![p] = 0] /\ alone' = (alone /\ opener[p] # "created")
      /\ db' = db /\ opens' = opens
  BY DEF Close
<1>2. /\ opener \in [Openers -> States] /\ seen \in [Openers -> 0..26]
      /\ todo \in [Openers -> SUBSET StepVersions]
  BY DEF SchemaInv, MarkInv
<1>3. /\ opener'[p] = "closed"
      /\ \A q \in Openers \ {p} : opener'[q] = opener[q] /\ seen'[q] = seen[q] /\ todo'[q] = todo[q]
  BY <1>1, <1>2
<1>4. MarkInv'
  <2>1. OpenerInv(p)'
    BY <1>3 DEF OpenerInv
  <2>2. ASSUME NEW q \in Openers \ {p} PROVE OpenerInv(q)'
    BY <1>1, <1>3 DEF OpenerInv, SchemaInv, MarkInv
  <2>3. /\ opener' \in [Openers -> States] /\ seen' \in [Openers -> 0..26]
        /\ todo' \in [Openers -> SUBSET StepVersions]
    BY <1>1, <1>2 DEF States
  <2>4. alone' \in BOOLEAN
    BY <1>1
  <2>5. QED BY <1>1, <2>1, <2>2, <2>3, <2>4 DEF SchemaInv, MarkInv
<1>5. AloneInv'
  <2> SUFFICES ASSUME alone' PROVE /\ \A q, r \in Openers : Migrating(q)' /\ Migrating(r)' => q = r
                                   /\ db'.version <= Current => Whole(db')
                                   /\ (\A q \in Openers : opener'[q] # "created") => Started(db')
                                   /\ \A q \in Openers : TurnInv(q)'
    BY DEF AloneInv
  <2>1. alone /\ opener[p] # "created"
    BY <1>1
  <2>2. ~Migrating(p)' /\ TurnInv(p)'
    BY <1>3 DEF Migrating, TurnInv
  <2>3. \A q \in Openers \ {p} : (Migrating(q)' <=> Migrating(q)) /\ TurnInv(q)'
    BY <1>1, <1>3, <2>1 DEF Migrating, TurnInv, SchemaInv, AloneInv
  <2>4. (\A q \in Openers : opener'[q] # "created") => Started(db)
    BY <1>3, <2>1 DEF SchemaInv, AloneInv
  <2>5. QED BY <1>1, <2>1, <2>2, <2>3, <2>4 DEF SchemaInv, AloneInv
<1>6. QED BY <1>4, <1>5 DEF SchemaInv

LEMMA EmbedKeeps == ASSUME SchemaInv, NEW p \in Openers, Embed(p) PROVE SchemaInv'
<1>1. /\ opener[p] = "open" /\ db' = [db EXCEPT !.vectors = @ \cup {"local", "hosted"}]
      /\ UNCHANGED <<opener, seen, todo, opens, alone>>
  BY DEF Embed
<1>2. Fit(db)
  BY DEF SchemaInv, MarkInv
<1>3. /\ IsDb(db') /\ SameSchema(db, db') /\ db'.ok = db.ok /\ db'.unit = db.unit
      /\ db'.snapshot = db.snapshot /\ db'.documents = db.documents
      /\ db'.vectors = db.vectors \cup {"local", "hosted"}
  BY <1>1, <1>2 DEF Fit, IsDb, SameSchema
<1>4. Fit(db')
  BY <1>2, <1>3 DEF Fit, SameSchema, Named, Has
<1>5. \A steps : Marked(db, steps) => Marked(db', steps)
  BY <1>3 DEF Marked, Scopes, Outdates, Names
<1>6. QED BY <1>1, <1>3, <1>4, <1>5, RowsKeepInv

LEMMA ReindexKeeps == ASSUME SchemaInv, NEW p \in Openers, Reindex(p) PROVE SchemaInv'
<1>1. PICK profile \in {"full", "navigation"} :
        LET has == IF profile = "full" THEN Families ELSE {"navigation"}
        IN db' = [db EXCEPT
             !.unit = [present |-> TRUE, native |-> TRUE, era |-> Current, has |-> has,
                       advanced |-> profile = "full", claims |-> has, reindex |-> FALSE],
             !.solution = IF profile = "full" THEN "payload" ELSE "none"]
  BY DEF Reindex
<1> DEFINE has == IF profile = "full" THEN Families ELSE {"navigation"}
           advanced == profile = "full"
           unit == [present |-> TRUE, native |-> TRUE, era |-> Current, has |-> has,
                    advanced |-> advanced, claims |-> has, reindex |-> FALSE]
           solution == IF profile = "full" THEN "payload" ELSE "none"
<1>2. db' = [db EXCEPT !.unit = unit, !.solution = solution]
  BY <1>1
<1>3. has \subseteq Families /\ (advanced => has = Families) /\ advanced \in BOOLEAN
  BY DEF Families
<1> HIDE DEF has, advanced
<1>4. /\ unit.native = TRUE /\ unit.era = Current /\ unit.has = has
      /\ unit.advanced = advanced /\ unit.claims = has
      /\ {"present", "native", "era", "has", "advanced", "claims", "reindex"} \subseteq DOMAIN unit
  OBVIOUS
<1> HIDE DEF unit, solution
<1>5. Fit(db)
  BY DEF SchemaInv, MarkInv
<1>6. /\ IsDb(db') /\ SameSchema(db, db') /\ db'.ok = db.ok /\ db'.unit = unit
      /\ db'.snapshot = db.snapshot /\ db'.documents = db.documents /\ db'.vectors = db.vectors
  BY <1>2, <1>4, <1>5 DEF Fit, IsDb, SameSchema
<1>7. Fit(db')
  BY <1>3, <1>4, <1>5, <1>6 DEF Fit, SameSchema, Named, Has
<1>8. \A steps : Marked(db, steps) => Marked(db', steps)
  BY <1>3, <1>4, <1>6 DEF Marked, Scopes, Outdates, Names, Current
<1>9. UNCHANGED <<opener, seen, todo, opens, alone>>
  BY DEF Reindex
<1>10. QED BY <1>6, <1>7, <1>8, <1>9, RowsKeepInv

\* A process that fails while it migrates, the database in order.
LEMMA FailureKeeps ==
  ASSUME SchemaInv, NEW p \in Openers, alone => opener[p] # "created",
         opener' = [opener EXCEPT ![p] = "failed"], UNCHANGED <<db, seen, todo, opens, alone>>
  PROVE  SchemaInv'
<1>1. opener \in [Openers -> States]
  BY DEF SchemaInv, MarkInv
<1>2. opener'[p] = "failed" /\ \A q \in Openers \ {p} : opener'[q] = opener[q]
  BY <1>1
<1>3. MarkInv'
  <2>1. \A q \in Openers : OpenerInv(q)'
    BY <1>2 DEF OpenerInv, SchemaInv, MarkInv
  <2>2. opener' \in [Openers -> States]
    BY <1>1 DEF States
  <2>3. QED BY <2>1, <2>2 DEF SchemaInv, MarkInv
<1>4. AloneInv'
  <2>1. \A q \in Openers : Migrating(q)' => Migrating(q)
    BY <1>2 DEF Migrating
  <2>2. ASSUME alone PROVE \A q \in Openers : TurnInv(q)'
    <3>1. \A q \in Openers : TurnInv(q)
      BY <2>2 DEF SchemaInv, AloneInv
    <3>2. QED BY <1>2, <3>1 DEF TurnInv
  <2>3. ASSUME alone, \A q \in Openers : opener'[q] # "created"
        PROVE  \A q \in Openers : opener[q] # "created"
    BY <1>2, <2>3
  <2>4. QED BY <2>1, <2>2, <2>3 DEF SchemaInv, AloneInv
<1>5. QED BY <1>3, <1>4 DEF SchemaInv

\* A process commits; what it found, and whether it is alone, stays.
Committed(p, after, left) ==
  /\ Migrating(p) /\ after \in {"created", "migrating", "open"} /\ left \subseteq StepVersions
  /\ opener' = [opener EXCEPT ![p] = after] /\ todo' = [todo EXCEPT ![p] = left]
  /\ UNCHANGED <<seen, opens, alone>>
  /\ Fit(db') /\ Marked(db', Chain(db'.version)) /\ Marked(db', left)
  /\ \A steps : Marked(db, steps) => Marked(db', steps)
  /\ after = "created" => seen[p] \in {0, 1} /\ left = StepVersions
  /\ after = "migrating" => left # {}
  /\ after = "open" => left = {}
  /\ alone => /\ db'.version <= Current => Whole(db')
              /\ after # "created" => Started(db')
              /\ after = "created" => db'.version = seen[p] /\ HalfMade(db')
              /\ after = "migrating" => OnTheWay(db', seen[p], left)

LEMMA CommitKeeps ==
  ASSUME SchemaInv, NEW p \in Openers, NEW after, NEW left, Committed(p, after, left)
  PROVE  SchemaInv'
<1>0. Fit(db') /\ Marked(db', Chain(db'.version)) /\ UNCHANGED <<seen, opens, alone>>
  BY DEF Committed
<1>1. /\ opener \in [Openers -> States] /\ todo \in [Openers -> SUBSET StepVersions]
  BY DEF SchemaInv, MarkInv
<1>2. /\ opener'[p] = after /\ todo'[p] = left
      /\ \A q \in Openers \ {p} : opener'[q] = opener[q] /\ todo'[q] = todo[q]
  BY <1>1 DEF Committed
<1>3. MarkInv'
  <2>1. OpenerInv(p)'
    BY <1>2 DEF OpenerInv, Committed
  <2>2. ASSUME NEW q \in Openers \ {p} PROVE OpenerInv(q)'
    BY <1>2 DEF OpenerInv, SchemaInv, MarkInv, Committed
  <2>3. opener' \in [Openers -> States] /\ todo' \in [Openers -> SUBSET StepVersions]
    BY <1>1 DEF Committed, States
  <2>4. QED BY <1>0, <2>1, <2>2, <2>3 DEF SchemaInv, MarkInv
<1>4. AloneInv'
  <2> SUFFICES ASSUME alone' PROVE /\ \A q, r \in Openers : Migrating(q)' /\ Migrating(r)' => q = r
                                   /\ db'.version <= Current => Whole(db')
                                   /\ (\A q \in Openers : opener'[q] # "created") => Started(db')
                                   /\ \A q \in Openers : TurnInv(q)'
    BY DEF AloneInv
  <2>1. alone
    BY <1>0
  <2>2. \A q \in Openers \ {p} : ~Migrating(q)
    BY <2>1 DEF SchemaInv, AloneInv, Committed
  <2>3. \A q \in Openers \ {p} : ~Migrating(q)' /\ TurnInv(q)'
    BY <1>2, <2>2 DEF Migrating, TurnInv
  <2>4. TurnInv(p)'
    BY <1>2, <2>1 DEF TurnInv, Committed
  <2>5. (\A q \in Openers : opener'[q] # "created") => Started(db')
    BY <1>2, <2>1 DEF Committed
  <2>6. db'.version <= Current => Whole(db')
    BY <2>1 DEF Committed
  <2>7. QED BY <2>3, <2>4, <2>5, <2>6
<1>5. QED BY <1>3, <1>4 DEF SchemaInv

LEMMA CreateKeeps == ASSUME SchemaInv, NEW p \in Openers, Create(p) PROVE SchemaInv'
<1> DEFINE v == seen[p]
           first == FirstStatement(db, v)
           others == OtherStatements(db, v)
           next == IF opener[p] = "creating" THEN first ELSE others
<1>0. Current = 25
  BY DEF Current
<1>1. /\ opener[p] \in {"creating", "created"} /\ UNCHANGED <<seen, todo, opens, alone>>
      /\ \/ /\ next.ok /\ db' = next
            /\ opener' = [opener EXCEPT ![p] = IF @ = "creating" THEN "created" ELSE "migrating"]
         \/ /\ ~next.ok /\ opener' = [opener EXCEPT ![p] = "failed"] /\ UNCHANGED db
  BY DEF Create
<1>2. v \in {0, 1} /\ todo[p] = StepVersions /\ Migrating(p)
  BY <1>1 DEF SchemaInv, MarkInv, OpenerInv, Migrating
<1>3. /\ Fit(db) /\ Marked(db, Chain(db.version)) /\ StepVersions # {}
      /\ todo' = [todo EXCEPT ![p] = StepVersions] /\ \A d : Marked(d, StepVersions)
  <2>1. todo \in [Openers -> SUBSET StepVersions]
    BY DEF SchemaInv, MarkInv
  <2>2. todo' = [todo EXCEPT ![p] = StepVersions]
    BY <1>1, <1>2, <2>1
  <2>3. 25 \in StepVersions
    BY DEF StepVersions, Current
  <2>4. QED BY <2>2, <2>3, FirstChains DEF SchemaInv, MarkInv
<1>4. /\ alone /\ opener[p] = "creating" => db.version = v /\ Whole(db) /\ Started(db)
      /\ alone /\ opener[p] = "created" => db.version = v /\ Whole(db) /\ HalfMade(db)
  <2>1. ASSUME alone PROVE TurnInv(p) /\ (db.version <= Current => Whole(db))
    BY <2>1 DEF SchemaInv, AloneInv
  <2>2. ASSUME alone, opener[p] = "creating" PROVE Started(db)
    <3>1. \A q \in Openers \ {p} : ~Migrating(q)
      BY <1>2, <2>2 DEF SchemaInv, AloneInv
    <3>2. \A q \in Openers : opener[q] # "created"
      BY <2>2, <3>1 DEF Migrating
    <3>3. QED BY <2>2, <3>2 DEF SchemaInv, AloneInv
  <2>3. QED BY <1>0, <1>2, <2>1, <2>2 DEF TurnInv
<1>5. /\ first.ok => Fit(first) /\ first.version = db.version /\ SameFacts(db, first)
      /\ alone /\ opener[p] = "creating" => first.ok /\ Whole(first) /\ HalfMade(first)
  BY <1>2, <1>3, <1>4, FirstDoes
<1>6. /\ others.ok => Fit(others) /\ others.version = 2 /\ SameFacts(db, others)
      /\ alone /\ opener[p] = "created" => others.ok /\ Whole(others)
  BY <1>2, <1>3, <1>4, OtherDoes
<1> HIDE DEF first, others
<1>7. CASE ~next.ok /\ opener' = [opener EXCEPT ![p] = "failed"] /\ UNCHANGED db
  BY <1>1, <1>6, <1>7, FailureKeeps
<1>8. CASE opener[p] = "creating" /\ db' = first /\ first.ok
           /\ opener' = [opener EXCEPT ![p] = "created"]
  <2>1. Marked(db', Chain(db'.version)) /\ \A steps : Marked(db, steps) => Marked(db', steps)
    BY <1>3, <1>5, <1>8, SameFactsKeep
  <2>2. alone => db'.version = v /\ HalfMade(db') /\ Whole(db')
    BY <1>4, <1>5, <1>8
  <2>3. Fit(db')
    BY <1>5, <1>8
  <2>4. Committed(p, "created", StepVersions)
    BY <1>1, <1>2, <1>3, <1>8, <2>1, <2>2, <2>3 DEF Committed
  <2>5. QED BY <2>4, CommitKeeps
<1>9. CASE opener[p] = "created" /\ db' = others /\ others.ok
           /\ opener' = [opener EXCEPT ![p] = "migrating"]
  <2>1. Chain(2) = StepVersions
    BY FirstChains
  <2>2. \A steps : Marked(db, steps) => Marked(db', steps)
    BY <1>6, <1>9, SameFactsKeep
  <2>3. Fit(db') /\ db'.version = 2 /\ Marked(db', Chain(db'.version)) /\ Started(db')
    BY <1>3, <1>6, <1>9, <2>1 DEF Started
  <2>4. alone => Whole(db') /\ OnTheWay(db', v, StepVersions)
    BY <1>0, <1>2, <1>3, <1>6, <1>9, <2>1, <2>3 DEF OnTheWay
  <2>5. Committed(p, "migrating", StepVersions)
    BY <1>1, <1>2, <1>3, <1>9, <2>2, <2>3, <2>4 DEF Committed
  <2>6. QED BY <2>5, CommitKeeps
<1>10. QED
  <2>1. opener \in [Openers -> States]
    BY DEF SchemaInv, MarkInv
  <2>2. QED BY <1>1, <1>7, <1>8, <1>9, <2>1

\* The step a process takes next.
LEMMA NextStepIs ==
  ASSUME NEW steps, steps \subseteq StepVersions, steps # {}
  PROVE  NextStep(steps) \in steps /\ \A m \in steps : NextStep(steps) <= m
<1>1. steps \subseteq Nat
  BY DEF StepVersions, Current
<1>2. \E n \in steps : \A m \in steps : n <= m
  BY <1>1, LeastOf
<1>3. QED BY <1>2 DEF NextStep

LEMMA MigrateStep ==
  ASSUME SchemaInv, NEW p \in Openers, opener[p] = "migrating",
         Step(db, NextStep(todo[p]), seen[p]).ok
  PROVE  LET n == NextStep(todo[p])
             next == Step(db, n, seen[p])
         IN /\ todo[p] \in SUBSET StepVersions /\ n \in todo[p] /\ \A m \in todo[p] : n <= m
            /\ Fit(next) /\ next.version = n /\ Keeps(db, next)
            /\ Marked(next, todo[p] \ {n}) /\ Marked(next, Chain(n))
            /\ \A others : Marked(db, others) => Marked(next, others)
<1>1. /\ todo[p] \subseteq StepVersions /\ todo[p] # {} /\ seen[p] \in Nat
      /\ Fit(db) /\ Marked(db, todo[p])
  BY DEF SchemaInv, MarkInv, OpenerInv
<1>2. NextStep(todo[p]) \in todo[p] /\ \A m \in todo[p] : NextStep(todo[p]) <= m
  BY <1>1, NextStepIs
<1> DEFINE n == NextStep(todo[p])
<1>3. n \in todo[p] /\ (\A m \in todo[p] : n <= m) /\ Step(db, n, seen[p]).ok
  BY <1>2
<1> HIDE DEF n
<1>4. LET next == Step(db, n, seen[p])
      IN /\ Fit(next) /\ next.version = n /\ Keeps(db, next)
         /\ Marked(next, todo[p] \ {n}) /\ Marked(next, Chain(n))
         /\ \A others : Marked(db, others) => Marked(next, others)
  BY <1>1, <1>3, MarkedStep
<1>5. QED BY <1>1, <1>3, <1>4 DEF n

LEMMA MigrateKeeps == ASSUME SchemaInv, NEW p \in Openers, Migrate(p) PROVE SchemaInv'
<1> DEFINE n == NextStep(todo[p])
           next == Step(db, n, seen[p])
<1>1. /\ opener[p] = "migrating" /\ UNCHANGED <<seen, opens, alone>>
      /\ \/ /\ next.ok /\ db' = next /\ todo' = [todo EXCEPT ![p] = @ \ {n}]
            /\ opener' = IF todo[p] = {n} THEN [opener EXCEPT ![p] = "open"] ELSE opener
         \/ opener' = [opener EXCEPT ![p] = "failed"] /\ UNCHANGED <<db, todo>>
  BY DEF Migrate
<1>2. CASE opener' = [opener EXCEPT ![p] = "failed"] /\ UNCHANGED <<db, todo>>
  BY <1>1, <1>2, FailureKeeps
<1>3. CASE /\ next.ok /\ db' = next /\ todo' = [todo EXCEPT ![p] = @ \ {n}]
           /\ opener' = IF todo[p] = {n} THEN [opener EXCEPT ![p] = "open"] ELSE opener
  <2>1. /\ todo[p] \in SUBSET StepVersions /\ n \in todo[p] /\ \A m \in todo[p] : n <= m
        /\ Fit(next) /\ next.version = n
        /\ Marked(next, todo[p] \ {n}) /\ Marked(next, Chain(n))
        /\ \A others : Marked(db, others) => Marked(next, others)
    BY <1>1, <1>3, MigrateStep
  <2>2. ASSUME alone PROVE OnTheWay(next, seen[p], todo[p] \ {n})
    <3>1. OnTheWay(db, seen[p], todo[p])
      BY <1>1, <2>2 DEF SchemaInv, AloneInv, TurnInv
    <3>2. QED BY <1>3, <2>1, <3>1, OneStep
  <2> DEFINE after == IF todo[p] = {n} THEN "open" ELSE "migrating"
             left == todo[p] \ {n}
  <2> HIDE DEF next, n
  <2>3. /\ opener' = [opener EXCEPT ![p] = after] /\ todo' = [todo EXCEPT ![p] = left]
        /\ after \in {"migrating", "open"} /\ left \subseteq StepVersions
    <3>1. opener \in [Openers -> States] /\ todo \in [Openers -> SUBSET StepVersions]
      BY DEF SchemaInv, MarkInv
    <3>2. opener = [opener EXCEPT ![p] = "migrating"]
      BY <1>1, <3>1
    <3>3. opener' = [opener EXCEPT ![p] = after]
      BY <1>3, <3>2
    <3>4. QED BY <1>3, <2>1, <3>3
  <2>4. Migrating(p)
    BY <1>1 DEF Migrating
  <2>5. (after = "migrating" => left # {}) /\ (after = "open" => left = {})
    BY <2>1
  <2> HIDE DEF after, left
  <2>6. alone => Whole(db') /\ Started(db') /\ OnTheWay(db', seen[p], left)
    <3>1. ASSUME alone PROVE OnTheWay(db', seen[p], left)
      BY <1>3, <2>2, <3>1 DEF left
    <3>2. QED BY <3>1 DEF OnTheWay, Started, Current
  <2>7. Fit(db') /\ Marked(db', Chain(db'.version)) /\ Marked(db', left)
        /\ \A others : Marked(db, others) => Marked(db', others)
    BY <1>3, <2>1 DEF left
  <2>8. Committed(p, after, left)
    BY <1>1, <2>3, <2>4, <2>5, <2>6, <2>7 DEF Committed
  <2>9. QED BY <2>8, CommitKeeps
<1>4. QED BY <1>1, <1>2, <1>3

LEMMA StutterKeeps == ASSUME SchemaInv, UNCHANGED schemaVars PROVE SchemaInv'
<1>1. UNCHANGED <<db, opener, seen, todo, opens, alone>>
  BY DEF schemaVars
<1>2. MarkInv'
  BY <1>1 DEF SchemaInv, MarkInv, OpenerInv
<1>3. AloneInv'
  BY <1>1 DEF SchemaInv, AloneInv, TurnInv, Migrating
<1>4. QED BY <1>2, <1>3 DEF SchemaInv

LEMMA NextKeeps == SchemaInv /\ [SchemaNext]_schemaVars => SchemaInv'
<1> SUFFICES ASSUME SchemaInv, [SchemaNext]_schemaVars PROVE SchemaInv'
  OBVIOUS
<1>1. CASE UNCHANGED schemaVars
  BY <1>1, StutterKeeps
<1>2. CASE SchemaNext
  <2>1. PICK p \in Openers : \/ Open(p) \/ Create(p) \/ Migrate(p)
                             \/ Reindex(p) \/ Embed(p) \/ Close(p)
    BY <1>2 DEF SchemaNext
  <2>2. QED
    BY <2>1, OpenKeeps, CreateKeeps, MigrateKeeps, ReindexKeeps, EmbedKeeps, CloseKeeps
<1>3. QED BY <1>1, <1>2

\* For any processes: the database is fit and marked with what its version and the
\* processes promise, and in the order of its version while nobody interferes.
THEOREM SchemaInvariant == SchemaSpec => []SchemaInv
<1>1. SchemaInit => SchemaInv
  BY InitInv
<1>2. SchemaInv /\ [SchemaNext]_schemaVars => SchemaInv'
  BY NextKeeps
<1>3. QED BY <1>1, <1>2, PTL DEF SchemaSpec

LEMMA AloneIsOpenable == SchemaInv => CanBeOpenedAlone
<1> SUFFICES ASSUME SchemaInv, alone, \A p \in Openers : ~Migrating(p), db.version <= Current,
                    "damaged" \notin db.vectors
             PROVE  Upgraded(db).ok
  BY DEF CanBeOpenedAlone, CanBeOpened
<1>1. \A p \in Openers : opener[p] # "created"
  BY DEF Migrating
<1>2. Whole(db) /\ Started(db)
  BY <1>1 DEF SchemaInv, AloneInv
<1>3. Fit(db) /\ Marked(db, Chain(db.version))
  BY DEF SchemaInv, MarkInv
<1>4. QED BY <1>2, <1>3, UpgradeSucceeds

LEMMA InvMarksFacts == SchemaInv => OldFactsAreMarked
<1> SUFFICES ASSUME SchemaInv PROVE OldFactsAreMarked
  OBVIOUS
<1>1. SchemaTypes
  BY DEF SchemaInv, MarkInv, Fit, SchemaTypes, States
<1>2. ASSUME NEW p \in Openers, opener[p] = "open"
      PROVE  /\ db.unit.claims \subseteq db.unit.has
             /\ db.unit.advanced => db.unit.has = Families
             /\ db.unit.present /\ db.unit.era < 3 => db.unit.reindex
  <2>1. Marked(db, {})
    BY <1>2 DEF SchemaInv, MarkInv, OpenerInv
  <2>2. QED BY <2>1 DEF SchemaInv, MarkInv, Fit, Marked, Scopes, Outdates
<1>3. QED BY <1>1, <1>2 DEF OldFactsAreMarked

\* What one step keeps.
KeepsFacts ==
  (\E p \in Openers : Migrating(p) /\ todo'[p] # todo[p] /\ opener'[p] # "closed") =>
    /\ db'.unit.has = db.unit.has
    /\ db.snapshot.membership \/ db.snapshot.variant # "none" =>
         db'.snapshot.membership \/ db'.snapshot.variant # "none"
    /\ (db'.solution = "none") = (db.solution = "none")
    /\ db.vectors \ db'.vectors \subseteq {"unnamed"}
    /\ db'.version >= 12 => "unnamed" \notin db'.vectors

LEMMA StepsKeepFacts == SchemaInv /\ [SchemaNext]_schemaVars => [KeepsFacts]_schemaVars
<1> SUFFICES ASSUME SchemaInv, SchemaNext, NEW p \in Openers, Migrating(p), todo'[p] # todo[p],
                    opener'[p] # "closed"
             PROVE  KeepsFacts
  BY DEF KeepsFacts
<1>1. PICK q \in Openers : Open(q) \/ Create(q) \/ Migrate(q) \/ Reindex(q) \/ Embed(q) \/ Close(q)
  BY DEF SchemaNext
<1>2. opener \in [Openers -> States] /\ todo \in [Openers -> SUBSET StepVersions]
  BY DEF SchemaInv, MarkInv
<1>3. ~(Create(q) \/ Reindex(q) \/ Embed(q))
  BY DEF Create, Reindex, Embed
<1>4. ~Open(q)
  <2>1. ASSUME Open(q) PROVE q # p /\ todo' = [todo EXCEPT ![q] = Chain(db.version)]
    BY <2>1 DEF Open, Migrating
  <2>2. QED BY <1>2, <2>1
<1>5. ~Close(q)
  <2>1. ASSUME Close(q) PROVE /\ todo' = [todo EXCEPT ![q] = {}]
                              /\ opener' = [opener EXCEPT ![q] = "closed"]
    BY <2>1 DEF Close
  <2>2. QED BY <1>2, <2>1
<1>6. Migrate(q)
  BY <1>1, <1>3, <1>4, <1>5
<1> DEFINE n == NextStep(todo[q])
           next == Step(db, n, seen[q])
<1>7. opener[q] = "migrating" /\ next.ok /\ db' = next
  BY <1>6 DEF Migrate
<1>8. Fit(next) /\ next.version = n /\ Keeps(db, next) /\ Marked(next, Chain(n))
  BY <1>7, MigrateStep
<1> HIDE DEF n, next
<1>9. n \in Nat /\ (n >= 12 => 12 \notin Chain(n))
  BY <1>8 DEF Fit, Chain
<1>10. QED BY <1>7, <1>8, <1>9 DEF KeepsFacts, Keeps, Readable, Marked, Names

\* However many processes opened it one after the other, and wherever they failed or
\* died between their steps: a database without damaged vectors can be upgraded.
THEOREM NextOpeningSucceeds == SchemaSpec => []CanBeOpenedAlone
<1>1. SchemaInv => CanBeOpenedAlone
  BY AloneIsOpenable
<1>2. QED BY <1>1, SchemaInvariant, PTL

\* An open store has no unit that claims a family of facts its release did not know,
\* and none from before the builds that is not marked for another run: also when
\* several processes migrated the database at once.
THEOREM OldFactsStayMarked == SchemaSpec => []OldFactsAreMarked
<1>1. SchemaInv => OldFactsAreMarked
  BY InvMarksFacts
<1>2. QED BY <1>1, SchemaInvariant, PTL

\* A step of a migration keeps facts, snapshots, solutions and vectors, those of an
\* unknown endpoint apart: also when several processes migrate the database at once.
THEOREM MigrationLosesNothing == SchemaSpec => MigrationKeepsFacts
<1>1. SchemaInv /\ [SchemaNext]_schemaVars => [KeepsFacts]_schemaVars
  BY StepsKeepFacts
<1>2. [][KeepsFacts]_schemaVars <=> MigrationKeepsFacts
  BY DEF KeepsFacts, MigrationKeepsFacts
<1>3. QED BY <1>1, <1>2, SchemaInvariant, PTL DEF SchemaSpec

=============================================================================
