------------------------------- MODULE FactStore -------------------------------
(***************************************************************************)
(* What SQLiteStore (src/cpp_context_engine/storage/sqlite.py) derives     *)
(* from the facts of translation units, and how apply_ingestion_batches    *)
(* keeps it up to date when it replaces some units: virtual call targets   *)
(* found through override edges of other units, the solutions of function  *)
(* summaries, the preferred variant of every symbol, the documents of the  *)
(* full text search, and the units whose deep facts are cached.            *)
(*                                                                         *)
(* The facts of a unit are a record:                                       *)
(*   symbols    its variants of symbols: a definition or not, and a text   *)
(*   overrides  pairs <<overriding, overridden>>                           *)
(*   calls      callsites: owner, statically selected target, virtual      *)
(*   bodies     the functions with a summary, and their local effects      *)
(* A unit has a variant of every symbol it mentions.  Every action is one  *)
(* transaction (BEGIN IMMEDIATE): a failure or a cancellation in it leaves *)
(* no trace.  Concurrency between transactions is in ProjectIndex and      *)
(* DeepMaterialization, the steps of the solver are in SummarySolver.      *)
(***************************************************************************)
EXTENDS Naturals, FiniteSets, Functions

CONSTANTS
  BuildOf,      \* the build variant of every translation unit, a sequence
  Symbols,      \* names of symbols
  FactsOf,      \* for every unit the facts an analysis may find in it
  Closures      \* sets of units of one build that deep requests ask for

Units == DOMAIN BuildOf
BuildVariants == {BuildOf[u] : u \in Units}

ASSUME FactStoreAssumption ==
  /\ Units \subseteq Nat /\ BuildVariants \subseteq Nat
  /\ IsFiniteSet(Units) /\ IsFiniteSet(Symbols)
  /\ \A u \in Units : \A f \in FactsOf[u] :
       /\ f.overrides \subseteq Symbols \X Symbols
       /\ \A c \in f.calls : c.owner \in Symbols /\ c.static \in Symbols
       /\ DOMAIN f.bodies \subseteq Symbols

Absent == [symbols |-> <<>>, overrides |-> {}, calls |-> {}, bodies |-> <<>>]

VARIABLES
  project,      \* the row of the project exists
  stored,       \* units with a row
  facts,        \* the facts of every unit
  candidates,   \* call targets derived from override edges: <<site, target>>
  solution,     \* effects of every <<unit, function>> with a summary
  canonical,    \* the preferred variant of every symbol
  documents,    \* documents of the full text search: <<unit, symbol, text>>
  cache,        \* deep_tu_cache: the closure's generation and the targets it saw
  tokens        \* deep materializations: their closures' generations

storeVars == <<project, stored, facts, candidates, solution, canonical, documents, cache, tokens>>

NotCached == [generation |-> <<>>, seen |-> {}]

StoreInit ==
  /\ project = FALSE /\ stored = {} /\ facts = [u \in Units |-> Absent]
  /\ candidates = {} /\ solution = <<>> /\ canonical = <<>> /\ documents = {}
  /\ cache = [u \in Units |-> NotCached] /\ tokens = {}

-----------------------------------------------------------------------------
(* What is derived from the facts db of all units.                         *)

Of(b) == {u \in Units : BuildOf[u] = b}

\* The least set with S that is closed under the relation R.
Reached(S, R) ==
  LET reach[n \in 0 .. Cardinality(R)] ==
        IF n = 0 THEN S
        ELSE reach[n - 1] \cup {r[2] : r \in {q \in R : q[1] \in reach[n - 1]}}
  IN reach[Cardinality(R)]

Inverted(R) == {<<r[2], r[1]>> : r \in R}

Sites(db, b) ==
  UNION {{[unit |-> u, owner |-> c.owner, static |-> c.static, virtual |-> c.virtual]
           : c \in db[u].calls} : u \in Of(b)}

\* override_closure: what overrides a method, directly or not.
Overriders(db, b, base) ==
  LET edges == UNION {db[u].overrides : u \in Of(b)}
  IN Reached({e[1] : e \in {d \in edges : d[2] = base}}, Inverted(edges))

\* _refresh_indexed_override_candidates
Candidates(db, b) ==
  UNION {{<<s, t>> : t \in Overriders(db, b, s.static) \ {s.static}}
         : s \in {x \in Sites(db, b) : x.virtual}}

\* The call graph of a build: pairs of functions.
Calls(db, b, derived) ==
  {<<s.owner, s.static>> : s \in Sites(db, b)} \cup
  {<<c[1].owner, c[2]>> : c \in {d \in derived : BuildOf[d[1].unit] = b}}

\* _reverse_summary_callers and _forward_summary_callees, with the functions.
Callers(functions, graph) == Reached(functions, Inverted(graph))
Callees(functions, graph) == Reached(functions, graph)

Summaries(db, S) == UNION {{<<u, f>> : f \in DOMAIN db[u].bodies} : u \in S}

SelectedBodies(db, b, selected) == {x \in Summaries(db, Of(b)) : x[2] \in selected}

\* The targets of a callsite.
Targets(derived, s) == {s.static} \cup {c[2] : c \in {d \in derived : d[1] = s}}

\* A call reaches the body in its own unit, or else all bodies of its target.
BodiesOf(bodies, s, t) ==
  IF <<s.unit, t>> \in bodies THEN {<<s.unit, t>>} ELSE {y \in bodies : y[2] = t}

\* Pairs of a body and one it calls.
Steps(db, b, derived, bodies) ==
  UNION {{<<<<s.unit, s.owner>>, y>> : y \in UNION {BodiesOf(bodies, s, t) : t \in Targets(derived, s)}}
         : s \in Sites(db, b)}

\* The solver on the summaries of the selected functions: their own effects and those
\* of all bodies they reach.
Solve(db, b, derived, selected) ==
  LET bodies == SelectedBodies(db, b, selected)
      steps == Steps(db, b, derived, bodies)
  IN [x \in bodies |-> UNION {db[y[1]].bodies[y[2]] : y \in Reached({x}, steps)}]

\* ORDER BY is_definition DESC, build_variant, translation_unit_id
Before(db, s, u, w) ==
  LET rank(x) == <<IF db[x].symbols[s].definition THEN 0 ELSE 1, BuildOf[x], x>>
  IN \E i \in 1 .. 3 : /\ rank(u)[i] < rank(w)[i]
                       /\ \A j \in 1 .. (i - 1) : rank(u)[j] = rank(w)[j]

\* The variant of a symbol that comes before all others.
Best(db, s) ==
  LET having == {u \in Units : s \in DOMAIN db[u].symbols}
  IN {u \in having : \A w \in having \ {u} : Before(db, s, u, w)}

Preferred(db, s) ==
  LET best == CHOOSE u \in Best(db, s) : TRUE
  IN [unit |-> best, variant |-> db[best].symbols[s]]

Mentioned(db, S) == UNION {DOMAIN db[u].symbols : u \in S}

Documents(db, S) ==
  UNION {{<<u, s, db[u].symbols[s].text>> : s \in DOMAIN db[u].symbols} : u \in S}

-----------------------------------------------------------------------------
(* One index run of a build variant: apply_ingestion_batches.              *)

\* _track_replaced_units: what the units had, before they are deleted.
TrackedFunctions(b, replaced) ==
  Callers({x[2] : x \in Summaries(facts, replaced)}, Calls(facts, b, candidates))

\* _invalidate_changed_override_callers: callsites whose targets changed, ...
ChangedSites(before, after) ==
  {c[1] : c \in (before \ after) \cup (after \ before)}

\* ... the functions they matter to, ...
OverrideAffected(db, b, sites, derived) ==
  Callers({s.owner : s \in sites}, Calls(db, b, derived))

\* ... and the units whose cached deep facts they make stale.
\* Mutant: the caches of units that were not replaced are kept.
NoStaleUnits(db, b, sites, functions) == {}
StaleUnits(db, b, sites, functions) ==
  {s.unit : s \in sites} \cup
  {x[1] : x \in {y \in Summaries(db, Of(b)) : y[2] \in functions}}

\* Functions whose summaries are solved again.
\* Mutant: callers that the new facts add are forgotten.
ChangedFunctions(db, b, derived, functions) == functions
AffectedFunctions(db, b, derived, functions) == Callers(functions, Calls(db, b, derived))

\* _refresh_summary_solutions: those the solver is given.
SelectedFunctions(db, b, derived, affected) ==
  LET indexed == {x[2] : x \in Summaries(db, Of(b))}
  IN IF indexed \subseteq affected THEN indexed
     ELSE Callees(affected, Calls(db, b, derived))

\* _delete_invalid_deep_materializations
ValidTokens(all, rows) ==
  {g \in all : \A u \in DOMAIN g : rows[u].generation = g}

\* The facts after some units are removed and others found anew.
Replace(db, removed, new) ==
  [u \in Units |-> CASE u \in DOMAIN new -> new[u]
                     [] u \in removed \ DOMAIN new -> Absent
                     [] OTHER -> db[u]]

\* The symbols of replaced and new units are derived again, and symbols
\* without a variant are deleted (_delete_orphans).
RefreshSymbols(db, touched) ==
  canonical' = [s \in Mentioned(db, Units) |->
                  IF s \in touched THEN Preferred(db, s) ELSE canonical[s]]

\* A fresh generation fills the full text search at its end.
RefreshDocuments(db, replaced, changed) ==
  documents' = IF ~project THEN Documents(db, Units)
               ELSE {d \in documents : d[1] \notin replaced} \cup Documents(db, changed)

DropCaches(gone) ==
  /\ cache' = [u \in Units |-> IF u \in gone THEN NotCached ELSE cache[u]]
  /\ tokens' = ValidTokens(tokens, cache')

\* "listed" are the units of the compilation database, "new" the facts of the
\* changed ones.
Index(b, listed, new) ==
  LET replaced == ((stored \cap Of(b)) \ listed) \cup DOMAIN new
      db == Replace(facts, replaced, new)
      derived == {c \in candidates : BuildOf[c[1].unit] # b} \cup Candidates(db, b)
      sites == ChangedSites(candidates, derived)
      overriding == OverrideAffected(db, b, sites, derived)
      affected == AffectedFunctions(db, b, derived,
        TrackedFunctions(b, replaced) \cup
        {x[2] : x \in Summaries(db, DOMAIN new)} \cup overriding)
      solved == Solve(db, b, derived, SelectedFunctions(db, b, derived, affected))
  IN /\ project' = TRUE
     /\ stored' = (stored \ replaced) \cup DOMAIN new
     /\ facts' = db
     /\ candidates' = derived
     /\ solution' = [x \in Summaries(db, Units) |->
          IF x[1] \in Of(b) /\ x[2] \in affected THEN solved[x] ELSE solution[x]]
     /\ RefreshSymbols(db, Mentioned(facts, replaced) \cup Mentioned(db, DOMAIN new))
     /\ RefreshDocuments(db, replaced, DOMAIN new)
     /\ DropCaches(replaced \cup StaleUnits(db, b, sites, overriding))

\* Changed units are among the listed ones, and the others are stored.
IndexRun ==
  \E b \in BuildVariants : \E listed \in SUBSET Of(b) : \E changed \in SUBSET listed :
    /\ listed \ changed \subseteq stored
    /\ \E new \in [changed -> UNION {FactsOf[u] : u \in Units}] :
         /\ \A u \in changed : new[u] \in FactsOf[u]
         /\ Index(b, listed, new)

\* remove_build_variant
RemoveBuild(b) ==
  LET gone == stored \cap Of(b)
      db == Replace(facts, gone, <<>>)
  IN /\ gone # {}
     /\ stored' = stored \ gone /\ facts' = db
     /\ candidates' = {c \in candidates : c[1].unit \notin gone}
     /\ solution' = Restrict(solution, Summaries(db, Units))
     /\ RefreshSymbols(db, Mentioned(facts, gone))
     /\ RefreshDocuments(db, gone, {})
     /\ DropCaches(gone)
     /\ UNCHANGED project

\* publish_full_profile_materialization for a closure of stored units.
PublishToken(closure) ==
  LET generation == Restrict(facts, closure)
  IN /\ closure \subseteq stored
     /\ cache' = [u \in Units |->
          IF u \in closure
          THEN [generation |-> generation,
                seen |-> {c \in candidates : c[1].unit = u}]
          ELSE cache[u]]
     /\ tokens' = ValidTokens(tokens \cup {generation}, cache')
     /\ UNCHANGED <<project, stored, facts, candidates, solution, canonical, documents>>

StoreNext ==
  \/ IndexRun
  \/ \E b \in BuildVariants : RemoveBuild(b)
  \/ \E closure \in Closures : PublishToken(closure)

FactStoreSpec == StoreInit /\ [][StoreNext]_storeVars

-----------------------------------------------------------------------------
(* Properties.                                                             *)

FactStoreTypes ==
  /\ stored \subseteq Units /\ facts \in [Units -> (UNION {FactsOf[u] : u \in Units}) \cup {Absent}]
  /\ DOMAIN solution = Summaries(facts, Units)
  /\ DOMAIN canonical = Mentioned(facts, Units)
  /\ \A g \in tokens : DOMAIN g \subseteq stored

\* Whatever index runs led to the present facts, what is stored of them equals
\* what a store would derive that is filled with them at once: call targets of
\* unchanged callsites, solutions of unchanged callers, preferred variants and
\* search documents (the incremental paths of _refresh_summary_solutions,
\* _refresh_tracked_symbols and the full text search).
IncrementalIsFresh ==
  /\ FactStoreTypes
  /\ candidates = UNION {Candidates(facts, b) : b \in BuildVariants}
  /\ \A b \in BuildVariants :
       LET fresh == Solve(facts, b, candidates, Symbols)
       IN \A x \in DOMAIN fresh : solution[x] = fresh[x]
  /\ \A s \in DOMAIN canonical : canonical[s] = Preferred(facts, s)
  /\ documents = Documents(facts, Units)

\* A token that is still valid stands for deep facts that saw the virtual call
\* targets of today, though the override edges of another unit make them
\* (_invalidate_changed_override_callers), and the facts its closure has today.
TokensSawOverrides ==
  \A g \in tokens : \A u \in DOMAIN g :
    /\ facts[u] = g[u]
    /\ cache[u].seen = {c \in candidates : c[1].unit = u}
=============================================================================
