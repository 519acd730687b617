# cpp-context-engine: TLA+ specifications and proofs

`cpp-context-engine` indexes a C++ project into SQLite. An index run reads a
compilation database, lets a pool of analyzer processes turn translation units
(TUs) into facts, converts and stores them in one transaction per build
variant, and serves search, graph, CFG, data-flow and summary queries to a CLI,
an HTTP API and an MCP server. This directory holds the specifications of its
concurrent, transactional and algorithmic core, the TLC configurations that
check them on small instances, and TLAPS proofs for every value of the constants. Paths below
are relative to `src/src/cpp_context_engine/` unless they name another place.

Check a run with `tlc -config Pipeline.cfg AnalysisPipelineMC.tla` (section 3
names the module of every configuration), and proofs with
`tlapm AnalysisPipelineProofs.tla` or another of the modules of section 5.

## 1. Inventory

| Component | State it keeps | Operations | Hard behaviours | What makes it correct |
|---|---|---|---|---|
| **Analysis pipeline** `ingestion/native.py:362-505, 1246-1567` | futures of two pools, spool registries, two shared budgets, four maps owned by the coordinator, the generator's position | analyze, convert, coordinate, yield, close | five kinds of threads, one condition lock, futures that complete without it, cancellation, failures in any order | order and completeness of the stream, three bounds, everything released, the root cause reported, termination |
| **Index runs and generations** `runtime.py:138`, `ingestion/indexer.py`, `storage/sqlite.py:416-471, 3355-3533` | committed rows per variant and TU, write lock, private generation | open, plan, begin, stage, finalize, commit, publish by link | other processes, edits during the run, crash, cancellation, a missing database | a commit is whole, current, of one profile; a failure leaves nothing; a fresh database appears whole |
| **Deep materialization** `ingestion/deep.py`, `storage/sqlite.py:3535-3787, 6860-7160` | in-flight map, admission lock, materialization tokens and cached rows | coalesce, admit, analyze, overlay, alias, publish | leader and followers with own deadlines, cancellation against commit, concurrent index runs | one computation per key, a token names current facts, failure leaves earlier generations |
| **MCP server state** `mcp/server.py:135-264, 410-536` | runtime, lock, poisoned flag | open, execute, execute cancellable, swap, close | cancellation of a thread that cannot be killed | no operation while a worker is unverified, no closed runtime in use |
| **Analyzer client** `native.py:507-974` | child process, three helper threads, failures, deadlines | probe, analyze, stop, clean up | exit/timeout/cancel/reader races, orphaned pipes | bounded end, the right error, no process left |
| **Protocol decoder, text chunks** `native.py:175-360` | partial record, partial symbol | feed, finish, accept | arbitrary cuts, limits at a boundary | same records for every cut, nothing malformed accepted |
| **Telemetry and idle gate** `native.py:977-1155`, `ingestion/telemetry.py` | bounded event queue, per-slot idle clocks | enqueue, dispatch, close | blocked observer, full queue | failures surface, no worker blocks |
| **Fact batch builder** `native.py:1648-3128`, `ingestion/clang.py` | one TU's tables | build | none concurrent | domain objects are faithful to the facts |
| **Store: migrations** `storage/sqlite.py` | schema version | open, migrate | interruption, two openers | all steps or none |
| **Store: merge, overrides, summaries** `storage/sqlite.py` | origin mappings, candidates, summaries, FTS | replace, refresh, invalidate | one TU changes what others see | same result as indexing from nothing |
| **Interprocedural solver** `analysis/interprocedural.py` | summaries per function | solve | recursion, limits | least fixpoint |
| **Summary input** `summary_input.py` | encoded inputs | encode, select | none | refresh recomputes what changed |
| **Hybrid retrieval** `retrieval/hybrid.py` | none | rank, pack | ties, budgets | order and bound |
| **Embeddings, vectors** `search/` | vectors per content | index missing, search | provider failure, reindex | every vector belongs to its text |
| **Answer service, analysis API, HTTP** `api/` | none | queries | pagination | availability is told truthfully |
| **LLM providers** `llm/` | none | chat | network | - |
| **Configuration, compilation database** `config.py`, `ingestion/compilation_database.py`, `source_paths.py` | none | parse, validate | - | - |
| **CLI** `cli.py` | none | dispatch | - | - |
| **Native companion** `src/native/clang-analyzer` | caches, output buffers | analyze one TU | limits | protocol conformance |
| **Harnesses** `benchmark.py`, `kicad_canary.py`, `tools/` | reports | measure | child processes | - |

How they interact. A CLI, HTTP or MCP call runs `index_project`, which opens a
generation of the store and, for every build variant, runs `ProjectIndexer`.
The indexer compares the compilation database with the committed TUs and hands
`apply_ingestion_batches` a generator. The store *pulls*: inside its write
transaction it takes batch after batch out of `iter_configuration_batches`,
which drives the analyzer processes through the client and the decoder and
reports to the telemetry dispatcher. So the pipeline's caller is the
transaction, and an exception of a worker becomes a rollback. Deep
materialization uses the same pipeline and the same store, but publishes an
overlay. The MCP server puts one lock around all of it.

`PROJECT.json` lists the components with their status, the map from every
definition to the lines it stands for, and the hazards with the properties that
guard against them.

## 2. Modules

### BatchStream (abstract)

What a caller of `iter_configuration_batches` may rely on: batches 0, 1, 2, ...
in selection order and one ending, "complete" only after the last batch.
`StreamSpec` adds that the stream goes on or ends.

### AnalysisPipeline

One run of `iter_configuration_batches`, every thread of it.

| TLA+ | code |
|---|---|
| `analysis`, `conversion` | state of the two futures of a TU |
| `registry`, `spooled`, `spoolUsed` | `_FactRegistry` and the shared `_ResourceBudget` |
| `tracked`, `waiting`, `converting` | keys of `analysis_futures`, `pending_registries`, `conversion_futures` |
| `held`, `nextConfiguration`, `nextConversion`, `failure`, `stopped`, `cancelled` | the variables of the same names |
| `coord` | the coordinator: at the top of its loop, asking the futures, at the test that ends the loop body, gone |
| `unread`, `completedFailures` | the futures this turn of the loop has still to ask, and the failures it has found |
| `consumer`, `delivered`, `outcome` | where the generator is, how many batches it yielded, how it ends |
| `external` | what `request_failure` would report |
| `binary`, `analyzedBy` | the analyzer on disk and the one that produced a TU's facts |

*Atomicity.* The coordinator holds the condition lock for its whole loop body, and
only worker threads step meanwhile: a future completes without the lock. Every
`future.done()` is therefore a step of its own (`CoordinatorLooks`, then
`CoordinatorAsksAnalysis` for the TUs in the map and `CoordinatorAsksConversion`,
both in admission order), followed by what is done with the answers
(`CoordinatorSeesFailure` or `CoordinatorSubmits`) and by the test that ends the
loop (`CoordinatorSettles`). Two things can happen in between.
- TU 0 is asked while it runs and then fails; TU 1 fails before it is asked. The
  coordinator latches the failure of TU 1. The code promises no more than "the
  earliest CDB item among failures observed", and `EarliestFailureWins` says what
  this gives: the latched failure comes before every TU that had failed when the
  turn began to ask. The history variable `failedBefore` keeps these TUs; no guard
  reads it.
- A conversion that this turn submits runs and fails before the test. The
  coordinator then ends without a latched failure, and the consumer learns of it
  from the future itself (`RaiseResult`).

*Abstractions.* The byte and the descriptor budget are acquired and released
together at the points modelled and are one budget, `spoolUsed`. Telemetry is
the failure it may report at any time. A task sees the `cancelled` event only
where the code looks (waiting for the analyzer, reading the spool), so it may
also end normally. The defensive handler of the coordinator (native.py:1502) is
out: nothing in the loop body raises, submission to an executor that runs being
the only call that could. The waits of 0.05 s make every waiting thread one
that may look again at any time.

### ProjectIndex

Index runs of several processes over one database. The version of a TU stands
for the contents of its source and recorded dependencies. A row keeps the
version its facts come from and the version its hashes come from. `disk` and
`lists` are the project's files and compilation databases, which change at any
moment; `exists`, `database`, `writer` are the SQLite file, its committed rows
and its write lock; everything indexed by a process is a local of a run.

| action | code |
|---|---|
| `Open` | `indexing_generation` decides between the shared file and a private one |
| `Plan` | `CompilationDatabase.load`, `translation_unit_states`, `_needs_reindex` |
| `Begin` | `BEGIN IMMEDIATE` and the deletion of replaced and retired TUs |
| `Parse`, `Stage` | an analyzer reads the files; later its batch, hashed by then, is staged |
| `Finalize`, `Commit` | the end of the transaction, then the next variant |
| `Close` | the last cancellation check and `os.link` |
| `Fail`, `Break`, `Crash` | a failure the code runs into, one from outside, the end of the process |
| `Cancel`, `Edit`, `Rewrite`, `ReaderCreates` | the world around |

*Abstractions.* The analyzer's identity and the command hash are compared like
the profile and are left out. The embedding pass (a transaction of its own
after the last variant) is left out, so a failure there is `Break` before
`Close`. A crash while a private generation is staged leaves its directory
behind, as the code says; it is never looked at again.

### DeepMaterialization

Requests for deep facts, made by threads of several processes, while other
processes commit index runs and people edit files. `rows` is what `ProjectIndex`
commits, seen from outside: one action, `Reindex`, stands for a whole run.

| TLA+ | code |
|---|---|
| `inflight`, `admission` | `_inflight` and `_admission` of a process |
| `leader`, `answer` | whose future a follower waits for; what a future holds |
| `closure`, `expanded` | the generation read so far, `_closure`'s `expanded` |
| `parsed` | the versions the analyzers read for an overlay |
| `cache`, `tokens` | tables `deep_tu_cache` and `deep_materializations` |
| `writer` | SQLite's write lock |
| `kind` | which of the three publications ends the request |
| `Start`, `Receive`, `GiveUpWaiting` | coalescing: lead, or follow and get the leader's outcome or one's own deadline |
| `Admit`, `Expand`, `Revalidate`, `ChooseBranch` | admission lock, closure, hashing, full profile or not |
| `Hit`, `Miss`, `Analyze`, `RevalidateAgain` | cache lookup, and the analysis with its second hashing |
| `Prepare`, `TakeGuard`, `Commit` | write lock and recheck; last cancellation check with the guard held; commit |
| `Fail`, `Break`, `Resolve`, `Pop` | exceptions; the future is completed, then its entry removed |

*Abstractions.* A unit's version stands for its source, dependencies and
compile command, which the code hashes and compares together. A unit's files
never return to an earlier version. The analyzer's identity, one more input of
every unit, and closures cut short by `max_tus` are left out; a unit's callees
are those of all its functions, where `_closure` follows single symbols. A
closure is read unit by unit outside a transaction; the two statements that read
one unit and its dependencies are one step. A thread that asks again is
a new call: `Start` reuses its slot only when nobody still holds its old future.

An overlay drops the tokens that other roots have on the same closure, by the
cascade from `deep_tu_cache` (`Valid`, `Deleted`). An alias exists to avoid that
(deep.py:326), but two processes that analyze one closure at once still meet it;
the other root's next request is then an alias again.

### McpServer

`ProjectServerState`: tool calls that come to one runtime. A call is in the event
loop (`at`), its operation in a thread (`worker`); cancelling the call only sets
an event (`stop`) the thread looks at.

| TLA+ | code |
|---|---|
| `holder` | the `anyio.Lock` every tool goes through |
| `Acquire`, `Answer`, `CancelCall` | `execute`, `_execute_cancellable`: lock, `_require_healthy`, result or cancellation |
| `CleanedUp`, `CleanupTimesOut` | the shielded, bounded wait for the thread's event; after it the server is `poisoned` |
| `StartWorker`, `UseRuntime`, `Finish`, `IndexEnds`, `BuildRuntime`, `CheckStop` | the operation in its thread; `index_project` looks at its event three times |
| `replacement`, `Unpublished` | a built runtime that is not published yet, and its closing |
| `CloseServer`, `Drained` | `close`, and the daemon thread that waits for an abandoned worker |

A cancellation that arrives before a thread has taken the call makes anyio drop
it; the event of the operation is then never set, and the server is poisoned
although nothing runs (`worker = "never"`). No property is broken by that, the
server is only lost to later calls.

### AnalyzerClient

`_invoke` with the response checks of `_analyze_stream`: the calling thread
(`caller`), the writer and two reader threads, the process and a descendant that
may hold its pipes inside or outside its process group. Deadline, cleanup time
and cancellation are flags the environment raises (`late`, `cleanupOver`,
`cancelAsked`). `Judged` is the order in which the code decides what to report.
It is a detailed picture of what the pipeline sees as "an analysis ends".

### Telemetry

`_TelemetryDispatcher` and `AnalyzerSlotIdleGate`: producers that never wait, a
bounded queue, a dispatcher thread with an observer that may raise or hang, and
a clock. `idleFor` is a history variable: how long a slot has really been idle
while work waited. The scheduler is reduced to what events say of it.

### AnalyzerProtocol

From bytes to symbols with their texts: the incremental decoder over every cut of
a response into chunks (`Feed`, plain or gzip), its limits, the order of records,
symbol texts sent in pieces, one spool per kind of fact, and their assembly. A
response and its bytes are values of the constant `Deliveries`, where each byte is the
place of its record: whole, or with a record lost,
repeated, exchanged, damaged, or a limit just met or missed. `DecodingIsExact` and
`SymbolTextIsWhole` compare the result with one of the response as a whole;
`ExactlyWholeIsAccepted` says that a response that is whole and within the limits is
never refused, wherever it is cut, and that nothing else is accepted; the run checks
the last two together as `ResponsesAreExact`, of which the first half is proved. A
digest is the text it is of. Left out are the renaming of compact wire keys
(native.py:1692-1771) and two errors that only refuse more: of gzip data that ends
early or goes on behind its end (native.py:322-330), and of a piece above
`_SYMBOL_TEXT_CHUNK_BYTES`.

### FactBatch

`_FactBatchBuilder` and the keys of the store: facts name each other by keys
(`refs`, of which `References` tells what each kind has); the builder gives
identifiers, resolves references, makes its cross checks, and SQLite refuses rows
whose identifiers clash. The analyzer is
arbitrary: two functions' facts with one or two references, keys or indices
changed, or one lost. The code does not compare the owner of a callsite that a
binding or an origin names with the summary's function; `RowsStayInTheirFunction`
is about rows of graphs, flow analyses and summaries and does not claim it.

### SummarySolver

`solve_interprocedural` for one build: Tarjan's components (`Visit`, the only
recursive operator), transfer along calls, fixpoint with its three limits, flows,
early release of values. An effect is its kind, where it comes from, its place in
the frame at hand and the calls it passed. Certainties are left out. The
reference definition is `Within`: effects by chains of calls, without components,
order or limits.

### FactStore

What a committed run leaves. Every action is one transaction. `Index` replaces
units and then does what `apply_ingestion_batches` does to keep everything
derived up to date; `RemoveBuild` and `PublishToken` are the other writers.
`Solve`, `Preferred` and `Documents` say what a store filled at once would
contain, and `IncrementalIsFresh` compares. The solver here is the effects by
reachability; its steps are SummarySolver.

### EmbeddingStore

`index` and `index_missing` as one transaction over batches: the cursor
(`NextRows`), attachments to existing vectors, answers of a provider that may
fail or change its dimension, commit; index runs replace variants in between.

### SchemaMigration

`_migrate`: a database is the version, the tables, views and columns that some
step creates or looks for, and one row of each kind of fact. Each step of 3 to 25
is a function of the database (`V3` ... `V25`), with its conditions as they are in
the code. `Released(v)` is what a release of version v leaves, made step by step, and
`Upgraded(d)` what a single process makes of a database. Processes open the
database, run the steps they planned, fail, or die; `alone` remembers whether two
of them ever migrated at once, or one died within the creation, which
`executescript` commits statement by statement (sqlite.py:697).

### Compositions and TLC instances

`ProcessesMC` puts McpServer, AnalyzerClient and Telemetry, and `StoreMC` the six
modules from SchemaMigration to AnalyzerProtocol, into one run each: the
components share no variable, and the first state chooses the one that moves
(`subject`), so the state space is the sum of theirs and not the product.
`SchemaMigrationMC` and `SummarySolverMC` are for the two violations.
`AnalysisPipelineMC`, `ProjectIndexMC` and `DeepMaterializationMC` are the
instances of the modules they are named for. Components that do share state are
in one module: the generator with its caller, the run with the store, the
request with runs of other processes.

The modules whose names end in `Proofs` hold the theorems (section 5).

Operators marked "Mutant" are deliberately wrong variants of the definition after
them. The definitions never use them: they are there so that each property can be
seen to fail when the code has the bug it is about.

## 3. Runs

| Run (module) | Instance | States | Shows |
|---|---|---|---|
| `Pipeline` (AnalysisPipelineMC) | 3 TUs, 2 analyzers, 2 registries, 2 domain batches, spool budget of 1, every failure, one replaced binary | 341,377 | bounds, nothing left open after any exit, root cause reported, of the failures observed the earliest, gapless sound output, no admission after cancellation, one analyzer per complete stream, an end in every case, refinement of `BatchStream` |
| `PipelineSwapBack` (AnalysisPipelineMC) | two replacements | *violated* | finding 1 |
| `IndexConcurrent` (ProjectIndexMC) | 2 processes, 2 TUs, 1 variant, edits, failures, crashes | 169,955 | commits are current, a private generation never replaces a published database, a failed fresh run leaves nothing |
| `IndexSingle` (ProjectIndexMC) | 1 process, 2 variants, 2 profiles, edits, one rewritten database | 94,920 | stale TUs retire, profile transitions are complete, a fresh database appears with all variants or empty, runs end |
| `IndexHashRace` (ProjectIndexMC) | edits between analysis and hashing | *violated* | finding 2 |
| `IndexCancelled` (ProjectIndexMC) | 2 variants, existing database | *violated* | finding 3 |
| `DeepRequests` (DeepMaterializationMC) | two scenarios: 2 processes with edits and index runs of the navigation profile; 1 process, 2 requests for symbols of one TU, both profiles | 128,416 | one computation at a time, a token names the committed version of each TU with facts of that version, a success is never a torn closure, nothing is published after a cancellation, every request ends |
| `DeepFullProfile` (DeepMaterializationMC) | index runs with the full profile and edits | *violated* | finding 4 |
| `Processes` (ProcessesMC) | 3 tool calls; a response of up to 5 records; 2 slots, 2 TUs, a queue of 2 events, a clock of 3 | 702,620 | workers exclude each other, runtimes are neither closed in use nor left open; a success is a whole response, no process or thread is left unreported, blame is just; no event is lost silently, a long idle slot is noticed; calls and runs end |
| `Store` (StoreMC) | databases of 6 releases opened by 2 processes; 4 TUs of 2 builds; 3 symbol variants; programs of 3 functions; facts of 2 functions; responses of 11 records | 306,460 | section 2: incremental equals fresh, exact decoding, exactly the whole responses accepted, whole summaries, complete embedding passes, migrations that keep facts and can be resumed |
| `MigrationRace` (SchemaMigrationMC) | 2 processes, a database of version 16, no crash | *violated* | finding 5 |
| `SummaryOmissions` (SummarySolverMC) | chains of three functions | *violated* | finding 6 |

*Why the bounds suffice.* In the pipeline every interesting case needs at most
two TUs in each stage: one behind the other, out of order. With three TUs and two
registries one TU waits for admission while the others are in any two stages, and
a spool budget below the number of registries makes exhaustion happen. For the
index, two TUs separate "this one changed, that one did not", two versions
separate old from new, and two processes are enough for every race on the lock, on
the file's name and between planning and committing. For deep materialization,
two requests make a leader with a follower, two leaders that share a closure, or
two publishers of different processes; two TUs of which one calls the other until
it is edited make a closure that can tear, grow stale and shrink. Three tool calls
are one that is abandoned, one that waits for the lock meanwhile and one that
comes later. Five records are the shortest response with a symbol and its chunk.
A queue of two events is full while one event is in hand. Three functions make
every shape of component, a cycle that another cycle calls included. The four TUs
of `Store` declare, define, override and call four symbols, so that an override
in one TU changes a virtual call in another whose caller is in a third, and one
TU has the same symbol in another build. For migrations, 0 and 1 are creation, 7,
10 and 16 lie before steps whose conditions differ by what older releases left,
and 26 is a newer release. Two openings are enough because `CanBeOpened` itself
computes what a further opening would do.

*Bounds of the model.* `MaxFacts` (spool units per TU), `MaxSwaps` (binary
replacements), `MaxVersion` (edits per TU), `MaxLists` (rewritten compilation
databases), `MaxRecords` (records an analyzer writes), `MaxTime` (the clock),
`MaxOpens` (openings of a database). `HashRace`, `Failing` and `MayCrash` switch
groups of environment steps. `IndexConcurrent` and `IndexSingle` set
`HashRace = FALSE`: they show what holds when no file changes between its
analysis and its hashing, and `IndexHashRace` what that assumption hides.
`IndexSingle` has one process because two overlapping runs with different
profiles can leave rows of both (each compares before the other commits); the
documentation speaks of one transition at a time. `IndexConcurrent` rewrites no
compilation database: two overlapping runs that loaded different lists replace
units the other one committed, and which list counts is then undefined. The races
of `DeepRequests` use the navigation profile only, because a full-profile
publication among index runs is finding 4; its requests of one process use both,
without edits.

*Deadlock* is checked in the runs of the pipeline, the index and deep requests;
the pipeline's end is an explicit self-loop (`Terminated`). The components of
`Processes`, `Store` and of the last two violations come to an end (all calls
answered, a batch stored, a response read), so these say `CHECK_DEADLOCK FALSE`;
in `Processes` the liveness property does what the check for deadlock would.

## 4. Fairness

Pipeline: weak fairness for every worker (a pool thread runs, and an analyzer
ends by itself or by its timeout) and for the coordinator (it waits at most
0.05 s). Strong fairness for the generator and for its caller: both compete
with the coordinator for the condition lock, which the coordinator gives up in
every loop, and without strong fairness it could be free infinitely often and
never be taken. The caller's fairness says that `apply_ingestion_batches` asks
for the next batch or closes the generator, which its `finally` (indexer.py:151)
does. The environment has none: nothing *must* fail or be cancelled.

Deep materialization: weak fairness for what a leader computes and for a
follower, which looks every 0.05 s; strong fairness for `Admit`, because a leader
polls the admission lock and others may take it in between. That relies on the
lock being given to every waiting thread in the end; without it a leader still
ends by its deadline (`Break`), for which no fairness is assumed.

Index: weak fairness of a run's own steps, `Fail` included, which covers only
what the code runs into by itself (a cancellation it sees, a busy database, a
refused link). `Break`, `Crash` and the world have no fairness.

Processes: weak fairness for the event loop and for the thread of a call that is
not cancelled; an operation that is cancelled may never end, which is why its
wait is bounded. For the analyzer client, weak fairness of the calling thread and
of the two clocks the code sets (deadline, two seconds of cleanup); none for the
analyzer, its pipes or the helper threads, which may all hang. `CallsAndRunsEnd`
needs no more. Telemetry and the components of
`Store` have safety properties only.

## 5. Proofs

The theorems hold for every value of the constants their modules assume:

| Module | Values |
|---|---|
| `AnalysisPipelineProofs` | any number of TUs and faults, positive bounds with `Workers <= Registries` and `Domain <= Registries`, which `NativeClangIngestor.__init__`, native.py:1175-1208, enforces |
| `ProjectIndexProofs` | any processes, a nonempty set of TUs, any number of variants, edits and rewritten compilation databases, any profiles |
| `DeepMaterializationProofs` | any requests, processes, symbols, TUs, call graphs and versions |
| `ProcessesProofs` | server: any set of calls (`McpAssumption` only tells the names of runtimes apart); client: responses of any length; telemetry: any finite set of slots, positive numbers of units, registries, queue places and units of time |
| `StoreProofs` | fact batch: any set of finite streams whose facts have only references of their kind, and those of the fields `graph`, `analysis` and `summary` that it has (`_string`, native.py:2977, refuses a fact without); embeddings: any finite set of rows, any texts, namespaces, vectors and batch sizes (vector.py:48 refuses a batch size of 0) |
| `AnalyzerProtocolProofs` | any responses, any bytes of their records and newlines, any limits; texts are sequences of numbers |
| `FactStoreProofs` | any finite sets of units, symbols and builds; any versions of a unit, whose overrides, calls and bodies name only those symbols |
| `SchemaMigrationProofs` | any processes, any number of openings, a database of any release up to 25, or of a newer one, with whatever facts and vectors it left |

| Theorem | Statement |
|---|---|
| `TypeCorrect` | `Spec => []TypeOK` |
| `RootCauses` | `Spec => []RootCauseReported` |
| `NothingAdmittedAfterCancel` | `Spec => NoAdmissionAfterCancel` |
| `BoundedAdmission` | `Spec => []AdmissionBounds` |
| `SoundPrefix` | `Spec => []OnlySoundPrefix` |
| `EarliestFailureIsKept` | `Spec => EarliestFailureWins` |
| `ImplementsStreamSafety` | `Spec => Stream!StreamSafe` |
| `NothingIsLeaked` | `Spec => []NothingLeaks` |
| `OneAnalyzer` | `MaxSwaps <= 1`: `Spec => []CompleteMeansOneAnalyzer` |
| `FreshRunsFailCleanly` | `Spec => []FailedFreshRunLeavesNothing` |
| `WriterAloneChanges` | `Spec => OnlyWriterChanges` |
| `AppearsComplete` | `Spec => AppearsWhole` |
| `CommitIsTheList` | `SingleProcess`: `Spec => CommitCoversList` |
| `CommitIsUpToDate` | `HashRace = FALSE`, and `SingleProcess` or `MaxLists = 0`: `Spec => CommitIsCurrent` |
| `CoalescingIsSafe` | `Spec => []OneComputation` |
| `CancelledPublishNothing` | `Spec => NoCommitAfterCancel` |
| `TokensStayExact` | `Steady`: `Spec => []TokensAreExact` |
| `ResultsAreCurrent` | `Steady`: `Spec => ResultIsCurrent` |
| `SuccessTellsTheWhole` | `ClientSpec => []SuccessIsWhole` |
| `RunsLeaveNothing` | `ClientSpec => []NothingLeftBehind` |
| `BlameIsAlwaysJust` | `ClientSpec => []BlameIsJust` |
| `RowsAreOfOneFunction` | `BatchSpec => []RowsStayInTheirFunction` |
| `VectorsAlwaysFit` | `EmbeddingSpec => []VectorsFit` |
| `PassesAreComplete` | `EmbeddingSpec => []PassIsComplete` |
| `OneWorkerAtATime` | `McpSpec => []WorkersExclude` |
| `NoUseAfterClose` | `McpSpec => []RuntimesInUse` |
| `EveryRuntimeIsClosed` | `McpSpec => []NothingOpenLeft` |
| `EventsAreDelivered` | `TelemetrySpec => []DeliveredWhole` |
| `IdleSlotsAreNoticed` | `TelemetrySpec => []LongIdleIsNoticed` |
| `EveryCutIsDecodedExactly` | `ProtocolSpec => []DecodingIsExact` |
| `TextsAreThoseDeclared` | `ProtocolSpec => []SymbolTextIsWhole` |
| `IncrementalMatchesFresh` | `FactStoreSpec => []IncrementalIsFresh` |
| `TokensAreOfToday` | `FactStoreSpec => []TokensSawOverrides` |
| `NextOpeningSucceeds` | `SchemaSpec => []CanBeOpenedAlone` |
| `OldFactsStayMarked` | `SchemaSpec => []OldFactsAreMarked` |
| `MigrationLosesNothing` | `SchemaSpec => MigrationKeepsFacts` |

*Hypotheses.* Five theorems have one, and in each case the property is false
without it, for a reason the code has:
- `MaxSwaps <= 1`: two replacements of the analyzer are finding 1.
- `HashRace = FALSE`: a file that changes between its analysis and its hashing is
  finding 2.
- `SingleProcess` (no two indexing processes), for `CommitCoversList`: a run that
  compared before another one committed skips or keeps what it saw then, so that
  profiles and lists of both may be left. The documentation speaks of one
  transition at a time. `CommitIsCurrent` survives overlapping runs as long as the
  compilation database stays (`MaxLists = 0`).
- `Steady` (no index run with the full profile, or no edits): finding 4.

*Argument for the pipeline.* None of its properties is inductive as it stands.
- `RootInv` says that the cancelled event is set exactly when the pipeline has
  failed, which ends the coordinator, or the consumer has stopped it, which ends
  the consumer's loop and cannot happen while the coordinator has the lock; and
  that only the event makes a task fail with, or a future hold, a cancellation.
  The consumer looks at a future only while there is no failure, so it cannot pick
  up an echo.
- `PrefixInv` is a window. TUs below `Released` (the batches the caller has given
  back) are gone; `converting` is exactly `Released .. nextConversion - 1`; what is
  tracked or waiting lies at or above `nextConversion`; `held` is the width of
  `Released .. nextConfiguration - 1`. The bounds are cardinalities of intervals
  that fit into the window, and the lemma `Submitted` says what one admission adds.
- `ScanInv`: until the pipeline ends, a failed analysis is in `tracked` or was found
  by this turn's questions; and a TU that had failed when the turn began is still to
  be asked or was found. A TU whose analysis is in the map has no conversion yet, and
  a failed conversion lies in `converting` by `PrefixInv`, so each question notes the
  failure there is. When all are asked, the earliest of what was found is no later than
  any of `failedBefore`. A TU that fails after it was asked may come before it.
- `OutcomeInv`: the outcome is "complete" only from the check after the last
  batch, and nothing is delivered after it.

*Argument for the end of a run.* The second half of `AnalysisPipelineProofs` goes on
from there.
- The budget is the sum of what the registries hold (`SpoolInv`). A registry is
  open only while its analyzer runs or while the coordinator or a conversion still
  knows it (`OpenInv`). Hence whoever closes what is tracked, waiting and
  converting closes everything: `QuietInv` follows the generator's exit, where the
  coordinator goes first, then the tasks, then the registries.
- A sum over all TUs that changes in one place changes by the difference
  (`TotalOfChange`). The sum is a recursive function, about which the prover has
  only its defining equation; the lemmas go through the least index at which two
  running totals would differ from what is claimed.
- `BinaryInv`: with at most one replacement the analyzer that is there at the last
  check is the first one only if it was there all the time.

The refinement is proved for the safety part of the stream: each step of
`Next` is a step of `StreamNext` or a stutter under the mapping `emitted <-
delivered`, `ending <- Ending`.

*Argument for the index.* `StoreInv` is about exclusion: the write lock belongs to
the one process with a transaction on the shared file (`LockInv`), a missing file
is an empty database on which nobody works (`PublishInv`), and a private run has
published nothing before it ends well (`FreshInv`). `IndexInv` adds what a run has:
its open transaction contains the listed TUs but those still to be staged, with the
run's profile (`WorkInv`); what it plans to skip is there already (`SkippedInv`), as
long as nobody else writes that database; the private database contains the
finished variants, whole (`DoneInv`). A commit has nothing left to stage and
therefore covers the list. `CurrentInv` adds versions: rows have the hashes of what
was analyzed (`SoundRows`), what is analyzed and not yet hashed is what the file
holds (`HashInv`, where `HashRace` enters), so a TU that was skipped because its
hash matched, and one that was staged, are as new as the run saw (`NewerInv`).

*Argument for deep materialization.* `RequestInv` ties four things together: a
leader is the entry of its key and an entry is a leader of that key, and whoever
waits, waits for one that leads or has answered (`FutureInv`); who computes holds
the admission lock (`AdmissionInv`); the write lock is that of a publication, whose
guard keeps a cancellation out until it has committed (`WriterInv`); and each stage
has what the next one uses (`ComputeInv`). Exclusion and `NoCommitAfterCancel`
follow. For tokens, `VersionInv` orders versions: committed <= file, read <=
analyzed <= file, so that a version found equal before and after the analysis was
equal throughout. What the recheck under the write lock has found stays true until
the lock is released (`CheckedInv`), since only its holder writes rows. `CacheInv`
and `TokensAreExact` then survive a publication, which replaces the whole of a
closure, and an index run, which drops every token over a changed TU.

*Argument for the analyzer client.* `ClientInv` relates the reading thread to the
process. A reader that has ended without a failure has read everything of a process
that has exited (`ReadInv`); the state of the response, the number of records read
and the facts handed on belong together (`ResponseInv`); the caller ends only after
the process and its group, and with its threads or a report of the cleanup
(`EndInv`). Success adds exit code and threads (`ToldInv`), and so is whole. Blame
needs the order of causes: a process is killed only for a failure of a reader or a
reason of the caller (`KillInv`), so that an exit by a signal is never taken for
one of the analyzer's own, and a recorded failure that is not a limit is due to a
response that is wrong already (`PlaceInv`, `GuiltInv`): more records cannot mend
it, by induction over the records.

*Argument for the fact batch.* The invariant is short (`StoredInv`: what is stored are
the rows of an accepted stream without a clash), the work is to see what acceptance
means for any stream. Keys may come several times and only the last fact of a key
counts, which exists because positions have a maximum (`LatestFact`); the fact a
reference stands for is itself kept, and the store's keys make its row the only one
under its identifier (`Target`, `FoundIs`). `FunctionOf` says which function a fact
belongs to, through its own graph or through its summary. The checks compare
identifiers of graphs for some references and of analyses for others; that an
analysis belongs to the graph its locations, accesses, evidence and summaries name is
what joins the two (`AnalyzedFunction`). `TargetFunction` then goes through the kinds
and their references, and `RowFunction` reads the same function from the rows.

*Argument for embeddings.* `Fits` is one formula about a set of attachments and a set
of vectors; it holds of the committed ones (`CommittedInv`) and of those the open
transaction has (`PassInv`), which asks its provider only for texts without a vector
and stores an answer only if all dimensions of the namespace are one. For
completeness, `CursorInv` says that a variant without a vector comes after the
cursor or is in hand. That survives a batch because the cursor's order is strict and
total, so the last row of a batch exists and whatever is left comes after it
(`FirstAndLast`, `LeadingRows`, from an element with the fewest before it).

*Argument for the server.* `McpInv` joins six facts. The lock belongs to the call
that is handled, and a poisoned server handles none (`LockInv`); a thread runs for
the handled call or is the unverified one, with its event set (`WorkerInv`). That
gives exclusion. A runtime in use is the current one or the one left to the daemon
thread (`UseInv`); a built one is its call's until published or closed, and the
current one is nobody's (`BuiltInv`); whatever else is open has an owner that is
handled or whose thread runs, and will look at its event (`OpenInv`); the server
goes down after its calls (`ServerInv`). Every action keeps each of them.

*Argument for telemetry.* Without a failure, the events seen, the one in hand and
those queued are 1, 2, ..., `sequence` in this order (`OrderInv`); the dispatcher
goes only from an empty queue that nobody can fill any more (`CloseInv`), and
`close` records a failure unless it is gone. Together they say that everything was
delivered. `GateInv` relates the gate's `idle_since` to the history variable: they
agree as long as the gate is on, no interval is longer than the limit after a look
of the coordinator, and there is a look in every unit of time.

*Argument for the decoder.* The decoder, the split into lines, the pieces of a symbol and
the symbols of a batch are four recursive functions over sequences; that such a
function exists is shown once for all four (`ValuesExist`), by the least step at which
it would not. `ByteFollows` is the heart: a reader without a failure that is where the
output is split after n bytes is so after n + 1, or fails. Hence a chunk
(`ReadFollows`), and hence any cut into chunks; a reader that has failed keeps lines
that are a prefix (`LinesStay`). For the texts, `Collecting` says that the fields that
have come are those declared and no longer due, with the declared text, because only
the declared text ends a field. What an accepted symbol gets does therefore not depend
on which pieces the spool holds (`AssembledIsWhole`).

*Argument for the fact store.* The invariant (`StoreInv`) says that everything derived
is what deriving it anew from the rows gives, so each transaction has to be shown to
do as much work as its change needs, and not too little.
- Summaries: those outside the affected functions are kept. The lemmas `Agree` and
  `Covers` give the reason: the affected set is closed under the callers of what
  changed, so a function outside it reaches only bodies that were not replaced, and
  has the same effects in the old program and in the new one. `Reached` is the least
  closed set; that it is one needs the reaching function to become stationary, which
  it does since it can grow at most as often as there are pairs.
- Preferred variants: the order of candidates is total on the finite set of a
  symbol's variants, so the best one exists, and a variant that no replaced unit
  held or holds keeps its place.
- Tokens: one is dropped if its closure contains a unit that changed or one whose
  virtual calls the new overrides resolve differently (`Stale`); what is left saw
  the overrides of today.

*Argument for the migrations.* There is one lemma for each step, `V3Does` to
`V25Does`, and all say the same of it (`Does`); `StepCommits` puts them together for
the transactions that join two steps.
- A step that commits leaves a database with the facts of the one it found
  (`Keeps`), wherever in the chain it runs, if the marks it relies on are set. Steps 3, 8 and 12 mark for good what an
  older release could not know: rows without a build, rows without summaries,
  vectors without an endpoint (`Scopes`, `Outdates`, `Names`). What a process has
  still to do tells which of these are done (`MarkInv`), whoever else migrates.
  `OldFactsStayMarked` and `MigrationLosesNothing` need no more, and so hold for
  processes that migrate at once.
- Success needs the order. `Whole` says which tables and columns the steps to come
  find, and which they must not find (`Since`); a step at its turn (`Due`) succeeds
  on a whole database and leaves a whole one, unless vectors are damaged. A process
  alone goes on from where the database is (`OnTheWay`), a failure or a crash leaves
  the database where it was, and `UpgradeSucceeds` follows what the next opening does
  from version to version. Two processes at once break `OnTheWay` (finding 5), and a
  crash between the statements of the creation leaves `HalfMade`: `alone` excludes
  the two.
- That the databases of all releases are whole is proved in the same way, from the
  empty one (`ReleasedInOrder`, `FilledInOrder`).

*Only model-checked.* Liveness (`Terminates`, `RunsEnd`, `RequestsEnd`,
`CallsAndRunsEnd`, and the liveness part of `ImplementsStream`), because fairness
and ENABLED are outside the prover. Of the components of `Store` only
`SummarySolver` (`SummariesAreWhole`), whose components of a call graph are found by
a recursive operator, as in the code, which the prover does not accept, and
`ExactlyWholeIsAccepted` of the protocol, whose definition of a whole response is a
statement about the whole sequence of its records.

## 6. Findings

1. **A replaced analyzer can go unnoticed** (`PipelineSwapBack`). native.py:1539
   says a replacement must abort the generation; the code compares the first
   and the last identity only. Put back in time, the other binary's facts are
   committed as the first one's.
2. **An edit between analysis and hashing is never indexed** (`IndexHashRace`).
   The hashes of native.py:1827-1833 are taken when the facts are converted. The
   committed hashes match the file, the facts do not, and `_needs_reindex`
   skips the TU until it changes again.
3. **A failed run may have published earlier variants** (`IndexCancelled`).
   README.md:92-94 says an error or a cancellation rolls the entire run back;
   with several build variants each one commits on its own, except when the
   database is new. `FailedFreshRunLeavesNothing` is what does hold.

4. **A full-profile token can name superseded versions** (`DeepFullProfile`).
   `publish_full_profile_materialization` rechecks profile, analyzer and coverage
   under the write lock, not the contents the closure was read with. An index
   run of another process in between leaves old identities in `deep_tu_cache`,
   over newer facts. `apply_deep_overlay` compares everything.
5. **Two processes that migrate at once can ruin a database** (`MigrationRace`).
   `_migrate` reads `user_version` outside every transaction and never again. A
   process that planned from version 16 repeats step 17 after another one has
   reached 19, which sets the version back over newer tables; step 18 then fails
   in every later opening.
6. **Effects on dereferenced places are dropped silently** (`SummaryOmissions`).
   `_propagate_effect` returns nothing for a place that is neither a parameter, a
   global nor a field (interprocedural.py:605), and no reason is recorded; the
   native analyzer does emit such effects (main.cpp:2365-2368). The caller's
   summary stays complete, against "an omitted fact always reduces
   completeness" (interprocedural.py:132).

## 7. Plan

What is next, in this order.

1. Hybrid retrieval with integer scores: order of results and bounded packing.
2. The chunk and record writer of the native analyzer as the partner of
   AnalyzerProtocol.

## 8. Not modelled, and why

Hybrid retrieval is a function of real-valued scores and text lengths without
state. The answer service, the analysis API, the HTTP layer and the command line
read one committed generation and format it; LLM providers are I/O. The parsing
of configuration and compilation databases is sequential translation without
state. Vector arithmetic and search are out of TLC's reach. The native analyzer
is seen from outside, by its process and its responses; what it computes is a walk
over Clang's structures, which are external. The harnesses measure the program
and are not part of what it serves. Within modelled components, what is left out
is named in section 2: value ranges and texts of single facts, compact wire keys,
certainties of effects, indexes of the schema, the contents of telemetry
snapshots, the probe of the analyzer executable, and read queries.
