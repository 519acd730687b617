----------------------------- MODULE ProjectIndex -----------------------------
(***************************************************************************)
(* Index runs over one database: runtime.index_project, SQLiteStore.       *)
(* indexing_generation, ProjectIndexer.index and SQLiteStore.              *)
(* apply_ingestion_batches, run by several processes (a CLI and an MCP     *)
(* server, say) while the project is being edited.                         *)
(*                                                                         *)
(* A run takes its build variants one by one: it loads the compilation     *)
(* database, compares it with the committed units, opens one write         *)
(* transaction, stages the batch of every changed unit and commits.  When  *)
(* the database file is missing the whole run happens in a private one     *)
(* that os.link publishes at the end.                                      *)
(*                                                                         *)
(* Data.  The version of a unit stands for the contents of its source and  *)
(* its recorded dependencies.  A row keeps the version its facts were      *)
(* computed from and the version its hashes were computed from: the        *)
(* analyzer parses first, the batch builder hashes the files later.        *)
(* The analyzer's identity, which is compared like the profile, and the    *)
(* embeddings, which are a transaction of their own, are left out.         *)
(***************************************************************************)
EXTENDS Integers, FiniteSets

CONSTANTS
  Procs,        \* index runs that may overlap
  Units,        \* translation units a compilation database may list
  Variants,     \* number of configured build variants
  Profiles,     \* subset of {"navigation", "full"}
  MaxVersion,   \* bound of the model: edits per unit, plus one
  MaxLists,     \* bound of the model: compilation databases written
  HashRace,     \* may a file change between its analysis and its hashing?
  Failing       \* may runs be cancelled, fail or crash?

\* An empty compilation database is refused (compilation_database.py:86).
ASSUME ProjectIndexAssumption ==
  /\ Variants \in Nat \ {0} /\ MaxVersion \in Nat \ {0} /\ MaxLists \in Nat
  /\ Profiles \subseteq {"navigation", "full"}
  /\ HashRace \in BOOLEAN /\ Failing \in BOOLEAN
  /\ IsFiniteSet(Units) /\ Units # {} /\ "nobody" \notin Procs

Builds == 1 .. Variants
Versions == 0 .. MaxVersion
Row == [facts : Versions, hash : Versions, profile : Profiles \cup {"none"}]
NoRow == [facts |-> 0, hash |-> 0, profile |-> "none"]
Rows == [Units -> Row]
EmptyDatabase == [b \in Builds |-> [u \in Units |-> NoRow]]
Present(rows) == {u \in Units : rows[u] # NoRow}

VARIABLES
  disk,       \* version of every unit's files
  lists,      \* compilation database of every build, and how often rewritten
  exists,     \* does the database file exist?
  database,   \* its committed rows
  writer,     \* holder of its write lock, or "nobody"
  pc,         \* where every run is
  mode,       \* "shared" or "private": which database the run writes
  private,    \* rows of the run's private database
  profile,    \* index profile of the run
  build,      \* build variant being indexed
  current,    \* units of the compilation databases the run has loaded
  seen,       \* disk at the moment of the incremental check
  remaining,  \* changed units whose batch is not staged yet
  parsed,     \* version every unit's analysis read, 0 if not analyzed
  work,       \* rows of the open transaction
  cancel,     \* the run's cancellation event
  wrote,      \* has the run changed the database others see?
  result      \* how the last run of the process ended

world == <<disk, lists>>
store == <<exists, database, writer>>
locals == <<mode, private, profile, build, current, seen, remaining,
            parsed, work, wrote, result>>
vars == <<world, store, pc, locals, cancel>>

Init ==
  /\ disk = [u \in Units |-> 1]
  /\ lists = [rewritten |-> 0, units |-> [b \in Builds |-> Units]]
  /\ exists = FALSE /\ database = EmptyDatabase /\ writer = "nobody"
  /\ pc = [p \in Procs |-> "idle"]
  /\ mode = [p \in Procs |-> "shared"]
  /\ private = [p \in Procs |-> EmptyDatabase]
  /\ profile \in [Procs -> Profiles]
  /\ build = [p \in Procs |-> 1]
  /\ current = [p \in Procs |-> [b \in Builds |-> {}]]
  /\ seen = [p \in Procs |-> [u \in Units |-> 0]]
  /\ remaining = [p \in Procs |-> {}]
  /\ parsed = [p \in Procs |-> [u \in Units |-> 0]]
  /\ work = [p \in Procs |-> [u \in Units |-> NoRow]]
  /\ cancel = [p \in Procs |-> FALSE]
  /\ wrote = [p \in Procs |-> FALSE]
  /\ result = [p \in Procs |-> "none"]

\* Assign f[p].
Set(f, p, value) == [f EXCEPT ![p] = value]

\* The database the run reads and writes.
Own(p) == IF mode[p] = "shared" THEN database ELSE private[p]

-----------------------------------------------------------------------------
(* One index run.                                                          *)

\* indexing_generation: an existing file is opened, a missing one is staged
\* privately.  The process may ask for any profile.
Open(p) ==
  /\ pc[p] = "idle"
  /\ \E f \in Profiles : profile' = Set(profile, p, f)
  /\ pc' = Set(pc, p, "plan")
  /\ mode' = Set(mode, p, IF exists THEN "shared" ELSE "private")
  /\ private' = Set(private, p, EmptyDatabase)
  /\ build' = Set(build, p, 1)
  /\ wrote' = Set(wrote, p, FALSE)
  /\ result' = Set(result, p, "none")
  /\ UNCHANGED <<world, store, current, seen, remaining, parsed, work, cancel>>

\* Mutant: the files are not compared.
NeedsReindexIgnoringFiles(p, u, row) == row = NoRow \/ row.profile # profile[p]

\* _needs_reindex: no row, another profile, or other file contents.
NeedsReindex(p, u, row) ==
  \/ row = NoRow
  \/ row.profile # profile[p]
  \/ row.hash # disk[u]

\* ProjectIndexer.index up to apply_ingestion_batches, outside any transaction.
Plan(p) ==
  /\ pc[p] = "plan" /\ ~cancel[p]
  /\ LET b == build[p]
         rows == Own(p)[b]
     IN /\ current' = [current EXCEPT ![p][b] = lists.units[b]]
        /\ remaining' = Set(remaining, p,
                            {u \in lists.units[b] : NeedsReindex(p, u, rows[u])})
  /\ seen' = Set(seen, p, disk)
  /\ parsed' = Set(parsed, p, [u \in Units |-> 0])
  /\ pc' = Set(pc, p, "begin")
  /\ UNCHANGED <<world, store, mode, private, profile, build, work, wrote, result, cancel>>

\* Mutant: units that left the compilation database are kept.
ReplacedWithoutStale(p) == remaining[p]

\* Units that are committed now but no longer listed, and every changed unit.
Replaced(p) == (Present(Own(p)[build[p]]) \ current[p][build[p]]) \cup remaining[p]

\* BEGIN IMMEDIATE; what will be replaced is deleted at once.
Begin(p) ==
  /\ pc[p] = "begin" /\ ~cancel[p]
  /\ IF mode[p] = "shared" THEN writer = "nobody" /\ writer' = p ELSE UNCHANGED writer
  /\ work' = Set(work, p, [u \in Units |-> IF u \in Replaced(p) THEN NoRow
                                           ELSE Own(p)[build[p]][u]])
  /\ pc' = Set(pc, p, "stream")
  /\ UNCHANGED <<world, exists, database, mode, private, profile, build, current, seen,
                 remaining, parsed, wrote, result, cancel>>

\* The batch stream runs inside the transaction: an analyzer reads the files ...
Parse(p, u) ==
  /\ pc[p] = "stream" /\ u \in remaining[p] /\ parsed[p][u] = 0
  /\ parsed' = [parsed EXCEPT ![p][u] = disk[u]]
  /\ UNCHANGED <<world, store, pc, mode, private, profile, build, current,
                 seen, remaining, work, wrote, result, cancel>>

\* ... and its converted batch, with the hashes of the files as they are by
\* then, is staged.  (Nothing reads the files between hashing and staging.)
Stage(p, u) ==
  /\ pc[p] = "stream" /\ ~cancel[p] /\ u \in remaining[p] /\ parsed[p][u] # 0
  /\ work' = [work EXCEPT ![p][u] =
                [facts |-> parsed[p][u], hash |-> disk[u], profile |-> profile[p]]]
  /\ remaining' = [remaining EXCEPT ![p] = @ \ {u}]
  /\ UNCHANGED <<world, store, pc, mode, private, profile, build, current,
                 seen, parsed, wrote, result, cancel>>

\* Global finalization and the last cancellation check of the transaction.
Finalize(p) ==
  /\ pc[p] = "stream" /\ remaining[p] = {} /\ ~cancel[p]
  /\ pc' = Set(pc, p, "commit")
  /\ UNCHANGED <<world, store, locals, cancel>>

Release(p) == writer' = IF writer = p THEN "nobody" ELSE writer

\* The locals of a transaction that is over.
Forget(p) ==
  /\ seen' = Set(seen, p, [u \in Units |-> 0])
  /\ parsed' = Set(parsed, p, [u \in Units |-> 0])
  /\ remaining' = Set(remaining, p, {})
  /\ work' = Set(work, p, [u \in Units |-> NoRow])

\* The rows become those of the database the run writes.
\* Mutant: a missing database is built in place.
InstallInPlace(p) ==
  /\ database' = [database EXCEPT ![build[p]] = work[p]]
  /\ private' = [private EXCEPT ![p][build[p]] = work[p]]
  /\ wrote' = Set(wrote, p, TRUE)
Install(p) ==
  IF mode[p] = "shared"
  THEN /\ database' = [database EXCEPT ![build[p]] = work[p]]
       /\ wrote' = Set(wrote, p, TRUE)
       /\ UNCHANGED private
  ELSE /\ private' = [private EXCEPT ![p][build[p]] = work[p]]
       /\ UNCHANGED <<database, wrote>>

\* Mutant: only the first build variant is indexed.
OnlyFirstBuild(p) == FALSE
MoreBuilds(p) == build[p] < Variants

\* COMMIT; then the next build variant, publication, or the end of the run.
Commit(p) ==
  /\ pc[p] = "commit"
  /\ Install(p)
  /\ Release(p)
  /\ IF MoreBuilds(p)
     THEN build' = Set(build, p, build[p] + 1) /\ pc' = Set(pc, p, "plan")
     ELSE UNCHANGED build /\ pc' = Set(pc, p, "close")
  /\ Forget(p)
  /\ UNCHANGED <<world, exists, mode, profile, current, result, cancel>>

\* The run is over and its locals are gone.
End(p, how) ==
  /\ pc' = Set(pc, p, "idle")
  /\ result' = Set(result, p, how)
  /\ cancel' = Set(cancel, p, FALSE)
  /\ private' = Set(private, p, EmptyDatabase)
  /\ build' = Set(build, p, 1)
  /\ current' = Set(current, p, [b \in Builds |-> {}])
  /\ Forget(p)

\* os.link refuses a name another process has taken meanwhile.
\* Mutant: the name is overwritten (os.replace).
Overwrites(p) == FALSE
NameTaken(p) == mode[p] = "private" /\ exists

\* The end of the run: the last cancellation check, then the private
\* generation is linked under the database's name if that is still free.
Close(p) ==
  /\ pc[p] = "close" /\ ~cancel[p]
  /\ ~NameTaken(p)
  /\ exists' = TRUE
  /\ IF mode[p] = "private"
     THEN database' = private[p] /\ wrote' = Set(wrote, p, TRUE)
     ELSE UNCHANGED <<database, wrote>>
  /\ End(p, "ok")
  /\ UNCHANGED <<world, writer, mode, profile>>

\* Mutant: the refusal is swallowed and the link tried again.
LinkRetried(p) == FALSE
LinkRefused(p) == pc[p] = "close" /\ NameTaken(p)

\* BEGIN IMMEDIATE gives up when another writer keeps the lock too long.
Busy(p) == pc[p] = "begin" /\ mode[p] = "shared" /\ writer # "nobody"

\* An exception leaves the run; its open transaction rolls back.
Abort(p, how) ==
  /\ Release(p)
  /\ End(p, how)
  /\ UNCHANGED <<world, exists, database, mode, profile, wrote>>

\* The run cannot go on: a cancellation is seen at a check, the database is
\* busy, the link is refused.
Fail(p) ==
  /\ \/ pc[p] \in {"plan", "begin", "stream", "close"} /\ cancel[p]
     \/ Busy(p) \/ LinkRefused(p)
  /\ Abort(p, "failed")

\* An error of the compilation database, an analyzer, the database file or
\* the embedding provider.
Break(p) ==
  /\ Failing /\ pc[p] # "idle"
  /\ Abort(p, "failed")

\* The process dies: its transaction is rolled back by whoever opens the
\* database next, its private directory is never published.
Crash(p) ==
  /\ Failing /\ pc[p] # "idle"
  /\ Abort(p, "crashed")

-----------------------------------------------------------------------------
(* The world around the runs.                                              *)

Cancel(p) ==
  /\ Failing /\ pc[p] # "idle" /\ ~cancel[p]
  /\ cancel' = Set(cancel, p, TRUE)
  /\ UNCHANGED <<world, store, pc, locals>>

\* Between its analysis and its hashing a unit is in the hands of a run.
InHands(u) == \E p \in Procs : pc[p] = "stream" /\ u \in remaining[p] /\ parsed[p][u] # 0

\* A source is edited, or a header that all the units of the set include.
Edit(changed) ==
  /\ \A u \in changed : disk[u] < MaxVersion /\ (HashRace \/ ~InHands(u))
  /\ disk' = [u \in Units |-> IF u \in changed THEN disk[u] + 1 ELSE disk[u]]
  /\ UNCHANGED <<lists, store, pc, locals, cancel>>

\* The build system writes a compilation database.
Rewrite(b, units) ==
  /\ lists.rewritten < MaxLists /\ units # lists.units[b]
  /\ lists' = [rewritten |-> lists.rewritten + 1, units |-> [lists.units EXCEPT ![b] = units]]
  /\ UNCHANGED <<disk, store, pc, locals, cancel>>

\* build_runtime opens the store for a query and so creates a missing file.
ReaderCreates ==
  /\ ~exists /\ exists' = TRUE
  /\ UNCHANGED <<world, database, writer, pc, locals, cancel>>

RunStep(p) ==
  \/ Plan(p) \/ Begin(p) \/ Finalize(p) \/ Commit(p) \/ Close(p) \/ Fail(p)
  \/ \E u \in Units : Parse(p, u) \/ Stage(p, u)

Next ==
  \/ \E p \in Procs : Open(p) \/ RunStep(p) \/ Break(p) \/ Crash(p) \/ Cancel(p)
  \/ \E changed \in (SUBSET Units) \ {{}} : Edit(changed)
  \/ \E b \in Builds, units \in (SUBSET Units) \ {{}} : Rewrite(b, units)
  \/ ReaderCreates

\* A run that has started goes on: analyzers end, waits are bounded.
Spec == Init /\ [][Next]_vars
FairSpec == Spec /\ \A p \in Procs : WF_vars(RunStep(p))

-----------------------------------------------------------------------------
(* Properties.                                                             *)

TypeOK ==
  /\ disk \in [Units -> 1 .. MaxVersion]
  /\ lists \in [rewritten : 0 .. MaxLists, units : [Builds -> SUBSET Units]]
  /\ exists \in BOOLEAN /\ database \in [Builds -> Rows]
  /\ writer \in Procs \cup {"nobody"}
  /\ pc \in [Procs -> {"idle", "plan", "begin", "stream", "commit", "close"}]
  /\ mode \in [Procs -> {"shared", "private"}]
  /\ private \in [Procs -> [Builds -> Rows]]
  /\ profile \in [Procs -> Profiles] /\ build \in [Procs -> Builds]
  /\ current \in [Procs -> [Builds -> SUBSET Units]]
  /\ seen \in [Procs -> [Units -> Versions]] /\ parsed \in [Procs -> [Units -> Versions]]
  /\ remaining \in [Procs -> SUBSET Units] /\ work \in [Procs -> Rows]
  /\ cancel \in [Procs -> BOOLEAN] /\ wrote \in [Procs -> BOOLEAN]
  /\ result \in [Procs -> {"none", "ok", "failed", "crashed"}]

\* The commit of p's transaction, in either database.
Commits(p) == pc[p] = "commit" /\ pc'[p] \in {"plan", "close"}
Committed(p) == Own(p)'[build[p]]

\* A committed generation has exactly the units of the compilation database
\* the run loaded: skipped units kept, stale ones retired, changed ones there.
\* All have the profile of the run: "a successful transition cannot leave stale
\* deep rows visible" (docs/indexing.md:107).
CommitCoversList ==
  [][\A p \in Procs : Commits(p) =>
       /\ Present(Committed(p)) = current[p][build[p]]
       /\ \A u \in Present(Committed(p)) : Committed(p)[u].profile = profile[p]]_vars

\* "Source changes are noticed by index" (README.md): a committed generation
\* is at least as new as the files were when the run compared them, for the
\* units it reindexed and for those it skipped.
CommitIsCurrent ==
  [][\A p \in Procs : Commits(p) =>
       \A u \in current[p][build[p]] : Committed(p)[u].facts >= seen[p][u]]_vars

\* "an analyzer error or cancellation rolls the entire run back" (README.md:93).
FailedRunLeavesNothing ==
  \A p \in Procs : result[p] \in {"failed", "crashed"} => ~wrote[p]

\* The same for a run that builds a missing database.
FailedFreshRunLeavesNothing ==
  /\ TypeOK
  /\ \A p \in Procs : result[p] \in {"failed", "crashed"} /\ mode[p] = "private" => ~wrote[p]

\* Once the file exists only the holder of its write lock changes it: a
\* generation staged privately never replaces what another process published.
OnlyWriterChanges ==
  [][exists /\ database' # database => writer \in Procs /\ pc[writer] = "commit"]_vars

\* A fresh database appears with all its variants indexed, or empty.
AppearsWhole ==
  [][~exists /\ exists' =>
       \/ database' = EmptyDatabase
       \/ \E p \in Procs : \A b \in Builds :
            current[p][b] # {} /\ Present(database'[b]) = current[p][b]]_vars

\* A run never waits for ever: not for the lock, not for a batch.
RunsEnd == \A p \in Procs : pc[p] # "idle" ~> pc[p] = "idle"
=============================================================================
