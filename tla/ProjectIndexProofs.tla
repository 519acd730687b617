-------------------------- MODULE ProjectIndexProofs --------------------------
(***************************************************************************)
(* Theorems about ProjectIndex for any number of processes, units, build   *)
(* variants and versions: who may change the database, what a failed run   *)
(* leaves, and what a commit and a publication contain.                    *)
(***************************************************************************)
EXTENDS ProjectIndex, TLAPS

\* Who holds the write lock is in a transaction of the shared database.
LockInv ==
  \A p \in Procs : (pc[p] \in {"stream", "commit"} /\ mode[p] = "shared") <=> writer = p

\* A missing database is empty, and nobody works on it.
PublishInv ==
  /\ ~exists => database = EmptyDatabase
  /\ \A p \in Procs : pc[p] # "idle" /\ mode[p] = "shared" => exists

\* A run on a private database writes nothing that others see before it ends well.
FreshInv ==
  \A p \in Procs :
    mode[p] = "private" /\ (pc[p] # "idle" \/ result[p] \in {"failed", "crashed"}) => ~wrote[p]

StoreInv == TypeOK /\ LockInv /\ PublishInv /\ FreshInv

\* Only one process indexes.
SingleProcess == \A p, q \in Procs : p = q

\* Nobody else writes the database of the run.
Undisturbed(p) == mode[p] = "private" \/ SingleProcess

\* A run indexes a compilation database that lists units; what it has still to
\* stage is listed, and nothing is missing when it commits.
ListInv ==
  /\ \A b \in Builds : lists.units[b] # {}
  /\ \A p \in Procs :
       /\ pc[p] \in {"begin", "stream", "commit"} =>
            current[p][build[p]] # {} /\ remaining[p] \subseteq current[p][build[p]]
       /\ pc[p] = "commit" => remaining[p] = {}
       /\ pc[p] = "close" => build[p] = Variants

\* The units that are not to be staged are there already, with the run's profile.
SkippedInv(p) ==
  \A u \in current[p][build[p]] \ remaining[p] :
    Own(p)[build[p]][u] # NoRow /\ Own(p)[build[p]][u].profile = profile[p]

\* The open transaction has the listed units but those still to be staged.
WorkInv(p) ==
  /\ Present(work[p]) = current[p][build[p]] \ remaining[p]
  /\ \A u \in Present(work[p]) : work[p][u].profile = profile[p]

\* The private database has the variants that are done, whole.
DoneInv(p) ==
  \A b \in Builds : b < build[p] \/ pc[p] = "close" =>
    current[p][b] # {} /\ Present(private[p][b]) = current[p][b]

CoverInv(p) ==
  /\ pc[p] = "begin" /\ Undisturbed(p) => SkippedInv(p)
  /\ pc[p] \in {"stream", "commit"} /\ Undisturbed(p) => WorkInv(p)
  /\ pc[p] # "idle" /\ mode[p] = "private" => DoneInv(p)

IndexInv == StoreInv /\ ListInv /\ \A p \in Procs : CoverInv(p)

\* The rows' hashes are those of what was analyzed, some contents the files have had.
SoundRows(rows) == \A u \in Units : rows[u].facts = rows[u].hash /\ rows[u].facts <= disk[u]

\* So are those of the rows a run has, and what it has analyzed and not yet hashed is
\* what the files hold.
HashInv(p) ==
  /\ \A b \in Builds : SoundRows(private[p][b])
  /\ SoundRows(work[p])
  /\ \A u \in Units :
       /\ seen[p][u] <= disk[u]
       /\ pc[p] = "begin" => parsed[p][u] = 0
       /\ pc[p] = "stream" /\ u \in remaining[p] /\ parsed[p][u] # 0 => parsed[p][u] = disk[u]

SoundInv == (\A b \in Builds : SoundRows(database[b])) /\ \A p \in Procs : HashInv(p)

\* If no compilation database is ever rewritten, every run lists the same units.
FullInv ==
  MaxLists = 0 =>
    /\ \A b \in Builds : lists.rewritten = 0 /\ lists.units[b] = Units
    /\ \A p \in Procs : pc[p] \in {"begin", "stream", "commit"} => current[p][build[p]] = Units

\* What a run skips, or has staged, is at least as new as when it compared the files;
\* if nobody drops units it is not older than what it replaces either.
NewerInv(p) ==
  /\ pc[p] = "begin" => \A u \in current[p][build[p]] \ remaining[p] :
       Own(p)[build[p]][u].facts >= seen[p][u]
  /\ pc[p] \in {"stream", "commit"} => \A u \in current[p][build[p]] \ remaining[p] :
       /\ work[p][u].facts >= seen[p][u]
       /\ MaxLists = 0 => work[p][u].facts >= Own(p)[build[p]][u].facts

CurrentInv == IndexInv /\ SoundInv /\ FullInv /\ \A p \in Procs : NewerInv(p)

-----------------------------------------------------------------------------
(* Types.                                                                  *)

\* The constants, and the values that stand for nothing.
LEMMA ConstantTypes ==
  /\ Variants \in Nat /\ Variants >= 1 /\ MaxVersion \in Nat /\ MaxVersion >= 1 /\ MaxLists \in Nat
  /\ 1 \in Builds /\ 0 \in Versions /\ 1 \in 1 .. MaxVersion
  /\ NoRow \in Row /\ [u \in Units |-> NoRow] \in Rows /\ EmptyDatabase \in [Builds -> Rows]
BY ProjectIndexAssumption DEF Builds, Versions, NoRow, Row, Rows, EmptyDatabase

\* An assignment to one process keeps the type.
LEMMA SetType ==
  ASSUME NEW T, NEW f \in [Procs -> T], NEW p \in Procs, NEW v \in T
  PROVE  Set(f, p, v) \in [Procs -> T]
BY DEF Set

\* The locals that the end of a transaction or of a run resets.
LEMMA ForgetTypes ==
  ASSUME TypeOK, NEW p \in Procs, Forget(p)
  PROVE  /\ seen' \in [Procs -> [Units -> Versions]] /\ parsed' \in [Procs -> [Units -> Versions]]
         /\ remaining' \in [Procs -> SUBSET Units] /\ work' \in [Procs -> Rows]
BY ConstantTypes DEF TypeOK, Forget, Set

LEMMA EndTypes ==
  ASSUME TypeOK, NEW p \in Procs, NEW how \in {"ok", "failed", "crashed"}, End(p, how)
  PROVE  /\ pc' \in [Procs -> {"idle", "plan", "begin", "stream", "commit", "close"}]
         /\ result' \in [Procs -> {"none", "ok", "failed", "crashed"}]
         /\ cancel' \in [Procs -> BOOLEAN] /\ private' \in [Procs -> [Builds -> Rows]]
         /\ build' \in [Procs -> Builds] /\ current' \in [Procs -> [Builds -> SUBSET Units]]
         /\ seen' \in [Procs -> [Units -> Versions]] /\ parsed' \in [Procs -> [Units -> Versions]]
         /\ remaining' \in [Procs -> SUBSET Units] /\ work' \in [Procs -> Rows]
<1>1. Forget(p)
  BY DEF End
<1>2. [b \in Builds |-> {}] \in [Builds -> SUBSET Units]
  OBVIOUS
<1>3. QED BY <1>1, <1>2, ConstantTypes, ForgetTypes DEF TypeOK, End, Set

\* A run that ends, in whatever way, leaves well-typed values.
LEMMA AbortTypes ==
  ASSUME TypeOK, NEW p \in Procs, NEW how \in {"failed", "crashed"}, Abort(p, how)
  PROVE  TypeOK'
<1>1. End(p, how)
  BY DEF Abort
<1>2. writer' \in Procs \cup {"nobody"}
  BY DEF TypeOK, Abort, Release
<1>3. UNCHANGED <<disk, lists, exists, database, mode, profile, wrote>>
  BY DEF Abort, world
<1>4. QED BY <1>1, <1>2, <1>3, EndTypes DEF TypeOK

\* The rows a run reads are rows.
LEMMA OwnTypes == ASSUME TypeOK, NEW p \in Procs PROVE Own(p) \in [Builds -> Rows]
BY DEF TypeOK, Own

LEMMA RunStepTypes ==
  ASSUME TypeOK, NEW p \in Procs, Open(p) \/ RunStep(p) \/ Break(p) \/ Crash(p) \/ Cancel(p)
  PROVE  TypeOK'
<1>1. CASE Open(p)
  BY <1>1, ConstantTypes DEF TypeOK, Open, Set, world, store
<1>2. CASE Plan(p)
  <2>1. seen' \in [Procs -> [Units -> Versions]]
    BY <1>2, ConstantTypes DEF TypeOK, Plan, Set, Versions
  <2>2. parsed' \in [Procs -> [Units -> Versions]]
    BY <1>2, ConstantTypes DEF TypeOK, Plan, Set
  <2>3. remaining' \in [Procs -> SUBSET Units]
    BY <1>2 DEF TypeOK, Plan, Set
  <2>4. current' \in [Procs -> [Builds -> SUBSET Units]]
    BY <1>2 DEF TypeOK, Plan
  <2>5. /\ pc' \in [Procs -> {"idle", "plan", "begin", "stream", "commit", "close"}]
        /\ UNCHANGED <<world, store, mode, private, profile, build, work, wrote, result, cancel>>
    BY <1>2 DEF TypeOK, Plan, Set
  <2>6. QED BY <2>1, <2>2, <2>3, <2>4, <2>5 DEF TypeOK, world, store
<1>3. CASE Begin(p)
  <2>1. work' \in [Procs -> Rows]
    BY <1>3, ConstantTypes, OwnTypes DEF TypeOK, Begin, Set, Rows
  <2>2. QED BY <1>3, <2>1 DEF TypeOK, Begin, Set, world
<1>4. ASSUME NEW u \in Units, Parse(p, u)
      PROVE  TypeOK'
  BY <1>4 DEF TypeOK, Parse, Versions, world, store
<1>5. ASSUME NEW u \in Units, Stage(p, u)
      PROVE  TypeOK'
  <2>1. [facts |-> parsed[p][u], hash |-> disk[u], profile |-> profile[p]] \in Row
    BY DEF TypeOK, Row, Versions
  <2>2. work' \in [Procs -> Rows]
    BY <1>5, <2>1 DEF TypeOK, Stage, Rows
  <2>3. QED BY <1>5, <2>2 DEF TypeOK, Stage, world, store
<1>6. CASE Finalize(p)
  BY <1>6 DEF TypeOK, Finalize, Set, world, store, locals
<1>7. CASE Commit(p)
  <2>1. Forget(p) /\ writer' \in Procs \cup {"nobody"}
    BY <1>7 DEF TypeOK, Commit, Release
  <2> DEFINE place == {"idle", "plan", "begin", "stream", "commit", "close"}
  <2>2. /\ database' \in [Builds -> Rows] /\ private' \in [Procs -> [Builds -> Rows]]
        /\ wrote' \in [Procs -> BOOLEAN]
    <3>1. /\ work[p] \in Rows /\ build[p] \in Builds /\ database \in [Builds -> Rows]
          /\ private \in [Procs -> [Builds -> Rows]] /\ wrote \in [Procs -> BOOLEAN]
      BY DEF TypeOK
    <3>2. CASE mode[p] = "shared"
      <4>1. /\ database' = [database EXCEPT ![build[p]] = work[p]]
            /\ wrote' = Set(wrote, p, TRUE) /\ private' = private
        BY <1>7, <3>2 DEF Commit, Install
      <4>2. QED BY <3>1, <4>1, SetType
    <3>3. CASE mode[p] # "shared"
      <4>1. /\ private' = [private EXCEPT ![p][build[p]] = work[p]]
            /\ database' = database /\ wrote' = wrote
        BY <1>7, <3>3 DEF Commit, Install
      <4>2. QED BY <3>1, <4>1
    <3>4. QED BY <3>2, <3>3
  <2>3. build' \in [Procs -> Builds]
    <3>1. build \in [Procs -> Builds] /\ build[p] \in Builds
      BY DEF TypeOK
    <3>2. build[p] < Variants => build[p] + 1 \in Builds
      BY <3>1, ConstantTypes DEF Builds
    <3>3. build' = build \/ (build[p] < Variants /\ build' = Set(build, p, build[p] + 1))
      BY <1>7 DEF Commit, MoreBuilds
    <3>4. QED BY <3>1, <3>2, <3>3, SetType
  <2>4. pc' \in [Procs -> place]
    <3>1. pc \in [Procs -> place] /\ (pc' = Set(pc, p, "plan") \/ pc' = Set(pc, p, "close"))
      BY <1>7 DEF TypeOK, Commit
    <3>2. QED BY <3>1 DEF Set
  <2>5. UNCHANGED <<world, exists, mode, profile, current, result, cancel>>
    BY <1>7 DEF Commit
  <2>6. QED BY <2>1, <2>2, <2>3, <2>4, <2>5, ForgetTypes DEF TypeOK, world
<1>8. CASE Close(p)
  <2>1. End(p, "ok")
    BY <1>8 DEF Close
  <2>2. /\ exists' \in BOOLEAN /\ database' \in [Builds -> Rows] /\ wrote' \in [Procs -> BOOLEAN]
        /\ UNCHANGED <<world, writer, mode, profile>>
    <3>1. UNCHANGED <<world, writer, mode, profile>> /\ exists' = TRUE
      BY <1>8 DEF Close
    <3>2. \/ database' = private[p] /\ wrote' = Set(wrote, p, TRUE)
          \/ database' = database /\ wrote' = wrote
      BY <1>8 DEF Close
    <3>3. /\ database \in [Builds -> Rows] /\ private[p] \in [Builds -> Rows]
          /\ wrote \in [Procs -> BOOLEAN]
      BY DEF TypeOK
    <3>4. wrote' \in [Procs -> BOOLEAN]
      BY <3>2, <3>3 DEF Set
    <3>5. QED BY <3>1, <3>2, <3>3, <3>4
  <2>3. QED BY <2>1, <2>2, EndTypes DEF TypeOK, world
<1>9. CASE Fail(p) \/ Break(p) \/ Crash(p)
  BY <1>9, AbortTypes DEF Fail, Break, Crash
<1>10. CASE Cancel(p)
  BY <1>10 DEF TypeOK, Cancel, Set, world, store, locals
<1>11. QED BY <1>1, <1>2, <1>3, <1>4, <1>5, <1>6, <1>7, <1>8, <1>9, <1>10 DEF RunStep

LEMMA WorldTypes ==
  ASSUME TypeOK,
         \/ \E changed \in (SUBSET Units) \ {{}} : Edit(changed)
         \/ \E b \in Builds, units \in (SUBSET Units) \ {{}} : Rewrite(b, units)
         \/ ReaderCreates
  PROVE  TypeOK'
<1>1. ASSUME NEW changed \in SUBSET Units, Edit(changed)
      PROVE  TypeOK'
  <2>1. disk' \in [Units -> 1 .. MaxVersion]
    BY <1>1, ConstantTypes DEF TypeOK, Edit
  <2>2. QED BY <1>1, <2>1 DEF TypeOK, Edit, store, locals
<1>2. ASSUME NEW b \in Builds, NEW units \in SUBSET Units, Rewrite(b, units)
      PROVE  TypeOK'
  <2>1. lists' \in [rewritten : 0 .. MaxLists, units : [Builds -> SUBSET Units]]
    BY <1>2, ConstantTypes DEF TypeOK, Rewrite
  <2>2. QED BY <1>2, <2>1 DEF TypeOK, Rewrite, store, locals
<1>3. CASE ReaderCreates
  BY <1>3 DEF TypeOK, ReaderCreates, world, locals
<1>4. QED BY <1>1, <1>2, <1>3

LEMMA InitTypes == Init => TypeOK
<1> SUFFICES ASSUME Init PROVE TypeOK
  OBVIOUS
<1>1. /\ disk \in [Units -> 1 .. MaxVersion]
      /\ lists \in [rewritten : 0 .. MaxLists, units : [Builds -> SUBSET Units]]
      /\ exists \in BOOLEAN /\ database \in [Builds -> Rows] /\ writer \in Procs \cup {"nobody"}
  <2>1. disk \in [Units -> 1 .. MaxVersion] /\ database \in [Builds -> Rows]
    BY ConstantTypes DEF Init
  <2>2. lists \in [rewritten : 0 .. MaxLists, units : [Builds -> SUBSET Units]]
    BY ConstantTypes DEF Init
  <2>3. exists \in BOOLEAN /\ writer \in Procs \cup {"nobody"}
    BY Zenon DEF Init
  <2>4. QED BY <2>1, <2>2, <2>3
<1>2. pc \in [Procs -> {"idle", "plan", "begin", "stream", "commit", "close"}]
  BY DEF Init
<1>3. mode \in [Procs -> {"shared", "private"}]
  BY DEF Init
<1>4. profile \in [Procs -> Profiles] /\ build \in [Procs -> Builds]
  BY ConstantTypes DEF Init
<1>5. private \in [Procs -> [Builds -> Rows]]
  BY ConstantTypes DEF Init
<1>6. /\ current \in [Procs -> [Builds -> SUBSET Units]]
      /\ seen \in [Procs -> [Units -> Versions]] /\ parsed \in [Procs -> [Units -> Versions]]
  BY ConstantTypes DEF Init
<1>7. /\ remaining \in [Procs -> SUBSET Units] /\ work \in [Procs -> Rows]
      /\ cancel \in [Procs -> BOOLEAN] /\ wrote \in [Procs -> BOOLEAN]
      /\ result \in [Procs -> {"none", "ok", "failed", "crashed"}]
  BY ConstantTypes DEF Init
<1>8. QED BY <1>1, <1>2, <1>3, <1>4, <1>5, <1>6, <1>7 DEF TypeOK

\* Every reachable state is well typed.
LEMMA NextTypes == TypeOK /\ [Next]_vars => TypeOK'
<1>1. CASE UNCHANGED vars
  BY <1>1 DEF TypeOK, vars, world, store, locals
<1>2. QED BY <1>1, RunStepTypes, WorldTypes DEF Next

-----------------------------------------------------------------------------
(* The database and its lock.                                              *)

LEMMA InitStore == Init => StoreInv
<1> SUFFICES ASSUME Init PROVE StoreInv
  OBVIOUS
<1>1. TypeOK
  BY InitTypes
<1>2. LockInv
  BY ProjectIndexAssumption DEF Init, LockInv
<1>3. PublishInv /\ FreshInv
  BY DEF Init, PublishInv, FreshInv
<1>4. QED BY <1>1, <1>2, <1>3 DEF StoreInv

\* A run that ends gives the lock back.
LEMMA AbortStore ==
  ASSUME StoreInv, NEW p \in Procs, NEW how \in {"failed", "crashed"}, Abort(p, how),
         pc[p] # "idle"
  PROVE  LockInv' /\ PublishInv' /\ FreshInv'
<1>1. /\ pc' = [pc EXCEPT ![p] = "idle"] /\ result' = [result EXCEPT ![p] = how]
      /\ writer' = (IF writer = p THEN "nobody" ELSE writer)
      /\ UNCHANGED <<exists, database, mode, wrote>>
  BY DEF Abort, End, Release, Set
<1>2. /\ pc \in [Procs -> {"idle", "plan", "begin", "stream", "commit", "close"}]
      /\ result \in [Procs -> {"none", "ok", "failed", "crashed"}]
  BY DEF StoreInv, TypeOK
<1>3. LockInv'
  BY <1>1, <1>2, ProjectIndexAssumption DEF StoreInv, LockInv
<1>4. PublishInv'
  BY <1>1, <1>2 DEF StoreInv, PublishInv
<1>5. FreshInv'
  BY <1>1, <1>2 DEF StoreInv, FreshInv
<1>6. QED BY <1>3, <1>4, <1>5

\* A run takes the lock to write the shared database, and only then writes it.
LEMMA RunStepStore ==
  ASSUME StoreInv, NEW p \in Procs, Open(p) \/ RunStep(p) \/ Break(p) \/ Crash(p) \/ Cancel(p)
  PROVE  LockInv' /\ PublishInv' /\ FreshInv'
<1> DEFINE place == {"idle", "plan", "begin", "stream", "commit", "close"}
<1>0. /\ pc \in [Procs -> place] /\ mode \in [Procs -> {"shared", "private"}]
      /\ wrote \in [Procs -> BOOLEAN] /\ result \in [Procs -> {"none", "ok", "failed", "crashed"}]
  BY DEF StoreInv, TypeOK
<1>1. CASE Open(p)
  <2>1. /\ pc[p] = "idle" /\ pc' = [pc EXCEPT ![p] = "plan"]
        /\ mode' = [mode EXCEPT ![p] = IF exists THEN "shared" ELSE "private"]
        /\ wrote' = [wrote EXCEPT ![p] = FALSE] /\ result' = [result EXCEPT ![p] = "none"]
        /\ UNCHANGED <<exists, database, writer>>
    BY <1>1 DEF Open, Set, store
  <2>2. LockInv'
    BY <1>0, <2>1 DEF StoreInv, LockInv
  <2>3. PublishInv' /\ FreshInv'
    BY <1>0, <2>1 DEF StoreInv, PublishInv, FreshInv
  <2>4. QED BY <2>2, <2>3
<1>2. CASE Begin(p)
  <2>1. /\ pc[p] = "begin" /\ pc' = [pc EXCEPT ![p] = "stream"]
        /\ IF mode[p] = "shared" THEN writer = "nobody" /\ writer' = p ELSE writer' = writer
        /\ UNCHANGED <<exists, database, mode, wrote, result>>
    BY <1>2 DEF Begin, Set
  <2>2. LockInv'
    BY <1>0, <2>1, ProjectIndexAssumption DEF StoreInv, LockInv
  <2>3. PublishInv' /\ FreshInv'
    BY <1>0, <2>1 DEF StoreInv, PublishInv, FreshInv
  <2>4. QED BY <2>2, <2>3
<1>3. CASE Plan(p) \/ Finalize(p)
  <2>1. /\ UNCHANGED <<exists, database, writer, mode, wrote, result>>
        /\ \/ pc[p] = "plan" /\ pc' = [pc EXCEPT ![p] = "begin"]
           \/ pc[p] = "stream" /\ pc' = [pc EXCEPT ![p] = "commit"]
    BY <1>3 DEF Plan, Finalize, Set, store, locals
  <2>2. LockInv'
    BY <1>0, <2>1 DEF StoreInv, LockInv
  <2>3. PublishInv' /\ FreshInv'
    BY <1>0, <2>1 DEF StoreInv, PublishInv, FreshInv
  <2>4. QED BY <2>2, <2>3
<1>4. CASE Cancel(p) \/ \E u \in Units : Parse(p, u) \/ Stage(p, u)
  <2>1. UNCHANGED <<exists, database, writer, pc, mode, wrote, result>>
    BY <1>4 DEF Cancel, Parse, Stage, store, locals
  <2>2. QED BY <2>1 DEF StoreInv, LockInv, PublishInv, FreshInv
<1>5. CASE Commit(p)
  <2>1. /\ pc[p] = "commit"
        /\ pc' = [pc EXCEPT ![p] = "plan"] \/ pc' = [pc EXCEPT ![p] = "close"]
        /\ writer' = (IF writer = p THEN "nobody" ELSE writer)
        /\ UNCHANGED <<exists, mode, result>>
    BY <1>5 DEF Commit, Release, Set
  <2>2. \/ mode[p] = "shared" /\ wrote' = [wrote EXCEPT ![p] = TRUE]
        \/ mode[p] # "shared" /\ UNCHANGED <<database, wrote>>
    BY <1>5 DEF Commit, Install, Set
  <2>3. LockInv'
    BY <1>0, <2>1, ProjectIndexAssumption DEF StoreInv, LockInv
  <2>4. PublishInv' /\ FreshInv'
    BY <1>0, <2>1, <2>2 DEF StoreInv, PublishInv, FreshInv
  <2>5. QED BY <2>3, <2>4
<1>6. CASE Close(p)
  <2>1. /\ pc[p] = "close" /\ pc' = [pc EXCEPT ![p] = "idle"] /\ exists' = TRUE
        /\ result' = [result EXCEPT ![p] = "ok"]
        /\ UNCHANGED <<writer, mode>>
        /\ wrote' = wrote \/ wrote' = [wrote EXCEPT ![p] = TRUE]
    BY <1>6 DEF Close, End, Set
  <2>2. LockInv'
    BY <1>0, <2>1 DEF StoreInv, LockInv
  <2>3. PublishInv' /\ FreshInv'
    BY <1>0, <2>1 DEF StoreInv, PublishInv, FreshInv
  <2>4. QED BY <2>2, <2>3
<1>7. CASE Fail(p) \/ Break(p) \/ Crash(p)
  <2>1. pc[p] # "idle"
    BY <1>7 DEF Fail, Break, Crash, Busy, LinkRefused
  <2>2. QED BY <1>7, <2>1, AbortStore DEF Fail, Break, Crash
<1>8. QED BY <1>1, <1>2, <1>3, <1>4, <1>5, <1>6, <1>7 DEF RunStep

\* What happens around the runs leaves the database as it is.
LEMMA NextStore == StoreInv /\ [Next]_vars => StoreInv'
<1> SUFFICES ASSUME StoreInv, [Next]_vars PROVE LockInv' /\ PublishInv' /\ FreshInv'
  BY NextTypes DEF StoreInv
<1>1. ASSUME NEW p \in Procs, Open(p) \/ RunStep(p) \/ Break(p) \/ Crash(p) \/ Cancel(p)
      PROVE  LockInv' /\ PublishInv' /\ FreshInv'
  BY <1>1, RunStepStore
<1>2. CASE \/ \E changed \in (SUBSET Units) \ {{}} : Edit(changed)
           \/ \E b \in Builds, units \in (SUBSET Units) \ {{}} : Rewrite(b, units)
           \/ UNCHANGED vars
  <2>1. UNCHANGED <<exists, database, writer, pc, mode, wrote, result>>
    BY <1>2 DEF Edit, Rewrite, vars, world, store, locals
  <2>2. QED BY <2>1 DEF StoreInv, LockInv, PublishInv, FreshInv
<1>3. CASE ReaderCreates
  <2>1. exists' /\ UNCHANGED <<database, writer, pc, mode, wrote, result>>
    BY <1>3 DEF ReaderCreates, locals
  <2>2. QED BY <2>1 DEF StoreInv, LockInv, PublishInv, FreshInv
<1>4. QED BY <1>1, <1>2, <1>3 DEF Next

LEMMA StoreInvariant == Spec => []StoreInv
BY InitStore, NextStore, PTL DEF Spec

\* Only a commit, or the publication at the end of a run, changes the database.
LEMMA Writers ==
  ASSUME Next, database' # database
  PROVE  \E p \in Procs : Commit(p) \/ Close(p)
<1>1. PICK p \in Procs : Open(p) \/ RunStep(p) \/ Break(p) \/ Crash(p) \/ Cancel(p)
  BY DEF Next, Edit, Rewrite, ReaderCreates, store
<1>2. ~Open(p) /\ ~Plan(p) /\ ~Begin(p) /\ ~Finalize(p) /\ ~Cancel(p)
  BY DEF Open, Plan, Begin, Finalize, Cancel, store
<1>3. ~Fail(p) /\ ~Break(p) /\ ~Crash(p)
  BY DEF Fail, Break, Crash, Abort
<1>4. \A u \in Units : ~Parse(p, u) /\ ~Stage(p, u)
  BY DEF Parse, Stage, store
<1>5. QED BY <1>1, <1>2, <1>3, <1>4 DEF RunStep

\* A run that builds a missing database and fails, however and whenever, has changed
\* nothing that others see (README.md:93, SQLiteStore.indexing_generation).
THEOREM FreshRunsFailCleanly == Spec => []FailedFreshRunLeavesNothing
<1>1. StoreInv => FailedFreshRunLeavesNothing
  BY DEF StoreInv, FreshInv, FailedFreshRunLeavesNothing
<1>2. QED BY <1>1, StoreInvariant, PTL

\* Once the file exists its rows change only by the commit of the process that holds
\* the write lock (apply_ingestion_batches; os.link refuses the others).
THEOREM WriterAloneChanges == Spec => OnlyWriterChanges
<1> DEFINE A == exists /\ database' # database => writer \in Procs /\ pc[writer] = "commit"
<1>1. StoreInv /\ [Next]_vars => [A]_vars
  <2> SUFFICES ASSUME StoreInv, Next, exists, database' # database
      PROVE  writer \in Procs /\ pc[writer] = "commit"
    OBVIOUS
  <2>1. PICK p \in Procs : Commit(p) \/ Close(p)
    BY Writers
  <2>2. CASE Commit(p)
    <3>1. pc[p] = "commit" /\ mode[p] = "shared"
      BY <2>2 DEF Commit, Install
    <3>2. QED BY <3>1 DEF StoreInv, LockInv
  <2>3. CASE Close(p)
    BY <2>3 DEF Close, NameTaken
  <2>4. QED BY <2>1, <2>2, <2>3
<1>2. QED BY <1>1, StoreInvariant, PTL DEF Spec, OnlyWriterChanges

-----------------------------------------------------------------------------
(* What a transaction contains.                                            *)

\* The locals of a run change only in its own steps.
LEMMA OthersKeep ==
  ASSUME TypeOK, NEW p \in Procs, NEW q \in Procs, q # p,
         Open(p) \/ RunStep(p) \/ Break(p) \/ Crash(p) \/ Cancel(p)
  PROVE  /\ pc'[q] = pc[q] /\ mode'[q] = mode[q] /\ private'[q] = private[q]
         /\ profile'[q] = profile[q] /\ build'[q] = build[q] /\ current'[q] = current[q]
         /\ seen'[q] = seen[q] /\ remaining'[q] = remaining[q] /\ parsed'[q] = parsed[q]
         /\ work'[q] = work[q]
<1> USE DEF Set
<1>1. CASE Open(p)
  BY <1>1 DEF TypeOK, Open
<1>2. CASE Plan(p)
  BY <1>2 DEF TypeOK, Plan
<1>3. CASE Begin(p)
  BY <1>3 DEF TypeOK, Begin
<1>4. CASE Finalize(p) \/ Cancel(p) \/ \E u \in Units : Parse(p, u) \/ Stage(p, u)
  BY <1>4 DEF TypeOK, Finalize, Cancel, Parse, Stage, locals
<1>5. CASE Commit(p)
  <2>1. /\ pc'[q] = pc[q] /\ mode'[q] = mode[q] /\ profile'[q] = profile[q] /\ build'[q] = build[q]
        /\ current'[q] = current[q]
    BY <1>5 DEF TypeOK, Commit
  <2>2. private'[q] = private[q]
    BY <1>5 DEF TypeOK, Commit, Install
  <2>3. /\ seen'[q] = seen[q] /\ remaining'[q] = remaining[q] /\ parsed'[q] = parsed[q]
        /\ work'[q] = work[q]
    BY <1>5 DEF TypeOK, Commit, Forget
  <2>4. QED BY <2>1, <2>2, <2>3
<1>6. ASSUME NEW how \in {"ok", "failed", "crashed"}, End(p, how), UNCHANGED <<mode, profile>>
      PROVE  /\ pc'[q] = pc[q] /\ mode'[q] = mode[q] /\ private'[q] = private[q]
             /\ profile'[q] = profile[q] /\ build'[q] = build[q] /\ current'[q] = current[q]
             /\ seen'[q] = seen[q] /\ remaining'[q] = remaining[q] /\ parsed'[q] = parsed[q]
             /\ work'[q] = work[q]
  BY <1>6 DEF TypeOK, End, Forget
<1>7. CASE Close(p) \/ Fail(p) \/ Break(p) \/ Crash(p)
  BY <1>6, <1>7 DEF Close, Fail, Break, Crash, Abort
<1>8. QED BY <1>1, <1>2, <1>3, <1>4, <1>5, <1>7 DEF RunStep

\* A run that is not disturbed keeps what its transaction rests on.
LEMMA UndisturbedKeeps ==
  ASSUME NEW q \in Procs, CoverInv(q),
         pc'[q] = pc[q], mode'[q] = mode[q], private'[q] = private[q], profile'[q] = profile[q],
         build'[q] = build[q], current'[q] = current[q], remaining'[q] = remaining[q],
         work'[q] = work[q], mode[q] = "private" \/ database' = database \/ ~SingleProcess
  PROVE  CoverInv(q)'
<1>1. Undisturbed(q)' <=> Undisturbed(q)
  BY DEF Undisturbed, SingleProcess
<1>2. Undisturbed(q) => Own(q)' = Own(q)
  BY DEF Undisturbed, Own
<1>3. DoneInv(q)' <=> DoneInv(q)
  BY DEF DoneInv, Present
<1>4. WorkInv(q)' <=> WorkInv(q)
  BY DEF WorkInv, Present
<1>5. Undisturbed(q) => (SkippedInv(q)' <=> SkippedInv(q))
  BY <1>2 DEF SkippedInv
<1>6. QED BY <1>1, <1>3, <1>4, <1>5 DEF CoverInv

\* A run that is over, or has not looked at anything yet, owes nothing.
LEMMA IdleCovers == ASSUME NEW p \in Procs, pc'[p] = "idle" PROVE CoverInv(p)'
BY DEF CoverInv

\* The comparison skips only what is there with the right profile.
LEMMA PlanCovers ==
  ASSUME IndexInv, NEW p \in Procs, Plan(p)
  PROVE  CoverInv(p)'
<1> DEFINE b == build[p]
           rows == Own(p)[b]
           listed == lists.units[b]
<1>1. /\ pc[p] = "plan" /\ pc'[p] = "begin" /\ b \in Builds
      /\ UNCHANGED <<mode, private, profile, build, database>>
  BY DEF IndexInv, StoreInv, TypeOK, Plan, Set, store
<1>2. current'[p] = [current[p] EXCEPT ![b] = listed]
  BY DEF IndexInv, StoreInv, TypeOK, Plan
<1>3. remaining'[p] = {u \in listed : NeedsReindex(p, u, rows[u])}
  BY DEF IndexInv, StoreInv, TypeOK, Plan, Set
<1>4. current[p] \in [Builds -> SUBSET Units]
  BY DEF IndexInv, StoreInv, TypeOK
<1>5. SkippedInv(p)'
  <2>1. Own(p)' = Own(p)
    BY <1>1 DEF Own
  <2>2. current'[p][build'[p]] = listed
    BY <1>1, <1>2, <1>4
  <2>3. SUFFICES ASSUME NEW u \in listed \ remaining'[p]
                 PROVE  rows[u] # NoRow /\ rows[u].profile = profile[p]
    BY <1>1, <2>1, <2>2 DEF SkippedInv
  <2>4. ~NeedsReindex(p, u, rows[u])
    BY <1>3
  <2>5. QED BY <2>4 DEF NeedsReindex
<1>6. mode[p] = "private" => DoneInv(p)'
  <2>1. SUFFICES ASSUME mode[p] = "private", NEW c \in Builds, c < b
                 PROVE  current'[p][c] # {} /\ Present(private[p][c]) = current'[p][c]
    BY <1>1 DEF DoneInv, Present
  <2>2. current'[p][c] = current[p][c]
    BY <1>1, <1>2, <1>4, <2>1 DEF Builds
  <2>3. DoneInv(p)
    BY <1>1, <2>1 DEF IndexInv, CoverInv
  <2>4. QED BY <2>1, <2>2, <2>3 DEF DoneInv
<1>7. QED BY <1>1, <1>5, <1>6 DEF CoverInv

\* What is deleted at once is what is not listed or will be staged.
LEMMA BeginCovers ==
  ASSUME IndexInv, NEW p \in Procs, Begin(p)
  PROVE  CoverInv(p)'
<1> DEFINE b == build[p]
           rows == Own(p)[b]
<1>1. /\ pc[p] = "begin" /\ pc'[p] = "stream" /\ b \in Builds
      /\ UNCHANGED <<mode, private, profile, build, current, remaining, database>>
  BY DEF IndexInv, StoreInv, TypeOK, Begin, Set
<1>2. work'[p] = [u \in Units |-> IF u \in Replaced(p) THEN NoRow ELSE rows[u]]
  BY DEF IndexInv, StoreInv, TypeOK, Begin, Set
<1>3. current[p][b] \subseteq Units
  BY <1>1 DEF IndexInv, StoreInv, TypeOK
<1>4. Undisturbed(p) => WorkInv(p)'
  <2>1. SUFFICES ASSUME Undisturbed(p)
                 PROVE  /\ Present(work'[p]) = current[p][b] \ remaining[p]
                        /\ \A u \in Present(work'[p]) : work'[p][u].profile = profile[p]
    BY <1>1 DEF WorkInv, Present
  <2>2. \A u \in current[p][b] \ remaining[p] : rows[u] # NoRow /\ rows[u].profile = profile[p]
    BY <1>1, <2>1 DEF IndexInv, CoverInv, SkippedInv
  <2>3. \A u \in Units : work'[p][u] # NoRow <=> rows[u] # NoRow /\ u \notin Replaced(p)
    BY <1>2
  <2>4. \A u \in Units : u \in Replaced(p) <=>
          (rows[u] # NoRow /\ u \notin current[p][b]) \/ u \in remaining[p]
    BY DEF Replaced, Present
  <2>5. Present(work'[p]) = current[p][b] \ remaining[p]
    BY <1>3, <2>2, <2>3, <2>4 DEF Present
  <2>6. \A u \in Present(work'[p]) : work'[p][u] = rows[u]
    BY <1>2, <2>3 DEF Present
  <2>7. QED BY <2>2, <2>5, <2>6
<1>5. mode[p] = "private" => DoneInv(p)'
  BY <1>1 DEF IndexInv, CoverInv, DoneInv, Present
<1>6. QED BY <1>1, <1>4, <1>5 DEF CoverInv, Undisturbed, SingleProcess

\* A staged batch is a row of its unit.
LEMMA StageCovers ==
  ASSUME IndexInv, NEW p \in Procs, NEW u \in Units, Stage(p, u)
  PROVE  CoverInv(p)'
<1> DEFINE b == build[p]
           row == [facts |-> parsed[p][u], hash |-> disk[u], profile |-> profile[p]]
<1>1. /\ pc[p] = "stream" /\ u \in remaining[p] /\ parsed[p][u] # 0 /\ b \in Builds
      /\ UNCHANGED <<pc, mode, private, profile, build, current, database>>
  BY DEF IndexInv, StoreInv, TypeOK, Stage, store
<1>2. work'[p] = [work[p] EXCEPT ![u] = row] /\ remaining'[p] = remaining[p] \ {u}
  BY DEF IndexInv, StoreInv, TypeOK, Stage
<1>3. work[p] \in Rows /\ current[p][b] \subseteq Units
  BY <1>1 DEF IndexInv, StoreInv, TypeOK
<1>4. row # NoRow
  BY <1>1 DEF NoRow
<1>5. Undisturbed(p) => WorkInv(p)'
  <2>1. SUFFICES ASSUME Undisturbed(p)
                 PROVE  /\ Present(work'[p]) = current[p][b] \ remaining'[p]
                        /\ \A v \in Present(work'[p]) : work'[p][v].profile = profile[p]
    BY <1>1 DEF WorkInv, Present
  <2>2. WorkInv(p)
    BY <1>1, <2>1 DEF IndexInv, CoverInv
  <2>3. u \in current[p][b]
    BY <1>1 DEF IndexInv, ListInv
  <2>4. Present(work'[p]) = Present(work[p]) \cup {u}
    BY <1>2, <1>3, <1>4 DEF Present, Rows
  <2>5. \A v \in Present(work'[p]) : work'[p][v].profile = profile[p]
    BY <1>2, <1>3, <2>2, <2>4 DEF WorkInv, Present, Rows
  <2>6. QED BY <1>2, <2>2, <2>3, <2>4, <2>5 DEF WorkInv
<1>6. mode[p] = "private" => DoneInv(p)'
  BY <1>1 DEF IndexInv, CoverInv, DoneInv, Present
<1>7. QED BY <1>1, <1>5, <1>6 DEF CoverInv, Undisturbed, SingleProcess

\* A commit completes the variant in the private database.
LEMMA CommitCovers ==
  ASSUME IndexInv, NEW p \in Procs, Commit(p)
  PROVE  CoverInv(p)'
<1> DEFINE b == build[p]
<1>1. /\ pc[p] = "commit" /\ pc'[p] \in {"plan", "close"} /\ b \in Builds
      /\ pc'[p] = "close" => b >= Variants /\ build'[p] = b
      /\ pc'[p] = "plan" => build'[p] = b + 1
      /\ UNCHANGED <<mode, profile, current>>
  <2>1. /\ pc \in [Procs -> {"idle", "plan", "begin", "stream", "commit", "close"}]
        /\ build \in [Procs -> Builds]
    BY DEF IndexInv, StoreInv, TypeOK
  <2>2. pc[p] = "commit" /\ UNCHANGED <<mode, profile, current>>
    BY DEF Commit
  <2>3. \/ /\ build' = [build EXCEPT ![p] = b + 1] /\ pc' = [pc EXCEPT ![p] = "plan"]
        \/ ~(b < Variants) /\ build' = build /\ pc' = [pc EXCEPT ![p] = "close"]
    BY DEF Commit, MoreBuilds, Set
  <2>4. b \in Nat /\ Variants \in Nat
    BY <2>1, ConstantTypes DEF Builds
  <2>5. QED BY <2>1, <2>2, <2>3, <2>4
<1>2. mode[p] = "private" => DoneInv(p)'
  <2>1. SUFFICES ASSUME mode[p] = "private", NEW c \in Builds, c < build'[p] \/ pc'[p] = "close"
                 PROVE  current[p][c] # {} /\ Present(private'[p][c]) = current[p][c]
    BY <1>1 DEF DoneInv, Present
  <2>2. private'[p] = [private[p] EXCEPT ![b] = work[p]] /\ private[p] \in [Builds -> Rows]
    BY <2>1 DEF IndexInv, StoreInv, TypeOK, Commit, Install
  <2>3. CASE c = b
    <3>1. WorkInv(p) /\ remaining[p] = {} /\ current[p][b] # {}
      BY <1>1, <2>1 DEF IndexInv, CoverInv, ListInv, Undisturbed
    <3>2. QED BY <2>2, <2>3, <3>1 DEF WorkInv
  <2>4. CASE c # b
    <3>1. c < b
      BY <1>1, <2>1, <2>4, ConstantTypes DEF Builds
    <3>2. DoneInv(p)
      BY <1>1, <2>1 DEF IndexInv, CoverInv
    <3>3. QED BY <2>2, <2>4, <3>1, <3>2 DEF DoneInv
  <2>5. QED BY <2>3, <2>4
<1>3. QED BY <1>1, <1>2 DEF CoverInv

\* Every step of a run keeps the contents of every transaction.
LEMMA RunStepCovers ==
  ASSUME IndexInv, NEW p \in Procs, NEW q \in Procs,
         Open(p) \/ RunStep(p) \/ Break(p) \/ Crash(p) \/ Cancel(p)
  PROVE  CoverInv(q)'
<1>1. CASE q # p
  <2>1. ~SingleProcess
    BY <1>1 DEF SingleProcess
  <2>2. QED BY <1>1, <2>1, OthersKeep, UndisturbedKeeps DEF IndexInv, StoreInv
<1>2. CASE q = p
  <2>1. CASE Open(p)
    <3>1. pc'[p] = "plan" /\ build'[p] = 1
      BY <2>1 DEF IndexInv, StoreInv, TypeOK, Open, Set
    <3>2. QED BY <1>2, <3>1 DEF CoverInv, DoneInv, Builds
  <2>2. CASE Plan(p) \/ Begin(p) \/ Commit(p) \/ \E u \in Units : Stage(p, u)
    BY <1>2, <2>2, PlanCovers, BeginCovers, CommitCovers, StageCovers
  <2>3. CASE Cancel(p) \/ \E u \in Units : Parse(p, u)
    <3>1. UNCHANGED <<pc, mode, private, profile, build, current, remaining, work, database>>
      BY <2>3 DEF Cancel, Parse, store, locals
    <3>2. QED BY <3>1, UndisturbedKeeps DEF IndexInv
  <2>4. CASE Finalize(p)
    <3>1. /\ pc[p] = "stream" /\ pc'[p] = "commit"
          /\ UNCHANGED <<mode, private, profile, build, current, remaining, work, database>>
      BY <2>4 DEF IndexInv, StoreInv, TypeOK, Finalize, Set, store, locals
    <3>2. WorkInv(p)' <=> WorkInv(p)
      BY <3>1 DEF WorkInv, Present
    <3>3. DoneInv(p)' <=> DoneInv(p)
      BY <3>1 DEF DoneInv, Present
    <3>4. CoverInv(p) /\ (Undisturbed(p)' <=> Undisturbed(p))
      BY <3>1 DEF IndexInv, Undisturbed, SingleProcess
    <3>5. QED BY <1>2, <3>1, <3>2, <3>3, <3>4 DEF CoverInv
  <2>5. CASE Close(p) \/ Fail(p) \/ Break(p) \/ Crash(p)
    <3>1. pc'[p] = "idle"
      BY <2>5 DEF IndexInv, StoreInv, TypeOK, Close, Fail, Break, Crash, Abort, End, Set
    <3>2. QED BY <1>2, <3>1, IdleCovers
  <2>6. QED BY <2>1, <2>2, <2>3, <2>4, <2>5 DEF RunStep
<1>3. QED BY <1>1, <1>2

\* What is staged is listed, and all of it is staged before the commit.
LEMMA RunStepLists ==
  ASSUME IndexInv, NEW p \in Procs, Open(p) \/ RunStep(p) \/ Break(p) \/ Crash(p) \/ Cancel(p)
  PROVE  ListInv'
<1> DEFINE Listed(q) == /\ pc[q] \in {"begin", "stream", "commit"} =>
                            current[q][build[q]] # {} /\ remaining[q] \subseteq current[q][build[q]]
                        /\ pc[q] = "commit" => remaining[q] = {}
                        /\ pc[q] = "close" => build[q] = Variants
<1>1. lists' = lists
  BY DEF RunStep, Open, Plan, Begin, Parse, Stage, Finalize, Commit, Close, Fail, Break, Crash,
         Abort, Cancel, world
<1>2. ASSUME NEW q \in Procs PROVE Listed(q)
  BY DEF IndexInv, ListInv
<1>3. ASSUME NEW q \in Procs, q # p PROVE Listed(q)'
  BY <1>2, <1>3, OthersKeep DEF IndexInv, StoreInv
<1>4. Listed(p)'
  <2>1. CASE Open(p)
    BY <2>1 DEF IndexInv, StoreInv, TypeOK, Open, Set
  <2>2. CASE Plan(p)
    <3>1. pc'[p] = "begin" /\ build' = build /\ build[p] \in Builds
      BY <2>2 DEF IndexInv, StoreInv, TypeOK, Plan, Set
    <3>2. current'[p][build[p]] = lists.units[build[p]]
      BY <2>2 DEF IndexInv, StoreInv, TypeOK, Plan
    <3>3. remaining'[p] \subseteq lists.units[build[p]]
      BY <2>2 DEF IndexInv, StoreInv, TypeOK, Plan, Set
    <3>4. QED BY <3>1, <3>2, <3>3 DEF IndexInv, ListInv
  <2>3. CASE Begin(p)
    <3>1. pc[p] = "begin" /\ pc'[p] = "stream" /\ UNCHANGED <<current, build, remaining>>
      BY <2>3 DEF IndexInv, StoreInv, TypeOK, Begin, Set
    <3>2. QED BY <1>2, <3>1
  <2>4. CASE Cancel(p) \/ \E u \in Units : Parse(p, u)
    <3>1. UNCHANGED <<pc, current, build, remaining>>
      BY <2>4 DEF Cancel, Parse, locals
    <3>2. QED BY <1>2, <3>1
  <2>5. ASSUME NEW u \in Units, Stage(p, u) PROVE Listed(p)'
    <3>1. /\ pc[p] = "stream" /\ remaining'[p] = remaining[p] \ {u}
          /\ UNCHANGED <<pc, current, build>>
      BY <2>5 DEF IndexInv, StoreInv, TypeOK, Stage
    <3>2. QED BY <1>2, <3>1
  <2>6. CASE Finalize(p)
    <3>1. /\ pc[p] = "stream" /\ pc'[p] = "commit" /\ remaining[p] = {}
          /\ UNCHANGED <<current, build, remaining>>
      BY <2>6 DEF IndexInv, StoreInv, TypeOK, Finalize, Set, locals
    <3>2. QED BY <1>2, <3>1
  <2>7. CASE Commit(p)
    <3>1. build[p] \in Builds /\ Variants \in Nat
      BY ConstantTypes DEF IndexInv, StoreInv, TypeOK
    <3>2. \/ pc'[p] = "plan"
          \/ pc'[p] = "close" /\ build' = build /\ ~(build[p] < Variants)
      BY <2>7 DEF IndexInv, StoreInv, TypeOK, Commit, MoreBuilds, Set
    <3>3. QED BY <3>1, <3>2 DEF Builds
  <2>8. CASE Close(p) \/ Fail(p) \/ Break(p) \/ Crash(p)
    BY <2>8 DEF IndexInv, StoreInv, TypeOK, Close, Fail, Break, Crash, Abort, End, Set
  <2>9. QED BY <2>1, <2>2, <2>3, <2>4, <2>5, <2>6, <2>7, <2>8 DEF RunStep
<1>5. \A b \in Builds : lists'.units[b] # {}
  BY <1>1 DEF IndexInv, ListInv
<1>6. QED BY <1>3, <1>4, <1>5 DEF ListInv

LEMMA InitIndex == Init => IndexInv
<1> SUFFICES ASSUME Init PROVE ListInv /\ \A p \in Procs : CoverInv(p)
  BY InitStore DEF IndexInv
<1>1. \A p \in Procs : pc[p] = "idle"
  BY DEF Init
<1>2. \A b \in Builds : lists.units[b] # {}
  BY ProjectIndexAssumption DEF Init
<1>3. QED BY <1>1, <1>2 DEF ListInv, CoverInv

LEMMA NextIndex == IndexInv /\ [Next]_vars => IndexInv'
<1> SUFFICES ASSUME IndexInv, [Next]_vars PROVE ListInv' /\ \A q \in Procs : CoverInv(q)'
  BY NextStore DEF IndexInv
<1>1. ASSUME NEW p \in Procs, Open(p) \/ RunStep(p) \/ Break(p) \/ Crash(p) \/ Cancel(p)
      PROVE  ListInv' /\ \A q \in Procs : CoverInv(q)'
  BY <1>1, RunStepLists, RunStepCovers
<1>2. ASSUME UNCHANGED <<database, pc, locals>>, \A b \in Builds : lists'.units[b] # {}
      PROVE  ListInv' /\ \A q \in Procs : CoverInv(q)'
  <2>1. ListInv'
    BY <1>2 DEF IndexInv, ListInv, locals
  <2>2. ASSUME NEW q \in Procs PROVE CoverInv(q)'
    BY <1>2, UndisturbedKeeps DEF IndexInv, locals
  <2>3. QED BY <2>1, <2>2
<1>3. CASE (\E changed \in (SUBSET Units) \ {{}} : Edit(changed)) \/ ReaderCreates \/ UNCHANGED vars
  <2>1. UNCHANGED <<database, pc, locals, lists>>
    BY <1>3 DEF Edit, ReaderCreates, vars, world, store
  <2>2. QED BY <1>2, <2>1 DEF IndexInv, ListInv
<1>4. ASSUME NEW b \in Builds, NEW units \in (SUBSET Units) \ {{}}, Rewrite(b, units)
      PROVE  ListInv' /\ \A q \in Procs : CoverInv(q)'
  <2>1. UNCHANGED <<database, pc, locals>> /\ lists'.units = [lists.units EXCEPT ![b] = units]
    BY <1>4 DEF Rewrite, store
  <2>2. \A c \in Builds : lists'.units[c] # {}
    <3>1. lists.units \in [Builds -> SUBSET Units]
      BY DEF IndexInv, StoreInv, TypeOK
    <3>2. \A c \in Builds : lists.units[c] # {}
      BY DEF IndexInv, ListInv
    <3> SUFFICES ASSUME NEW c \in Builds PROVE lists'.units[c] # {}
      OBVIOUS
    <3>3. lists'.units[c] = IF c = b THEN units ELSE lists.units[c]
      BY <2>1, <3>1
    <3>4. units # {} /\ lists.units[c] # {}
      BY <3>2
    <3>5. CASE c = b
      BY <3>3, <3>4, <3>5
    <3>6. CASE c # b
      BY <3>3, <3>4, <3>6
    <3>7. QED BY <3>5, <3>6
  <2>3. QED BY <1>2, <2>1, <2>2
<1>5. QED BY <1>1, <1>3, <1>4 DEF Next

LEMMA IndexInvariant == Spec => []IndexInv
BY InitIndex, NextIndex, PTL DEF Spec

\* A database that did not exist appears empty, or with the generation of a run that
\* has indexed every build variant: the units listed for it, all of them
\* (SQLiteStore.indexing_generation).
THEOREM AppearsComplete == Spec => AppearsWhole
<1> DEFINE Whole == \/ database' = EmptyDatabase
                    \/ \E p \in Procs : \A b \in Builds :
                         current[p][b] # {} /\ Present(database'[b]) = current[p][b]
<1>1. IndexInv /\ [Next]_vars => [~exists /\ exists' => Whole]_vars
  <2> SUFFICES ASSUME IndexInv, Next, ~exists, exists' PROVE Whole
    OBVIOUS
  <2>1. database = EmptyDatabase
    BY DEF IndexInv, StoreInv, PublishInv
  <2>2. CASE database' = database
    BY <2>1, <2>2
  <2>3. CASE database' # database
    <3>1. PICK p \in Procs : Close(p)
      BY <2>3, Writers DEF Commit
    <3>2. pc[p] = "close" /\ mode[p] = "private" /\ database' = private[p]
      BY <2>3, <3>1 DEF Close
    <3>3. DoneInv(p)
      BY <3>2 DEF IndexInv, CoverInv
    <3>4. QED BY <3>2, <3>3 DEF DoneInv
  <2>4. QED BY <2>2, <2>3
<1>2. QED BY <1>1, IndexInvariant, PTL DEF Spec, AppearsWhole

\* Only the commit of a run is a step that commits ...
LEMMA CommitSteps ==
  ASSUME TypeOK, Next, NEW p \in Procs, Commits(p)
  PROVE  Commit(p)
<1>1. pc[p] = "commit" /\ pc'[p] # pc[p] /\ pc'[p] # "idle"
  BY DEF Commits
<1>2. PICK q \in Procs : Open(q) \/ RunStep(q) \/ Break(q) \/ Crash(q) \/ Cancel(q)
  BY <1>1 DEF Next, Edit, Rewrite, ReaderCreates
<1>3. q = p
  BY <1>1, <1>2, OthersKeep
<1>4. QED BY <1>1, <1>2, <1>3 DEF TypeOK, RunStep, Open, Plan, Begin, Parse, Stage, Finalize, Close,
         Fail, Break, Crash, Abort, End, Cancel, Set

\* ... and it installs the rows of the transaction.
LEMMA CommitInstalls == ASSUME TypeOK, NEW p \in Procs, Commit(p) PROVE Committed(p) = work[p]
<1>1. mode[p] \in {"shared", "private"} /\ build[p] \in Builds /\ mode' = mode
  BY DEF TypeOK, Commit
<1>2. CASE mode[p] = "shared"
  BY <1>1, <1>2 DEF TypeOK, Commit, Install, Committed, Own
<1>3. CASE mode[p] = "private"
  BY <1>1, <1>3 DEF TypeOK, Commit, Install, Committed, Own
<1>4. QED BY <1>1, <1>2, <1>3

\* When one process indexes, a committed variant has exactly the units of the
\* compilation database the run loaded, each with the profile of the run: units that
\* were skipped, staged and retired add up (ProjectIndexer.index).
THEOREM CommitIsTheList == ASSUME SingleProcess PROVE Spec => CommitCoversList
<1> DEFINE Covered == \A p \in Procs : Commits(p) =>
       /\ Present(Committed(p)) = current[p][build[p]]
       /\ \A u \in Present(Committed(p)) : Committed(p)[u].profile = profile[p]
<1>1. IndexInv /\ [Next]_vars => [Covered]_vars
  <2> SUFFICES ASSUME IndexInv, Next, NEW p \in Procs, Commits(p)
      PROVE  /\ Present(Committed(p)) = current[p][build[p]]
             /\ \A u \in Present(Committed(p)) : Committed(p)[u].profile = profile[p]
    OBVIOUS
  <2>1. Commit(p)
    BY CommitSteps DEF IndexInv, StoreInv
  <2>2. Committed(p) = work[p]
    BY <2>1, CommitInstalls DEF IndexInv, StoreInv
  <2>3. WorkInv(p) /\ remaining[p] = {}
    BY SingleProcess DEF Commits, IndexInv, CoverInv, ListInv, Undisturbed
  <2>4. QED BY <2>2, <2>3 DEF WorkInv
<1>2. QED BY <1>1, IndexInvariant, PTL DEF Spec, CommitCoversList

-----------------------------------------------------------------------------
(* How old the committed facts are.                                        *)

\* The rows of a database, and no rows at all, are sound.
LEMMA SoundFacts ==
  ASSUME CurrentInv, NEW p \in Procs
  PROVE  /\ \A b \in Builds : SoundRows(Own(p)[b])
         /\ SoundRows([u \in Units |-> NoRow])
         /\ \A b \in Builds : SoundRows(EmptyDatabase[b])
         /\ \A u \in Units : disk[u] \in Nat /\ disk[u] >= 1
<1>1. \A u \in Units : disk[u] \in Nat /\ disk[u] >= 1
  BY ConstantTypes DEF CurrentInv, IndexInv, StoreInv, TypeOK
<1>2. SoundRows([u \in Units |-> NoRow])
  BY <1>1 DEF SoundRows, NoRow
<1>3. \A b \in Builds : SoundRows(EmptyDatabase[b])
  BY <1>2 DEF EmptyDatabase
<1>4. \A b \in Builds : SoundRows(Own(p)[b])
  BY DEF CurrentInv, SoundInv, HashInv, Own
<1>5. QED BY <1>1, <1>2, <1>3, <1>4

\* The end of a transaction or of a run leaves nothing that could be wrong.
LEMMA ForgetSound ==
  ASSUME CurrentInv, NEW p \in Procs, Forget(p), disk' = disk,
         \A b \in Builds : SoundRows(private'[p][b]), pc'[p] \notin {"begin", "stream"}
  PROVE  HashInv(p)'
<1>1. /\ seen'[p] = [u \in Units |-> 0] /\ work'[p] = [u \in Units |-> NoRow]
  BY DEF CurrentInv, IndexInv, StoreInv, TypeOK, Forget, Set
<1>2. \A u \in Units : seen'[p][u] <= disk'[u]
  BY <1>1, SoundFacts
<1>3. SoundRows(work'[p])
  BY <1>1, SoundFacts
<1>4. QED BY <1>2, <1>3 DEF HashInv, SoundRows

\* What a run stages was not edited since it was analyzed.
LEMMA RunStepSound ==
  ASSUME CurrentInv, NEW p \in Procs, Open(p) \/ RunStep(p) \/ Break(p) \/ Crash(p) \/ Cancel(p)
  PROVE  SoundInv'
<1>0. /\ disk' = disk /\ HashInv(p) /\ TypeOK
      /\ \A b \in Builds : SoundRows(database[b]) /\ SoundRows(private[p][b])
  BY DEF CurrentInv, SoundInv, HashInv, IndexInv, StoreInv, RunStep, Open, Plan, Begin, Parse,
         Stage, Finalize, Commit, Close, Fail, Break, Crash, Abort, Cancel, world
<1>1. ASSUME NEW q \in Procs, q # p PROVE HashInv(q)'
  BY <1>0, <1>1, OthersKeep DEF CurrentInv, SoundInv, HashInv, SoundRows
<1>2. ASSUME \A b \in Builds : SoundRows(database'[b]), HashInv(p)'
      PROVE  SoundInv'
  BY <1>0, <1>1, <1>2 DEF SoundInv, SoundRows
<1>3. CASE Open(p)
  <2>1. /\ private'[p] = EmptyDatabase /\ pc'[p] = "plan"
        /\ UNCHANGED <<database, work, seen>>
    BY <1>0, <1>3 DEF TypeOK, Open, Set, store
  <2>2. HashInv(p)'
    BY <1>0, <2>1, SoundFacts DEF HashInv, SoundRows
  <2>3. QED BY <1>0, <1>2, <2>1, <2>2
<1>4. CASE Plan(p)
  <2>1. /\ seen'[p] = disk /\ parsed'[p] = [u \in Units |-> 0] /\ pc'[p] = "begin"
        /\ UNCHANGED <<database, private, work>>
    BY <1>0, <1>4 DEF TypeOK, Plan, Set, store
  <2>2. HashInv(p)'
    BY <1>0, <2>1, SoundFacts DEF HashInv, SoundRows
  <2>3. QED BY <1>0, <1>2, <2>1, <2>2
<1>5. CASE Begin(p)
  <2>1. /\ pc[p] = "begin" /\ pc'[p] = "stream" /\ build[p] \in Builds
        /\ UNCHANGED <<database, private, seen, parsed>>
    BY <1>0, <1>5 DEF TypeOK, Begin, Set
  <2>2. work'[p] = [u \in Units |-> IF u \in Replaced(p) THEN NoRow ELSE Own(p)[build[p]][u]]
    BY <1>0, <1>5 DEF TypeOK, Begin, Set
  <2>3. SoundRows(work'[p])
    BY <2>1, <2>2, SoundFacts DEF SoundRows
  <2>4. HashInv(p)'
    BY <1>0, <2>1, <2>3 DEF HashInv, SoundRows
  <2>5. QED BY <1>0, <1>2, <2>1, <2>4
<1>6. ASSUME NEW u \in Units, Parse(p, u)
      PROVE  SoundInv'
  <2>1. /\ parsed'[p] = [parsed[p] EXCEPT ![u] = disk[u]] /\ pc[p] = "stream"
        /\ UNCHANGED <<database, private, work, seen, pc, remaining>>
    BY <1>0, <1>6 DEF TypeOK, Parse, store
  <2>2. parsed[p] \in [Units -> Versions]
    BY <1>0 DEF TypeOK
  <2>3. HashInv(p)'
    BY <1>0, <2>1, <2>2 DEF HashInv, SoundRows
  <2>4. QED BY <1>0, <1>2, <2>1, <2>3
<1>7. ASSUME NEW u \in Units, Stage(p, u)
      PROVE  SoundInv'
  <2>1. /\ pc[p] = "stream" /\ pc' = pc /\ remaining'[p] = remaining[p] \ {u}
        /\ u \in remaining[p] /\ parsed[p][u] # 0
        /\ UNCHANGED <<database, private, seen, parsed>>
    BY <1>0, <1>7 DEF TypeOK, Stage, store
  <2>2. /\ work'[p] = [work[p] EXCEPT ![u] = [facts |-> parsed[p][u], hash |-> disk[u],
                                             profile |-> profile[p]]]
        /\ work[p] \in [Units -> Row]
    BY <1>0, <1>7 DEF TypeOK, Stage, Rows
  <2>3. parsed[p][u] = disk[u]
    BY <1>0, <2>1 DEF HashInv
  <2>4. SoundRows(work'[p])
    <3>1. SoundRows(work[p])
      BY <1>0 DEF HashInv
    <3>2. ASSUME NEW v \in Units
          PROVE  work'[p][v].facts = work'[p][v].hash /\ work'[p][v].facts <= disk[v]
      <4>1. CASE v = u
        BY <2>2, <2>3, <4>1, SoundFacts
      <4>2. CASE v # u
        BY <2>2, <3>1, <4>2 DEF SoundRows
      <4>3. QED BY <4>1, <4>2
    <3>3. QED BY <3>2 DEF SoundRows
  <2>5. HashInv(p)'
    BY <1>0, <2>1, <2>4 DEF HashInv, SoundRows
  <2>6. QED BY <1>0, <1>2, <2>1, <2>5
<1>8. CASE Finalize(p) \/ Cancel(p)
  <2>1. /\ UNCHANGED <<database, private, work, seen, parsed, remaining>>
        /\ pc' = pc \/ pc'[p] = "commit"
    BY <1>0, <1>8 DEF TypeOK, Finalize, Cancel, Set, store, locals
  <2>2. HashInv(p)'
    BY <1>0, <2>1 DEF HashInv, SoundRows
  <2>3. QED BY <1>0, <1>2, <2>1, <2>2
<1>9. CASE Commit(p)
  <2>1. /\ Forget(p) /\ pc'[p] \notin {"begin", "stream"} /\ SoundRows(work[p])
        /\ build[p] \in Builds
    BY <1>0, <1>9 DEF TypeOK, Commit, Set, HashInv
  <2>2. /\ database' = database \/ database' = [database EXCEPT ![build[p]] = work[p]]
        /\ private'[p] = private[p] \/ private'[p] = [private[p] EXCEPT ![build[p]] = work[p]]
    BY <1>0, <1>9 DEF TypeOK, Commit, Install
  <2>3. \A b \in Builds : SoundRows(database'[b]) /\ SoundRows(private'[p][b])
    <3>1. database \in [Builds -> Rows] /\ private[p] \in [Builds -> Rows]
      BY <1>0 DEF TypeOK
    <3>2. ASSUME NEW b \in Builds
          PROVE  /\ database'[b] = database[b] \/ database'[b] = work[p]
                 /\ private'[p][b] = private[p][b] \/ private'[p][b] = work[p]
      BY <2>2, <3>1
    <3>3. QED BY <1>0, <2>1, <3>2
  <2>4. QED BY <1>0, <1>2, <2>1, <2>3, ForgetSound
<1>10. CASE Close(p) \/ Fail(p) \/ Break(p) \/ Crash(p)
  <2>1. /\ Forget(p) /\ pc'[p] = "idle" /\ private'[p] = EmptyDatabase
        /\ database' = database \/ database' = private[p]
    BY <1>0, <1>10 DEF TypeOK, Close, Fail, Break, Crash, Abort, End, Set
  <2>2. QED BY <1>0, <1>2, <2>1, SoundFacts, ForgetSound
<1>11. QED BY <1>3, <1>4, <1>5, <1>6, <1>7, <1>8, <1>9, <1>10 DEF RunStep

\* Files only change to newer contents, and not while a run has them in its hands.
LEMMA EditSound ==
  ASSUME CurrentInv, HashRace = FALSE, NEW changed \in SUBSET Units, Edit(changed)
  PROVE  SoundInv'
<1>1. \A u \in Units : disk'[u] \in Nat /\ disk[u] \in Nat /\ disk[u] <= disk'[u]
  <2>1. \A u \in Units : disk'[u] = disk[u] \/ disk'[u] = disk[u] + 1
    BY DEF Edit
  <2>2. \A u \in Units : disk[u] \in Nat
    BY ConstantTypes DEF CurrentInv, IndexInv, StoreInv, TypeOK
  <2>3. QED BY <2>1, <2>2
<1>2. UNCHANGED <<database, private, work, seen, parsed, remaining, pc>>
  BY DEF Edit, store, locals
<1>3. ASSUME NEW rows \in Rows, SoundRows(rows), NEW u \in Units
      PROVE  rows[u].facts = rows[u].hash /\ rows[u].facts <= disk'[u]
  <2>1. rows[u].facts \in Nat /\ rows[u].facts = rows[u].hash /\ rows[u].facts <= disk[u]
    BY <1>3, ConstantTypes DEF Rows, Row, Versions, SoundRows
  <2>2. QED BY <1>1, <2>1
<1>4. \A b \in Builds : SoundRows(database[b])'
  BY <1>2, <1>3 DEF CurrentInv, SoundInv, IndexInv, StoreInv, TypeOK, SoundRows
<1>5. ASSUME NEW p \in Procs PROVE HashInv(p)'
  <2>1. /\ \A b \in Builds : private[p][b] \in Rows /\ SoundRows(private[p][b])
        /\ work[p] \in Rows /\ SoundRows(work[p])
    BY DEF CurrentInv, SoundInv, HashInv, IndexInv, StoreInv, TypeOK
  <2>2. SoundRows(work[p])' /\ \A b \in Builds : SoundRows(private[p][b])'
    BY <1>2, <1>3, <2>1 DEF SoundRows
  <2>3. ASSUME NEW u \in Units
        PROVE  /\ seen'[p][u] <= disk'[u]
               /\ pc'[p] = "begin" => parsed'[p][u] = 0
               /\ pc'[p] = "stream" /\ u \in remaining'[p] /\ parsed'[p][u] # 0 =>
                    parsed'[p][u] = disk'[u]
    <3>1. /\ seen[p][u] \in Nat /\ seen[p][u] <= disk[u]
          /\ pc[p] = "begin" => parsed[p][u] = 0
          /\ pc[p] = "stream" /\ u \in remaining[p] /\ parsed[p][u] # 0 => parsed[p][u] = disk[u]
      BY ConstantTypes DEF CurrentInv, SoundInv, HashInv, IndexInv, StoreInv, TypeOK, Versions
    <3>2. InHands(u) => disk'[u] = disk[u]
      BY DEF Edit
    <3>3. QED BY <1>1, <1>2, <3>1, <3>2 DEF InHands
  <2>4. QED BY <2>2, <2>3 DEF HashInv
<1>6. QED BY <1>4, <1>5 DEF SoundInv

\* If the lists are never rewritten a run loads all the units.
LEMMA RunStepFull ==
  ASSUME CurrentInv, NEW p \in Procs, Open(p) \/ RunStep(p) \/ Break(p) \/ Crash(p) \/ Cancel(p)
  PROVE  FullInv'
<1> DEFINE Full(q) == pc[q] \in {"begin", "stream", "commit"} => current[q][build[q]] = Units
<1> SUFFICES ASSUME MaxLists = 0
             PROVE  /\ \A b \in Builds : lists'.rewritten = 0 /\ lists'.units[b] = Units
                    /\ \A q \in Procs : Full(q)'
  BY DEF FullInv
<1>1. TypeOK /\ (\A b \in Builds : lists.units[b] = Units) /\ \A q \in Procs : Full(q)
  BY DEF CurrentInv, FullInv, IndexInv, StoreInv
<1>2. \A b \in Builds : lists'.rewritten = 0 /\ lists'.units[b] = Units
  BY DEF CurrentInv, FullInv, RunStep, Open, Plan, Begin, Parse, Stage, Finalize, Commit, Close,
         Fail, Break, Crash, Abort, Cancel, world
<1>3. ASSUME NEW q \in Procs, q # p PROVE Full(q)'
  BY <1>1, <1>3, OthersKeep
<1>4. CASE Plan(p)
  <2>1. /\ build[p] \in Builds /\ build' = build
        /\ current'[p][build[p]] = lists.units[build[p]]
    BY <1>1, <1>4 DEF TypeOK, Plan
  <2>2. QED BY <1>1, <1>2, <1>3, <2>1
<1>5. CASE Begin(p) \/ Finalize(p)
  <2>1. /\ pc[p] \in {"begin", "stream"}
        /\ UNCHANGED <<current, build>>
    BY <1>5 DEF Begin, Finalize, locals
  <2>2. QED BY <1>1, <1>2, <1>3, <2>1
<1>6. CASE Cancel(p) \/ \E u \in Units : Parse(p, u) \/ Stage(p, u)
  <2>1. UNCHANGED <<pc, current, build>>
    BY <1>6 DEF Cancel, Parse, Stage, locals
  <2>2. QED BY <1>1, <1>2, <1>3, <2>1
<1>7. CASE Open(p) \/ Commit(p) \/ Close(p) \/ Fail(p) \/ Break(p) \/ Crash(p)
  <2>1. pc'[p] \notin {"begin", "stream", "commit"}
    BY <1>1, <1>7 DEF TypeOK, Open, Commit, Close, Fail, Break, Crash, Abort, End, Set
  <2>2. QED BY <1>2, <1>3, <2>1
<1>8. QED BY <1>4, <1>5, <1>6, <1>7 DEF RunStep

\* A transaction keeps the rows it rests on, whoever else commits: another commit waits
\* for the lock, comes before the transaction, or cannot drop a unit.
LEMMA OthersNewer ==
  ASSUME CurrentInv, SingleProcess \/ MaxLists = 0, NEW p \in Procs, NEW q \in Procs, q # p,
         Open(p) \/ RunStep(p) \/ Break(p) \/ Crash(p) \/ Cancel(p)
  PROVE  NewerInv(q)'
<1>1. /\ pc'[q] = pc[q] /\ mode'[q] = mode[q] /\ private'[q] = private[q] /\ build'[q] = build[q]
      /\ current'[q] = current[q] /\ seen'[q] = seen[q] /\ remaining'[q] = remaining[q]
      /\ work'[q] = work[q]
  BY OthersKeep DEF CurrentInv, IndexInv, StoreInv
<1>2. MaxLists = 0
  BY DEF SingleProcess
<1>3. CASE Own(q)' = Own(q) \/ pc[q] \notin {"begin", "stream", "commit"}
  BY <1>1, <1>3 DEF CurrentInv, NewerInv
<1>4. CASE Own(q)' # Own(q) /\ pc[q] \in {"begin", "stream", "commit"}
  <2>1. mode[q] = "shared" /\ database' # database /\ exists
    BY <1>1, <1>4 DEF Own, CurrentInv, IndexInv, StoreInv, PublishInv, TypeOK
  <2>2. Commit(p) \/ Close(p)
    BY <2>1 DEF RunStep, Open, Plan, Begin, Finalize, Fail, Break, Crash, Abort, Cancel, Parse,
           Stage, store
  <2>3. Commit(p) /\ mode[p] = "shared" /\ pc[p] = "commit"
    BY <2>1, <2>2 DEF Close, NameTaken, Commit, Install
  <2>4. writer = p /\ pc[q] = "begin"
    BY <1>4, <2>1, <2>3 DEF CurrentInv, IndexInv, StoreInv, LockInv
  <2>5. database' = [database EXCEPT ![build[p]] = work[p]]
    BY <2>3 DEF Commit, Install
  <2>6. /\ database \in [Builds -> Rows] /\ build[q] \in Builds /\ build[p] \in Builds
        /\ Own(q) = database /\ Own(q)' = database' /\ Own(p) = database
    BY <1>1, <2>1, <2>3 DEF CurrentInv, IndexInv, StoreInv, TypeOK, Own
  <2>7. SUFFICES ASSUME NEW u \in current[q][build[q]] \ remaining[q]
                 PROVE  database'[build[q]][u].facts >= seen[q][u]
    BY <1>1, <2>4, <2>6 DEF NewerInv
  <2>8. database[build[q]][u].facts >= seen[q][u] /\ u \in Units
    BY <2>4, <2>6 DEF CurrentInv, NewerInv, IndexInv, StoreInv, TypeOK
  <2>9. CASE build[q] # build[p]
    BY <2>5, <2>6, <2>8, <2>9
  <2>10. CASE build[q] = build[p]
    <3>1. u \in current[p][build[p]] \ remaining[p]
      BY <1>2, <2>3, <2>8 DEF CurrentInv, FullInv, IndexInv, ListInv
    <3>2. work[p][u].facts >= database[build[p]][u].facts
      BY <1>2, <2>3, <2>6, <3>1 DEF CurrentInv, NewerInv
    <3>3. /\ work[p][u].facts \in Nat /\ database[build[p]][u].facts \in Nat /\ seen[q][u] \in Nat
      BY <2>6, <2>8, ConstantTypes DEF CurrentInv, IndexInv, StoreInv, TypeOK, Rows, Row, Versions
    <3>4. database'[build[q]][u] = work[p][u]
      BY <2>5, <2>6, <2>10
    <3>5. QED BY <2>8, <2>10, <3>2, <3>3, <3>4
  <2>11. QED BY <2>9, <2>10
<1>5. QED BY <1>3, <1>4

\* What is skipped was current when it was compared; what is staged is current.
LEMMA OwnNewer ==
  ASSUME CurrentInv, NEW p \in Procs, Open(p) \/ RunStep(p) \/ Break(p) \/ Crash(p) \/ Cancel(p)
  PROVE  NewerInv(p)'
<1>0. TypeOK /\ NewerInv(p) /\ HashInv(p) /\ build[p] \in Builds
  BY DEF CurrentInv, SoundInv, IndexInv, StoreInv, TypeOK
<1> DEFINE b == build[p]
           rows == Own(p)[b]
<1>1. rows \in Rows /\ SoundRows(rows) /\ work[p] \in Rows
  BY <1>0, OwnTypes, SoundFacts DEF TypeOK
<1>2. \A u \in Units : rows[u].facts \in Nat /\ work[p][u].facts \in Nat /\ seen[p][u] \in Nat
  BY <1>0, <1>1, ConstantTypes DEF TypeOK, Rows, Row, Versions
<1>3. CASE Plan(p)
  <2>1. /\ pc'[p] = "begin" /\ b \in Builds /\ UNCHANGED <<mode, private, build, database>>
        /\ current'[p][b] = lists.units[b] /\ seen'[p] = disk
        /\ remaining'[p] = {u \in lists.units[b] : NeedsReindex(p, u, rows[u])}
    BY <1>0, <1>3 DEF TypeOK, Plan, Set, store
  <2>2. Own(p)' = Own(p) /\ lists.units[b] \subseteq Units
    BY <1>0, <2>1 DEF Own, TypeOK
  <2>3. ASSUME NEW u \in lists.units[b] \ remaining'[p]
        PROVE  rows[u].facts >= seen'[p][u]
    <3>1. rows[u].hash = disk[u]
      BY <2>1 DEF NeedsReindex
    <3>2. rows[u].facts = disk[u] /\ disk[u] \in Nat
      BY <1>1, <2>2, <3>1, SoundFacts DEF SoundRows
    <3>3. QED BY <2>1, <3>2
  <2>4. QED BY <2>1, <2>2, <2>3 DEF NewerInv
<1>4. CASE Begin(p)
  <2>1. /\ pc[p] = "begin" /\ pc'[p] = "stream"
        /\ UNCHANGED <<database, mode, private, build, current, seen, remaining>>
        /\ work'[p] = [u \in Units |-> IF u \in Replaced(p) THEN NoRow ELSE rows[u]]
    BY <1>0, <1>4 DEF TypeOK, Begin, Set
  <2>2. Own(p)' = Own(p) /\ current[p][b] \subseteq Units
    BY <1>0, <2>1 DEF Own, TypeOK
  <2>3. ASSUME NEW u \in current[p][b] \ remaining[p]
        PROVE  /\ work'[p][u].facts >= seen[p][u] /\ work'[p][u].facts >= rows[u].facts
    <3>1. u \notin Replaced(p) /\ u \in Units
      BY <2>2 DEF Replaced
    <3>2. work'[p][u] = rows[u]
      BY <2>1, <3>1
    <3>3. rows[u].facts >= seen[p][u]
      BY <1>0, <2>1 DEF NewerInv
    <3>4. QED BY <1>2, <3>1, <3>2, <3>3
  <2>4. QED BY <2>1, <2>2, <2>3 DEF NewerInv
<1>5. CASE Finalize(p) \/ Cancel(p) \/ \E u \in Units : Parse(p, u)
  <2>1. /\ UNCHANGED <<database, mode, private, build, current, seen, remaining, work>>
        /\ pc' = pc \/ (pc[p] = "stream" /\ pc'[p] = "commit")
    BY <1>0, <1>5 DEF TypeOK, Finalize, Cancel, Parse, Set, store, locals
  <2>2. Own(p)' = Own(p)
    BY <2>1 DEF Own
  <2>3. QED BY <1>0, <2>1, <2>2 DEF NewerInv
<1>6. ASSUME NEW u \in Units, Stage(p, u)
      PROVE  NewerInv(p)'
  <2>1. /\ pc[p] = "stream" /\ remaining'[p] = remaining[p] \ {u} /\ parsed[p][u] = disk[u]
        /\ UNCHANGED <<pc, database, mode, private, build, current, seen>>
    BY <1>0, <1>6 DEF TypeOK, Stage, store, HashInv
  <2>2. work'[p] = [work[p] EXCEPT ![u] = [facts |-> parsed[p][u], hash |-> disk[u],
                                           profile |-> profile[p]]]
    BY <1>0, <1>6 DEF TypeOK, Stage
  <2>3. Own(p)' = Own(p) /\ current[p][b] \subseteq Units
    BY <1>0, <2>1 DEF Own, TypeOK
  <2>4. ASSUME NEW v \in current[p][b] \ remaining'[p]
        PROVE  /\ work'[p][v].facts >= seen[p][v]
               /\ MaxLists = 0 => work'[p][v].facts >= rows[v].facts
    <3>1. CASE v = u
      <4>1. work'[p][v].facts = disk[u]
        BY <1>1, <2>1, <2>2, <3>1 DEF Rows
      <4>2. seen[p][u] <= disk[u] /\ rows[u].facts <= disk[u]
        BY <1>0, <1>1 DEF HashInv, SoundRows
      <4>3. disk[u] \in Nat
        BY SoundFacts
      <4>4. QED BY <1>2, <3>1, <4>1, <4>2, <4>3
    <3>2. CASE v # u
      <4>1. v \in current[p][b] \ remaining[p] /\ v \in Units
        BY <2>1, <2>3, <3>2
      <4>2. work'[p][v] = work[p][v]
        BY <1>1, <2>2, <3>2, <4>1 DEF Rows
      <4>3. QED BY <1>0, <2>1, <4>1, <4>2 DEF NewerInv
    <3>3. QED BY <3>1, <3>2
  <2>5. QED BY <2>1, <2>3, <2>4 DEF NewerInv
<1>7. CASE Open(p) \/ Commit(p) \/ Close(p) \/ Fail(p) \/ Break(p) \/ Crash(p)
  <2>1. pc'[p] \notin {"begin", "stream", "commit"}
    BY <1>0, <1>7 DEF TypeOK, Open, Commit, Close, Fail, Break, Crash, Abort, End, Set
  <2>2. QED BY <2>1 DEF NewerInv
<1>8. QED BY <1>3, <1>4, <1>5, <1>6, <1>7 DEF RunStep

LEMMA InitCurrent == Init => CurrentInv
<1> SUFFICES ASSUME Init PROVE CurrentInv
  OBVIOUS
<1>1. IndexInv
  BY InitIndex
<1>2. SoundInv
  BY ConstantTypes DEF Init, SoundInv, HashInv, SoundRows, EmptyDatabase, NoRow
<1>3. FullInv /\ \A p \in Procs : NewerInv(p)
  BY DEF Init, FullInv, NewerInv
<1>4. QED BY <1>1, <1>2, <1>3 DEF CurrentInv

LEMMA NextCurrent ==
  ASSUME HashRace = FALSE, SingleProcess \/ MaxLists = 0
  PROVE  CurrentInv /\ [Next]_vars => CurrentInv'
<1> SUFFICES ASSUME CurrentInv, [Next]_vars
             PROVE  SoundInv' /\ FullInv' /\ \A q \in Procs : NewerInv(q)'
  BY NextIndex DEF CurrentInv
<1>1. ASSUME NEW p \in Procs, Open(p) \/ RunStep(p) \/ Break(p) \/ Crash(p) \/ Cancel(p)
      PROVE  SoundInv' /\ FullInv' /\ \A q \in Procs : NewerInv(q)'
  BY <1>1, RunStepSound, RunStepFull, OthersNewer, OwnNewer
<1>2. ASSUME UNCHANGED <<database, pc, locals>>
      PROVE  \A q \in Procs : NewerInv(q)'
  BY <1>2 DEF CurrentInv, NewerInv, Own, locals
<1>3. ASSUME NEW changed \in SUBSET Units, Edit(changed)
      PROVE  SoundInv' /\ FullInv' /\ \A q \in Procs : NewerInv(q)'
  <2>1. UNCHANGED <<database, pc, locals, lists>>
    BY <1>3 DEF Edit, store
  <2>2. FullInv'
    BY <2>1 DEF CurrentInv, FullInv, locals
  <2>3. QED BY <1>2, <1>3, <2>1, <2>2, EditSound
<1>4. ASSUME UNCHANGED <<disk, database, pc, locals>>
      PROVE  SoundInv'
  BY <1>4 DEF CurrentInv, SoundInv, HashInv, SoundRows, locals
<1>5. ASSUME NEW c \in Builds, NEW units \in SUBSET Units, Rewrite(c, units)
      PROVE  SoundInv' /\ FullInv' /\ \A q \in Procs : NewerInv(q)'
  <2>1. UNCHANGED <<disk, database, pc, locals>> /\ lists.rewritten < MaxLists
    BY <1>5 DEF Rewrite, store
  <2>2. MaxLists # 0
    BY <2>1, ConstantTypes DEF CurrentInv, IndexInv, StoreInv, TypeOK
  <2>3. QED BY <1>2, <1>4, <2>1, <2>2 DEF FullInv
<1>6. CASE ReaderCreates \/ UNCHANGED vars
  <2>1. UNCHANGED <<disk, lists, database, pc, locals>>
    BY <1>6 DEF ReaderCreates, vars, world, store
  <2>2. FullInv'
    BY <2>1 DEF CurrentInv, FullInv, locals
  <2>3. QED BY <1>2, <1>4, <2>1, <2>2
<1>7. QED BY <1>1, <1>3, <1>5, <1>6 DEF Next

\* The generation a run commits is at least as new as the files were when the run
\* compared them, for the units it reindexed and those it skipped, and whatever other
\* runs do (ProjectIndexer.index, _needs_reindex): if no file changes between its
\* analysis and its hashing, and two processes agree on the units.
THEOREM CommitIsUpToDate ==
  ASSUME HashRace = FALSE, SingleProcess \/ MaxLists = 0
  PROVE  Spec => CommitIsCurrent
<1> DEFINE Newer == \A p \in Procs : Commits(p) =>
       \A u \in current[p][build[p]] : Committed(p)[u].facts >= seen[p][u]
<1>1. CurrentInv /\ [Next]_vars => [Newer]_vars
  <2> SUFFICES ASSUME CurrentInv, Next, NEW p \in Procs, Commits(p),
                      NEW u \in current[p][build[p]]
               PROVE  Committed(p)[u].facts >= seen[p][u]
    OBVIOUS
  <2>1. Commit(p)
    BY CommitSteps DEF CurrentInv, IndexInv, StoreInv
  <2>2. Committed(p) = work[p]
    BY <2>1, CommitInstalls DEF CurrentInv, IndexInv, StoreInv
  <2>3. pc[p] = "commit" /\ remaining[p] = {}
    BY DEF Commits, CurrentInv, IndexInv, ListInv
  <2>4. work[p][u].facts >= seen[p][u]
    BY <2>3 DEF CurrentInv, NewerInv
  <2>5. QED BY <2>2, <2>4
<1>2. CurrentInv /\ [Next]_vars => CurrentInv'
  BY NextCurrent
<1>3. QED BY <1>1, <1>2, InitCurrent, PTL DEF Spec, CommitIsCurrent
=============================================================================
