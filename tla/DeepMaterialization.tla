------------------------- MODULE DeepMaterialization -------------------------
(***************************************************************************)
(* DeepMaterializer.materialize (src/cpp_context_engine/ingestion/deep.py) *)
(* and the three publications of SQLiteStore it ends in, requested by      *)
(* several threads of several processes while other processes index.       *)
(*                                                                         *)
(* Requests with one key coalesce in a process: a leader computes,         *)
(* followers wait for its future.  Leaders of a process compute one at a   *)
(* time.  A computation reads the closure of the root's translation units  *)
(* from the committed index, row by row and outside any transaction, and   *)
(* ends by publishing a token in one write transaction.                    *)
(*                                                                         *)
(* Data.  The version of a unit stands for its source, dependencies and    *)
(* command.  The generation of a closure is a version per unit, 0 outside  *)
(* the closure: deep.py hashes exactly that.  Left out: the analyzer's     *)
(* identity, which is one more file that every unit depends on, and        *)
(* closures cut short by max_tus.                                          *)
(***************************************************************************)
EXTENDS Integers, FiniteSets

CONSTANTS
  Requests, Hosts,  \* threads that ask, and the processes they belong to
  Home,             \* the process of every request
  Symbols,          \* root symbols; the other parts of a key are fixed
  Units,
  Root,             \* the unit that defines a symbol
  Calls,            \* Calls[u][v]: units that version v of unit u calls into
  Profiles,         \* profiles the index runs use
  MaxVersion,       \* bound of the model: edits per unit, plus one
  None              \* no request, no symbol

Versions == 1 .. MaxVersion

ASSUME DeepAssumption ==
  /\ MaxVersion \in Nat \ {0} /\ None \notin Requests \cup Symbols
  /\ Home \in [Requests -> Hosts] /\ Root \in [Symbols -> Units]
  /\ Calls \in [Units -> [Versions -> SUBSET Units]]
  /\ Profiles \subseteq {"navigation", "full"} /\ Profiles # {}
  /\ IsFiniteSet(Units)

\* A generation, and a row of deep_tu_cache: the generation it belongs to and
\* the version its deep facts were computed from.
Generations == [Units -> 0 .. MaxVersion]
NoGeneration == [u \in Units |-> 0]
Members(g) == {u \in Units : g[u] # 0}
Uncached == [generation |-> NoGeneration, facts |-> 0]

VARIABLES
  disk,       \* version of every unit's files
  rows,       \* committed index: version and profile of every unit
  cache,      \* deep_tu_cache
  tokens,     \* deep_materializations: root symbol and generation
  writer,     \* the request that holds the write lock
  pc,         \* where every request is
  symbol,     \* its root symbol
  leader,     \* the request whose future it waits for
  closure,    \* generation read so far
  expanded,   \* units whose callees have been looked up
  parsed,     \* versions its analyzers read
  kind,       \* how it will publish: "overlay", "alias" or "full"
  cancelled,  \* its DeepCancellation
  answer,     \* its future: "none", "ok" or "failed"
  inflight,   \* _inflight of every process
  admission   \* _admission of every process

store == <<rows, cache, tokens, writer>>
locals == <<symbol, leader, closure, expanded, parsed, kind, answer>>
shared == <<inflight, admission>>
vars == <<disk, store, pc, locals, cancelled, shared>>

Init ==
  /\ disk = [u \in Units |-> 1]
  /\ \E p \in Profiles : rows = [u \in Units |-> [version |-> 1, profile |-> p]]
  /\ cache = [u \in Units |-> Uncached] /\ tokens = {} /\ writer = None
  /\ pc = [r \in Requests |-> "idle"]
  /\ symbol = [r \in Requests |-> None]
  /\ leader = [r \in Requests |-> None]
  /\ closure = [r \in Requests |-> NoGeneration]
  /\ expanded = [r \in Requests |-> {}]
  /\ parsed = [r \in Requests |-> NoGeneration]
  /\ kind = [r \in Requests |-> "none"]
  /\ cancelled = [r \in Requests |-> FALSE]
  /\ answer = [r \in Requests |-> "none"]
  /\ inflight = [h \in Hosts |-> [s \in Symbols |-> None]]
  /\ admission = [h \in Hosts |-> None]

Set(f, r, value) == [f EXCEPT ![r] = value]
Goto(r, place) == pc' = Set(pc, r, place)

-----------------------------------------------------------------------------
(* Coalescing and admission.                                               *)

\* The future of a leader stays with those who wait for it; a thread that
\* asks again is another request in the code, here one that nobody waits for.
Start(r) ==
  /\ pc[r] = "idle"
  /\ \A f \in Requests : leader[f] # r
  /\ \E s \in Symbols :
       LET first == inflight[Home[r]][s]
       IN /\ symbol' = Set(symbol, r, s)
          /\ IF first = None
             THEN /\ inflight' = [inflight EXCEPT ![Home[r]][s] = r]
                  /\ Goto(r, "queue") /\ UNCHANGED leader
             ELSE /\ leader' = Set(leader, r, first)
                  /\ Goto(r, "wait") /\ UNCHANGED inflight
  /\ answer' = Set(answer, r, "none")
  /\ UNCHANGED <<disk, store, closure, expanded, parsed, kind, cancelled, admission>>

\* Mutant: an exception is not handed to those who wait.
FutureDoneOnlyWithResult(l) == pc[l] \in {"pop", "idle"} /\ answer[l] = "ok"
FutureDone(l) == pc[l] \in {"pop", "idle"}

Leave(r) ==
  /\ Goto(r, "idle")
  /\ leader' = Set(leader, r, None)
  /\ symbol' = Set(symbol, r, None)
  /\ cancelled' = Set(cancelled, r, FALSE)

\* A follower returns or raises what its leader's future holds.
Receive(r) ==
  /\ pc[r] = "wait" /\ FutureDone(leader[r])
  /\ answer' = Set(answer, r, answer[leader[r]])
  /\ Leave(r)
  /\ UNCHANGED <<disk, store, closure, expanded, parsed, kind, shared>>

\* A follower's own deadline or cancellation.
GiveUpWaiting(r) ==
  /\ pc[r] = "wait"
  /\ answer' = Set(answer, r, "failed")
  /\ Leave(r)
  /\ UNCHANGED <<disk, store, closure, expanded, parsed, kind, shared>>

\* Mutant: leaders do not wait for each other.
AlwaysAdmitted(r) == TRUE
Admitted(r) == admission[Home[r]] = None

\* The admission lock, then the definition units of the root symbol.
Admit(r) ==
  /\ pc[r] = "queue" /\ ~cancelled[r] /\ Admitted(r)
  /\ admission' = [admission EXCEPT ![Home[r]] = r]
  /\ LET u == Root[symbol[r]]
     IN closure' = Set(closure, r, [NoGeneration EXCEPT ![u] = rows[u].version])
  /\ Goto(r, "closure")
  /\ UNCHANGED <<disk, store, symbol, leader, expanded, parsed, kind, answer,
                 cancelled, inflight>>

-----------------------------------------------------------------------------
(* The computation.                                                        *)

\* _closure: one query finds the units that unit u calls now, with their
\* versions; units already known keep the version they were read with.
Expand(r, u) ==
  /\ pc[r] = "closure" /\ ~cancelled[r]
  /\ u \in Members(closure[r]) \ expanded[r]
  /\ closure' = Set(closure, r,
       [v \in Units |-> IF closure[r][v] = 0 /\ v \in Calls[u][rows[u].version]
                        THEN rows[v].version ELSE closure[r][v]])
  /\ expanded' = [expanded EXCEPT ![r] = @ \cup {u}]
  /\ UNCHANGED <<disk, store, pc, symbol, leader, parsed, kind, answer, cancelled, shared>>

\* _revalidate: the files still have the contents the index recorded.
Revalidated(r) == \A u \in Members(closure[r]) : disk[u] = closure[r][u]

Revalidate(r) ==
  /\ pc[r] = "closure" /\ ~cancelled[r]
  /\ expanded[r] = Members(closure[r]) /\ Revalidated(r)
  /\ Goto(r, "profile")
  /\ UNCHANGED <<disk, store, locals, cancelled, shared>>

AllFull(r) == \A u \in Members(closure[r]) : rows[u].profile = "full"

\* A fresh read of the units' states chooses between the full profile, whose
\* facts are there already, and an analysis.
ChooseBranch(r) ==
  /\ pc[r] = "profile" /\ ~cancelled[r]
  /\ kind' = Set(kind, r, IF AllFull(r) THEN "full" ELSE "overlay")
  /\ Goto(r, "lookup")
  /\ UNCHANGED <<disk, store, symbol, leader, closure, expanded, parsed, answer,
                 cancelled, shared>>

\* deep_cached_closure: every unit of the closure is cached for exactly this
\* generation.
Cached(g) == \A u \in Members(g) : cache[u].generation = g

Token(r) == [root |-> symbol[r], generation |-> closure[r]]

\* The computation returns or raises: its locals are gone, the admission lock
\* is free, and only then the request's future gets its value.
Finish(r, how) ==
  /\ Goto(r, "resolve")
  /\ answer' = Set(answer, r, how)
  /\ admission' = [h \in Hosts |-> IF admission[h] = r THEN None ELSE admission[h]]
  /\ kind' = Set(kind, r, "none")
  /\ closure' = Set(closure, r, NoGeneration)
  /\ expanded' = Set(expanded, r, {})
  /\ parsed' = Set(parsed, r, NoGeneration)

\* The token exists already.
Hit(r) ==
  /\ pc[r] = "lookup" /\ ~cancelled[r]
  /\ Cached(closure[r]) /\ Token(r) \in tokens
  /\ Finish(r, "ok")
  /\ UNCHANGED <<disk, store, symbol, leader, cancelled, inflight>>

\* The closure is cached for another root, or nothing is cached.
Miss(r) ==
  /\ pc[r] = "lookup" /\ ~cancelled[r]
  /\ \/ /\ Cached(closure[r]) /\ Token(r) \notin tokens
        /\ kind' = Set(kind, r, "alias") /\ Goto(r, "publish")
     \/ /\ ~Cached(closure[r]) /\ UNCHANGED kind
        /\ Goto(r, IF kind[r] = "full" THEN "publish" ELSE "analyze")
  /\ UNCHANGED <<disk, store, symbol, leader, closure, expanded, parsed, answer,
                 cancelled, shared>>

\* Analyzer processes read the closure's files, whatever they hold by now.
Analyze(r) ==
  /\ pc[r] = "analyze"
  /\ parsed' = Set(parsed, r, [u \in Units |-> IF closure[r][u] = 0 THEN 0 ELSE disk[u]])
  /\ Goto(r, "analyzed")
  /\ UNCHANGED <<disk, store, symbol, leader, closure, expanded, kind, answer,
                 cancelled, shared>>

\* The files are hashed again, with the compile commands and the analyzer.
RevalidateAgain(r) ==
  /\ pc[r] = "analyzed" /\ ~cancelled[r] /\ Revalidated(r)
  /\ Goto(r, "publish")
  /\ UNCHANGED <<disk, store, locals, cancelled, shared>>

-----------------------------------------------------------------------------
(* Publication.                                                            *)

\* What is checked again under the write lock.  An overlay compares the
\* committed rows with what it analyzed, an alias needs the cached closure; the
\* full profile looks at profile and coverage, not at contents.  The first
\* two also fail on a token that another process published meanwhile.
\* Mutant: no second look.
TrustedEarlierRead(r) == TRUE
RowsUnchanged(r) == \A u \in Members(closure[r]) : rows[u].version = closure[r][u]
StillValid(r) ==
  CASE kind[r] = "overlay" -> RowsUnchanged(r) /\ Token(r) \notin tokens
    [] kind[r] = "alias"   -> Cached(closure[r]) /\ Token(r) \notin tokens
    [] kind[r] = "full"    -> AllFull(r)

\* BEGIN IMMEDIATE, the checks, the statements up to the commit.
Prepare(r) ==
  /\ pc[r] = "publish" /\ ~cancelled[r] /\ writer = None /\ StillValid(r)
  /\ writer' = r
  /\ Goto(r, "prepared")
  /\ UNCHANGED <<disk, rows, cache, tokens, locals, cancelled, shared>>

\* The last check, with the publication guard in hand.
TakeGuard(r) ==
  /\ pc[r] = "prepared" /\ ~cancelled[r]
  /\ Goto(r, "guarded")
  /\ UNCHANGED <<disk, store, locals, cancelled, shared>>

\* Units that call, over any number of calls, into a set of units: those in every
\* set that has these units and the callers of its members.
Callers(targets) ==
  LET Closed(reached) == \A u \in Units :
        u \in targets \/ Calls[u][rows[u].version] \cap reached # {} => u \in reached
  IN {u \in Units : \A reached \in SUBSET Units : Closed(reached) => u \in reached}

\* Deleting a unit's cache row deletes, by cascade, the unit's rows of every
\* token; _delete_invalid_deep_materializations then drops tokens that miss a
\* row, those of other roots of the same closure too.  Mutant: they stay.
Keep(all, deleted) == all
Valid(all, deleted) == {t \in all : Members(t.generation) \cap deleted = {}}

\* The cache rows a publication deletes: apply_deep_overlay those of the closure
\* and of its callers, publish_full_profile_materialization those of the
\* closure, an alias none.
Deleted(r) ==
  CASE kind[r] = "overlay" -> Callers(Members(closure[r]))
    [] kind[r] = "full"    -> Members(closure[r])
    [] kind[r] = "alias"   -> {}

\* The rows it inserts: an overlay brings the facts it analyzed, the full
\* profile declares the committed facts cached.
Published(r, u) ==
  [generation |-> closure[r],
   facts |-> IF kind[r] = "full" THEN rows[u].version ELSE parsed[r][u]]

Commit(r) ==
  /\ pc[r] = "guarded"
  /\ cache' = [u \in Units |->
                 IF u \notin Deleted(r) THEN cache[u]
                 ELSE IF u \in Members(closure[r]) THEN Published(r, u) ELSE Uncached]
  /\ tokens' = Valid(tokens, Deleted(r)) \cup {Token(r)}
  /\ writer' = None
  /\ Finish(r, "ok")
  /\ UNCHANGED <<disk, rows, symbol, leader, cancelled, inflight>>

\* Places where a leader's computation can raise, an open transaction rolled
\* back; it holds the guard from its last check to the end of the commit.
Interruptible == {"queue", "closure", "profile", "lookup", "analyze", "analyzed",
                  "publish", "prepared"}
Raise(r) ==
  /\ writer' = IF writer = r THEN None ELSE writer
  /\ Finish(r, "failed")
  /\ UNCHANGED <<disk, rows, cache, tokens, symbol, leader, cancelled, inflight>>

\* What the computation runs into by itself: a cancellation, changed inputs,
\* a failed check under the lock, a lock that another process keeps.
Fail(r) ==
  /\ \/ pc[r] \in Interruptible /\ cancelled[r]
     \/ /\ pc[r] = "closure" /\ expanded[r] = Members(closure[r]) /\ ~Revalidated(r)
     \/ pc[r] = "analyzed" /\ ~Revalidated(r)
     \/ pc[r] = "publish" /\ (writer # None \/ ~StillValid(r))
  /\ Raise(r)

\* A deadline, a limit, an error of the analyzer or of the database.
Break(r) == pc[r] \in Interruptible /\ Raise(r)

\* The future is completed, and only then the entry removed.
Resolve(r) ==
  /\ pc[r] = "resolve"
  /\ Goto(r, "pop")
  /\ UNCHANGED <<disk, store, locals, cancelled, shared>>

Pop(r) ==
  /\ pc[r] = "pop"
  /\ inflight' = [inflight EXCEPT ![Home[r]][symbol[r]] = None]
  /\ Leave(r)
  /\ UNCHANGED <<disk, store, closure, expanded, parsed, kind, answer, admission>>

-----------------------------------------------------------------------------
(* The world around.                                                       *)

\* DeepCancellation.set waits for the publication guard.
\* Mutant: it does not.
CancellableAtAnyTime(r) == TRUE
GuardFree(r) == pc[r] # "guarded"

Cancel(r) ==
  /\ pc[r] # "idle" /\ ~cancelled[r] /\ GuardFree(r)
  /\ cancelled' = Set(cancelled, r, TRUE)
  /\ UNCHANGED <<disk, store, pc, locals, shared>>

Edit(u) ==
  /\ disk[u] < MaxVersion
  /\ disk' = [disk EXCEPT ![u] = @ + 1]
  /\ UNCHANGED <<store, pc, locals, cancelled, shared>>

\* The commit of an index run of another process (ProjectIndex): every unit of
\* another profile and some of those edited are replaced, and with them their
\* cache rows; changed override candidates drop callers' cache rows, too.
Reindex(profile, edited, callers) ==
  LET changed == edited \cup {u \in Units : rows[u].profile # profile}
      cleared == changed \cup callers
  IN /\ writer = None /\ changed # {}
     /\ callers \subseteq Callers(changed)
     /\ rows' = [u \in Units |-> IF u \in changed THEN [version |-> disk[u], profile |-> profile]
                                 ELSE rows[u]]
     /\ cache' = [u \in Units |-> IF u \in cleared THEN Uncached ELSE cache[u]]
     /\ tokens' = Valid(tokens, cleared)
     /\ UNCHANGED <<disk, writer, pc, locals, cancelled, shared>>

Edited == {u \in Units : rows[u].version # disk[u]}

Computes(r) ==
  \/ \E u \in Units : Expand(r, u)
  \/ Revalidate(r) \/ ChooseBranch(r) \/ Hit(r) \/ Miss(r) \/ Analyze(r)
  \/ RevalidateAgain(r) \/ Prepare(r) \/ TakeGuard(r) \/ Commit(r)
  \/ Fail(r) \/ Resolve(r) \/ Pop(r)

Next ==
  \/ \E r \in Requests :
       Start(r) \/ Receive(r) \/ GiveUpWaiting(r) \/ Admit(r) \/ Computes(r)
       \/ Break(r) \/ Cancel(r)
  \/ \E u \in Units : Edit(u)
  \/ \E p \in Profiles, edited \in SUBSET Edited, callers \in SUBSET Units :
       Reindex(p, edited, callers)

\* Threads go on, and a follower looks at its future every 0.05 s.  A leader
\* polls the admission lock, which every computation gives back.  No fairness
\* for deadlines: requests end without them.
Spec == Init /\ [][Next]_vars
Fairness == \A r \in Requests : WF_vars(Computes(r) \/ Receive(r)) /\ SF_vars(Admit(r))
FairSpec == Spec /\ Fairness

-----------------------------------------------------------------------------
(* Properties.                                                             *)

Computing == {"closure", "profile", "lookup", "analyze", "analyzed", "publish",
              "prepared", "guarded"}
Leading == Computing \cup {"queue", "resolve", "pop"}

\* Types; a cache row and a token always stand for some unit, with facts of a
\* version that existed.
TypeOK ==
  /\ disk \in [Units -> Versions]
  /\ rows \in [Units -> [version : Versions, profile : Profiles]]
  /\ cache \in [Units -> {Uncached} \cup [generation : Generations \ {NoGeneration},
                                          facts : Versions]]
  /\ tokens \subseteq [root : Symbols, generation : Generations \ {NoGeneration}]
  /\ writer \in Requests \cup {None}
  /\ pc \in [Requests -> Leading \cup {"idle", "wait"}]
  /\ symbol \in [Requests -> Symbols \cup {None}] /\ leader \in [Requests -> Requests \cup {None}]
  /\ closure \in [Requests -> Generations] /\ expanded \in [Requests -> SUBSET Units]
  /\ parsed \in [Requests -> Generations]
  /\ kind \in [Requests -> {"none", "overlay", "alias", "full"}]
  /\ cancelled \in [Requests -> BOOLEAN]
  /\ answer \in [Requests -> {"none", "ok", "failed"}]
  /\ inflight \in [Hosts -> [Symbols -> Requests \cup {None}]]
  /\ admission \in [Hosts -> Requests \cup {None}]

\* Results are "cached from compile-command, source, dependency ... identity"
\* (README.md:561): whatever index runs and other requests did meanwhile, a
\* token names the committed version of each of its units, and the cached facts
\* it leads to were computed from that version.
TokensAreExact ==
  \A t \in tokens : \A u \in Members(t.generation) :
    /\ rows[u].version = t.generation[u]
    /\ cache[u] = [generation |-> t.generation, facts |-> t.generation[u]]

\* A leader succeeds with a closure that was not torn by a concurrent index
\* run: at that moment all its versions are committed together.
ResultIsCurrent ==
  [][\A r \in Requests : pc[r] \in Computing /\ pc'[r] = "resolve" /\ answer'[r] = "ok"
       => \A u \in Members(closure[r]) : rows[u].version = closure[r][u]]_vars

\* "Cancellation token whose publication guard makes the final commit
\* race-free" (deep.py:49): once set() has returned nothing is published.
NoCommitAfterCancel ==
  [][\A r \in Requests :
       writer = r /\ <<cache, tokens>>' # <<cache, tokens>> => ~cancelled[r]]_vars

\* Whatever fails, one process computes one closure at a time and one future
\* per key is open: the entry of _inflight is that of a thread that will
\* complete it, and who waits, waits for such a thread or for a value.
OneComputation ==
  /\ TypeOK
  /\ \A r \in Requests : pc[r] \in Leading => inflight[Home[r]][symbol[r]] = r
  /\ \A h \in Hosts, s \in Symbols :
       inflight[h][s] # None => pc[inflight[h][s]] \in Leading
  /\ \A r \in Requests : pc[r] = "wait" => pc[leader[r]] \in Leading \/ answer[leader[r]] # "none"
  /\ \A r \in Requests : pc[r] \in Computing <=> \E h \in Hosts : admission[h] = r
  /\ \A r, q \in Requests :
       pc[r] \in Computing /\ pc[q] \in Computing /\ Home[r] = Home[q] => r = q

\* Every request gets a result or an exception.
RequestsEnd == \A r \in Requests : pc[r] # "idle" ~> pc[r] = "idle"
=============================================================================
