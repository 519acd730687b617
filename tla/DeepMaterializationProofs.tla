---------------------- MODULE DeepMaterializationProofs ----------------------
(***************************************************************************)
(* Theorems about DeepMaterialization for any number of requests, hosts,   *)
(* symbols, units and versions: how requests coalesce, that a cancelled    *)
(* request publishes nothing, and what tokens and results say about the    *)
(* index.                                                                  *)
(***************************************************************************)
EXTENDS DeepMaterialization, TLAPS

Chosen == {"lookup", "analyze", "analyzed", "publish", "prepared", "guarded"}
Publishing == {"publish", "prepared", "guarded"}
Locked == {"prepared", "guarded"}

\* A leader is the entry of its key, and an entry is a leader of that key.  Who waits,
\* waits for a leader or for one that has left a value and asks for nothing since.
FutureInv ==
  /\ \A r \in Requests : pc[r] \in Leading =>
       symbol[r] \in Symbols /\ inflight[Home[r]][symbol[r]] = r
  /\ \A h \in Hosts, s \in Symbols : inflight[h][s] # None =>
       pc[inflight[h][s]] \in Leading /\ Home[inflight[h][s]] = h /\ symbol[inflight[h][s]] = s
  /\ \A r \in Requests : pc[r] \in {"resolve", "pop"} => answer[r] # "none"
  /\ \A r \in Requests : (pc[r] = "wait") <=> (leader[r] # None)
  /\ \A r \in Requests : pc[r] = "wait" =>
       pc[leader[r]] \in Leading \/ (pc[leader[r]] = "idle" /\ answer[leader[r]] # "none")

\* Who computes holds the admission lock of its process.
AdmissionInv ==
  /\ \A h \in Hosts : admission[h] # None => Home[admission[h]] = h
  /\ \A r \in Requests : pc[r] \in Computing <=> admission[Home[r]] = r

\* A computation has read its root, and has chosen how to publish; an analysis has
\* read the files of the closure.
ComputeInv ==
  \A r \in Requests :
    /\ pc[r] \in Computing => closure[r][Root[symbol[r]]] # 0
    /\ pc[r] \in Chosen => kind[r] # "none"
    /\ pc[r] = "lookup" => kind[r] # "alias"
    /\ pc[r] \in {"analyze", "analyzed"} => kind[r] = "overlay"
    /\ pc[r] \in {"analyzed"} \cup Publishing /\ kind[r] = "overlay" =>
         \A u \in Members(closure[r]) : parsed[r][u] # 0

\* The write lock is that of a publication, and its guard keeps cancellation out.
WriterInv ==
  \A r \in Requests :
    /\ writer = r <=> pc[r] \in Locked
    /\ pc[r] = "guarded" => ~cancelled[r]

RequestInv == TypeOK /\ FutureInv /\ AdmissionInv /\ ComputeInv /\ WriterInv

\* Either nobody indexes with the full profile or nobody edits.
Steady == "full" \notin Profiles \/ MaxVersion = 1

\* What was read is some contents the files have had; what was analyzed lies between
\* what was read and what the files hold, and is what was read once that is checked.
VersionInv ==
  /\ \A u \in Units : rows[u].version <= disk[u]
  /\ \A r \in Requests, u \in Units :
       /\ closure[r][u] <= disk[u]
       /\ pc[r] = "analyzed" => closure[r][u] <= parsed[r][u] /\ parsed[r][u] <= disk[u]
       /\ pc[r] \in Publishing /\ kind[r] = "overlay" /\ closure[r][u] # 0 =>
            parsed[r][u] = closure[r][u]

\* What is cached is what is committed.
CacheInv ==
  \A u \in Units : cache[u] # Uncached =>
    cache[u].generation[u] = rows[u].version /\ cache[u].facts = rows[u].version

\* What a publication has checked under the lock stays so until it releases it.
CheckedInv ==
  \A r \in Requests : pc[r] \in Locked =>
    IF kind[r] = "alias" THEN Cached(closure[r])
    ELSE \A u \in Members(closure[r]) : rows[u].version = closure[r][u]

\* Index runs with the navigation profile leave nothing for the full branch.
KindInv == \A r \in Requests : kind[r] = "full" => "full" \in Profiles

TokenInv == RequestInv /\ VersionInv /\ CacheInv /\ CheckedInv /\ KindInv /\ TokensAreExact

-----------------------------------------------------------------------------
(* Types.                                                                  *)

LEMMA ConstantTypes ==
  /\ MaxVersion \in Nat /\ MaxVersion >= 1 /\ 1 \in Versions /\ Versions \subseteq 0 .. MaxVersion
  /\ \A v \in Versions : v \in Nat /\ v # 0
  /\ \A g \in Generations, u \in Units : g[u] \in Nat /\ (g[u] # 0 => g[u] \in Versions)
  /\ NoGeneration \in Generations /\ Uncached.generation = NoGeneration
  /\ None \notin Requests /\ None \notin Symbols
  /\ \A r \in Requests : Home[r] \in Hosts
  /\ \A s \in Symbols : Root[s] \in Units
BY DeepAssumption DEF Versions, Generations, NoGeneration, Uncached

\* An assignment to one request keeps the type, and touches no other request.
LEMMA SetType ==
  ASSUME NEW T, NEW f \in [Requests -> T], NEW r \in Requests, NEW v \in T
  PROVE  Set(f, r, v) \in [Requests -> T]
BY DEF Set

LEMMA SetKeeps ==
  ASSUME NEW T, NEW f \in [Requests -> T], NEW r \in Requests, NEW v
  PROVE  /\ Set(f, r, v)[r] = v
         /\ \A q \in Requests : q # r => Set(f, r, v)[q] = f[q]
BY DEF Set

LEMMA GotoTypes ==
  ASSUME TypeOK, NEW r \in Requests, NEW place \in Leading \cup {"idle", "wait"}, Goto(r, place)
  PROVE  /\ pc' \in [Requests -> Leading \cup {"idle", "wait"}]
         /\ pc'[r] = place /\ \A q \in Requests : q # r => pc'[q] = pc[q]
<1> DEFINE Places == Leading \cup {"idle", "wait"}
<1>1. pc \in [Requests -> Places] /\ pc' = Set(pc, r, place) /\ place \in Places
  BY DEF TypeOK, Goto
<1> HIDE DEF Places
<1>2. /\ pc' \in [Requests -> Places]
      /\ pc'[r] = place /\ \A q \in Requests : q # r => pc'[q] = pc[q]
  BY <1>1 DEF Set
<1>3. QED BY <1>2 DEF Places

LEMMA ReadTypes ==
  ASSUME TypeOK
  PROVE  /\ \A u \in Units : disk[u] \in 0 .. MaxVersion /\ rows[u].version \in 0 .. MaxVersion
         /\ \A r \in Requests, u \in Units : closure[r][u] \in 0 .. MaxVersion
<1>1. \A u \in Units : disk[u] \in Versions /\ rows[u].version \in Versions
  BY DEF TypeOK
<1>2. \A r \in Requests : closure[r] \in [Units -> 0 .. MaxVersion]
  BY DEF TypeOK, Generations
<1>3. QED BY <1>1, <1>2, ConstantTypes

LEMMA LeaveTypes ==
  ASSUME TypeOK, NEW r \in Requests, Leave(r)
  PROVE  /\ pc' \in [Requests -> Leading \cup {"idle", "wait"}]
         /\ leader' \in [Requests -> Requests \cup {None}]
         /\ symbol' \in [Requests -> Symbols \cup {None}]
         /\ cancelled' \in [Requests -> BOOLEAN]
<1>1. pc' \in [Requests -> Leading \cup {"idle", "wait"}]
  BY GotoTypes DEF Leave
<1>2. leader' \in [Requests -> Requests \cup {None}]
  BY DEF TypeOK, Leave, Set
<1>3. symbol' \in [Requests -> Symbols \cup {None}]
  BY DEF TypeOK, Leave, Set
<1>4. cancelled' \in [Requests -> BOOLEAN]
  BY SetType DEF TypeOK, Leave
<1>5. QED BY <1>1, <1>2, <1>3, <1>4

LEMMA FinishTypes ==
  ASSUME TypeOK, NEW r \in Requests, NEW how \in {"ok", "failed"}, Finish(r, how)
  PROVE  /\ pc' \in [Requests -> Leading \cup {"idle", "wait"}]
         /\ answer' \in [Requests -> {"none", "ok", "failed"}]
         /\ admission' \in [Hosts -> Requests \cup {None}]
         /\ kind' \in [Requests -> {"none", "overlay", "alias", "full"}]
         /\ closure' \in [Requests -> Generations] /\ expanded' \in [Requests -> SUBSET Units]
         /\ parsed' \in [Requests -> Generations]
<1>1. pc' \in [Requests -> Leading \cup {"idle", "wait"}]
  BY GotoTypes DEF Finish, Leading
<1>2. /\ answer' \in [Requests -> {"none", "ok", "failed"}]
      /\ kind' \in [Requests -> {"none", "overlay", "alias", "full"}]
  BY DEF TypeOK, Finish, Set
<1>3. closure' \in [Requests -> Generations] /\ parsed' \in [Requests -> Generations]
  BY ConstantTypes, SetType DEF TypeOK, Finish
<1>4. expanded' \in [Requests -> SUBSET Units]
  BY DEF TypeOK, Finish, Set
<1>5. admission' \in [Hosts -> Requests \cup {None}]
  BY DEF TypeOK, Finish
<1>6. QED BY <1>1, <1>2, <1>3, <1>4, <1>5

\* What a publication inserts is a cache row and a token.
LEMMA PublishedTypes ==
  ASSUME TypeOK, ComputeInv, NEW r \in Requests, pc[r] \in Publishing, symbol[r] \in Symbols
  PROVE  /\ Token(r) \in [root : Symbols, generation : Generations \ {NoGeneration}]
         /\ closure[r] \in Generations \ {NoGeneration}
         /\ \A u \in Deleted(r) \cap Members(closure[r]) :
              Published(r, u) \in [generation : Generations \ {NoGeneration}, facts : Versions]
<1>1. closure[r] \in Generations /\ closure[r][Root[symbol[r]]] # 0
  BY DEF TypeOK, ComputeInv, Publishing, Computing
<1>2. closure[r] # NoGeneration
  BY <1>1, ConstantTypes DEF NoGeneration
<1>3. Token(r) \in [root : Symbols, generation : Generations \ {NoGeneration}]
  BY <1>1, <1>2 DEF Token
<1>4. ASSUME NEW u \in Deleted(r) \cap Members(closure[r])
      PROVE  Published(r, u) \in [generation : Generations \ {NoGeneration}, facts : Versions]
  <2>1. u \in Units
    BY DEF Members
  <2>2. kind[r] \in {"overlay", "full"}
    <3>1. kind[r] # "alias"
      BY DEF Deleted
    <3>2. kind[r] # "none" /\ kind[r] \in {"none", "overlay", "alias", "full"}
      BY DEF TypeOK, ComputeInv, Publishing, Chosen
    <3>3. QED BY <3>1, <3>2
  <2>3. CASE kind[r] = "full"
    BY <1>1, <1>2, <2>1, <2>3 DEF Published, TypeOK
  <2>4. CASE kind[r] = "overlay"
    <3>1. parsed[r][u] # 0 /\ parsed[r] \in Generations
      BY <2>4 DEF ComputeInv, TypeOK
    <3>2. parsed[r][u] \in Versions
      BY <2>1, <3>1, ConstantTypes
    <3>3. QED BY <1>1, <1>2, <2>4, <3>2 DEF Published
  <2>5. QED BY <2>2, <2>3, <2>4
<1>5. QED BY <1>1, <1>2, <1>3, <1>4

LEMMA RequestTypes ==
  ASSUME RequestInv, NEW r \in Requests,
         Start(r) \/ Receive(r) \/ GiveUpWaiting(r) \/ Admit(r) \/ Computes(r) \/ Break(r) \/ Cancel(r)
  PROVE  TypeOK'
<1>0. TypeOK
  BY DEF RequestInv
<1>1. CASE Start(r)
  <2>1. PICK s \in Symbols :
          /\ symbol' = Set(symbol, r, s)
          /\ IF inflight[Home[r]][s] = None
             THEN /\ inflight' = [inflight EXCEPT ![Home[r]][s] = r]
                  /\ Goto(r, "queue") /\ UNCHANGED leader
             ELSE /\ leader' = Set(leader, r, inflight[Home[r]][s])
                  /\ Goto(r, "wait") /\ UNCHANGED inflight
    BY <1>1 DEF Start
  <2>2. symbol' \in [Requests -> Symbols \cup {None}]
    BY <1>0, <2>1 DEF TypeOK, Set
  <2>3. answer' \in [Requests -> {"none", "ok", "failed"}]
    BY <1>0, <1>1 DEF TypeOK, Start, Set
  <2>4. inflight[Home[r]][s] \in Requests \cup {None}
    BY <1>0, ConstantTypes DEF TypeOK
  <2>5. /\ leader' \in [Requests -> Requests \cup {None}]
        /\ inflight' \in [Hosts -> [Symbols -> Requests \cup {None}]]
    <3>1. CASE inflight[Home[r]][s] = None
      <4>1. leader' = leader /\ inflight' = [inflight EXCEPT ![Home[r]][s] = r]
        BY <2>1, <3>1
      <4>2. QED BY <1>0, <4>1 DEF TypeOK
    <3>2. CASE inflight[Home[r]][s] # None
      <4>1. leader' = Set(leader, r, inflight[Home[r]][s]) /\ inflight' = inflight
        BY <2>1, <3>2
      <4>2. QED BY <1>0, <2>4, <4>1, SetType DEF TypeOK
    <3>3. QED BY <3>1, <3>2
  <2>6. pc' \in [Requests -> Leading \cup {"idle", "wait"}]
    BY <1>0, <2>1, GotoTypes DEF Leading
  <2>7. UNCHANGED <<disk, store, closure, expanded, parsed, kind, cancelled, admission>>
    BY <1>1 DEF Start
  <2>8. QED BY <1>0, <2>2, <2>3, <2>5, <2>6, <2>7 DEF TypeOK, store
<1>2. CASE Receive(r) \/ GiveUpWaiting(r)
  <2>1. Leave(r) /\ UNCHANGED <<disk, store, closure, expanded, parsed, kind, shared>>
    BY <1>2 DEF Receive, GiveUpWaiting
  <2>2. answer' \in [Requests -> {"none", "ok", "failed"}]
    <3>1. CASE GiveUpWaiting(r)
      BY <1>0, <3>1 DEF TypeOK, GiveUpWaiting, Set
    <3>2. CASE Receive(r)
      <4>1. leader[r] \in Requests
        BY <1>0, <3>2 DEF RequestInv, FutureInv, TypeOK, Receive
      <4>2. answer[leader[r]] \in {"none", "ok", "failed"} /\ answer' = Set(answer, r, answer[leader[r]])
        BY <1>0, <3>2, <4>1 DEF TypeOK, Receive
      <4>3. QED BY <1>0, <4>2, SetType DEF TypeOK
    <3>3. QED BY <1>2, <3>1, <3>2
  <2>3. QED BY <1>0, <2>1, <2>2, LeaveTypes DEF TypeOK, store, shared
<1>3. CASE Admit(r)
  <2>1. symbol[r] \in Symbols /\ Root[symbol[r]] \in Units
    BY <1>3, ConstantTypes DEF RequestInv, FutureInv, Admit, Leading
  <2>2. closure' \in [Requests -> Generations]
    <3>1. rows[Root[symbol[r]]].version \in 0 .. MaxVersion
      BY <1>0, <2>1, ConstantTypes DEF TypeOK
    <3>2. [NoGeneration EXCEPT ![Root[symbol[r]]] = rows[Root[symbol[r]]].version] \in Generations
      BY <3>1, ConstantTypes DEF Generations
    <3>3. QED BY <1>0, <1>3, <3>2, SetType DEF TypeOK, Admit
  <2>3. admission' \in [Hosts -> Requests \cup {None}]
    BY <1>0, <1>3 DEF TypeOK, Admit
  <2>4. pc' \in [Requests -> Leading \cup {"idle", "wait"}]
    BY <1>0, <1>3, GotoTypes DEF Admit, Leading, Computing
  <2>5. UNCHANGED <<disk, store, symbol, leader, expanded, parsed, kind, answer, cancelled, inflight>>
    BY <1>3 DEF Admit
  <2>6. QED BY <1>0, <2>2, <2>3, <2>4, <2>5 DEF TypeOK, store
<1>4. ASSUME NEW u \in Units, Expand(r, u)
      PROVE  TypeOK'
  <2>1. closure' \in [Requests -> Generations]
    <3>1. [v \in Units |-> IF closure[r][v] = 0 /\ v \in Calls[u][rows[u].version]
                           THEN rows[v].version ELSE closure[r][v]] \in Generations
      BY <1>0, ReadTypes DEF Generations
    <3>2. QED BY <1>0, <1>4, <3>1, SetType DEF TypeOK, Expand
  <2>2. expanded' \in [Requests -> SUBSET Units]
    BY <1>0, <1>4 DEF TypeOK, Expand
  <2>3. UNCHANGED <<disk, store, pc, symbol, leader, parsed, kind, answer, cancelled, shared>>
    BY <1>4 DEF Expand
  <2>4. QED BY <1>0, <2>1, <2>2, <2>3 DEF TypeOK, store, shared
<1>5. CASE Revalidate(r) \/ RevalidateAgain(r) \/ TakeGuard(r) \/ Resolve(r) \/ Prepare(r)
  <2>1. /\ UNCHANGED <<disk, rows, cache, tokens, locals, cancelled, shared>>
        /\ writer' \in Requests \cup {None}
    BY <1>0, <1>5 DEF TypeOK, Revalidate, RevalidateAgain, TakeGuard, Resolve, Prepare, store
  <2>2. \E place \in Leading : Goto(r, place)
    BY <1>5 DEF Revalidate, RevalidateAgain, TakeGuard, Resolve, Prepare, Leading, Computing
  <2>3. pc' \in [Requests -> Leading \cup {"idle", "wait"}]
    BY <1>0, <2>2, GotoTypes
  <2>4. QED BY <1>0, <2>1, <2>3 DEF TypeOK, locals, shared
<1>6. CASE ChooseBranch(r) \/ Miss(r)
  <2>1. UNCHANGED <<disk, store, symbol, leader, closure, expanded, parsed, answer, cancelled, shared>>
    BY <1>6 DEF ChooseBranch, Miss
  <2>2. \E place \in Leading : Goto(r, place)
    BY <1>6 DEF ChooseBranch, Miss, Leading, Computing
  <2>3. pc' \in [Requests -> Leading \cup {"idle", "wait"}]
    BY <1>0, <2>2, GotoTypes
  <2>4. kind' \in [Requests -> {"none", "overlay", "alias", "full"}]
    BY <1>0, <1>6 DEF TypeOK, ChooseBranch, Miss, Set
  <2>5. QED BY <1>0, <2>1, <2>3, <2>4 DEF TypeOK, store, shared
<1>7. CASE Analyze(r)
  <2>1. parsed' \in [Requests -> Generations]
    <3>1. [u \in Units |-> IF closure[r][u] = 0 THEN 0 ELSE disk[u]] \in Generations
      BY <1>0, ReadTypes, ConstantTypes DEF Generations
    <3>2. QED BY <1>0, <1>7, <3>1, SetType DEF TypeOK, Analyze
  <2>2. pc' \in [Requests -> Leading \cup {"idle", "wait"}]
    BY <1>0, <1>7, GotoTypes DEF Analyze, Leading, Computing
  <2>3. UNCHANGED <<disk, store, symbol, leader, closure, expanded, kind, answer, cancelled, shared>>
    BY <1>7 DEF Analyze
  <2>4. QED BY <1>0, <2>1, <2>2, <2>3 DEF TypeOK, store, shared
<1>8. CASE Hit(r) \/ Fail(r) \/ Break(r)
  <2>1. PICK how \in {"ok", "failed"} :
          /\ Finish(r, how) /\ UNCHANGED <<disk, rows, cache, tokens, symbol, leader, cancelled, inflight>>
          /\ writer' = writer \/ writer' = None
    BY <1>8 DEF Hit, Fail, Break, Raise, store
  <2>2. QED BY <1>0, <2>1, FinishTypes DEF TypeOK
<1>9. CASE Commit(r)
  <2>1. /\ Finish(r, "ok") /\ UNCHANGED <<disk, rows, symbol, leader, cancelled, inflight>>
        /\ writer' = None /\ pc[r] \in Publishing
    BY <1>9 DEF Commit, Publishing
  <2>2. symbol[r] \in Symbols
    BY <2>1 DEF RequestInv, FutureInv, Publishing, Leading, Computing
  <2>3. ComputeInv
    BY DEF RequestInv
  <2>4. cache' \in [Units -> {Uncached} \cup [generation : Generations \ {NoGeneration},
                                              facts : Versions]]
    BY <1>0, <1>9, <2>1, <2>2, <2>3, PublishedTypes DEF TypeOK, Commit
  <2>5. tokens' \subseteq [root : Symbols, generation : Generations \ {NoGeneration}]
    BY <1>0, <1>9, <2>1, <2>2, <2>3, PublishedTypes DEF TypeOK, Commit, Valid
  <2>6. QED BY <1>0, <2>1, <2>4, <2>5, FinishTypes DEF TypeOK
<1>10. CASE Pop(r)
  <2>1. Leave(r) /\ UNCHANGED <<disk, store, closure, expanded, parsed, kind, answer, admission>>
    BY <1>10 DEF Pop
  <2>2. inflight' \in [Hosts -> [Symbols -> Requests \cup {None}]]
    BY <1>0, <1>10 DEF TypeOK, Pop
  <2>3. QED BY <1>0, <2>1, <2>2, LeaveTypes DEF TypeOK, store
<1>11. CASE Cancel(r)
  <2>1. cancelled' \in [Requests -> BOOLEAN]
    BY <1>0, <1>11, SetType DEF TypeOK, Cancel
  <2>2. UNCHANGED <<disk, store, pc, locals, shared>>
    BY <1>11 DEF Cancel
  <2>3. QED BY <1>0, <2>1, <2>2 DEF TypeOK, store, locals, shared
<1>12. QED BY <1>1, <1>2, <1>3, <1>4, <1>5, <1>6, <1>7, <1>8, <1>9, <1>10, <1>11 DEF Computes

LEMMA WorldTypes ==
  ASSUME TypeOK,
         \/ \E u \in Units : Edit(u)
         \/ \E p \in Profiles, edited \in SUBSET Edited, callers \in SUBSET Units :
              Reindex(p, edited, callers)
  PROVE  TypeOK'
<1>1. ASSUME NEW u \in Units, Edit(u) PROVE TypeOK'
  <2>1. disk' \in [Units -> Versions]
    BY <1>1, ConstantTypes DEF TypeOK, Edit, Versions
  <2>2. UNCHANGED <<store, pc, locals, cancelled, shared>>
    BY <1>1 DEF Edit
  <2>3. QED BY <2>1, <2>2 DEF TypeOK, store, locals, shared
<1>2. ASSUME NEW p \in Profiles, NEW edited \in SUBSET Edited, NEW callers \in SUBSET Units,
             Reindex(p, edited, callers)
      PROVE  TypeOK'
  <2>1. rows' \in [Units -> [version : Versions, profile : Profiles]]
    BY <1>2 DEF TypeOK, Reindex
  <2>2. cache' \in [Units -> {Uncached} \cup [generation : Generations \ {NoGeneration},
                                              facts : Versions]]
    BY <1>2 DEF TypeOK, Reindex
  <2>3. tokens' \subseteq [root : Symbols, generation : Generations \ {NoGeneration}]
    BY <1>2 DEF TypeOK, Reindex, Valid
  <2>4. UNCHANGED <<disk, writer, pc, locals, cancelled, shared>>
    BY <1>2 DEF Reindex
  <2>5. QED BY <2>1, <2>2, <2>3, <2>4 DEF TypeOK, locals, shared
<1>3. QED BY <1>1, <1>2

-----------------------------------------------------------------------------
(* Coalescing, admission and cancellation.                                 *)

\* A request changes only what is its own.
LEMMA OthersKeep ==
  ASSUME TypeOK, NEW r \in Requests, NEW q \in Requests, q # r,
         Start(r) \/ Receive(r) \/ GiveUpWaiting(r) \/ Admit(r) \/ Computes(r) \/ Break(r) \/ Cancel(r)
  PROVE  /\ pc'[q] = pc[q] /\ symbol'[q] = symbol[q] /\ leader'[q] = leader[q]
         /\ closure'[q] = closure[q] /\ parsed'[q] = parsed[q] /\ kind'[q] = kind[q]
         /\ cancelled'[q] = cancelled[q] /\ answer'[q] = answer[q]
<1> USE DEF Set, Goto, locals
<1>1. CASE Start(r)
  BY <1>1 DEF TypeOK, Start
<1>2. CASE Receive(r) \/ GiveUpWaiting(r) \/ Pop(r)
  BY <1>2 DEF TypeOK, Receive, GiveUpWaiting, Pop, Leave
<1>3. CASE Admit(r) \/ \E u \in Units : Expand(r, u)
  BY <1>3 DEF TypeOK, Admit, Expand
<1>4. CASE Revalidate(r) \/ RevalidateAgain(r) \/ TakeGuard(r) \/ Resolve(r) \/ Prepare(r)
  BY <1>4 DEF TypeOK, Revalidate, RevalidateAgain, TakeGuard, Resolve, Prepare
<1>5. CASE ChooseBranch(r) \/ Miss(r) \/ Analyze(r)
  BY <1>5 DEF TypeOK, ChooseBranch, Miss, Analyze
<1>6. CASE Hit(r) \/ Commit(r) \/ Fail(r) \/ Break(r)
  <2>1. /\ UNCHANGED <<symbol, leader, cancelled>>
        /\ Finish(r, "ok") \/ Finish(r, "failed")
    BY <1>6 DEF Hit, Commit, Fail, Break, Raise
  <2>2. QED BY <2>1 DEF TypeOK, Finish
<1>7. CASE Cancel(r)
  BY <1>7 DEF TypeOK, Cancel
<1>8. QED BY <1>1, <1>2, <1>3, <1>4, <1>5, <1>6, <1>7 DEF Computes

\* The kinds of step a request takes, as coalescing sees them: it asks, it stops waiting,
\* it is done, or it goes on as the leader it is.
LEMMA Lead ==
  ASSUME TypeOK, NEW r \in Requests, Admit(r) \/ Computes(r) \/ Break(r), ~Pop(r)
  PROVE  /\ UNCHANGED <<symbol, leader, inflight>>
         /\ pc[r] \in Leading /\ pc'[r] \in Leading
         /\ pc'[r] \in {"resolve", "pop"} /\ pc[r] # "resolve" => answer'[r] # "none"
         /\ pc[r] = "resolve" => answer' = answer
<1> USE DEF Set, Goto, locals, shared, Leading, Computing
<1>1. CASE Admit(r) \/ \E u \in Units : Expand(r, u)
  BY <1>1 DEF TypeOK, Admit, Expand
<1>2. CASE Revalidate(r) \/ RevalidateAgain(r) \/ TakeGuard(r) \/ Resolve(r) \/ Prepare(r)
  BY <1>2 DEF TypeOK, Revalidate, RevalidateAgain, TakeGuard, Resolve, Prepare
<1>3. CASE ChooseBranch(r) \/ Miss(r) \/ Analyze(r)
  BY <1>3 DEF TypeOK, ChooseBranch, Miss, Analyze
<1>4. CASE Hit(r) \/ Commit(r) \/ Fail(r) \/ Break(r)
  <2>1. /\ UNCHANGED <<symbol, leader, inflight>>
        /\ Finish(r, "ok") \/ Finish(r, "failed")
        /\ pc[r] \in Computing \cup {"queue"}
    BY <1>4 DEF Hit, Commit, Fail, Break, Raise, Interruptible
  <2>2. pc'[r] = "resolve" /\ answer'[r] \in {"ok", "failed"}
    BY <2>1 DEF TypeOK, Finish
  <2>3. QED BY <2>1, <2>2
<1>5. QED BY <1>1, <1>2, <1>3, <1>4 DEF Computes

LEMMA FutureStep ==
  ASSUME RequestInv, NEW r \in Requests,
         Start(r) \/ Receive(r) \/ GiveUpWaiting(r) \/ Admit(r) \/ Computes(r) \/ Break(r) \/ Cancel(r)
  PROVE  FutureInv'
<1>0. TypeOK /\ FutureInv /\ None \notin Requests /\ None \notin Symbols /\ Home[r] \in Hosts
  BY ConstantTypes DEF RequestInv
<1>1. \A q \in Requests : q # r =>
        /\ pc'[q] = pc[q] /\ symbol'[q] = symbol[q] /\ leader'[q] = leader[q] /\ answer'[q] = answer[q]
  BY <1>0, OthersKeep
<1>2. /\ "wait" \notin Leading /\ "idle" \notin Leading /\ {"resolve", "pop", "queue"} \subseteq Leading
  BY DEF Leading, Computing
<1>3. CASE Start(r)
  <2>1. PICK s \in Symbols :
          /\ symbol' = Set(symbol, r, s)
          /\ IF inflight[Home[r]][s] = None
             THEN /\ inflight' = [inflight EXCEPT ![Home[r]][s] = r]
                  /\ Goto(r, "queue") /\ UNCHANGED leader
             ELSE /\ leader' = Set(leader, r, inflight[Home[r]][s])
                  /\ Goto(r, "wait") /\ UNCHANGED inflight
    BY <1>3 DEF Start
  <2>2. pc[r] = "idle" /\ (\A f \in Requests : leader[f] # r) /\ leader[r] = None
    BY <1>0, <1>3 DEF Start, FutureInv, TypeOK
  <2>3. CASE inflight[Home[r]][s] = None
    <3>1. /\ pc'[r] = "queue" /\ symbol'[r] = s /\ leader' = leader
          /\ inflight'[Home[r]][s] = r
          /\ \A h \in Hosts, t \in Symbols : inflight'[h][t] = inflight[h][t] \/ (h = Home[r] /\ t = s)
      BY <1>0, <2>1, <2>3 DEF TypeOK, Set, Goto
    <3>2. \A q \in Requests : pc'[q] \in Leading =>
            symbol'[q] \in Symbols /\ inflight'[Home[q]][symbol'[q]] = q
      BY <1>0, <1>1, <2>3, <3>1, ConstantTypes DEF FutureInv
    <3>3. \A h \in Hosts, t \in Symbols : inflight'[h][t] # None =>
            pc'[inflight'[h][t]] \in Leading /\ Home[inflight'[h][t]] = h
            /\ symbol'[inflight'[h][t]] = t
      <4> SUFFICES ASSUME NEW h \in Hosts, NEW t \in Symbols, inflight'[h][t] # None
                   PROVE  /\ pc'[inflight'[h][t]] \in Leading /\ Home[inflight'[h][t]] = h
                          /\ symbol'[inflight'[h][t]] = t
        OBVIOUS
      <4>1. CASE h = Home[r] /\ t = s
        BY <1>2, <3>1, <4>1
      <4>2. CASE ~(h = Home[r] /\ t = s)
        <5>1. inflight'[h][t] = inflight[h][t] /\ inflight[h][t] \in Requests
          BY <1>0, <3>1, <4>2 DEF TypeOK
        <5>2. inflight[h][t] # r
          BY <1>0, <1>2, <2>2, <5>1 DEF FutureInv
        <5>3. QED BY <1>0, <1>1, <5>1, <5>2 DEF FutureInv
      <4>3. QED BY <4>1, <4>2
    <3>4. \A q \in Requests : pc'[q] \in {"resolve", "pop"} => answer'[q] # "none"
      BY <1>0, <1>1, <3>1 DEF FutureInv
    <3>5. \A q \in Requests : (pc'[q] = "wait") <=> (leader'[q] # None)
      BY <1>0, <1>1, <2>2, <3>1 DEF FutureInv
    <3>6. \A q \in Requests : pc'[q] = "wait" =>
            pc'[leader'[q]] \in Leading \/ (pc'[leader'[q]] = "idle" /\ answer'[leader'[q]] # "none")
      <4> SUFFICES ASSUME NEW q \in Requests, pc'[q] = "wait"
                   PROVE  \/ pc'[leader'[q]] \in Leading
                          \/ pc'[leader'[q]] = "idle" /\ answer'[leader'[q]] # "none"
        OBVIOUS
      <4>1. q # r /\ pc[q] = "wait" /\ leader'[q] = leader[q]
        BY <1>1, <3>1
      <4>2. leader[q] \in Requests /\ leader[q] # r
        BY <1>0, <2>2, <4>1 DEF FutureInv, TypeOK
      <4>3. QED BY <1>0, <1>1, <4>1, <4>2 DEF FutureInv
    <3>7. QED BY <3>2, <3>3, <3>4, <3>5, <3>6 DEF FutureInv
  <2>4. CASE inflight[Home[r]][s] # None
    <3> DEFINE first == inflight[Home[r]][s]
    <3>1. first \in Requests /\ pc[first] \in Leading /\ first # r
      BY <1>0, <1>2, <2>2, <2>4 DEF TypeOK, FutureInv
    <3>2. /\ pc'[r] = "wait" /\ leader'[r] = first /\ inflight' = inflight
      BY <1>0, <2>1, <2>4 DEF TypeOK, Set, Goto
    <3>3. \A q \in Requests : pc'[q] \in Leading =>
            symbol'[q] \in Symbols /\ inflight'[Home[q]][symbol'[q]] = q
      BY <1>0, <1>1, <1>2, <3>2 DEF FutureInv
    <3>4. \A h \in Hosts, t \in Symbols : inflight'[h][t] # None =>
            pc'[inflight'[h][t]] \in Leading /\ Home[inflight'[h][t]] = h
            /\ symbol'[inflight'[h][t]] = t
      BY <1>0, <1>1, <1>2, <2>2, <3>2 DEF FutureInv, TypeOK
    <3>5. \A q \in Requests : pc'[q] \in {"resolve", "pop"} => answer'[q] # "none"
      BY <1>0, <1>1, <3>2 DEF FutureInv
    <3>6. \A q \in Requests : (pc'[q] = "wait") <=> (leader'[q] # None)
      BY <1>0, <1>1, <3>1, <3>2 DEF FutureInv
    <3>7. \A q \in Requests : pc'[q] = "wait" =>
            pc'[leader'[q]] \in Leading \/ (pc'[leader'[q]] = "idle" /\ answer'[leader'[q]] # "none")
      <4> SUFFICES ASSUME NEW q \in Requests, pc'[q] = "wait"
                   PROVE  \/ pc'[leader'[q]] \in Leading
                          \/ pc'[leader'[q]] = "idle" /\ answer'[leader'[q]] # "none"
        OBVIOUS
      <4>1. CASE q = r
        BY <1>1, <3>1, <3>2, <4>1
      <4>2. CASE q # r
        <5>1. pc[q] = "wait" /\ leader'[q] = leader[q] /\ leader[q] \in Requests /\ leader[q] # r
          BY <1>0, <1>1, <2>2, <4>2 DEF FutureInv, TypeOK
        <5>2. QED BY <1>0, <1>1, <5>1 DEF FutureInv
      <4>3. QED BY <4>1, <4>2
    <3>8. QED BY <3>3, <3>4, <3>5, <3>6, <3>7 DEF FutureInv
  <2>5. QED BY <2>3, <2>4
<1>4. ASSUME pc'[r] = "idle", leader'[r] = None, \A f \in Requests : leader[f] = r => answer'[r] # "none",
             \A h \in Hosts, t \in Symbols : inflight'[h][t] = inflight[h][t]
                \/ (inflight[h][t] = r /\ inflight'[h][t] = None),
             \A h \in Hosts, t \in Symbols : inflight'[h][t] # r
      PROVE  FutureInv'
  <2>1. \A q \in Requests : pc'[q] \in Leading =>
          symbol'[q] \in Symbols /\ inflight'[Home[q]][symbol'[q]] = q
    BY <1>0, <1>1, <1>2, <1>4, ConstantTypes DEF FutureInv
  <2>2. \A h \in Hosts, t \in Symbols : inflight'[h][t] # None =>
          pc'[inflight'[h][t]] \in Leading /\ Home[inflight'[h][t]] = h /\ symbol'[inflight'[h][t]] = t
    <3> SUFFICES ASSUME NEW h \in Hosts, NEW t \in Symbols, inflight'[h][t] # None
                 PROVE  /\ pc'[inflight'[h][t]] \in Leading /\ Home[inflight'[h][t]] = h
                        /\ symbol'[inflight'[h][t]] = t
      OBVIOUS
    <3>1. /\ inflight'[h][t] = inflight[h][t] /\ inflight[h][t] \in Requests
          /\ inflight[h][t] # r
      BY <1>0, <1>4 DEF TypeOK
    <3>2. QED BY <1>0, <1>1, <3>1 DEF FutureInv
  <2>3. \A q \in Requests : pc'[q] \in {"resolve", "pop"} => answer'[q] # "none"
    BY <1>0, <1>1, <1>4 DEF FutureInv
  <2>4. \A q \in Requests : (pc'[q] = "wait") <=> (leader'[q] # None)
    BY <1>0, <1>1, <1>4 DEF FutureInv
  <2>5. \A q \in Requests : pc'[q] = "wait" =>
          pc'[leader'[q]] \in Leading \/ (pc'[leader'[q]] = "idle" /\ answer'[leader'[q]] # "none")
    <3> SUFFICES ASSUME NEW q \in Requests, pc'[q] = "wait"
                 PROVE  \/ pc'[leader'[q]] \in Leading
                        \/ pc'[leader'[q]] = "idle" /\ answer'[leader'[q]] # "none"
      OBVIOUS
    <3>1. pc[q] = "wait" /\ leader'[q] = leader[q] /\ leader[q] \in Requests
      BY <1>0, <1>1, <1>4 DEF FutureInv, TypeOK
    <3>2. CASE leader[q] = r
      BY <1>4, <3>1, <3>2
    <3>3. CASE leader[q] # r
      BY <1>0, <1>1, <3>1, <3>3 DEF FutureInv
    <3>4. QED BY <3>2, <3>3
  <2>6. QED BY <2>1, <2>2, <2>3, <2>4, <2>5 DEF FutureInv
<1>5. CASE Receive(r) \/ GiveUpWaiting(r)
  <2>1. /\ pc[r] = "wait" /\ pc'[r] = "idle" /\ leader'[r] = None /\ inflight' = inflight
    BY <1>0, <1>5 DEF TypeOK, Receive, GiveUpWaiting, Leave, Goto, Set, shared
  <2>2. \A f \in Requests : leader[f] # r
    BY <1>0, <1>2, <2>1 DEF FutureInv
  <2>3. \A h \in Hosts, t \in Symbols : inflight[h][t] # r
    BY <1>0, <1>2, <2>1 DEF FutureInv
  <2>4. QED BY <1>4, <2>1, <2>2, <2>3
<1>6. CASE Pop(r)
  <2>1. /\ pc[r] = "pop" /\ pc'[r] = "idle" /\ leader'[r] = None /\ answer' = answer
        /\ inflight' = [inflight EXCEPT ![Home[r]][symbol[r]] = None]
    BY <1>0, <1>6 DEF TypeOK, Pop, Leave, Goto, Set
  <2>2. symbol[r] \in Symbols /\ inflight[Home[r]][symbol[r]] = r /\ answer[r] # "none"
    BY <1>0, <1>2, <2>1 DEF FutureInv
  <2>3. ASSUME NEW h \in Hosts, NEW t \in Symbols
        PROVE  /\ \/ inflight'[h][t] = inflight[h][t] /\ inflight[h][t] # r
                  \/ inflight[h][t] = r /\ inflight'[h][t] = None
    <3>1. inflight[h][t] = r => h = Home[r] /\ t = symbol[r]
      BY <1>0 DEF FutureInv
    <3>2. inflight'[h][t] = IF h = Home[r] /\ t = symbol[r] THEN None ELSE inflight[h][t]
      BY <1>0, <2>1 DEF TypeOK
    <3>3. QED BY <2>2, <3>1, <3>2
  <2>4. \A h \in Hosts, t \in Symbols : inflight'[h][t] # r
    BY <1>0, <2>3
  <2>5. QED BY <1>4, <2>1, <2>2, <2>3, <2>4
<1>7. CASE (Admit(r) \/ Computes(r) \/ Break(r)) /\ ~Pop(r)
  <2>1. /\ UNCHANGED <<symbol, leader, inflight>>
        /\ pc[r] \in Leading /\ pc'[r] \in Leading
        /\ pc'[r] \in {"resolve", "pop"} /\ pc[r] # "resolve" => answer'[r] # "none"
        /\ pc[r] = "resolve" => answer' = answer
    BY <1>0, <1>7, Lead
  <2>2. \A q \in Requests : pc'[q] \in Leading <=> pc[q] \in Leading
    BY <1>1, <2>1
  <2>3. \A q \in Requests : pc'[q] \in {"resolve", "pop"} => answer'[q] # "none"
    BY <1>0, <1>1, <2>1 DEF FutureInv
  <2>4. \A q \in Requests : (pc'[q] = "wait") <=> (pc[q] = "wait")
    BY <1>1, <1>2, <2>1
  <2>5. \A q \in Requests : pc'[q] = "wait" =>
          pc'[leader'[q]] \in Leading \/ (pc'[leader'[q]] = "idle" /\ answer'[leader'[q]] # "none")
    <3> SUFFICES ASSUME NEW q \in Requests, pc'[q] = "wait"
                 PROVE  \/ pc'[leader[q]] \in Leading
                        \/ pc'[leader[q]] = "idle" /\ answer'[leader[q]] # "none"
      BY <2>1
    <3>1. pc[q] = "wait" /\ leader[q] \in Requests
      BY <1>0, <2>4 DEF FutureInv, TypeOK
    <3>2. CASE leader[q] = r
      BY <2>1, <3>2
    <3>3. CASE leader[q] # r
      BY <1>0, <1>1, <3>1, <3>3 DEF FutureInv
    <3>4. QED BY <3>2, <3>3
  <2>6. \A h \in Hosts, t \in Symbols : inflight'[h][t] # None =>
          pc'[inflight'[h][t]] \in Leading /\ Home[inflight'[h][t]] = h /\ symbol'[inflight'[h][t]] = t
    BY <1>0, <2>1, <2>2 DEF FutureInv, TypeOK
  <2>7. QED BY <1>0, <2>1, <2>2, <2>3, <2>4, <2>5, <2>6 DEF FutureInv
<1>8. CASE Cancel(r)
  BY <1>0, <1>8 DEF FutureInv, Cancel, locals, shared
<1>9. QED BY <1>3, <1>5, <1>6, <1>7, <1>8

\* A computation gives its process's lock back when it ends, and only then.
LEMMA AdmissionStep ==
  ASSUME RequestInv, NEW r \in Requests,
         Start(r) \/ Receive(r) \/ GiveUpWaiting(r) \/ Admit(r) \/ Computes(r) \/ Break(r) \/ Cancel(r)
  PROVE  AdmissionInv'
<1>0. TypeOK /\ AdmissionInv /\ None \notin Requests /\ \A q \in Requests : Home[q] \in Hosts
  BY ConstantTypes DEF RequestInv
<1>1. \A q \in Requests : q # r => pc'[q] = pc[q]
  BY <1>0, OthersKeep
<1>2. ASSUME admission' = admission, pc'[r] \in Computing <=> pc[r] \in Computing
      PROVE  AdmissionInv'
  BY <1>0, <1>1, <1>2 DEF AdmissionInv
<1>3. CASE Admit(r)
  <2>1. /\ admission[Home[r]] = None /\ pc'[r] = "closure"
        /\ admission' = [admission EXCEPT ![Home[r]] = r]
    BY <1>0, <1>3 DEF TypeOK, Admit, Admitted, Goto, Set
  <2>2. "closure" \in Computing
    BY DEF Computing
  <2>3. \A h \in Hosts : admission'[h] = IF h = Home[r] THEN r ELSE admission[h]
    BY <1>0, <2>1 DEF TypeOK
  <2>4. QED BY <1>0, <1>1, <2>1, <2>2, <2>3 DEF AdmissionInv
<1>4. CASE Hit(r) \/ Commit(r) \/ Fail(r) \/ Break(r)
  <2>1. Finish(r, "ok") \/ Finish(r, "failed")
    BY <1>4 DEF Hit, Commit, Fail, Break, Raise
  <2>2. /\ pc'[r] = "resolve"
        /\ admission' = [h \in Hosts |-> IF admission[h] = r THEN None ELSE admission[h]]
    BY <1>0, <2>1 DEF TypeOK, Finish, Goto, Set
  <2>3. "resolve" \notin Computing
    BY DEF Computing
  <2>4. \A h \in Hosts : admission'[h] # None => admission'[h] = admission[h]
    BY <2>2
  <2>5. \A q \in Requests : q # r => (admission'[Home[q]] = q <=> admission[Home[q]] = q)
    BY <1>0, <2>2
  <2>6. admission'[Home[r]] # r
    BY <1>0, <2>2
  <2>7. QED BY <1>0, <1>1, <2>2, <2>3, <2>4, <2>5, <2>6 DEF AdmissionInv
<1>5. CASE Start(r) \/ Receive(r) \/ GiveUpWaiting(r) \/ Resolve(r) \/ Pop(r) \/ Cancel(r)
  <2>1. admission' = admission
    BY <1>5 DEF Start, Receive, GiveUpWaiting, Resolve, Pop, Cancel, shared
  <2>2. \/ pc' = pc
        \/ pc[r] \in {"idle", "wait", "resolve", "pop"} /\ pc'[r] \in {"queue", "wait", "pop", "idle"}
    <3>1. CASE Start(r)
      BY <1>0, <3>1 DEF TypeOK, Start, Goto, Set
    <3>2. CASE Receive(r) \/ GiveUpWaiting(r) \/ Resolve(r) \/ Pop(r) \/ Cancel(r)
      BY <1>0, <3>2 DEF TypeOK, Receive, GiveUpWaiting, Resolve, Pop, Cancel, Leave, Goto, Set
    <3>3. QED BY <1>5, <3>1, <3>2
  <2>3. QED BY <1>2, <2>1, <2>2 DEF Computing
<1>6. CASE \/ Revalidate(r) \/ ChooseBranch(r) \/ Miss(r) \/ Analyze(r) \/ RevalidateAgain(r)
           \/ Prepare(r) \/ TakeGuard(r) \/ \E u \in Units : Expand(r, u)
  <2>1. admission' = admission
    BY <1>6 DEF Revalidate, ChooseBranch, Miss, Analyze, RevalidateAgain, Prepare, TakeGuard, Expand,
           shared
  <2>2. pc'[r] \in Computing <=> pc[r] \in Computing
    BY <1>0, <1>6 DEF TypeOK, Revalidate, ChooseBranch, Miss, Analyze, RevalidateAgain, Prepare,
           TakeGuard, Expand, Goto, Set, Computing
  <2>3. QED BY <1>2, <2>1, <2>2
<1>7. QED BY <1>3, <1>4, <1>5, <1>6 DEF Computes

\* A closure keeps its root; a publication knows its kind.
LEMMA ComputeStep ==
  ASSUME RequestInv, NEW r \in Requests,
         Start(r) \/ Receive(r) \/ GiveUpWaiting(r) \/ Admit(r) \/ Computes(r) \/ Break(r) \/ Cancel(r)
  PROVE  ComputeInv'
<1> DEFINE Knows(q) ==
      /\ pc[q] \in Computing => closure[q][Root[symbol[q]]] # 0
      /\ pc[q] \in Chosen => kind[q] # "none"
      /\ pc[q] = "lookup" => kind[q] # "alias"
      /\ pc[q] \in {"analyze", "analyzed"} => kind[q] = "overlay"
      /\ pc[q] \in {"analyzed"} \cup Publishing /\ kind[q] = "overlay" =>
           \A u \in Members(closure[q]) : parsed[q][u] # 0
<1> USE DEF Goto, Set
<1>0. TypeOK /\ \A q \in Requests : Knows(q)
  BY DEF RequestInv, ComputeInv
<1>1. ASSUME NEW q \in Requests, q # r PROVE Knows(q)'
  BY <1>0, <1>1, OthersKeep DEF Members
<1> SUFFICES Knows(r)'
  BY <1>1 DEF ComputeInv
<1>2. ASSUME pc'[r] \notin Computing
      PROVE  Knows(r)'
  BY <1>2 DEF Computing, Chosen, Publishing
<1>3. CASE Start(r) \/ Receive(r) \/ GiveUpWaiting(r) \/ Resolve(r) \/ Pop(r)
  <2>1. pc'[r] \in {"queue", "wait", "idle", "pop"}
    <3>1. CASE Start(r)
      BY <1>0, <3>1 DEF TypeOK, Start
    <3>2. CASE Receive(r) \/ GiveUpWaiting(r) \/ Resolve(r) \/ Pop(r)
      BY <1>0, <3>2 DEF TypeOK, Receive, GiveUpWaiting, Resolve, Pop, Leave
    <3>3. QED BY <1>3, <3>1, <3>2
  <2>2. QED BY <1>2, <2>1 DEF Computing
<1>4. CASE Hit(r) \/ Commit(r) \/ Fail(r) \/ Break(r)
  <2>1. pc'[r] = "resolve"
    BY <1>0, <1>4 DEF TypeOK, Hit, Commit, Fail, Break, Raise, Finish
  <2>2. QED BY <1>2, <2>1 DEF Computing
<1>5. CASE Admit(r)
  <2>1. symbol[r] \in Symbols /\ Root[symbol[r]] \in Units
    BY <1>5, ConstantTypes DEF RequestInv, FutureInv, Admit, Leading
  <2>2. /\ pc'[r] = "closure" /\ symbol' = symbol
        /\ closure'[r] = [NoGeneration EXCEPT ![Root[symbol[r]]] = rows[Root[symbol[r]]].version]
    BY <1>0, <1>5 DEF TypeOK, Admit
  <2>3. rows[Root[symbol[r]]].version # 0
    BY <1>0, <2>1, ConstantTypes DEF TypeOK
  <2>4. closure'[r][Root[symbol[r]]] # 0
    BY <2>1, <2>2, <2>3 DEF NoGeneration
  <2>5. QED BY <2>2, <2>4 DEF Computing, Chosen, Publishing
<1>6. ASSUME NEW u \in Units, Expand(r, u)
      PROVE  Knows(r)'
  <2>1. /\ pc[r] = "closure" /\ pc' = pc /\ symbol' = symbol
        /\ closure'[r] = [v \in Units |-> IF closure[r][v] = 0 /\ v \in Calls[u][rows[u].version]
                                          THEN rows[v].version ELSE closure[r][v]]
    BY <1>0, <1>6 DEF TypeOK, Expand
  <2>2. symbol[r] \in Symbols /\ Root[symbol[r]] \in Units
    BY <2>1, ConstantTypes DEF RequestInv, FutureInv, Leading, Computing
  <2>3. closure'[r][Root[symbol[r]]] # 0
    BY <1>0, <2>1, <2>2 DEF Computing
  <2>4. QED BY <2>1, <2>3 DEF Chosen, Publishing
<1>7. CASE Revalidate(r) \/ Prepare(r) \/ TakeGuard(r) \/ RevalidateAgain(r) \/ Cancel(r)
  <2>1. /\ UNCHANGED <<symbol, closure, parsed, kind>>
        /\ \/ pc'[r] = pc[r]
           \/ pc[r] = "closure" /\ pc'[r] = "profile"
           \/ pc[r] \in {"analyzed"} \cup Publishing /\ pc'[r] \in Publishing
    BY <1>0, <1>7 DEF TypeOK, Revalidate, Prepare, TakeGuard, RevalidateAgain, Cancel, locals, Publishing
  <2>2. /\ pc'[r] \in Computing => pc[r] \in Computing
        /\ pc'[r] \in Chosen => pc[r] \in Chosen
        /\ pc'[r] = "lookup" => pc[r] = "lookup"
        /\ pc'[r] \in {"analyze", "analyzed"} => pc[r] \in {"analyze", "analyzed"}
        /\ pc'[r] \in {"analyzed"} \cup Publishing => pc[r] \in {"analyzed"} \cup Publishing
    BY <2>1 DEF Computing, Chosen, Publishing
  <2>3. QED BY <1>0, <2>1, <2>2 DEF Members
<1>8. CASE ChooseBranch(r)
  <2>1. /\ pc[r] = "profile" /\ pc'[r] = "lookup" /\ kind'[r] \in {"full", "overlay"}
        /\ UNCHANGED <<symbol, closure>>
    BY <1>0, <1>8 DEF TypeOK, ChooseBranch
  <2>2. QED BY <1>0, <2>1 DEF Computing, Chosen, Publishing
<1>9. CASE Miss(r)
  <2>1. /\ pc[r] = "lookup" /\ UNCHANGED <<symbol, closure>>
        /\ \/ kind'[r] = "alias" /\ pc'[r] = "publish"
           \/ kind' = kind /\ pc'[r] = IF kind[r] = "full" THEN "publish" ELSE "analyze"
    BY <1>0, <1>9 DEF TypeOK, Miss
  <2>2. kind[r] \in {"overlay", "full"}
    <3>1. kind[r] \in {"none", "overlay", "alias", "full"}
      BY <1>0 DEF TypeOK
    <3>2. QED BY <1>0, <2>1, <3>1 DEF Chosen
  <2>3. QED BY <1>0, <2>1, <2>2 DEF Computing, Chosen, Publishing
<1>10. CASE Analyze(r)
  <2>1. /\ pc[r] = "analyze" /\ pc'[r] = "analyzed" /\ UNCHANGED <<symbol, closure, kind>>
        /\ parsed'[r] = [u \in Units |-> IF closure[r][u] = 0 THEN 0 ELSE disk[u]]
    BY <1>0, <1>10 DEF TypeOK, Analyze
  <2>2. \A u \in Members(closure[r]) : parsed'[r][u] # 0
    BY <1>0, <2>1, ConstantTypes DEF TypeOK, Members
  <2>3. QED BY <1>0, <2>1, <2>2 DEF Computing, Chosen, Publishing, Members
<1>11. QED BY <1>3, <1>4, <1>5, <1>6, <1>7, <1>8, <1>9, <1>10 DEF Computes

\* The write lock is taken by Prepare and given back at the commit or the failure; a
\* cancellation waits for the guard.
LEMMA WriterStep ==
  ASSUME RequestInv, NEW r \in Requests,
         Start(r) \/ Receive(r) \/ GiveUpWaiting(r) \/ Admit(r) \/ Computes(r) \/ Break(r) \/ Cancel(r)
  PROVE  WriterInv'
<1> USE DEF Goto, Set
<1>0. TypeOK /\ WriterInv /\ None \notin Requests
  BY ConstantTypes DEF RequestInv
<1>1. \A q \in Requests : q # r => pc'[q] = pc[q] /\ cancelled'[q] = cancelled[q]
  BY <1>0, OthersKeep
<1>2. CASE Prepare(r)
  <2>1. writer = None /\ writer' = r /\ pc'[r] = "prepared"
    BY <1>0, <1>2 DEF TypeOK, Prepare
  <2>2. QED BY <1>0, <1>1, <2>1 DEF WriterInv, Locked
<1>3. CASE TakeGuard(r)
  <2>1. /\ pc[r] = "prepared" /\ pc'[r] = "guarded" /\ ~cancelled[r] /\ UNCHANGED <<writer, cancelled>>
    BY <1>0, <1>3 DEF TypeOK, TakeGuard, store
  <2>2. QED BY <1>0, <1>1, <2>1 DEF WriterInv, Locked
<1>4. CASE Hit(r) \/ Commit(r) \/ Fail(r) \/ Break(r)
  <2>1. /\ pc'[r] = "resolve" /\ cancelled' = cancelled
        /\ \/ writer' = (IF writer = r THEN None ELSE writer)
           \/ pc[r] = "lookup" /\ writer' = writer
           \/ pc[r] = "guarded" /\ writer' = None
    BY <1>0, <1>4 DEF TypeOK, Hit, Commit, Fail, Break, Raise, Finish, store
  <2>2. \A q \in Requests : q # r => (writer' = q <=> writer = q)
    BY <1>0, <2>1 DEF WriterInv, Locked
  <2>3. writer' # r
    BY <1>0, <2>1 DEF WriterInv, Locked
  <2>4. QED BY <1>0, <1>1, <2>1, <2>2, <2>3 DEF WriterInv, Locked
<1>5. CASE Cancel(r)
  <2>1. pc[r] # "guarded" /\ pc' = pc /\ writer' = writer
    BY <1>5 DEF Cancel, GuardFree, store
  <2>2. QED BY <1>0, <1>1, <2>1 DEF WriterInv
<1>6. CASE \/ Start(r) \/ Receive(r) \/ GiveUpWaiting(r) \/ Admit(r) \/ Revalidate(r) \/ ChooseBranch(r)
           \/ Miss(r) \/ Analyze(r) \/ RevalidateAgain(r) \/ Resolve(r) \/ Pop(r)
           \/ \E u \in Units : Expand(r, u)
  <2>1. writer' = writer
    BY <1>6 DEF Start, Receive, GiveUpWaiting, Admit, Revalidate, ChooseBranch, Miss, Analyze,
           RevalidateAgain, Resolve, Pop, Expand, store
  <2>2. pc[r] \notin Locked
    BY <1>6 DEF Start, Receive, GiveUpWaiting, Admit, Revalidate, ChooseBranch, Miss, Analyze,
           RevalidateAgain, Resolve, Pop, Expand, Locked
  <2>3. pc'[r] \notin Locked
    <3>1. CASE Start(r)
      BY <1>0, <3>1 DEF TypeOK, Start, Locked
    <3>2. CASE Receive(r) \/ GiveUpWaiting(r) \/ Admit(r) \/ Revalidate(r) \/ Resolve(r) \/ Pop(r)
      BY <1>0, <3>2 DEF TypeOK, Receive, GiveUpWaiting, Admit, Revalidate, Resolve, Pop, Leave, Locked
    <3>3. CASE ChooseBranch(r) \/ Miss(r) \/ Analyze(r) \/ RevalidateAgain(r)
               \/ \E u \in Units : Expand(r, u)
      BY <1>0, <3>3 DEF TypeOK, ChooseBranch, Miss, Analyze, RevalidateAgain, Expand, Locked
    <3>4. QED BY <1>6, <3>1, <3>2, <3>3
  <2>4. QED BY <1>0, <1>1, <2>1, <2>2, <2>3 DEF WriterInv, Locked
<1>7. QED BY <1>2, <1>3, <1>4, <1>5, <1>6 DEF Computes

LEMMA InitRequests == Init => RequestInv
<1> SUFFICES ASSUME Init PROVE RequestInv
  OBVIOUS
<1>1. TypeOK
  <2>1. /\ disk \in [Units -> Versions] /\ cache \in [Units -> {Uncached}] /\ tokens = {}
        /\ writer = None
        /\ symbol \in [Requests -> Symbols \cup {None}]
        /\ leader \in [Requests -> Requests \cup {None}]
    BY ConstantTypes DEF Init
  <2>2. rows \in [Units -> [version : Versions, profile : Profiles]]
    BY ConstantTypes DEF Init
  <2>3. pc \in [Requests -> Leading \cup {"idle", "wait"}]
    BY DEF Init
  <2>4. closure \in [Requests -> Generations] /\ parsed \in [Requests -> Generations]
    BY ConstantTypes DEF Init
  <2>5. /\ expanded \in [Requests -> SUBSET Units]
        /\ kind \in [Requests -> {"none", "overlay", "alias", "full"}]
        /\ answer \in [Requests -> {"none", "ok", "failed"}]
    BY DEF Init
  <2>6. cancelled \in [Requests -> BOOLEAN]
    BY DEF Init
  <2>7. /\ inflight \in [Hosts -> [Symbols -> Requests \cup {None}]]
        /\ admission \in [Hosts -> Requests \cup {None}]
    BY DEF Init
  <2>8. QED BY <2>1, <2>2, <2>3, <2>4, <2>5, <2>6, <2>7 DEF TypeOK
<1>2. FutureInv
  BY ConstantTypes DEF Init, FutureInv, Leading, Computing
<1>3. AdmissionInv
  BY ConstantTypes DEF Init, AdmissionInv, Computing
<1>4. ComputeInv /\ WriterInv
  BY ConstantTypes DEF Init, ComputeInv, WriterInv, Computing, Chosen, Publishing, Locked
<1>5. QED BY <1>1, <1>2, <1>3, <1>4 DEF RequestInv

LEMMA NextRequests == RequestInv /\ [Next]_vars => RequestInv'
<1> SUFFICES ASSUME RequestInv, [Next]_vars PROVE RequestInv'
  OBVIOUS
<1>1. ASSUME NEW r \in Requests,
             \/ Start(r) \/ Receive(r) \/ GiveUpWaiting(r) \/ Admit(r) \/ Computes(r) \/ Break(r)
             \/ Cancel(r)
      PROVE  RequestInv'
  BY <1>1, RequestTypes, FutureStep, AdmissionStep, ComputeStep, WriterStep DEF RequestInv
<1>2. ASSUME TypeOK', UNCHANGED <<writer, pc, locals, cancelled, shared>>
      PROVE  RequestInv'
  <2>1. FutureInv' /\ AdmissionInv'
    BY <1>2 DEF RequestInv, FutureInv, AdmissionInv, locals, shared
  <2>2. ComputeInv' /\ WriterInv'
    BY <1>2 DEF RequestInv, ComputeInv, WriterInv, locals, Members
  <2>3. QED BY <1>2, <2>1, <2>2 DEF RequestInv
<1>3. CASE \/ \E u \in Units : Edit(u)
           \/ \E p \in Profiles, edited \in SUBSET Edited, callers \in SUBSET Units :
                Reindex(p, edited, callers)
  <2>1. TypeOK'
    BY <1>3, WorldTypes DEF RequestInv
  <2>2. UNCHANGED <<writer, pc, locals, cancelled, shared>>
    BY <1>3 DEF Edit, Reindex, store
  <2>3. QED BY <1>2, <2>1, <2>2
<1>4. CASE UNCHANGED vars
  <2>1. TypeOK'
    BY <1>4 DEF RequestInv, TypeOK, vars, store, locals, shared
  <2>2. QED BY <1>2, <1>4, <2>1 DEF vars, store
<1>5. QED BY <1>1, <1>3, <1>4 DEF Next

LEMMA RequestInvariant == Spec => []RequestInv
BY InitRequests, NextRequests, PTL DEF Spec

\* Whatever fails, one process computes one closure at a time and one future per key is
\* open (DeepMaterializer._inflight, _admission): an entry is that of a thread which will
\* complete it, and who waits, waits for such a thread or for a value.
THEOREM CoalescingIsSafe == Spec => []OneComputation
<1>1. RequestInv => OneComputation
  <2> SUFFICES ASSUME RequestInv PROVE OneComputation
    OBVIOUS
  <2>1. TypeOK /\ FutureInv /\ AdmissionInv /\ \A r \in Requests : Home[r] \in Hosts
    BY ConstantTypes DEF RequestInv
  <2>2. \A r \in Requests : pc[r] \in Computing <=> \E h \in Hosts : admission[h] = r
    BY <2>1, ConstantTypes DEF AdmissionInv
  <2>3. \A r, q \in Requests :
          pc[r] \in Computing /\ pc[q] \in Computing /\ Home[r] = Home[q] => r = q
    BY <2>1 DEF AdmissionInv
  <2>4. QED BY <2>1, <2>2, <2>3 DEF FutureInv, OneComputation
<1>2. QED BY <1>1, RequestInvariant, PTL

\* Only the commit of a publication changes what is published, and an index run.
LEMMA Publishers ==
  ASSUME RequestInv, NEW r \in Requests,
         Start(r) \/ Receive(r) \/ GiveUpWaiting(r) \/ Admit(r) \/ Computes(r) \/ Break(r) \/ Cancel(r)
  PROVE  /\ UNCHANGED <<disk, rows>>
         /\ ~Commit(r) => UNCHANGED <<cache, tokens>>
<1>1. CASE Start(r) \/ Receive(r) \/ GiveUpWaiting(r) \/ Admit(r) \/ Break(r) \/ Cancel(r)
  BY <1>1 DEF Start, Receive, GiveUpWaiting, Admit, Break, Raise, Cancel, store
<1>2. CASE Computes(r)
  BY <1>2 DEF Computes, Expand, Revalidate, ChooseBranch, Hit, Miss, Analyze, RevalidateAgain, Prepare,
         TakeGuard, Commit, Fail, Raise, Resolve, Pop, store
<1>3. QED BY <1>1, <1>2

\* Once DeepCancellation.set has returned nothing is published: it waits for the guard
\* that a publication holds from its last check to the end of the commit (deep.py:49).
THEOREM CancelledPublishNothing == Spec => NoCommitAfterCancel
<1> DEFINE A == \A r \in Requests :
                  writer = r /\ <<cache, tokens>>' # <<cache, tokens>> => ~cancelled[r]
<1>1. RequestInv /\ [Next]_vars => [A]_vars
  <2> SUFFICES ASSUME RequestInv, Next, NEW r \in Requests, writer = r,
                      <<cache, tokens>>' # <<cache, tokens>>
               PROVE  ~cancelled[r]
    OBVIOUS
  <2>1. writer # None
    BY ConstantTypes
  <2>2. PICK q \in Requests :
          \/ Start(q) \/ Receive(q) \/ GiveUpWaiting(q) \/ Admit(q) \/ Computes(q) \/ Break(q)
          \/ Cancel(q)
    BY <2>1 DEF Next, Edit, Reindex, store
  <2>3. Commit(q)
    BY <2>2, Publishers
  <2>4. pc[q] = "guarded" /\ q = r
    BY <2>3 DEF Commit, RequestInv, WriterInv, Locked
  <2>5. QED BY <2>4 DEF RequestInv, WriterInv
<1>2. QED BY <1>1, RequestInvariant, PTL DEF Spec, NoCommitAfterCancel

-----------------------------------------------------------------------------
(* Tokens and results.                                                     *)

\* What is replaced is among what is deleted.
LEMMA CallersHasTargets == ASSUME NEW targets \in SUBSET Units PROVE targets \subseteq Callers(targets)
BY DEF Callers

\* A cached closure is the committed one.
LEMMA CachedExact ==
  ASSUME TypeOK, CacheInv, NEW g \in Generations, Cached(g), NEW u \in Members(g)
  PROVE  /\ rows[u].version = g[u]
         /\ cache[u] = [generation |-> g, facts |-> g[u]]
<1>1. u \in Units /\ g[u] # 0 /\ cache[u].generation = g
  BY DEF Members, Cached
<1>2. cache[u] # Uncached
  BY <1>1 DEF Uncached, NoGeneration
<1>3. cache[u] \in [generation : Generations \ {NoGeneration}, facts : Versions]
  BY <1>1, <1>2 DEF TypeOK
<1>4. rows[u].version = g[u] /\ cache[u].facts = g[u]
  BY <1>1, <1>2 DEF CacheInv
<1>5. QED BY <1>1, <1>3, <1>4

\* The versions a request reads never run ahead of the files.
LEMMA ReadStep ==
  ASSUME TokenInv, NEW r \in Requests,
         Start(r) \/ Receive(r) \/ GiveUpWaiting(r) \/ Admit(r) \/ Computes(r) \/ Break(r) \/ Cancel(r)
  PROVE  VersionInv' /\ KindInv'
<1> DEFINE Reads(q) == \A u \in Units :
             /\ closure[q][u] <= disk[u]
             /\ pc[q] = "analyzed" => closure[q][u] <= parsed[q][u] /\ parsed[q][u] <= disk[u]
             /\ pc[q] \in Publishing /\ kind[q] = "overlay" /\ closure[q][u] # 0 =>
                  parsed[q][u] = closure[q][u]
           Kinds(q) == kind[q] = "full" => "full" \in Profiles
<1> USE DEF Goto, Set
<1>0. /\ TypeOK /\ RequestInv /\ UNCHANGED <<disk, rows>>
      /\ \A u \in Units : rows[u].version <= disk[u] /\ disk[u] \in Nat /\ rows[u].version \in Nat
      /\ \A q \in Requests : Reads(q) /\ Kinds(q)
      /\ \A u \in Units : closure[r][u] \in Nat /\ parsed[r][u] \in Nat
  <2>1. TypeOK /\ RequestInv /\ VersionInv /\ KindInv /\ UNCHANGED <<disk, rows>>
    BY Publishers DEF TokenInv, RequestInv
  <2>2. \A u \in Units : disk[u] \in Nat /\ rows[u].version \in Nat /\ closure[r][u] \in Nat
    BY <2>1, ReadTypes, ConstantTypes
  <2>3. \A u \in Units : parsed[r][u] \in Nat
    BY <2>1, ConstantTypes DEF TypeOK
  <2>4. QED BY <2>1, <2>2, <2>3 DEF VersionInv, KindInv
<1>1. ASSUME NEW q \in Requests, q # r PROVE Reads(q)' /\ Kinds(q)'
  BY <1>0, <1>1, OthersKeep
<1> SUFFICES Reads(r)' /\ Kinds(r)'
  BY <1>0, <1>1 DEF VersionInv, KindInv
<1>2. CASE Start(r) \/ Receive(r) \/ GiveUpWaiting(r) \/ Resolve(r) \/ Pop(r)
  <2>1. UNCHANGED <<closure, parsed, kind>> /\ pc'[r] \in {"queue", "wait", "idle", "pop"}
    <3>1. CASE Start(r)
      BY <1>0, <3>1 DEF TypeOK, Start
    <3>2. CASE Receive(r) \/ GiveUpWaiting(r)
      BY <1>0, <3>2 DEF TypeOK, Receive, GiveUpWaiting, Leave
    <3>3. CASE Resolve(r) \/ Pop(r)
      BY <1>0, <3>3 DEF TypeOK, Resolve, Pop, Leave, locals
    <3>4. QED BY <1>2, <3>1, <3>2, <3>3
  <2>2. QED BY <1>0, <2>1 DEF Publishing
<1>3. CASE Hit(r) \/ Commit(r) \/ Fail(r) \/ Break(r)
  <2>1. /\ pc'[r] = "resolve" /\ closure'[r] = NoGeneration /\ kind'[r] = "none"
    BY <1>0, <1>3 DEF TypeOK, Hit, Commit, Fail, Break, Raise, Finish
  <2>2. \A u \in Units : closure'[r][u] = 0
    BY <2>1 DEF NoGeneration
  <2>3. QED BY <1>0, <2>1, <2>2 DEF Publishing
<1>4. CASE Admit(r)
  <2>1. /\ pc'[r] = "closure" /\ kind' = kind
        /\ closure'[r] = [NoGeneration EXCEPT ![Root[symbol[r]]] = rows[Root[symbol[r]]].version]
    BY <1>0, <1>4 DEF TypeOK, Admit
  <2>2. \A u \in Units : closure'[r][u] = 0 \/ closure'[r][u] = rows[u].version
    BY <2>1 DEF NoGeneration
  <2>3. QED BY <1>0, <2>1, <2>2 DEF Publishing
<1>5. ASSUME NEW u \in Units, Expand(r, u)
      PROVE  Reads(r)' /\ Kinds(r)'
  <2>1. /\ pc[r] = "closure" /\ pc' = pc /\ kind' = kind
        /\ closure'[r] = [v \in Units |-> IF closure[r][v] = 0 /\ v \in Calls[u][rows[u].version]
                                          THEN rows[v].version ELSE closure[r][v]]
    BY <1>0, <1>5 DEF TypeOK, Expand
  <2>2. \A v \in Units : closure'[r][v] = closure[r][v] \/ closure'[r][v] = rows[v].version
    BY <2>1
  <2>3. QED BY <1>0, <2>1, <2>2 DEF Publishing
<1>6. CASE Revalidate(r) \/ Prepare(r) \/ TakeGuard(r) \/ Cancel(r)
  <2>1. /\ UNCHANGED <<closure, parsed, kind>>
        /\ \/ pc' = pc
           \/ pc'[r] = "profile"
           \/ pc[r] \in Publishing /\ pc'[r] \in {"prepared", "guarded"}
    BY <1>0, <1>6 DEF TypeOK, Revalidate, Prepare, TakeGuard, Cancel, locals, Publishing
  <2>2. QED BY <1>0, <2>1 DEF Publishing
<1>7. CASE ChooseBranch(r)
  <2>1. /\ pc[r] = "profile" /\ pc'[r] = "lookup" /\ UNCHANGED <<closure, parsed>>
        /\ kind'[r] = IF AllFull(r) THEN "full" ELSE "overlay"
    BY <1>0, <1>7 DEF TypeOK, ChooseBranch
  <2>2. symbol[r] \in Symbols /\ Root[symbol[r]] \in Units /\ closure[r][Root[symbol[r]]] # 0
    BY <1>0, <2>1, ConstantTypes DEF RequestInv, FutureInv, ComputeInv, Leading, Computing
  <2>3. rows[Root[symbol[r]]].profile \in Profiles
    BY <1>0, <2>2 DEF TypeOK
  <2>4. AllFull(r) => "full" \in Profiles
    BY <2>2, <2>3 DEF AllFull, Members
  <2>5. QED BY <1>0, <2>1, <2>4 DEF Publishing
<1>8. CASE Miss(r)
  <2>1. /\ pc[r] = "lookup" /\ UNCHANGED <<closure, parsed>>
        /\ \/ kind'[r] = "alias" /\ pc'[r] = "publish"
           \/ kind' = kind /\ pc'[r] = IF kind[r] = "full" THEN "publish" ELSE "analyze"
    BY <1>0, <1>8 DEF TypeOK, Miss
  <2>2. QED BY <1>0, <2>1 DEF Publishing
<1>9. CASE Analyze(r)
  <2>1. /\ pc'[r] = "analyzed" /\ UNCHANGED <<closure, kind>>
        /\ parsed'[r] = [u \in Units |-> IF closure[r][u] = 0 THEN 0 ELSE disk[u]]
    BY <1>0, <1>9 DEF TypeOK, Analyze
  <2>2. \A u \in Units : closure[r][u] <= parsed'[r][u] /\ parsed'[r][u] <= disk[u]
    BY <1>0, <2>1
  <2>3. QED BY <1>0, <2>1, <2>2 DEF Publishing
<1>10. CASE RevalidateAgain(r)
  <2>1. /\ pc[r] = "analyzed" /\ pc'[r] = "publish" /\ UNCHANGED <<closure, kind, parsed>>
        /\ \A u \in Units : closure[r][u] # 0 => disk[u] = closure[r][u]
    BY <1>0, <1>10 DEF TypeOK, RevalidateAgain, Revalidated, Members, locals
  <2>2. QED BY <1>0, <2>1
<1>11. QED BY <1>2, <1>3, <1>4, <1>5, <1>6, <1>7, <1>8, <1>9, <1>10 DEF Computes

\* While a publication holds the write lock nobody else publishes.
LEMMA CheckedStep ==
  ASSUME TokenInv, Steady, NEW r \in Requests,
         Start(r) \/ Receive(r) \/ GiveUpWaiting(r) \/ Admit(r) \/ Computes(r) \/ Break(r) \/ Cancel(r)
  PROVE  CheckedInv'
<1> DEFINE Checked(q) == pc[q] \in Locked =>
             IF kind[q] = "alias" THEN Cached(closure[q])
             ELSE \A u \in Members(closure[q]) : rows[u].version = closure[q][u]
<1> USE DEF Goto, Set
<1>0. /\ TypeOK /\ RequestInv /\ UNCHANGED <<disk, rows>> /\ \A q \in Requests : Checked(q)
  BY Publishers DEF TokenInv, RequestInv, CheckedInv
<1>1. ASSUME NEW q \in Requests, q # r PROVE Checked(q)'
  <2>1. pc'[q] = pc[q] /\ kind'[q] = kind[q] /\ closure'[q] = closure[q]
    BY <1>0, <1>1, OthersKeep
  <2>2. CASE pc[q] \in Locked
    <3>1. writer = q /\ ~Commit(r)
      BY <1>0, <1>1, <2>2 DEF RequestInv, WriterInv, Commit, Locked
    <3>2. cache' = cache
      BY <1>0, <3>1, Publishers
    <3>3. QED BY <1>0, <2>1, <3>2 DEF Cached, Members
  <2>3. QED BY <2>1, <2>2
<1> SUFFICES Checked(r)'
  BY <1>1 DEF CheckedInv
<1>2. CASE Prepare(r)
  <2>1. /\ pc[r] = "publish" /\ StillValid(r) /\ UNCHANGED <<cache, kind, closure>>
    BY <1>2 DEF Prepare, locals
  <2>2. kind[r] \in {"overlay", "alias", "full"}
    <3>1. kind[r] \in {"none", "overlay", "alias", "full"}
      BY <1>0 DEF TypeOK
    <3>2. QED BY <1>0, <2>1, <3>1 DEF RequestInv, ComputeInv, Chosen
  <2>3. CASE kind[r] = "overlay"
    BY <1>0, <2>1, <2>3 DEF StillValid, RowsUnchanged, Members
  <2>4. CASE kind[r] = "alias"
    BY <1>0, <2>1, <2>4 DEF StillValid, Cached, Members
  <2>5. CASE kind[r] = "full"
    <3>1. MaxVersion = 1
      BY <2>5 DEF TokenInv, KindInv, Steady
    <3>2. \A u \in Members(closure[r]) : rows[u].version = closure[r][u]
      <4> TAKE u \in Members(closure[r])
      <4>1. u \in Units /\ closure[r][u] # 0
        BY DEF Members
      <4>2. closure[r][u] \in Versions /\ rows[u].version \in Versions
        BY <1>0, <4>1, ConstantTypes DEF TypeOK
      <4>3. QED BY <3>1, <4>2 DEF Versions
    <3>3. QED BY <1>0, <2>1, <2>5, <3>2 DEF Members
  <2>6. QED BY <2>2, <2>3, <2>4, <2>5
<1>3. CASE TakeGuard(r) \/ Cancel(r)
  <2>1. UNCHANGED <<cache, kind, closure>> /\ (pc[r] \in Locked \/ pc' = pc)
    BY <1>3 DEF TakeGuard, Cancel, Locked, store, locals
  <2>2. QED BY <1>0, <2>1 DEF Cached, Members
<1>4. CASE ~Prepare(r) /\ ~TakeGuard(r) /\ ~Cancel(r)
  <2>1. \/ pc'[r] = "resolve"
        \/ pc[r] \notin Locked /\ writer' = writer
    <3>1. CASE Start(r) \/ Receive(r) \/ GiveUpWaiting(r) \/ Admit(r) \/ Resolve(r) \/ Pop(r)
      BY <3>1 DEF Start, Receive, GiveUpWaiting, Admit, Resolve, Pop, Locked, store
    <3>2. CASE Hit(r) \/ Commit(r) \/ Fail(r) \/ Break(r)
      <4>1. Finish(r, "ok") \/ Finish(r, "failed")
        BY <3>2 DEF Hit, Commit, Fail, Break, Raise
      <4>2. pc \in [Requests -> Leading \cup {"idle", "wait"}] /\ pc' = [pc EXCEPT ![r] = "resolve"]
        BY <1>0, <4>1 DEF TypeOK, Finish
      <4>3. QED BY <4>2
    <3>3. CASE \/ Revalidate(r) \/ ChooseBranch(r) \/ Miss(r) \/ Analyze(r) \/ RevalidateAgain(r)
               \/ \E u \in Units : Expand(r, u)
      BY <3>3 DEF Revalidate, ChooseBranch, Miss, Analyze, RevalidateAgain, Expand, Locked, store
    <3>4. QED BY <1>4, <3>1, <3>2, <3>3 DEF Computes
  <2>2. WriterInv'
    BY <1>0, WriterStep
  <2>3. pc'[r] \notin Locked
    BY <1>0, <2>1, <2>2 DEF RequestInv, WriterInv, Locked
  <2>4. QED BY <2>3
<1>5. QED BY <1>2, <1>3, <1>4

\* A commit publishes the committed versions of its closure.
LEMMA CommitExact ==
  ASSUME TokenInv, NEW r \in Requests, Commit(r)
  PROVE  /\ \A u \in Members(closure[r]) : rows[u].version = closure[r][u]
         /\ CacheInv' /\ TokensAreExact'
<1> DEFINE g == closure[r]
<1>0. /\ TypeOK /\ RequestInv /\ CacheInv /\ TokensAreExact /\ VersionInv /\ CheckedInv
      /\ rows' = rows /\ pc[r] = "guarded" /\ g \in Generations
  BY DEF TokenInv, RequestInv, TypeOK, Commit
<1>1. /\ cache' = [u \in Units |-> IF u \notin Deleted(r) THEN cache[u]
                                   ELSE IF u \in Members(g) THEN Published(r, u) ELSE Uncached]
      /\ tokens' = {t \in tokens : Members(t.generation) \cap Deleted(r) = {}}
                     \cup {[root |-> symbol[r], generation |-> g]}
  BY DEF Commit, Valid, Token
<1>2. kind[r] \in {"overlay", "alias", "full"}
  <2>1. kind[r] \in {"none", "overlay", "alias", "full"}
    BY <1>0 DEF TypeOK
  <2>2. QED BY <1>0, <2>1 DEF RequestInv, ComputeInv, Chosen
<1>3. ASSUME NEW t \in tokens, Members(t.generation) \cap Deleted(r) = {}, NEW u \in Members(t.generation)
      PROVE  /\ rows[u].version = t.generation[u]
             /\ cache'[u] = [generation |-> t.generation, facts |-> t.generation[u]]
  <2>1. u \in Units /\ u \notin Deleted(r)
    BY <1>3 DEF Members
  <2>2. QED BY <1>0, <1>1, <2>1 DEF TokensAreExact
<1>4. ASSUME \A u \in Members(g) : /\ rows[u].version = g[u]
                                 /\ cache'[u] = [generation |-> g, facts |-> g[u]]
      PROVE  TokensAreExact'
  <2> SUFFICES ASSUME NEW t \in tokens', NEW u \in Members(t.generation)
               PROVE  /\ rows[u].version = t.generation[u]
                      /\ cache'[u] = [generation |-> t.generation, facts |-> t.generation[u]]
    BY <1>0 DEF TokensAreExact, Members
  <2>1. CASE t \in tokens /\ Members(t.generation) \cap Deleted(r) = {}
    BY <1>3, <2>1
  <2>2. CASE t = [root |-> symbol[r], generation |-> g]
    <3>1. t.generation = g
      BY <2>2
    <3>2. QED BY <1>4, <3>1
  <2>3. QED BY <1>1, <2>1, <2>2
<1>5. CASE kind[r] = "alias"
  <2>1. Cached(g) /\ cache' = cache
    BY <1>0, <1>1, <1>5 DEF CheckedInv, Locked, Deleted, TypeOK
  <2>2. \A u \in Members(g) : rows[u].version = g[u] /\ cache[u] = [generation |-> g, facts |-> g[u]]
    BY <1>0, <2>1, CachedExact
  <2>3. TokensAreExact'
    BY <1>4, <2>1, <2>2
  <2>4. QED BY <1>0, <2>1, <2>2, <2>3 DEF CacheInv
<1>6. CASE kind[r] \in {"overlay", "full"}
  <2>1. \A u \in Members(g) : rows[u].version = g[u]
    BY <1>0, <1>6 DEF CheckedInv, Locked
  <2>2. Members(g) \subseteq Deleted(r)
    BY <1>6, CallersHasTargets DEF Deleted, Members
  <2>3. \A u \in Members(g) : Published(r, u) = [generation |-> g, facts |-> g[u]]
    BY <1>0, <1>6, <2>1 DEF Published, VersionInv, Publishing, Members
  <2>4. \A u \in Members(g) : cache'[u] = [generation |-> g, facts |-> g[u]]
    BY <1>1, <2>2, <2>3 DEF Members
  <2>5. TokensAreExact'
    BY <1>4, <2>1, <2>4
  <2>6. CacheInv'
    <3> SUFFICES ASSUME NEW u \in Units, cache'[u] # Uncached
                 PROVE  cache'[u].generation[u] = rows[u].version /\ cache'[u].facts = rows[u].version
      BY <1>0 DEF CacheInv
    <3>1. CASE u \in Members(g)
      <4>1. cache'[u] = [generation |-> g, facts |-> g[u]] /\ rows[u].version = g[u]
        BY <2>1, <2>4, <3>1
      <4>2. QED BY <4>1
    <3>2. CASE u \notin Members(g)
      BY <1>0, <1>1, <3>2 DEF CacheInv
    <3>3. QED BY <3>1, <3>2
  <2>7. QED BY <2>1, <2>5, <2>6
<1>7. QED BY <1>2, <1>5, <1>6

\* An index run takes the cache rows and the tokens of what it replaces.
LEMMA ReindexExact ==
  ASSUME TokenInv, NEW p \in Profiles, NEW edited \in SUBSET Edited, NEW callers \in SUBSET Units,
         Reindex(p, edited, callers)
  PROVE  VersionInv' /\ CacheInv' /\ CheckedInv' /\ KindInv' /\ TokensAreExact'
<1> DEFINE changed == edited \cup {u \in Units : rows[u].profile # p}
           cleared == changed \cup callers
<1>0. /\ TypeOK /\ RequestInv /\ CacheInv /\ TokensAreExact /\ VersionInv /\ KindInv
      /\ \A u \in Units : disk[u] \in Nat
  BY ReadTypes, ConstantTypes DEF TokenInv, RequestInv
<1>1. /\ writer = None /\ UNCHANGED <<disk, pc, closure, parsed, kind>>
      /\ rows' = [u \in Units |-> IF u \in changed THEN [version |-> disk[u], profile |-> p]
                                  ELSE rows[u]]
      /\ cache' = [u \in Units |-> IF u \in cleared THEN Uncached ELSE cache[u]]
      /\ tokens' = {t \in tokens : Members(t.generation) \cap cleared = {}}
  BY DEF Reindex, Valid, locals
<1>2. VersionInv' /\ KindInv'
  <2>1. \A u \in Units : rows'[u].version = disk[u] \/ rows'[u].version = rows[u].version
    BY <1>1
  <2>2. \A u \in Units : rows'[u].version <= disk[u]
    BY <1>0, <2>1 DEF VersionInv
  <2>3. QED BY <1>0, <1>1, <2>2 DEF VersionInv, KindInv
<1>3. CacheInv'
  BY <1>0, <1>1 DEF CacheInv
<1>4. CheckedInv'
  <2>1. \A r \in Requests : pc[r] \notin Locked
    BY <1>0, <1>1, ConstantTypes DEF RequestInv, WriterInv
  <2>2. QED BY <1>1, <2>1 DEF CheckedInv
<1>5. TokensAreExact'
  <2> SUFFICES ASSUME NEW t \in tokens', NEW u \in Members(t.generation)
               PROVE  /\ rows'[u].version = t.generation[u]
                      /\ cache'[u] = [generation |-> t.generation, facts |-> t.generation[u]]
    BY DEF TokensAreExact, Members
  <2>1. t \in tokens /\ u \in Units /\ u \notin cleared
    BY <1>1 DEF Members
  <2>2. QED BY <1>0, <1>1, <2>1 DEF TokensAreExact
<1>6. QED BY <1>2, <1>3, <1>4, <1>5

LEMMA InitTokens == Init => TokenInv
<1> SUFFICES ASSUME Init PROVE TokenInv
  OBVIOUS
<1>1. RequestInv
  BY InitRequests
<1>2. VersionInv
  BY ConstantTypes DEF Init, VersionInv, NoGeneration, Publishing
<1>3. CacheInv /\ CheckedInv /\ KindInv /\ TokensAreExact
  BY DEF Init, CacheInv, CheckedInv, KindInv, TokensAreExact, Locked
<1>4. QED BY <1>1, <1>2, <1>3 DEF TokenInv

LEMMA NextTokens == ASSUME Steady PROVE TokenInv /\ [Next]_vars => TokenInv'
<1> SUFFICES ASSUME TokenInv, [Next]_vars PROVE TokenInv'
  OBVIOUS
<1>0. RequestInv'
  BY NextRequests DEF TokenInv
<1>1. ASSUME NEW r \in Requests,
             \/ Start(r) \/ Receive(r) \/ GiveUpWaiting(r) \/ Admit(r) \/ Computes(r) \/ Break(r)
             \/ Cancel(r)
      PROVE  TokenInv'
  <2>1. VersionInv' /\ KindInv' /\ CheckedInv'
    BY <1>1, ReadStep, CheckedStep
  <2>2. CacheInv' /\ TokensAreExact'
    <3>1. CASE Commit(r)
      BY <3>1, CommitExact
    <3>2. CASE ~Commit(r)
      <4>1. UNCHANGED <<rows, cache, tokens>>
        BY <1>1, <3>2, Publishers DEF TokenInv
      <4>2. QED BY <4>1 DEF TokenInv, CacheInv, TokensAreExact, Members
    <3>3. QED BY <3>1, <3>2
  <2>3. QED BY <1>0, <2>1, <2>2 DEF TokenInv
<1>2. ASSUME NEW u \in Units, Edit(u)
      PROVE  TokenInv'
  <2>1. disk' = [disk EXCEPT ![u] = @ + 1] /\ UNCHANGED <<rows, cache, tokens, pc, closure, parsed, kind>>
    BY <1>2 DEF Edit, store, locals
  <2>2. \A v \in Units : disk[v] \in Nat /\ disk'[v] \in Nat /\ disk[v] <= disk'[v]
    <3>1. disk \in [Units -> Versions]
      BY DEF TokenInv, RequestInv, TypeOK
    <3>2. \A v \in Units : disk'[v] = disk[v] \/ disk'[v] = disk[v] + 1
      BY <2>1, <3>1
    <3>3. \A v \in Units : disk[v] \in Nat
      BY <3>1, ConstantTypes
    <3>4. QED BY <3>2, <3>3
  <2>3. VersionInv'
    <3>1. /\ \A v \in Units : rows[v].version \in Nat
          /\ \A r \in Requests, v \in Units : closure[r][v] \in Nat /\ parsed[r][v] \in Nat
      BY ReadTypes, ConstantTypes DEF TokenInv, RequestInv, TypeOK
    <3>2. QED BY <2>1, <2>2, <3>1 DEF TokenInv, VersionInv
  <2>4. CacheInv' /\ CheckedInv' /\ KindInv' /\ TokensAreExact'
    BY <2>1 DEF TokenInv, CacheInv, CheckedInv, KindInv, TokensAreExact, Cached, Members
  <2>5. QED BY <1>0, <2>3, <2>4 DEF TokenInv
<1>3. ASSUME NEW p \in Profiles, NEW edited \in SUBSET Edited, NEW callers \in SUBSET Units,
             Reindex(p, edited, callers)
      PROVE  TokenInv'
  BY <1>0, <1>3, ReindexExact DEF TokenInv
<1>4. CASE UNCHANGED vars
  <2>1. UNCHANGED <<disk, rows, cache, tokens, pc, closure, parsed, kind>>
    BY <1>4 DEF vars, store, locals
  <2>2. VersionInv' /\ CacheInv' /\ CheckedInv'
    BY <2>1 DEF TokenInv, VersionInv, CacheInv, CheckedInv, Cached, Members
  <2>3. KindInv' /\ TokensAreExact'
    BY <2>1 DEF TokenInv, KindInv, TokensAreExact, Members
  <2>4. QED BY <1>0, <2>2, <2>3 DEF TokenInv
<1>5. QED BY <1>1, <1>2, <1>3, <1>4 DEF Next

LEMMA TokenInvariant == ASSUME Steady PROVE Spec => []TokenInv
<1>1. TokenInv /\ [Next]_vars => TokenInv'
  BY NextTokens
<1>2. QED BY <1>1, InitTokens, PTL DEF Spec

\* Whatever index runs and other requests do meanwhile, a token names the committed
\* version of each of its units, and the cached facts it leads to are of that version
\* (README.md:561, apply_deep_overlay): if nobody indexes with the full profile, whose
\* publication does not look at versions, or nobody edits.
THEOREM TokensStayExact == ASSUME Steady PROVE Spec => []TokensAreExact
<1>1. TokenInv => TokensAreExact
  BY DEF TokenInv
<1>2. QED BY <1>1, TokenInvariant, PTL

\* A leader that succeeds has a closure whose versions are all committed at that moment,
\* however many index runs tore its reads (DeepMaterializer.materialize).
THEOREM ResultsAreCurrent == ASSUME Steady PROVE Spec => ResultIsCurrent
<1> DEFINE A == \A r \in Requests : pc[r] \in Computing /\ pc'[r] = "resolve" /\ answer'[r] = "ok"
                  => \A u \in Members(closure[r]) : rows[u].version = closure[r][u]
<1>1. TokenInv /\ [Next]_vars => [A]_vars
  <2> SUFFICES ASSUME TokenInv, Next, NEW r \in Requests,
                      pc[r] \in Computing, pc'[r] = "resolve", answer'[r] = "ok"
               PROVE  \A u \in Members(closure[r]) : rows[u].version = closure[r][u]
    OBVIOUS
  <2>0. TypeOK
    BY DEF TokenInv, RequestInv
  <2>1. pc'[r] # pc[r]
    BY DEF Computing
  <2>2. PICK q \in Requests :
          \/ Start(q) \/ Receive(q) \/ GiveUpWaiting(q) \/ Admit(q) \/ Computes(q) \/ Break(q)
          \/ Cancel(q)
    BY <2>1 DEF Next, Edit, Reindex, store
  <2>3. q = r
    BY <2>0, <2>1, <2>2, OthersKeep
  <2>4. Hit(r) \/ Commit(r)
    <3>1. ~Start(r) /\ ~Receive(r) /\ ~GiveUpWaiting(r) /\ ~Admit(r) /\ ~Pop(r) /\ ~Resolve(r)
      BY <2>0 DEF TypeOK, Start, Receive, GiveUpWaiting, Admit, Pop, Resolve, Computing
    <3>2. ~Cancel(r) /\ \A u \in Units : ~Expand(r, u)
      BY <2>1 DEF Cancel, Expand
    <3>3. ~Revalidate(r) /\ ~ChooseBranch(r) /\ ~Miss(r) /\ ~Analyze(r) /\ ~RevalidateAgain(r)
          /\ ~Prepare(r) /\ ~TakeGuard(r)
      BY <2>0 DEF TypeOK, Revalidate, ChooseBranch, Miss, Analyze, RevalidateAgain, Prepare, TakeGuard,
             Goto, Set
    <3>4. ~Fail(r) /\ ~Break(r)
      BY <2>0 DEF TypeOK, Fail, Break, Raise, Finish, Set
    <3>5. QED BY <2>2, <2>3, <3>1, <3>2, <3>3, <3>4 DEF Computes
  <2>5. CASE Hit(r)
    <3>1. Cached(closure[r]) /\ closure[r] \in Generations
      BY <2>0, <2>5 DEF Hit, TypeOK
    <3>2. QED BY <2>0, <3>1, CachedExact DEF TokenInv
  <2>6. CASE Commit(r)
    BY <2>6, CommitExact
  <2>7. QED BY <2>4, <2>5, <2>6
<1>2. TokenInv /\ [Next]_vars => TokenInv'
  BY NextTokens
<1>3. QED BY <1>1, <1>2, InitTokens, PTL DEF Spec, ResultIsCurrent
=============================================================================
