----------------------------- MODULE EmbeddingStore -----------------------------
(***************************************************************************)
(* The embedding pass: SQLiteVectorSearch.index and index_missing          *)
(* (src/cpp_context_engine/search/vector.py) over the vector pool of       *)
(* SQLiteStore (storage/sqlite.py).  Equal texts of one namespace (a model *)
(* with its configuration) share a vector; a symbol variant is attached to *)
(* the vector of its text.                                                 *)
(*                                                                         *)
(* A pass is one transaction that asks its provider while it holds the     *)
(* write lock: other writers wait or give up, and any failure undoes it.   *)
(* Between passes an index run replaces variants (FactStore).  A text is a *)
(* number, its hash too; a vector is a pair of its dimension and the rest. *)
(***************************************************************************)
EXTENDS Naturals, FiniteSets, FiniteSetsExt

CONSTANTS
  VariantBuild,   \* the build of every variant, a sequence: its indices are row numbers
  TextOf,         \* the text of every snapshot, a sequence
  Namespaces,     \* models with their configurations
  Vectors,        \* what a provider may return for a text
  BatchSize       \* batch_size

Rows == DOMAIN VariantBuild
Snapshots == DOMAIN TextOf

\* batch_size is checked (vector.py:48); numbers of rows and snapshots are positive.
ASSUME EmbeddingAssumption ==
  /\ BatchSize \in Nat \ {0}
  /\ IsFiniteSet(Rows) /\ Rows \subseteq Nat \ {0}
  /\ 1 \in Snapshots /\ Snapshots \subseteq Nat \ {0}

Scopes == {S \in SUBSET {VariantBuild[r] : r \in Rows} : S # {}}

VARIABLES
  snapshot,     \* the snapshot of every variant, 0 for a variant that is not there
  attachments,  \* embedding_attachment_records: <<row, namespace, text>>
  pool,         \* embedding_content_records: <<namespace, text, vector>>
  pass          \* the transaction of an embedding pass

embeddingVars == <<snapshot, attachments, pool, pass>>

NoPass == [phase |-> "none"]

EmbeddingInit ==
  /\ snapshot \in [Rows -> {0, 1}] /\ attachments = {} /\ pool = {} /\ pass = NoPass

-----------------------------------------------------------------------------

TextAt(r) == TextOf[snapshot[r]]

\* _embedding_configuration_dimensions
Dimensions(vectors, n) == {v[3][1] : v \in {w \in vectors : w[1] = n}}

\* _delete_orphan_embedding_vectors
Attached(vectors, records) ==
  {v \in vectors : \E a \in records : a[2] = v[1] /\ a[3] = v[2]}

\* INSERT ... ON CONFLICT DO UPDATE: one attachment of a variant to a namespace.
Attach(records, rows, n) ==
  {a \in records : ~(a[1] \in rows /\ a[2] = n)} \cup {<<r, n, TextAt(r)>> : r \in rows}

\* Variants without a vector, in the order of the cursor: snapshot, then row.
Missing ==
  {r \in Rows : /\ snapshot[r] # 0 /\ VariantBuild[r] \in pass.scope
                /\ ~\E a \in pass.attachments : a[1] = r /\ a[2] = pass.namespace}

Precedes(r, s) ==
  snapshot[r] < snapshot[s] \/ (snapshot[r] = snapshot[s] /\ r < s)

\* Mutant: the cursor goes on with the next snapshot.
AfterSnapshot(r) == snapshot[r] > pass.cursor[1]
AfterCursor(r) ==
  snapshot[r] > pass.cursor[1] \/ (snapshot[r] = pass.cursor[1] /\ r > pass.cursor[2])

NextRows ==
  LET left == {r \in Missing : AfterCursor(r)}
  IN {r \in left : Cardinality({s \in left : Precedes(s, r)}) < BatchSize}

-----------------------------------------------------------------------------
(* The pass.                                                               *)

\* embedding_write_session.  "listed" are the variants given to index.
BeginPass(n, scope, listed) ==
  /\ pass = NoPass
  /\ pass' = [phase |-> "next", namespace |-> n, scope |-> scope,
              listed |-> listed, missingOnly |-> listed = {}, cursor |-> <<0, 0>>,
              batch |-> {}, misses |-> {}, attachments |-> attachments, pool |-> pool]
  /\ UNCHANGED <<snapshot, attachments, pool>>

\* The next batch of missing variants, or of those listed.
NextBatch ==
  /\ pass.phase = "next"
  /\ LET batch == IF pass.missingOnly THEN NextRows
                  ELSE {r \in pass.listed : Cardinality({s \in pass.listed : s < r}) < BatchSize}
         last == CHOOSE r \in batch : \A s \in batch : s = r \/ Precedes(s, r)
     IN pass' = [pass EXCEPT
          !.phase = IF batch = {} THEN "ready" ELSE "issued",
          !.batch = batch,
          !.listed = @ \ batch,
          !.cursor = IF batch = {} THEN @ ELSE <<snapshot[last], last>>]
  /\ UNCHANGED <<snapshot, attachments, pool>>

\* _attach_existing_embeddings: texts that have a vector already.
AttachExisting ==
  /\ pass.phase = "issued"
  /\ LET n == pass.namespace
         known == {r \in pass.batch : \E v \in pass.pool : v[1] = n /\ v[2] = TextAt(r)}
         misses == pass.batch \ known
     IN pass' = [pass EXCEPT
          !.attachments = Attach(@, known, n),
          !.misses = misses,
          !.phase = IF misses = {} THEN "next" ELSE "asking"]
  /\ UNCHANGED <<snapshot, attachments, pool>>

\* The provider's answer for the distinct texts, and _put_content_embeddings: it
\* is stored if its dimensions fit those of the namespace.
StoreAnswer ==
  /\ pass.phase = "asking"
  /\ LET n == pass.namespace
         texts == {TextAt(r) : r \in pass.misses}
     IN \E answer \in [texts -> Vectors] :
          LET dimensions == Dimensions(pass.pool, n) \cup {answer[t][1] : t \in texts}
          IN /\ Cardinality(dimensions) = 1
             /\ pass' = [pass EXCEPT
                  !.pool = @ \cup {<<n, t, answer[t]>> : t \in texts},
                  !.attachments = Attach(@, pass.misses, n),
                  !.phase = "next"]
  /\ UNCHANGED <<snapshot, attachments, pool>>

CommitPass ==
  /\ pass.phase = "ready"
  /\ attachments' = pass.attachments
  /\ pool' = Attached(pass.pool, pass.attachments)
  /\ pass' = NoPass
  /\ UNCHANGED snapshot

\* The provider fails, returns something unfit, or the process dies.
AbandonPass ==
  /\ pass # NoPass /\ pass' = NoPass
  /\ UNCHANGED <<snapshot, attachments, pool>>

-----------------------------------------------------------------------------
(* Index runs, between the passes.                                         *)

\* Mutant: attachments of variants that change are kept.
KeepAttachments(rows) == attachments
WithoutAttachments(rows) == {a \in attachments : a[1] \notin rows}

\* The variants of replaced units are deleted with their attachments, then
\* staged again, changed, unchanged or not at all; orphan vectors go.
ReplaceVariants(rows) ==
  /\ pass = NoPass /\ rows # {}
  /\ \E new \in [rows -> Snapshots \cup {0}] :
       snapshot' = [r \in Rows |-> IF r \in rows THEN new[r] ELSE snapshot[r]]
  /\ attachments' = WithoutAttachments(rows)
  /\ pool' = Attached(pool, attachments')
  /\ UNCHANGED pass

EmbeddingNext ==
  \/ \E n \in Namespaces : \E scope \in Scopes :
       \E listed \in SUBSET {r \in Rows : snapshot[r] # 0 /\ VariantBuild[r] \in scope} :
         BeginPass(n, scope, listed)
  \/ NextBatch \/ AttachExisting \/ StoreAnswer \/ CommitPass \/ AbandonPass
  \/ \E rows \in SUBSET Rows : ReplaceVariants(rows)

EmbeddingSpec == EmbeddingInit /\ [][EmbeddingNext]_embeddingVars

-----------------------------------------------------------------------------
(* Properties.                                                             *)

EmbeddingTypes ==
  /\ snapshot \in [Rows -> Snapshots \cup {0}]
  /\ \A a \in attachments : a[1] \in Rows /\ a[2] \in Namespaces
  /\ pool \subseteq Namespaces \X {TextOf[s] : s \in Snapshots} \X Vectors

\* What readers see: an attachment is to the vector of the variant's present
\* text, there is one vector of a text, all vectors of a namespace have one
\* dimension, and none is left that nothing is attached to.
VectorsFit ==
  /\ EmbeddingTypes
  /\ \A a \in attachments :
       /\ snapshot[a[1]] # 0 /\ a[3] = TextAt(a[1])
       /\ Cardinality({v \in pool : v[1] = a[2] /\ v[2] = a[3]}) = 1
  /\ \A a, c \in attachments : a[1] = c[1] /\ a[2] = c[2] => a = c
  /\ \A n \in Namespaces : Cardinality(Dimensions(pool, n)) <= 1
  /\ Attached(pool, attachments) = pool

\* A pass of index_missing that is about to commit has a vector for every
\* variant in its scope, however the batches cut groups of equal snapshots.
PassIsComplete == pass.phase = "ready" /\ pass.missingOnly => Missing = {}
=============================================================================
