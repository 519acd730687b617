---------------------------- MODULE StoreProofs -----------------------------
(***************************************************************************)
(* Theorems about EmbeddingStore and FactBatch for any variants, texts,    *)
(* namespaces, answers of providers and batch sizes, and anything an       *)
(* analyzer may send.                                                      *)
(***************************************************************************)
EXTENDS EmbeddingStore, FactBatch, FiniteSetTheorems, WellFoundedInduction, TLAPS

-----------------------------------------------------------------------------
(* EmbeddingStore: vectors fit the texts they are attached to, and a pass  *)
(* over what is missing leaves nothing out.                                *)

Texts == {TextOf[s] : s \in Snapshots}
Records == Rows \X Namespaces \X Texts
Contents == Namespaces \X Texts \X Vectors

Phases == {"next", "issued", "asking", "ready"}
Passes ==
  [phase : Phases, namespace : Namespaces, scope : Scopes, listed : SUBSET Rows,
   missingOnly : BOOLEAN, cursor : Nat \X Nat, batch : SUBSET Rows, misses : SUBSET Rows,
   attachments : SUBSET Records, pool : SUBSET Contents]

\* The namespace has a vector of the text.
Known(vectors, n, t) == \E v \in vectors : v[1] = n /\ v[2] = t

\* Attachments are of present variants to a vector of their text; a text has one
\* vector, and the vectors of a namespace one dimension.
Fits(records, vectors) ==
  /\ records \subseteq Records /\ vectors \subseteq Contents
  /\ \A a \in records :
       snapshot[a[1]] # 0 /\ a[3] = TextAt(a[1]) /\ Known(vectors, a[2], a[3])
  /\ \A v, w \in vectors : v[1] = w[1] => v[3][1] = w[3][1] /\ (v[2] = w[2] => v = w)

Present(rows) == \A r \in rows : snapshot[r] # 0

\* What readers see.
CommittedInv ==
  /\ snapshot \in [Rows -> Snapshots \cup {0}]
  /\ Fits(attachments, pool)
  /\ Attached(pool, attachments) = pool

\* What the transaction has: the same, and texts for which it asks the provider only
\* while it has no vector of them.
PassInv ==
  pass # NoPass =>
    /\ pass \in Passes
    /\ Fits(pass.attachments, pass.pool)
    /\ Present(pass.listed)
    /\ pass.phase \in {"issued", "asking"} => Present(pass.batch)
    /\ pass.phase = "asking" =>
         /\ pass.misses \subseteq pass.batch
         /\ \A r \in pass.misses : ~Known(pass.pool, pass.namespace, TextAt(r))

\* A variant without a vector is still to come or in hand.
CursorInv ==
  pass # NoPass /\ pass.missingOnly =>
    \A r \in Missing :
      \/ pass.phase # "ready" /\ AfterCursor(r)
      \/ pass.phase = "issued" /\ r \in pass.batch
      \/ pass.phase = "asking" /\ r \in pass.misses

EmbeddingInv == CommittedInv /\ PassInv /\ CursorInv

-----------------------------------------------------------------------------
(* The order of the cursor.                                                *)

\* The strict order of the naturals as a set of pairs.
Before == {ss \in Nat \X Nat : ss[1] < ss[2]}

\* Every non-empty set of naturals has a least element.
LEMMA LeastNatural ==
  ASSUME NEW S, S \subseteq Nat, S # {}
  PROVE  \E i \in S : \A j \in S : ~(j < i)
<1>1. IsWellFoundedOn(Before, Nat)
  BY NatLessThanWellFounded DEF OpToRel, Before
<1>2. PICK i \in S : \A y \in S : ~(<<y, i>> \in Before)
  BY <1>1, WFMin
<1>3. QED BY <1>2 DEF Before

\* A non-empty finite set has a first element in any strict order: one with the
\* fewest before it.
LEMMA FirstElement ==
  ASSUME NEW S, IsFiniteSet(S), S # {}, NEW R,
         \A x \in S : <<x, x>> \notin R,
         \A x, y, z \in S : <<x, y>> \in R /\ <<y, z>> \in R => <<x, z>> \in R
  PROVE  \E x \in S : \A y \in S : <<y, x>> \notin R
<1> DEFINE Below(x) == {y \in S : <<y, x>> \in R}
           Counts == {Cardinality(Below(x)) : x \in S}
<1>1. \A x \in S : IsFiniteSet(Below(x)) /\ Cardinality(Below(x)) \in Nat
  <2> SUFFICES ASSUME NEW x \in S PROVE IsFiniteSet(Below(x)) /\ Cardinality(Below(x)) \in Nat
    OBVIOUS
  <2>1. Below(x) \in SUBSET S
    OBVIOUS
  <2>2. IsFiniteSet(Below(x))
    BY <2>1, FS_Subset
  <2>3. QED BY <2>2, FS_CardinalityType
<1>2. PICK n \in Counts : \A k \in Counts : ~(k < n)
  <2> HIDE DEF Below
  <2>1. Counts \subseteq Nat
    BY <1>1
  <2>0. Counts # {}
    OBVIOUS
  <2>2. QED BY <2>0, <2>1, LeastNatural
<1>3. PICK x \in S : n = Cardinality(Below(x))
  BY <1>2
<1>4. SUFFICES ASSUME NEW y \in S, <<y, x>> \in R PROVE FALSE
  BY <1>3
<1>5. Below(y) \in SUBSET Below(x) /\ y \in Below(x) /\ y \notin Below(y)
  BY <1>4
<1>6. Cardinality(Below(y)) <= Cardinality(Below(x)) /\ Cardinality(Below(x)) # Cardinality(Below(y))
  <2> HIDE DEF Below
  <2>1. IsFiniteSet(Below(x))
    BY <1>1
  <2>2. Cardinality(Below(y)) <= Cardinality(Below(x))
    BY <2>1, <1>5, FS_Subset
  <2>3. Cardinality(Below(x)) = Cardinality(Below(y)) => Below(x) = Below(y)
    BY <2>1, <1>5, FS_Subset
  <2>4. QED BY <2>2, <2>3, <1>5
<1>7. Cardinality(Below(y)) < n
  <2>1. Cardinality(Below(y)) \in Nat /\ Cardinality(Below(x)) \in Nat
    BY <1>1
  <2>2. QED BY <2>1, <1>3, <1>6
<1>8. Cardinality(Below(y)) \in Counts
  OBVIOUS
<1>9. QED BY <1>2, <1>7, <1>8

Numbered == snapshot \in [Rows -> Snapshots \cup {0}]

\* The cursor's order is strict and total.
LEMMA RowOrder ==
  ASSUME Numbered, NEW r \in Rows, NEW s \in Rows, NEW t \in Rows
  PROVE  /\ ~Precedes(r, r)
         /\ Precedes(r, s) /\ Precedes(s, t) => Precedes(r, t)
         /\ r = s \/ Precedes(r, s) \/ Precedes(s, r)
<1>1. Rows \subseteq Nat /\ Snapshots \cup {0} \subseteq Nat
  BY EmbeddingAssumption DEF EmbeddingAssumption
<1>2. \A q \in Rows : q \in Nat /\ snapshot[q] \in Nat
  BY <1>1 DEF Numbered
<1>3. QED BY <1>2 DEF Precedes

\* Hence every non-empty set of rows has a first and a last one.
LEMMA FirstAndLast ==
  ASSUME Numbered, NEW S \in SUBSET Rows, S # {}
  PROVE  /\ \E r \in S : \A s \in S : ~Precedes(s, r)
         /\ \E r \in S : \A s \in S : s = r \/ Precedes(s, r)
<1> DEFINE Up == {rs \in Rows \X Rows : Precedes(rs[1], rs[2])}
           Down == {rs \in Rows \X Rows : Precedes(rs[2], rs[1])}
<1>1. IsFiniteSet(S)
  BY EmbeddingAssumption, FS_Subset DEF EmbeddingAssumption
<1>2. /\ \A r, s \in S : <<r, s>> \in Up <=> Precedes(r, s)
      /\ \A r, s \in S : <<r, s>> \in Down <=> Precedes(s, r)
  OBVIOUS
<1> HIDE DEF Up, Down
<1>3. \E r \in S : \A s \in S : <<s, r>> \notin Up
  <2>1. \A r \in S : <<r, r>> \notin Up
    BY <1>2, RowOrder
  <2>2. \A r, s, t \in S : <<r, s>> \in Up /\ <<s, t>> \in Up => <<r, t>> \in Up
    BY <1>2, RowOrder
  <2>3. QED BY <1>1, <2>1, <2>2, FirstElement
<1>4. \E r \in S : \A s \in S : <<s, r>> \notin Down
  <2>1. \A r \in S : <<r, r>> \notin Down
    BY <1>2, RowOrder
  <2>2. \A r, s, t \in S : <<r, s>> \in Down /\ <<s, t>> \in Down => <<r, t>> \in Down
    BY <1>2, RowOrder
  <2>3. QED BY <1>1, <2>1, <2>2, FirstElement
<1>5. \E r \in S : \A s \in S : ~Precedes(s, r)
  BY <1>2, <1>3
<1>6. \E r \in S : \A s \in S : s = r \/ Precedes(s, r)
  <2>1. PICK r \in S : \A s \in S : ~Precedes(r, s)
    BY <1>2, <1>4
  <2>2. \A s \in S : s = r \/ Precedes(s, r)
    BY <2>1, RowOrder
  <2>3. QED BY <2>2
<1>7. QED BY <1>5, <1>6

\* The first BatchSize of a set: none only if there is none, and what is left comes
\* after all of them.
Leading(S) == {r \in S : Cardinality({s \in S : Precedes(s, r)}) < BatchSize}

LEMMA LeadingRows ==
  ASSUME Numbered, NEW S \in SUBSET Rows
  PROVE  /\ S # {} => Leading(S) # {}
         /\ \A r \in S \ Leading(S) : \A s \in Leading(S) : Precedes(s, r)
<1> DEFINE Earlier(r) == {s \in S : Precedes(s, r)}
<1>1. \A r \in S : IsFiniteSet(Earlier(r)) /\ Cardinality(Earlier(r)) \in Nat
  <2> SUFFICES ASSUME NEW r \in S PROVE IsFiniteSet(Earlier(r)) /\ Cardinality(Earlier(r)) \in Nat
    OBVIOUS
  <2>1. Earlier(r) \in SUBSET Rows
    OBVIOUS
  <2>2. IsFiniteSet(Earlier(r))
    BY <2>1, EmbeddingAssumption, FS_Subset
  <2>3. QED BY <2>2, FS_CardinalityType
<1>2. ASSUME S # {} PROVE Leading(S) # {}
  <2>1. PICK r \in S : \A s \in S : ~Precedes(s, r)
    BY <1>2, FirstAndLast
  <2>2. Earlier(r) = {}
    BY <2>1
  <2>3. Cardinality(Earlier(r)) = 0
    BY <2>2, FS_EmptySet
  <2>4. 0 < BatchSize
    BY EmbeddingAssumption DEF EmbeddingAssumption
  <2>5. QED BY <2>3, <2>4 DEF Leading
<1>3. ASSUME NEW r \in S \ Leading(S), NEW s \in Leading(S) PROVE Precedes(s, r)
  <2>1. s \in S /\ s # r
    BY DEF Leading
  <2>2. SUFFICES ASSUME Precedes(r, s) PROVE FALSE
    BY <2>1, RowOrder
  <2>3. Earlier(r) \in SUBSET Earlier(s)
    BY <2>1, <2>2, RowOrder
  <2>4. Cardinality(Earlier(r)) <= Cardinality(Earlier(s))
    <3>1. IsFiniteSet(Earlier(s))
      BY <1>1, <2>1
    <3> HIDE DEF Earlier
    <3>2. QED BY <3>1, <2>3, FS_Subset
  <2>5. Cardinality(Earlier(s)) < BatchSize /\ ~(Cardinality(Earlier(r)) < BatchSize)
    BY DEF Leading
  <2>6. Cardinality(Earlier(r)) \in Nat /\ Cardinality(Earlier(s)) \in Nat /\ BatchSize \in Nat
    BY <1>1, <2>1, EmbeddingAssumption DEF EmbeddingAssumption
  <2>7. QED BY <2>4, <2>5, <2>6
<1>4. QED BY <1>2, <1>3

-----------------------------------------------------------------------------
(* Attachments and vectors.                                                *)

\* Rows get an attachment where their text has a vector.
LEMMA AttachFits ==
  ASSUME Numbered, NEW records, NEW vectors, Fits(records, vectors), NEW n \in Namespaces,
         NEW rows \in SUBSET Rows, Present(rows), \A r \in rows : Known(vectors, n, TextAt(r))
  PROVE  Fits(Attach(records, rows, n), vectors)
<1> DEFINE new == {<<r, n, TextAt(r)>> : r \in rows}
<1>1. Attach(records, rows, n) \subseteq records \cup new
  BY DEF Attach
<1>2. \A r \in rows : TextAt(r) \in Texts
  BY DEF Numbered, Present, TextAt, Texts
<1>3. ASSUME NEW a \in new
      PROVE  /\ a \in Records
             /\ snapshot[a[1]] # 0 /\ a[3] = TextAt(a[1]) /\ Known(vectors, a[2], a[3])
  <2>1. PICK r \in rows : a = <<r, n, TextAt(r)>>
    BY <1>3
  <2>2. a \in Records
    BY <2>1, <1>2 DEF Records
  <2>3. a[1] = r /\ a[2] = n /\ a[3] = TextAt(r)
    BY <2>1
  <2>4. QED BY <2>2, <2>3 DEF Present
<1> HIDE DEF new
<1>4. QED BY <1>1, <1>3 DEF Fits

\* The rows that have an attachment in a namespace.
Owners(records, n) == {a[1] : a \in {c \in records : c[2] = n}}

LEMMA OwnersAfterwards ==
  ASSUME NEW records, NEW n, NEW rows
  PROVE  Owners(Attach(records, rows, n), n) = rows \cup Owners(records, n)
<1> DEFINE kept == {a \in records : ~(a[1] \in rows /\ a[2] = n)}
           new == {<<r, n, TextAt(r)>> : r \in rows}
<1>1. Attach(records, rows, n) = kept \cup new
  BY DEF Attach
<1>2. \A a \in new : a[1] \in rows /\ a[2] = n
  OBVIOUS
<1>3. \A r \in rows : \E a \in new : a[1] = r /\ a[2] = n
  <2> SUFFICES ASSUME NEW r \in rows PROVE \E a \in new : a[1] = r /\ a[2] = n
    OBVIOUS
  <2>1. <<r, n, TextAt(r)>> \in new
    OBVIOUS
  <2>2. <<r, n, TextAt(r)>>[1] = r /\ <<r, n, TextAt(r)>>[2] = n
    OBVIOUS
  <2>3. QED BY <2>1, <2>2
<1>4. \A a \in kept : a \in records
  OBVIOUS
<1>5. \A a \in records : a[1] \notin rows => a \in kept
  OBVIOUS
<1> HIDE DEF kept, new
<1>6. QED BY <1>1, <1>2, <1>3, <1>4, <1>5 DEF Owners

\* Who is missing has none.
LEMMA MissingHasNone ==
  Missing = {r \in Rows : /\ snapshot[r] # 0 /\ VariantBuild[r] \in pass.scope
                          /\ r \notin Owners(pass.attachments, pass.namespace)}
BY DEF Missing, Owners

\* Vectors that nothing needs may go.
LEMMA OrphansGo ==
  ASSUME NEW records, NEW vectors, Fits(records, vectors)
  PROVE  /\ Fits(records, Attached(vectors, records))
         /\ Attached(Attached(vectors, records), records) = Attached(vectors, records)
<1>1. Attached(vectors, records) \subseteq vectors
  BY DEF Attached
<1>2. \A a \in records : Known(Attached(vectors, records), a[2], a[3])
  BY DEF Fits, Known, Attached
<1>3. Fits(records, Attached(vectors, records))
  BY <1>1, <1>2 DEF Fits
<1>4. Attached(Attached(vectors, records), records) = Attached(vectors, records)
  BY DEF Attached
<1>5. QED BY <1>3, <1>4

\* The answer of a provider fits if its dimension is that of the namespace.
LEMMA AnswerFits ==
  ASSUME NEW records, NEW vectors, Fits(records, vectors), NEW n \in Namespaces,
         NEW texts \in SUBSET Texts, IsFiniteSet(texts),
         \A t \in texts : ~Known(vectors, n, t), NEW answer \in [texts -> Vectors],
         Cardinality(Dimensions(vectors, n) \cup {answer[t][1] : t \in texts}) = 1
  PROVE  Fits(records, vectors \cup {<<n, t, answer[t]>> : t \in texts})
<1> DEFINE old == Dimensions(vectors, n)
           news == {answer[t][1] : t \in texts}
           added == {<<n, t, answer[t]>> : t \in texts}
<1>1. IsFiniteSet(old)
  <2>1. \A d, e \in old : d = e
    BY DEF Dimensions, Fits
  <2>2. old = {} \/ \E d : old = {d}
    BY <2>1
  <2> HIDE DEF old
  <2>3. CASE old = {}
    BY <2>3, FS_EmptySet
  <2>4. CASE \E d : old = {d}
    BY <2>4, FS_Singleton
  <2>5. QED BY <2>2, <2>3, <2>4
<1>2. IsFiniteSet(news)
  <2> DEFINE f == [t \in texts |-> answer[t][1]]
  <2>1. f \in Surjection(texts, news)
    BY DEF Surjection
  <2>2. QED BY <2>1, FS_Surjection
<1>3. PICK d : old \cup news = {d}
  <2>1. IsFiniteSet(old \cup news)
    BY <1>1, <1>2, FS_Union
  <2>2. Cardinality(old \cup news) = 1
    OBVIOUS
  <2> HIDE DEF old, news
  <2>3. QED BY <2>1, <2>2, FS_Singleton
<1>4. \A v \in vectors : v[1] = n => v[3][1] = d
  BY <1>3 DEF Dimensions
<1>5. ASSUME NEW v \in added
      PROVE  v \in Contents /\ v[1] = n /\ v[2] \in texts /\ v[3] = answer[v[2]] /\ v[3][1] = d
  <2>1. PICK t \in texts : v = <<n, t, answer[t]>>
    BY <1>5
  <2>2. v[1] = n /\ v[2] = t /\ v[3] = answer[t]
    BY <2>1
  <2>3. answer[t][1] = d
    BY <1>3
  <2>4. v \in Contents
    BY <2>1 DEF Contents
  <2>5. QED BY <2>2, <2>3, <2>4
<1>6. \A v \in vectors, w \in added : ~(v[1] = w[1] /\ v[2] = w[2])
  BY <1>5 DEF Known
<1>7. ASSUME NEW v \in added, NEW w \in added, v[2] = w[2] PROVE v = w
  <2>1. PICK t \in texts : v = <<n, t, answer[t]>>
    BY <1>7
  <2>2. PICK u \in texts : w = <<n, u, answer[u]>>
    BY <1>7
  <2>3. t = u
    BY <1>7, <2>1, <2>2
  <2>4. QED BY <2>1, <2>2, <2>3
<1> HIDE DEF added, old, news
<1>8. \A v, w \in vectors \cup added : v[1] = w[1] => v[3][1] = w[3][1]
  BY <1>4, <1>5 DEF Fits
<1>9. \A v, w \in vectors \cup added : v[1] = w[1] /\ v[2] = w[2] => v = w
  BY <1>6, <1>7 DEF Fits
<1>10. \A a \in records : Known(vectors \cup added, a[2], a[3])
  BY DEF Fits, Known
<1>11. Fits(records, vectors \cup added)
  <2>1. vectors \cup added \subseteq Contents
    BY <1>5 DEF Fits
  <2>2. QED BY <2>1, <1>8, <1>9, <1>10 DEF Fits
<1>12. QED BY <1>11 DEF added

-----------------------------------------------------------------------------
(* The steps.                                                              *)

LEMMA InitEmbedding == EmbeddingInit => EmbeddingInv
<1> SUFFICES ASSUME EmbeddingInit PROVE EmbeddingInv
  OBVIOUS
<1>1. snapshot \in [Rows -> Snapshots \cup {0}]
  BY EmbeddingAssumption DEF EmbeddingInit, EmbeddingAssumption
<1>2. Fits(attachments, pool) /\ Attached(pool, attachments) = pool
  BY DEF EmbeddingInit, Fits, Attached
<1>3. pass = NoPass
  BY DEF EmbeddingInit
<1>4. QED BY <1>1, <1>2, <1>3 DEF EmbeddingInv, CommittedInv, PassInv, CursorInv

LEMMA CommittedStep == EmbeddingInv /\ [EmbeddingNext]_embeddingVars => CommittedInv'
<1> SUFFICES ASSUME EmbeddingInv, [EmbeddingNext]_embeddingVars PROVE CommittedInv'
  OBVIOUS
<1> USE DEF EmbeddingInv
<1>1. ASSUME UNCHANGED <<snapshot, attachments, pool>> PROVE CommittedInv'
  BY <1>1 DEF CommittedInv, Fits, Known, TextAt, Attached
<1>2. CASE CommitPass
  <2>1. pass # NoPass
    BY <1>2 DEF CommitPass, NoPass
  <2>2. Fits(pass.attachments, pass.pool)
    BY <2>1 DEF PassInv
  <2>3. /\ Fits(attachments', pool')
        /\ Attached(pool', attachments') = pool'
    BY <1>2, <2>2, OrphansGo DEF CommitPass
  <2>4. snapshot' = snapshot
    BY <1>2 DEF CommitPass
  <2>5. Fits(attachments, pool)'
    BY <2>3, <2>4 DEF Fits, Known, TextAt
  <2>6. QED BY <2>3, <2>4, <2>5 DEF CommittedInv, Attached
<1>3. ASSUME NEW rows \in SUBSET Rows, ReplaceVariants(rows) PROVE CommittedInv'
  <2>1. PICK new \in [rows -> Snapshots \cup {0}] :
          snapshot' = [r \in Rows |-> IF r \in rows THEN new[r] ELSE snapshot[r]]
    BY <1>3 DEF ReplaceVariants
  <2>2. snapshot' \in [Rows -> Snapshots \cup {0}]
    BY <2>1 DEF CommittedInv
  <2>3. attachments' \subseteq attachments /\ \A a \in attachments' : a[1] \notin rows
    BY <1>3 DEF ReplaceVariants, WithoutAttachments
  <2>4. Fits(attachments', pool)
    BY <2>3 DEF CommittedInv, Fits
  <2>5. Fits(attachments', pool') /\ Attached(pool', attachments') = pool'
    BY <1>3, <2>4, OrphansGo DEF ReplaceVariants
  <2>6. \A a \in attachments' : snapshot'[a[1]] = snapshot[a[1]]
    <3> SUFFICES ASSUME NEW a \in attachments' PROVE snapshot'[a[1]] = snapshot[a[1]]
      OBVIOUS
    <3>1. a[1] \in Rows /\ a[1] \notin rows
      BY <2>3 DEF CommittedInv, Fits, Records
    <3>2. QED BY <2>1, <3>1
  <2>7. Fits(attachments, pool)'
    BY <2>5, <2>6 DEF Fits, Known, TextAt
  <2>8. QED BY <2>2, <2>5, <2>7 DEF CommittedInv, Attached
<1>4. CASE NextBatch \/ AttachExisting \/ StoreAnswer \/ AbandonPass
  BY <1>4, <1>1 DEF NextBatch, AttachExisting, StoreAnswer, AbandonPass
<1>5. ASSUME NEW n, NEW scope, NEW listed, BeginPass(n, scope, listed) PROVE CommittedInv'
  BY <1>5, <1>1 DEF BeginPass
<1>6. CASE UNCHANGED embeddingVars
  BY <1>6, <1>1 DEF embeddingVars
<1>7. QED BY <1>2, <1>3, <1>4, <1>5, <1>6 DEF EmbeddingNext

\* What a pass takes next.
NextRowsOf == IF pass.missingOnly THEN NextRows
              ELSE {r \in pass.listed : Cardinality({s \in pass.listed : s < r}) < BatchSize}
LastOf(B) == CHOOSE r \in B : \A s \in B : s = r \/ Precedes(s, r)

LEMMA BatchOfRows ==
  ASSUME EmbeddingInv, pass # NoPass
  PROVE  /\ NextRowsOf \in SUBSET Rows /\ Present(NextRowsOf)
         /\ NextRowsOf # {} =>
              /\ LastOf(NextRowsOf) \in NextRowsOf
              /\ \A s \in NextRowsOf : s = LastOf(NextRowsOf) \/ Precedes(s, LastOf(NextRowsOf))
<1>1. pass \in Passes /\ Present(pass.listed)
  BY DEF EmbeddingInv, PassInv
<1>2. NextRowsOf \in SUBSET Rows /\ Present(NextRowsOf)
  <2>1. NextRows \in SUBSET Rows /\ Present(NextRows)
    BY DEF NextRows, Missing, Present
  <2>2. pass.listed \in SUBSET Rows
    BY <1>1 DEF Passes
  <2>3. QED BY <1>1, <2>1, <2>2 DEF NextRowsOf, Present
<1>3. ASSUME NextRowsOf # {}
      PROVE  /\ LastOf(NextRowsOf) \in NextRowsOf
             /\ \A s \in NextRowsOf : s = LastOf(NextRowsOf) \/ Precedes(s, LastOf(NextRowsOf))
  <2>1. Numbered
    BY DEF EmbeddingInv, CommittedInv, Numbered
  <2>2. \E r \in NextRowsOf : \A s \in NextRowsOf : s = r \/ Precedes(s, r)
    BY <1>2, <1>3, <2>1, FirstAndLast
  <2>3. QED BY <2>2 DEF LastOf
<1>4. QED BY <1>2, <1>3

LEMMA NextBatchIs ==
  ASSUME EmbeddingInv, NextBatch
  PROVE  /\ pass # NoPass /\ pass.phase = "next"
         /\ pass' = [pass EXCEPT !.phase = IF NextRowsOf = {} THEN "ready" ELSE "issued",
                                 !.batch = NextRowsOf, !.listed = @ \ NextRowsOf,
                                 !.cursor = IF NextRowsOf = {} THEN @
                                            ELSE <<snapshot[LastOf(NextRowsOf)], LastOf(NextRowsOf)>>]
         /\ UNCHANGED <<snapshot, attachments, pool>>
BY DEF NextBatch, NextRowsOf, LastOf, NoPass

\* AttachExisting in the terms of the lemmas.
KnownRows == {r \in pass.batch : \E v \in pass.pool : v[1] = pass.namespace /\ v[2] = TextAt(r)}

LEMMA AttachExistingIs ==
  ASSUME AttachExisting
  PROVE  /\ pass # NoPass /\ pass.phase = "issued"
         /\ pass' = [pass EXCEPT
              !.attachments = Attach(@, KnownRows, pass.namespace),
              !.misses = pass.batch \ KnownRows,
              !.phase = IF pass.batch \ KnownRows = {} THEN "next" ELSE "asking"]
         /\ UNCHANGED <<snapshot, attachments, pool>>
BY DEF AttachExisting, KnownRows, NoPass

\* And StoreAnswer.
AskedTexts == {TextAt(r) : r \in pass.misses}

LEMMA StoreAnswerIs ==
  ASSUME StoreAnswer
  PROVE  /\ pass # NoPass /\ pass.phase = "asking"
         /\ UNCHANGED <<snapshot, attachments, pool>>
         /\ \E answer \in [AskedTexts -> Vectors] :
              /\ Cardinality(Dimensions(pass.pool, pass.namespace)
                             \cup {answer[t][1] : t \in AskedTexts}) = 1
              /\ pass' = [pass EXCEPT
                   !.pool = @ \cup {<<pass.namespace, t, answer[t]>> : t \in AskedTexts},
                   !.attachments = Attach(@, pass.misses, pass.namespace),
                   !.phase = "next"]
<1>1. pass.phase = "asking" /\ UNCHANGED <<snapshot, attachments, pool>>
  BY DEF StoreAnswer
<1>2. pass # NoPass
  BY <1>1 DEF NoPass
<1>3. PICK answer \in [AskedTexts -> Vectors] :
        LET dimensions == Dimensions(pass.pool, pass.namespace)
                          \cup {answer[t][1] : t \in AskedTexts}
        IN /\ Cardinality(dimensions) = 1
           /\ pass' = [pass EXCEPT
                !.pool = @ \cup {<<pass.namespace, t, answer[t]>> : t \in AskedTexts},
                !.attachments = Attach(@, pass.misses, pass.namespace),
                !.phase = "next"]
  BY Zenon DEF StoreAnswer, AskedTexts
<1>4. QED BY <1>1, <1>2, <1>3

LEMMA PassStep == EmbeddingInv /\ [EmbeddingNext]_embeddingVars => PassInv'
<1> SUFFICES ASSUME EmbeddingInv, [EmbeddingNext]_embeddingVars PROVE PassInv'
  OBVIOUS
<1>n. Numbered
  BY DEF EmbeddingInv, CommittedInv, Numbered
<1>1. ASSUME NEW n \in Namespaces, NEW scope \in Scopes,
             NEW listed \in SUBSET {r \in Rows : snapshot[r] # 0 /\ VariantBuild[r] \in scope},
             BeginPass(n, scope, listed)
      PROVE  PassInv'
  <2>1. Fits(attachments, pool)
    BY DEF EmbeddingInv, CommittedInv
  <2>2. pass' \in Passes
    BY <1>1, <2>1 DEF BeginPass, Passes, Phases, Fits
  <2>3. /\ pass'.attachments = attachments /\ pass'.pool = pool /\ pass'.listed = listed
        /\ pass'.phase = "next" /\ snapshot' = snapshot
    BY <1>1 DEF BeginPass
  <2>4. Fits(pass.attachments, pass.pool)'
    BY <2>1, <2>3 DEF Fits, Known, TextAt
  <2>5. QED BY <2>2, <2>3, <2>4 DEF PassInv, Present
<1>2. CASE NextBatch
  <2>1. /\ pass \in Passes /\ Fits(pass.attachments, pass.pool) /\ Present(pass.listed)
    BY <1>2, NextBatchIs DEF EmbeddingInv, PassInv
  <2>2. /\ NextRowsOf \in SUBSET Rows /\ Present(NextRowsOf)
        /\ NextRowsOf # {} => LastOf(NextRowsOf) \in NextRowsOf
    BY <1>2, NextBatchIs, BatchOfRows
  <2>3. /\ pass' = [pass EXCEPT !.phase = IF NextRowsOf = {} THEN "ready" ELSE "issued",
                                 !.batch = NextRowsOf, !.listed = @ \ NextRowsOf,
                                 !.cursor = IF NextRowsOf = {} THEN @
                                            ELSE <<snapshot[LastOf(NextRowsOf)], LastOf(NextRowsOf)>>]
        /\ snapshot' = snapshot
    BY <1>2, NextBatchIs
  <2>4. NextRowsOf # {} => <<snapshot[LastOf(NextRowsOf)], LastOf(NextRowsOf)>> \in Nat \X Nat
    <3>1. Rows \subseteq Nat /\ Snapshots \cup {0} \subseteq Nat
      BY EmbeddingAssumption DEF EmbeddingAssumption
    <3>2. QED BY <2>2, <3>1, <1>n DEF Numbered
  <2>5. pass' \in Passes
    BY <2>1, <2>2, <2>3, <2>4 DEF Passes, Phases
  <2>6. /\ pass'.attachments = pass.attachments /\ pass'.pool = pass.pool
        /\ pass'.phase \in {"ready", "issued"} /\ pass'.batch = NextRowsOf
        /\ pass'.listed = pass.listed \ NextRowsOf
    BY <2>1, <2>3 DEF Passes
  <2>7. Fits(pass.attachments, pass.pool)'
    BY <2>1, <2>3, <2>6 DEF Fits, Known, TextAt
  <2>8. Present(pass.listed)' /\ Present(pass.batch)'
    BY <2>1, <2>2, <2>3, <2>6 DEF Present
  <2>9. QED BY <2>5, <2>6, <2>7, <2>8 DEF PassInv
<1>3. CASE AttachExisting
  <2>1. /\ pass \in Passes /\ Fits(pass.attachments, pass.pool) /\ Present(pass.listed)
        /\ Present(pass.batch)
    BY <1>3, AttachExistingIs DEF EmbeddingInv, PassInv
  <2>2. pass.batch \in SUBSET Rows /\ pass.namespace \in Namespaces /\ KnownRows \subseteq pass.batch
    BY <2>1 DEF Passes, KnownRows
  <2>3. /\ pass' = [pass EXCEPT
              !.attachments = Attach(@, KnownRows, pass.namespace),
              !.misses = pass.batch \ KnownRows,
              !.phase = IF pass.batch \ KnownRows = {} THEN "next" ELSE "asking"]
        /\ snapshot' = snapshot
    BY <1>3, AttachExistingIs
  <2>4. Fits(Attach(pass.attachments, KnownRows, pass.namespace), pass.pool)
    <3>1. KnownRows \in SUBSET Rows /\ Present(KnownRows)
      BY <2>1, <2>2 DEF Present
    <3>2. \A r \in KnownRows : Known(pass.pool, pass.namespace, TextAt(r))
      BY DEF KnownRows, Known
    <3>3. QED BY <1>n, <2>1, <2>2, <3>1, <3>2, AttachFits
  <2>5. pass' \in Passes
    BY <2>1, <2>2, <2>3, <2>4 DEF Passes, Phases, Fits
  <2>6. /\ pass'.attachments = Attach(pass.attachments, KnownRows, pass.namespace)
        /\ pass'.pool = pass.pool /\ pass'.namespace = pass.namespace
        /\ pass'.batch = pass.batch /\ pass'.listed = pass.listed
        /\ pass'.misses = pass.batch \ KnownRows
    BY <2>1, <2>3 DEF Passes
  <2>7. Fits(pass.attachments, pass.pool)'
    BY <2>4, <2>3, <2>6 DEF Fits, Known, TextAt
  <2>8. Present(pass.listed)' /\ Present(pass.batch)'
    BY <2>1, <2>3, <2>6 DEF Present
  <2>9. \A r \in pass'.misses : ~Known(pass.pool, pass.namespace, TextAt(r))
    BY <2>6 DEF KnownRows, Known
  <2>10. (/\ pass.misses \subseteq pass.batch
          /\ \A r \in pass.misses : ~Known(pass.pool, pass.namespace, TextAt(r)))'
    BY <2>3, <2>6, <2>9 DEF Known, TextAt
  <2>11. QED BY <2>5, <2>7, <2>8, <2>10 DEF PassInv
<1>4. CASE StoreAnswer
  <2>1. /\ pass \in Passes /\ Fits(pass.attachments, pass.pool) /\ Present(pass.listed)
        /\ Present(pass.batch) /\ pass.misses \subseteq pass.batch
        /\ \A r \in pass.misses : ~Known(pass.pool, pass.namespace, TextAt(r))
    BY <1>4, StoreAnswerIs DEF EmbeddingInv, PassInv
  <2>2. /\ pass.misses \in SUBSET Rows /\ Present(pass.misses)
        /\ pass.namespace \in Namespaces
    BY <2>1 DEF Passes, Present
  <2>3. PICK answer \in [AskedTexts -> Vectors] :
          /\ Cardinality(Dimensions(pass.pool, pass.namespace)
                         \cup {answer[t][1] : t \in AskedTexts}) = 1
          /\ pass' = [pass EXCEPT
               !.pool = @ \cup {<<pass.namespace, t, answer[t]>> : t \in AskedTexts},
               !.attachments = Attach(@, pass.misses, pass.namespace),
               !.phase = "next"]
    BY <1>4, StoreAnswerIs
  <2>4. snapshot' = snapshot
    BY <1>4, StoreAnswerIs
  <2>5. AskedTexts \in SUBSET Texts /\ IsFiniteSet(AskedTexts)
    <3>1. AskedTexts \in SUBSET Texts
      BY <1>n, <2>2 DEF AskedTexts, Texts, TextAt, Numbered, Present
    <3>2. IsFiniteSet(pass.misses)
      BY <2>2, EmbeddingAssumption, FS_Subset DEF EmbeddingAssumption
    <3> DEFINE f == [r \in pass.misses |-> TextAt(r)]
    <3>3. f \in Surjection(pass.misses, AskedTexts)
      BY DEF Surjection, AskedTexts
    <3>4. QED BY <3>1, <3>2, <3>3, FS_Surjection
  <2> DEFINE newer == pass.pool \cup {<<pass.namespace, t, answer[t]>> : t \in AskedTexts}
             later == Attach(pass.attachments, pass.misses, pass.namespace)
  <2>6. Fits(pass.attachments, newer)
    <3>1. \A t \in AskedTexts : ~Known(pass.pool, pass.namespace, t)
      BY <2>1 DEF AskedTexts
    <3>2. QED BY <2>1, <2>2, <2>3, <2>5, <3>1, AnswerFits
  <2>7. \A r \in pass.misses : Known(newer, pass.namespace, TextAt(r))
    <3> SUFFICES ASSUME NEW r \in pass.misses PROVE Known(newer, pass.namespace, TextAt(r))
      OBVIOUS
    <3> DEFINE v == <<pass.namespace, TextAt(r), answer[TextAt(r)]>>
    <3>1. TextAt(r) \in AskedTexts
      BY DEF AskedTexts
    <3>2. v \in newer
      BY <3>1
    <3>3. v[1] = pass.namespace /\ v[2] = TextAt(r)
      OBVIOUS
    <3> HIDE DEF v
    <3>4. QED BY <3>2, <3>3 DEF Known
  <2>8. pass'.pool = newer /\ pass'.attachments = later /\ pass'.listed = pass.listed /\ pass'.phase = "next"
    BY <2>1, <2>3 DEF Passes
  <2> HIDE DEF newer
  <2>9. Fits(later, newer)
    BY <1>n, <2>2, <2>6, <2>7, AttachFits
  <2> HIDE DEF later
  <2>10. pass' \in Passes
    <3>1. pass' = [pass EXCEPT !.pool = newer, !.attachments = later, !.phase = "next"]
      BY <2>1, <2>3 DEF newer, later, Passes
    <3>2. QED BY <2>1, <2>9, <3>1 DEF Passes, Phases, Fits
  <2>11. Fits(pass.attachments, pass.pool)'
    BY <2>4, <2>8, <2>9 DEF Fits, Known, TextAt
  <2>12. QED BY <2>1, <2>4, <2>8, <2>10, <2>11 DEF PassInv, Present
<1>5. CASE CommitPass \/ AbandonPass
  BY <1>5 DEF CommitPass, AbandonPass, PassInv
<1>6. ASSUME NEW rows \in SUBSET Rows, ReplaceVariants(rows) PROVE PassInv'
  BY <1>6 DEF ReplaceVariants, PassInv
<1>7. CASE UNCHANGED embeddingVars
  <2>1. pass' = pass /\ snapshot' = snapshot
    BY <1>7 DEF embeddingVars
  <2>2. QED BY <2>1 DEF EmbeddingInv, PassInv, Fits, Known, TextAt, Present
<1>8. QED BY <1>1, <1>2, <1>3, <1>4, <1>5, <1>6, <1>7 DEF EmbeddingNext

LEMMA CursorStep == EmbeddingInv /\ [EmbeddingNext]_embeddingVars => CursorInv'
<1> SUFFICES ASSUME EmbeddingInv, [EmbeddingNext]_embeddingVars PROVE CursorInv'
  OBVIOUS
<1>n. Numbered
  BY DEF EmbeddingInv, CommittedInv, Numbered
<1>1. ASSUME NEW n \in Namespaces, NEW scope \in Scopes,
             NEW listed \in SUBSET {r \in Rows : snapshot[r] # 0 /\ VariantBuild[r] \in scope},
             BeginPass(n, scope, listed)
      PROVE  CursorInv'
  <2>1. pass'.phase = "next" /\ pass'.cursor = <<0, 0>> /\ snapshot' = snapshot
    BY <1>1 DEF BeginPass
  <2>2. \A r \in Missing' : r \in Rows /\ snapshot[r] # 0
    BY <2>1 DEF Missing
  <2>3. \A r \in Rows : snapshot[r] # 0 => snapshot[r] > 0
    <3>1. Snapshots \cup {0} \subseteq Nat
      BY EmbeddingAssumption DEF EmbeddingAssumption
    <3>2. \A r \in Rows : snapshot[r] \in Nat
      BY <1>n, <3>1 DEF Numbered
    <3>3. QED BY <3>2
  <2>4. \A r \in Missing' : AfterCursor(r)'
    BY <2>1, <2>2, <2>3 DEF AfterCursor
  <2>5. QED BY <2>1, <2>4 DEF CursorInv
<1>2. CASE NextBatch
  <2>0. pass # NoPass /\ pass.phase = "next" /\ pass \in Passes
    BY <1>2, NextBatchIs DEF EmbeddingInv, PassInv
  <2>1. /\ pass' = [pass EXCEPT !.phase = IF NextRowsOf = {} THEN "ready" ELSE "issued",
                                 !.batch = NextRowsOf, !.listed = @ \ NextRowsOf,
                                 !.cursor = IF NextRowsOf = {} THEN @
                                            ELSE <<snapshot[LastOf(NextRowsOf)], LastOf(NextRowsOf)>>]
        /\ snapshot' = snapshot
    BY <1>2, NextBatchIs
  <2>2. /\ pass'.attachments = pass.attachments /\ pass'.namespace = pass.namespace
        /\ pass'.scope = pass.scope /\ pass'.missingOnly = pass.missingOnly
        /\ pass'.batch = NextRowsOf
        /\ NextRowsOf # {} => pass'.phase = "issued"
        /\ NextRowsOf # {} =>
             pass'.cursor = <<snapshot[LastOf(NextRowsOf)], LastOf(NextRowsOf)>>
    BY <2>0, <2>1 DEF Passes
  <2>3. SUFFICES ASSUME pass.missingOnly, NEW r \in Missing'
                 PROVE  \/ pass'.phase # "ready" /\ AfterCursor(r)'
                        \/ pass'.phase = "issued" /\ r \in pass'.batch
    BY <2>2 DEF CursorInv
  <2>4. r \in Missing
    BY <2>1, <2>2 DEF Missing
  <2> DEFINE left == {q \in Missing : AfterCursor(q)}
  <2>5. r \in left
    BY <2>0, <2>3, <2>4 DEF EmbeddingInv, CursorInv
  <2>6. left \in SUBSET Rows /\ NextRowsOf = Leading(left)
    BY <2>3 DEF NextRowsOf, NextRows, Leading, Missing
  <2> HIDE DEF left
  <2>7. NextRowsOf # {}
    BY <1>n, <2>5, <2>6, LeadingRows
  <2>8. CASE r \in NextRowsOf
    BY <2>2, <2>7, <2>8
  <2>9. CASE r \notin NextRowsOf
    <3>1. LastOf(NextRowsOf) \in NextRowsOf
      BY <2>0, <2>7, BatchOfRows
    <3>2. Precedes(LastOf(NextRowsOf), r)
      BY <1>n, <2>5, <2>6, <2>9, <3>1, LeadingRows
    <3>3. \/ snapshot[r] > snapshot[LastOf(NextRowsOf)]
          \/ snapshot[r] = snapshot[LastOf(NextRowsOf)] /\ r > LastOf(NextRowsOf)
      <4>1. LastOf(NextRowsOf) \in Rows /\ r \in Rows
        BY <2>4, <3>1, <2>6 DEF Leading, Missing
      <4>2. Rows \subseteq Nat /\ Snapshots \cup {0} \subseteq Nat
        BY EmbeddingAssumption DEF EmbeddingAssumption
      <4>3. \A q \in Rows : q \in Nat /\ snapshot[q] \in Nat
        BY <1>n, <4>2 DEF Numbered
      <4>4. QED BY <3>2, <4>1, <4>3 DEF Precedes
    <3>4. AfterCursor(r)'
      BY <2>1, <2>2, <2>7, <3>3 DEF AfterCursor
    <3>5. QED BY <2>2, <2>7, <3>4
  <2>10. QED BY <2>8, <2>9
<1>3. CASE AttachExisting
  <2>0. pass # NoPass /\ pass.phase = "issued" /\ pass \in Passes
    BY <1>3, AttachExistingIs DEF EmbeddingInv, PassInv
  <2>1. /\ pass' = [pass EXCEPT
              !.attachments = Attach(@, KnownRows, pass.namespace),
              !.misses = pass.batch \ KnownRows,
              !.phase = IF pass.batch \ KnownRows = {} THEN "next" ELSE "asking"]
        /\ snapshot' = snapshot
    BY <1>3, AttachExistingIs
  <2>2. /\ pass'.attachments = Attach(pass.attachments, KnownRows, pass.namespace)
        /\ pass'.namespace = pass.namespace /\ pass'.cursor = pass.cursor
        /\ pass'.scope = pass.scope /\ pass'.missingOnly = pass.missingOnly
        /\ pass'.misses = pass.batch \ KnownRows /\ pass'.phase \in {"next", "asking"}
        /\ pass'.misses # {} => pass'.phase = "asking"
    BY <2>0, <2>1 DEF Passes
  <2>3. SUFFICES ASSUME pass.missingOnly, NEW r \in Missing'
                 PROVE  AfterCursor(r)' \/ (pass'.phase = "asking" /\ r \in pass'.misses)
    BY <2>2 DEF CursorInv
  <2>4. /\ r \in Rows /\ snapshot[r] # 0 /\ VariantBuild[r] \in pass.scope
        /\ r \notin Owners(Attach(pass.attachments, KnownRows, pass.namespace), pass.namespace)
    BY <2>1, <2>2 DEF Missing, Owners
  <2>5. r \notin KnownRows /\ r \in Missing
    <3>1. Owners(Attach(pass.attachments, KnownRows, pass.namespace), pass.namespace)
          = KnownRows \cup Owners(pass.attachments, pass.namespace)
      BY OwnersAfterwards
    <3>2. QED BY <2>4, <3>1, MissingHasNone
  <2>6. AfterCursor(r) \/ r \in pass.batch
    BY <2>0, <2>3, <2>5 DEF EmbeddingInv, CursorInv
  <2>7. AfterCursor(r) => AfterCursor(r)'
    BY <2>1, <2>2 DEF AfterCursor
  <2>8. QED BY <2>2, <2>5, <2>6, <2>7
<1>4. CASE StoreAnswer
  <2>0. pass # NoPass /\ pass.phase = "asking" /\ pass \in Passes
    BY <1>4, StoreAnswerIs DEF EmbeddingInv, PassInv
  <2>1. PICK answer \in [AskedTexts -> Vectors] :
          pass' = [pass EXCEPT
            !.pool = @ \cup {<<pass.namespace, t, answer[t]>> : t \in AskedTexts},
            !.attachments = Attach(@, pass.misses, pass.namespace),
            !.phase = "next"]
    BY <1>4, StoreAnswerIs
  <2>2. snapshot' = snapshot
    BY <1>4, StoreAnswerIs
  <2>3. /\ pass'.attachments = Attach(pass.attachments, pass.misses, pass.namespace)
        /\ pass'.namespace = pass.namespace /\ pass'.cursor = pass.cursor
        /\ pass'.scope = pass.scope /\ pass'.missingOnly = pass.missingOnly
        /\ pass'.phase = "next"
    BY <2>0, <2>1 DEF Passes
  <2>4. SUFFICES ASSUME pass.missingOnly, NEW r \in Missing' PROVE AfterCursor(r)'
    BY <2>3 DEF CursorInv
  <2>5. /\ r \in Rows /\ snapshot[r] # 0 /\ VariantBuild[r] \in pass.scope
        /\ r \notin Owners(Attach(pass.attachments, pass.misses, pass.namespace), pass.namespace)
    BY <2>2, <2>3 DEF Missing, Owners
  <2>6. r \notin pass.misses /\ r \in Missing
    <3>1. Owners(Attach(pass.attachments, pass.misses, pass.namespace), pass.namespace)
          = pass.misses \cup Owners(pass.attachments, pass.namespace)
      BY OwnersAfterwards
    <3>2. QED BY <2>5, <3>1, MissingHasNone
  <2>7. AfterCursor(r)
    BY <2>0, <2>4, <2>6 DEF EmbeddingInv, CursorInv
  <2>8. QED BY <2>2, <2>3, <2>7 DEF AfterCursor
<1>5. CASE CommitPass \/ AbandonPass
  BY <1>5 DEF CommitPass, AbandonPass, CursorInv
<1>6. ASSUME NEW rows \in SUBSET Rows, ReplaceVariants(rows) PROVE CursorInv'
  BY <1>6 DEF ReplaceVariants, CursorInv
<1>7. CASE UNCHANGED embeddingVars
  <2>1. pass' = pass /\ snapshot' = snapshot
    BY <1>7 DEF embeddingVars
  <2>2. QED BY <2>1 DEF EmbeddingInv, CursorInv, Missing, AfterCursor
<1>8. QED BY <1>1, <1>2, <1>3, <1>4, <1>5, <1>6, <1>7 DEF EmbeddingNext

-----------------------------------------------------------------------------
(* The theorems.                                                           *)

\* What readers see, the open transaction and the cursor agree in every state.
THEOREM EmbeddingInvariant == EmbeddingSpec => []EmbeddingInv
<1>1. EmbeddingInit => EmbeddingInv
  BY InitEmbedding
<1>2. EmbeddingInv /\ [EmbeddingNext]_embeddingVars => EmbeddingInv'
  BY CommittedStep, PassStep, CursorStep DEF EmbeddingInv
<1>3. QED BY <1>1, <1>2, PTL DEF EmbeddingSpec

\* Every committed attachment is to the one vector of the variant's present text, the
\* vectors of a namespace have one dimension, and none is an orphan: passes, their
\* failures and index runs (vector.py, _delete_translation_units) all keep that.
THEOREM VectorsAlwaysFit == EmbeddingSpec => []VectorsFit
<1>1. EmbeddingInv => VectorsFit
  <2> SUFFICES ASSUME EmbeddingInv PROVE VectorsFit
    OBVIOUS
  <2>1. /\ snapshot \in [Rows -> Snapshots \cup {0}]
        /\ Fits(attachments, pool) /\ Attached(pool, attachments) = pool
    BY DEF EmbeddingInv, CommittedInv
  <2>2. EmbeddingTypes
    BY <2>1 DEF EmbeddingTypes, Fits, Records, Contents, Texts
  <2>3. ASSUME NEW a \in attachments
        PROVE  /\ snapshot[a[1]] # 0 /\ a[3] = TextAt(a[1])
               /\ Cardinality({v \in pool : v[1] = a[2] /\ v[2] = a[3]}) = 1
    <3>1. snapshot[a[1]] # 0 /\ a[3] = TextAt(a[1]) /\ Known(pool, a[2], a[3])
      BY <2>1 DEF Fits
    <3>2. PICK v \in pool : v[1] = a[2] /\ v[2] = a[3]
      BY <3>1 DEF Known
    <3>3. \A w \in pool : w[1] = a[2] /\ w[2] = a[3] => v = w
      BY <2>1, <3>2 DEF Fits
    <3>4. {w \in pool : w[1] = a[2] /\ w[2] = a[3]} = {v}
      BY <3>2, <3>3
    <3>5. QED BY <3>1, <3>4, FS_Singleton
  <2>4. \A a, c \in attachments : a[1] = c[1] /\ a[2] = c[2] => a = c
    <3>1. \A a \in attachments : a \in Records /\ a[3] = TextAt(a[1])
      BY <2>1 DEF Fits
    <3>2. \A a \in Records : a = <<a[1], a[2], a[3]>>
      BY DEF Records
    <3>3. QED BY <3>1, <3>2
  <2>5. ASSUME NEW n \in Namespaces PROVE Cardinality(Dimensions(pool, n)) <= 1
    <3>1. \A d, e \in Dimensions(pool, n) : d = e
      BY <2>1 DEF Dimensions, Fits
    <3>2. Dimensions(pool, n) = {} \/ \E d : Dimensions(pool, n) = {d}
      BY <3>1
    <3>3. CASE Dimensions(pool, n) = {}
      BY <3>3, FS_EmptySet
    <3>4. CASE \E d : Dimensions(pool, n) = {d}
      BY <3>4, FS_Singleton
    <3>5. QED BY <3>2, <3>3, <3>4
  <2>6. QED BY <2>1, <2>2, <2>3, <2>4, <2>5 DEF VectorsFit
<1>2. QED BY <1>1, EmbeddingInvariant, PTL

\* A pass of index_missing that is about to commit has left out no variant of its
\* scope, wherever iter_missing_embedding_record_batches cut its batches.
THEOREM PassesAreComplete == EmbeddingSpec => []PassIsComplete
<1>1. EmbeddingInv => PassIsComplete
  <2> SUFFICES ASSUME EmbeddingInv, pass.phase = "ready", pass.missingOnly PROVE Missing = {}
    BY DEF PassIsComplete
  <2>1. pass # NoPass
    BY DEF NoPass
  <2>2. QED BY <2>1 DEF EmbeddingInv, CursorInv
<1>2. QED BY <1>1, EmbeddingInvariant, PTL

-----------------------------------------------------------------------------
(* FactBatch: the checks of the builder and the keys of the store keep every *)
(* row in its function.                                                    *)

\* Kinds of which every fact has an identifier of its own in the store.
Distinct == {"graph", "block", "element", "analysis", "location", "access", "summary"}

\* Kinds whose facts are of a summary, and through it of a function.
OfSummary == {"effect", "origin", "argument", "result"}

\* The graph an analysis is of.
GraphOfAnalysis(key) == GraphId(Fact("analysis", key).refs.graph)

\* The function a fact belongs to, as its keys tell.
FunctionOf(f) ==
  IF f.kind = "graph" THEN GraphId(f.key)
  ELSE IF f.kind \in OfSummary THEN GraphId(Fact("summary", f.refs.summary).refs.graph)
  ELSE GraphId(f.refs.graph)

\* What is stored are the kept facts of a stream that was accepted.
StoredInv ==
  /\ received \in Streams
  /\ outcome = "stored" => Accepted /\ ~Conflict /\ batch = {Row(i) : i \in Kept}

-----------------------------------------------------------------------------
(* Facts and keys.                                                         *)

\* A fact of the stream has a kind and the references of that kind.
LEMMA Shape ==
  ASSUME received \in Streams, NEW i \in DOMAIN received
  PROVE  /\ received[i].kind \in Kinds
         /\ DOMAIN received[i].refs \subseteq References[received[i].kind]
         /\ References[received[i].kind] \cap Mandatory \subseteq DOMAIN received[i].refs
BY StreamAssumption DEF StreamAssumption

\* A set of positions in the stream has a last one.
LEMMA LastPosition ==
  ASSUME received \in Streams, NEW S \in SUBSET DOMAIN received, S # {}
  PROVE  \E i \in S : \A j \in S : j <= i
<1> DEFINE n == Len(received)
           T == {n - i : i \in S}
<1>1. n \in Nat /\ \A i \in S : i \in Int /\ 1 <= i /\ i <= n
  BY StreamAssumption DEF StreamAssumption
<1> HIDE DEF n
<1>2. T \subseteq Nat /\ T # {}
  BY <1>1
<1>3. IsWellFoundedOn(Before, Nat)
  BY NatLessThanWellFounded DEF OpToRel, Before
<1>4. PICK d \in T : \A y \in T : ~(<<y, d>> \in Before)
  BY <1>2, <1>3, WFMin
<1>5. PICK i \in S : d = n - i
  BY <1>4
<1>6. ASSUME NEW j \in S PROVE j <= i
  <2>1. n - j \in T /\ n - j \in Nat /\ d \in Nat
    BY <1>2
  <2>2. ~(n - j < d)
    BY <1>4, <2>1 DEF Before
  <2>3. QED BY <1>1, <1>5, <2>2
<1>7. QED BY <1>6

\* A key that is there stands for the last fact that has it.
LEMMA LatestFact ==
  ASSUME received \in Streams, NEW kind, NEW key \in Keys(kind)
  PROVE  \E j \in DOMAIN received : /\ received[j].kind = kind /\ received[j].key = key
                                    /\ Fact(kind, key) = received[j]
<1> DEFINE same == {i \in Kind(kind) : received[i].key = key}
<1>1. same \in SUBSET DOMAIN received /\ same # {}
  BY DEF Keys, Kind
<1> DEFINE last == CHOOSE i \in same : \A j \in same : j <= i
<1>2. last \in same
  <2> HIDE DEF same
  <2>1. \E i \in same : \A j \in same : j <= i
    BY <1>1, LastPosition
  <2>2. QED BY <2>1
<1>3. Fact(kind, key) = received[last]
  BY DEF Fact
<1> HIDE DEF last
<1>4. QED BY <1>2, <1>3 DEF Kind

Navigation == {"symbol", "occurrence", "edge", "callsite", "resolution", "call_target"}
Graphs == {"graph", "block", "element", "cfg_edge"}
Flows == {"analysis", "location", "access", "evidence"}

\* The table of kinds.
LEMMA Table ==
  /\ Kinds = Navigation \cup Graphs \cup Flows \cup {"summary"} \cup OfSummary
  /\ Deep = Graphs \cup Flows \cup {"summary"} \cup OfSummary
  /\ \A kind \in Navigation :
       References[kind] \subseteq {"symbol", "enclosing", "callee", "owner", "static", "callsite"}
  /\ References["graph"] = {"function", "entry", "exit"}
  /\ References["block"] = {"graph"}
  /\ References["element"] = {"graph", "block"}
  /\ References["cfg_edge"] = {"graph", "from", "into"}
  /\ References["analysis"] = {"graph"}
  /\ References["location"] = {"analysis", "graph", "base"}
  /\ References["access"] = {"analysis", "graph", "block", "element", "location", "pointee"}
  /\ References["evidence"] = {"analysis", "graph", "defined", "used", "source", "target"}
  /\ References["summary"] = {"function", "graph", "analysis", "parameter"}
  /\ References["symbol"] = {}
  /\ \A kind \in OfSummary :
       /\ "summary" \in References[kind]
       /\ References[kind] \subseteq {"summary", "location", "callsite", "access"}
<1>1. /\ Kinds = Navigation \cup Graphs \cup Flows \cup {"summary"} \cup OfSummary
      /\ Deep = Graphs \cup Flows \cup {"summary"} \cup OfSummary
  BY DEF Kinds, References, Deep, Navigation, Graphs, Flows, OfSummary
<1>2. \A kind \in Navigation :
       References[kind] \subseteq {"symbol", "enclosing", "callee", "owner", "static", "callsite"}
  BY DEF References, Navigation
<1>3. \A kind \in OfSummary :
       /\ "summary" \in References[kind]
       /\ References[kind] \subseteq {"summary", "location", "callsite", "access"}
  BY DEF References, OfSummary
<1>4. /\ References["graph"] = {"function", "entry", "exit"}
      /\ References["block"] = {"graph"}
      /\ References["element"] = {"graph", "block"}
      /\ References["cfg_edge"] = {"graph", "from", "into"}
      /\ References["analysis"] = {"graph"}
      /\ References["location"] = {"analysis", "graph", "base"}
  BY DEF References
<1>5. /\ References["access"] = {"analysis", "graph", "block", "element", "location", "pointee"}
      /\ References["evidence"] = {"analysis", "graph", "defined", "used", "source", "target"}
      /\ References["summary"] = {"function", "graph", "analysis", "parameter"}
      /\ References["symbol"] = {}
  BY DEF References
<1>6. QED BY <1>1, <1>2, <1>3, <1>4, <1>5

Roles == {"symbol", "enclosing", "callee", "owner", "static", "callsite", "function", "entry",
          "exit", "graph", "block", "from", "into", "analysis", "base", "element", "location",
          "pointee", "defined", "used", "source", "target", "parameter", "summary", "access"}

\* What the roles refer to.
LEMMA Families ==
  ASSUME NEW kind \in Kinds, NEW role \in References[kind]
  PROVE  /\ role \in Roles
         /\ kind \in Navigation => Family(role) \in {"symbol", "callsite"}
         /\ Family(role) \in Distinct \cup {"symbol", "callsite"}
<1>1. role \in Roles
  BY DEF Kinds, References, Roles
<1>2. \A r \in Roles : Family(r) \in Distinct \cup {"symbol", "callsite"}
  BY DEF Roles, Family, Distinct
<1>3. \A r \in {"symbol", "enclosing", "callee", "owner", "static", "callsite"} :
        Family(r) \in {"symbol", "callsite"}
  BY DEF Family
<1>4. QED BY <1>1, <1>2, <1>3, Table

-----------------------------------------------------------------------------
(* Rows and what they refer to.                                            *)

LEMMA RowOf ==
  ASSUME NEW i \in Kept
  PROVE  /\ Row(i).kind = received[i].kind
         /\ DOMAIN Row(i).refs = DOMAIN received[i].refs
         /\ \A role \in DOMAIN received[i].refs :
              Row(i).refs[role] = Id(Family(role), received[i].refs[role])
         /\ received[i].kind \in Distinct \cup {"symbol", "callsite"} =>
              Row(i).id = Id(received[i].kind, received[i].key)
<1> DEFINE f == received[i]
           refs == [role \in DOMAIN f.refs |-> Id(Family(role), f.refs[role])]
           of == DOMAIN refs \cap {"analysis", "summary", "callsite"}
           id == IF f.kind \in {"effect", "origin", "argument", "result", "evidence", "cfg_edge",
                                "call_target", "occurrence", "edge"}
                 THEN <<Restrict(refs, of), f.key>> ELSE Id(f.kind, f.key)
<1>1. Row(i) = [kind |-> f.kind, refs |-> refs, id |-> id]
  BY DEF Row
<1>2. f.kind \in Distinct \cup {"symbol", "callsite"} => id = Id(f.kind, f.key)
  BY DEF Distinct
<1>3. DOMAIN refs = DOMAIN f.refs
      /\ \A role \in DOMAIN f.refs : refs[role] = Id(Family(role), f.refs[role])
  OBVIOUS
<1> HIDE DEF refs, id
<1>4. QED BY <1>1, <1>2, <1>3

\* Every reference of a kept fact is to a key that is there.
LEMMA KeptResolved ==
  ASSUME received \in Streams, Accepted, NEW i \in Kept, NEW role \in DOMAIN received[i].refs
  PROVE  /\ received[i].refs[role] \in Keys(Family(role))
         /\ Family(role) \in Distinct \cup {"symbol", "callsite"}
         /\ Full \/ Family(role) \in {"symbol", "callsite"}
<1>1. i \in DOMAIN received /\ received[i].kind \in Kinds /\ role \in References[received[i].kind]
  BY Shape DEF Kept
<1>2. ~OpenEdge(received[i]) /\ (Full \/ received[i].kind \notin Deep)
  BY DEF Kept
<1>3. Full \/ received[i].kind \in Navigation
  BY <1>1, <1>2, Table
<1>4. received[i].kind # "symbol"
  BY <1>1, Table
<1>6. ASSUME received[i].kind \in Navigation
      PROVE  received[i].refs[role] \in Keys(Family(role))
  <2>1. Resolved({"occurrence", "edge"}) /\ Resolved({"callsite", "resolution", "call_target"})
    BY DEF Accepted, SymbolFacts, CallFacts
  <2>2. received[i].kind \in {"occurrence", "edge"} \cup {"callsite", "resolution", "call_target"}
    BY <1>4, <1>6 DEF Navigation
  <2>3. CASE received[i].kind \in {"occurrence", "edge"}
    BY <1>1, <1>2, <2>1, <2>3 DEF Resolved, Kind
  <2>4. CASE received[i].kind \in {"callsite", "resolution", "call_target"}
    BY <1>1, <1>2, <2>1, <2>4 DEF Resolved, Kind
  <2>5. QED BY <2>2, <2>3, <2>4
<1>7. ASSUME Full PROVE received[i].refs[role] \in Keys(Family(role))
  <2>1. /\ Resolved({"graph", "block", "element", "cfg_edge"})
        /\ Resolved({"analysis", "location", "access", "evidence"})
        /\ Resolved({"summary", "effect", "origin", "argument", "result"})
    BY <1>7 DEF Accepted, CfgFacts, DataFlowFacts, InterproceduralFacts
  <2>2. \/ received[i].kind \in Navigation
        \/ received[i].kind \in {"graph", "block", "element", "cfg_edge"}
        \/ received[i].kind \in {"analysis", "location", "access", "evidence"}
        \/ received[i].kind \in {"summary", "effect", "origin", "argument", "result"}
    BY <1>1, Table DEF Graphs, Flows, OfSummary
  <2>3. CASE received[i].kind \in {"graph", "block", "element", "cfg_edge"}
    BY <1>1, <1>2, <2>1, <2>3 DEF Resolved, Kind
  <2>4. CASE received[i].kind \in {"analysis", "location", "access", "evidence"}
    BY <1>1, <1>2, <2>1, <2>4 DEF Resolved, Kind
  <2>5. CASE received[i].kind \in {"summary", "effect", "origin", "argument", "result"}
    BY <1>1, <1>2, <2>1, <2>5 DEF Resolved, Kind
  <2>6. QED BY <1>6, <2>2, <2>3, <2>4, <2>5
<1>8. received[i].refs[role] \in Keys(Family(role))
  BY <1>3, <1>6, <1>7
<1>9. QED BY <1>1, <1>3, <1>8, Families

\* The fact it refers to is kept, and its row is found under the reference.
LEMMA Target ==
  ASSUME received \in Streams, Accepted, NEW i \in Kept, NEW role \in DOMAIN received[i].refs
  PROVE  \E j \in Kept :
           /\ received[j] = Fact(Family(role), received[i].refs[role])
           /\ received[j].kind = Family(role)
           /\ Row(j).kind = Family(role) /\ Row(j).id = Row(i).refs[role]
<1> DEFINE kind == Family(role)
           key == received[i].refs[role]
<1>1. /\ key \in Keys(kind) /\ kind \in Distinct \cup {"symbol", "callsite"}
      /\ Full \/ kind \in {"symbol", "callsite"}
  BY KeptResolved
<1> HIDE DEF kind, key
<1>2. PICK j \in DOMAIN received : /\ received[j].kind = kind /\ received[j].key = key
                                   /\ Fact(kind, key) = received[j]
  BY <1>1, LatestFact
<1>3. j \in Kept
  <2>1. Full \/ received[j].kind \notin Deep
    BY <1>1, <1>2, Table DEF Navigation, Graphs, Flows, OfSummary
  <2>2. received[j].kind # "resolution" /\ received[j].kind # "edge"
    BY <1>1, <1>2 DEF Distinct
  <2>3. received[j].kind = "callsite" => received[j] = Fact("callsite", received[j].key)
    BY <1>2
  <2>4. QED BY <2>1, <2>2, <2>3 DEF Kept, OpenEdge
<1>4. Row(j).kind = kind /\ Row(j).id = Id(kind, key)
  BY <1>1, <1>2, <1>3, RowOf
<1>5. Row(i).refs[role] = Id(kind, key)
  BY RowOf DEF kind, key
<1>6. QED BY <1>2, <1>3, <1>4, <1>5 DEF kind, key

\* An identifier of a distinct kind is that of one row.
LEMMA FoundIs ==
  ASSUME batch = {Row(i) : i \in Kept}, ~Conflict,
         NEW j \in Kept, received[j].kind \in Distinct
  PROVE  Found(received[j].kind, Row(j).id) = Row(j)
<1>1. Row(j) \in batch /\ Row(j).kind = received[j].kind
  BY RowOf
<1>2. ASSUME NEW q \in batch, q.kind = received[j].kind, q.id = Row(j).id PROVE q = Row(j)
  <2>1. PICK k \in Kept : q = Row(k)
    BY <1>2
  <2>2. received[k].kind = received[j].kind
    BY <1>2, <2>1, RowOf
  <2>3. received[k].kind \notin Merged
    BY <2>2 DEF Distinct, Merged
  <2>4. k = j
    BY <1>2, <2>1, <2>2, <2>3 DEF Conflict
  <2>5. QED BY <2>1, <2>4
<1>3. QED BY <1>1, <1>2 DEF Found

LEMMA GraphRole == Family("graph") = "graph" /\ \A key : Id("graph", key) = GraphId(key)
<1>1. Family("graph") = "graph"
  BY DEF Family
<1>2. \A key : Id("graph", key) = GraphId(key)
  BY DEF Id
<1>3. QED BY <1>1, <1>2

\* The function of a row, read from the rows, is that of its fact.
LEMMA RowFunction ==
  ASSUME received \in Streams, Accepted, ~Conflict, batch = {Row(j) : j \in Kept},
         NEW i \in Kept, received[i].kind \in Deep
  PROVE  GraphOfRow(Row(i)) = FunctionOf(received[i])
<1> DEFINE f == received[i]
<1>1. /\ f.kind \in Kinds /\ DOMAIN f.refs \subseteq References[f.kind]
      /\ References[f.kind] \cap Mandatory \subseteq DOMAIN f.refs
  BY Shape DEF Kept
<1>2. /\ Row(i).kind = f.kind /\ DOMAIN Row(i).refs = DOMAIN f.refs
      /\ \A role \in DOMAIN f.refs : Row(i).refs[role] = Id(Family(role), f.refs[role])
  BY RowOf
<1>3. CASE f.kind = "graph"
  <2>1. Row(i).id = GraphId(f.key)
    BY <1>3, RowOf DEF Distinct, Id
  <2>2. "graph" \notin DOMAIN f.refs /\ "summary" \notin DOMAIN f.refs
    BY <1>1, <1>3, Table
  <2>3. QED BY <1>2, <1>3, <2>1, <2>2 DEF GraphOfRow, FunctionOf
<1>4. CASE f.kind \in OfSummary
  <2>1. "summary" \in DOMAIN f.refs /\ "graph" \notin DOMAIN f.refs
    BY <1>1, <1>4, Table DEF Mandatory
  <2>2. PICK j \in Kept :
          /\ received[j] = Fact("summary", f.refs["summary"]) /\ received[j].kind = "summary"
          /\ Row(j).id = Row(i).refs["summary"]
    BY <2>1, Target DEF Family
  <2>3. Found("summary", Row(i).refs["summary"]) = Row(j)
    BY <2>2, FoundIs DEF Distinct
  <2>4. "graph" \in DOMAIN received[j].refs
    BY <2>2, Shape, Table DEF Mandatory, Kept
  <2>5. Row(j).refs["graph"] = GraphId(received[j].refs["graph"])
    BY <2>4, RowOf, GraphRole
  <2>6. GraphOfRow(Row(i)) = Row(j).refs["graph"]
    BY <1>2, <1>4, <2>1, <2>3 DEF GraphOfRow, OfSummary
  <2>7. FunctionOf(f) = GraphId(received[j].refs["graph"])
    BY <1>4, <2>2 DEF FunctionOf, OfSummary
  <2>8. QED BY <2>5, <2>6, <2>7
<1>5. CASE f.kind # "graph" /\ f.kind \notin OfSummary
  <2>1. "graph" \in DOMAIN f.refs
    BY <1>1, <1>5, Table DEF Mandatory, Graphs, Flows
  <2>2. Row(i).refs["graph"] = GraphId(f.refs["graph"])
    BY <1>2, <2>1, GraphRole
  <2>3. "summary" \notin DOMAIN f.refs
    BY <1>1, <1>5, Table DEF Graphs, Flows
  <2>4. QED BY <1>2, <1>5, <2>1, <2>2, <2>3 DEF GraphOfRow, FunctionOf
<1>6. QED BY <1>3, <1>4, <1>5

-----------------------------------------------------------------------------
(* Facts of one function.                                                  *)

\* Kinds of which every fact names an analysis.
Analyzed == {"location", "access", "evidence", "summary"}

\* A fact's analysis is that of its function.
LEMMA AnalyzedFunction ==
  ASSUME received \in Streams, Accepted, Full,
         NEW i \in DOMAIN received, received[i].kind \in Analyzed
  PROVE  /\ GraphOfAnalysis(received[i].refs.analysis) = FunctionOf(received[i])
         /\ AnalysisOf(received[i]) = <<"flow", FunctionOf(received[i])>>
         /\ FunctionOf(received[i]) = GraphId(received[i].refs.graph)
<1> DEFINE f == received[i]
<1>1. "analysis" \in DOMAIN f.refs /\ "summary" \notin DOMAIN f.refs
  BY Shape, Table DEF Mandatory, Analyzed
<1>2. DataFlowFacts /\ SameGraph("summary", {"analysis"})
  BY DEF Accepted, InterproceduralFacts
<1>3. GraphId(Fact(Family("analysis"), f.refs["analysis"]).refs.graph) = GraphId(f.refs.graph)
  <2>1. CASE f.kind = "location"
    BY <1>1, <1>2, <2>1 DEF DataFlowFacts, SameGraph, Kind
  <2>2. CASE f.kind = "access"
    BY <1>1, <1>2, <2>2 DEF DataFlowFacts, SameGraph, Kind
  <2>3. CASE f.kind = "evidence"
    BY <1>1, <1>2, <2>3 DEF DataFlowFacts, SameGraph, Kind
  <2>4. CASE f.kind = "summary"
    BY <1>1, <1>2, <2>4 DEF SameGraph, Kind
  <2>5. QED BY <2>1, <2>2, <2>3, <2>4 DEF Analyzed
<1>4. GraphOfAnalysis(f.refs.analysis) = GraphId(f.refs.graph)
  BY <1>3 DEF Family, GraphOfAnalysis
<1>5. FunctionOf(f) = GraphId(f.refs.graph)
  BY DEF FunctionOf, Analyzed, OfSummary
<1>6. AnalysisOf(f) = <<"flow", GraphOfAnalysis(f.refs.analysis)>>
  BY <1>1 DEF AnalysisOf, AnalysisId, GraphOfAnalysis
<1>7. QED BY <1>4, <1>5, <1>6

\* So is that of a fact of a summary.
LEMMA SummaryFunction ==
  ASSUME received \in Streams, Accepted, Full, NEW i \in Kept, received[i].kind \in OfSummary
  PROVE  /\ AnalysisOf(received[i]) = <<"flow", FunctionOf(received[i])>>
         /\ FunctionOf(received[i]) = FunctionOf(Fact("summary", received[i].refs["summary"]))
<1> DEFINE f == received[i]
<1>1. "summary" \in DOMAIN f.refs
  BY Shape, Table DEF Mandatory, Kept
<1>2. PICK j \in Kept :
        received[j] = Fact("summary", f.refs["summary"]) /\ received[j].kind = "summary"
  BY <1>1, Target DEF Family
<1>3. /\ GraphOfAnalysis(received[j].refs.analysis) = FunctionOf(received[j])
      /\ FunctionOf(received[j]) = GraphId(received[j].refs.graph)
  BY <1>2, AnalyzedFunction DEF Analyzed, Kept
<1>4. FunctionOf(f) = GraphId(received[j].refs.graph)
  BY <1>2 DEF FunctionOf, OfSummary
<1>5. AnalysisOf(f) = <<"flow", GraphOfAnalysis(received[j].refs.analysis)>>
  BY <1>1, <1>2 DEF AnalysisOf, AnalysisId, GraphOfAnalysis
<1>6. QED BY <1>2, <1>3, <1>4, <1>5

LEMMA FamilyOf ==
  /\ \A role \in {"entry", "exit", "from", "into"} : Family(role) = "block"
  /\ \A role \in {"base", "parameter", "source", "target"} : Family(role) = "location"
  /\ \A role \in {"defined", "used"} : Family(role) = "access"
  /\ \A role \in {"graph", "block", "element", "analysis", "location", "access", "summary"} :
       Family(role) = role
  /\ \A role \in {"function", "pointee"} : Family(role) = "symbol"
  /\ Family("callsite") = "callsite"
<1>1. /\ \A role \in {"entry", "exit", "from", "into"} : Family(role) = "block"
      /\ \A role \in {"base", "parameter", "source", "target"} : Family(role) = "location"
      /\ \A role \in {"defined", "used"} : Family(role) = "access"
  BY DEF Family
<1>2. /\ \A role \in {"graph", "block", "element", "analysis", "location", "access", "summary"} :
           Family(role) = role
      /\ \A role \in {"function", "pointee"} : Family(role) = "symbol"
      /\ Family("callsite") = "callsite"
  BY DEF Family
<1>3. QED BY <1>1, <1>2

\* What a fact refers to is of its function.
LEMMA TargetFunction ==
  ASSUME received \in Streams, Accepted, Full, NEW i \in Kept, received[i].kind \in Deep,
         NEW role \in DOMAIN received[i].refs, Family(role) \in Distinct
  PROVE  FunctionOf(Fact(Family(role), received[i].refs[role])) = FunctionOf(received[i])
<1> DEFINE f == received[i]
           t == Fact(Family(role), f.refs[role])
<1>1. i \in DOMAIN received /\ role \in References[f.kind]
  BY Shape DEF Kept
<1>2. PICK j \in DOMAIN received :
        /\ received[j].kind = Family(role) /\ received[j].key = f.refs[role]
        /\ t = received[j]
  BY KeptResolved, LatestFact
<1>3. /\ CfgFacts /\ DataFlowFacts /\ InterproceduralFacts
  BY DEF Accepted
<1>4. ASSUME role = "graph", f.kind \notin OfSummary, f.kind # "graph"
      PROVE  FunctionOf(t) = FunctionOf(f)
  <2>1. t.kind = "graph" /\ t.key = f.refs["graph"]
    BY <1>2, <1>4, FamilyOf
  <2>2. QED BY <1>4, <2>1 DEF FunctionOf
<1>5. ASSUME f.kind \notin OfSummary, Family(role) # "graph",
             GraphId(t.refs.graph)
               = (IF f.kind = "graph" THEN GraphId(f.key) ELSE GraphId(f.refs.graph))
      PROVE  FunctionOf(t) = FunctionOf(f)
  <2>1. t.kind # "graph" /\ t.kind \notin OfSummary
    BY <1>2, <1>5 DEF Distinct, OfSummary
  <2>2. FunctionOf(t) = GraphId(t.refs.graph)
    BY <2>1 DEF FunctionOf
  <2>3. QED BY <1>5, <2>2 DEF FunctionOf
<1>6. ASSUME f.kind \in Analyzed \cup OfSummary, Family(role) \in {"location", "access"},
             AnalysisId(t.refs.analysis) = AnalysisOf(f)
      PROVE  FunctionOf(t) = FunctionOf(f)
  <2>1. AnalysisOf(f) = <<"flow", FunctionOf(f)>>
    BY <1>1, <1>6, AnalyzedFunction, SummaryFunction
  <2>2. GraphOfAnalysis(t.refs.analysis) = FunctionOf(t)
    BY <1>2, <1>6, AnalyzedFunction DEF Analyzed
  <2>3. AnalysisId(t.refs.analysis) = <<"flow", GraphOfAnalysis(t.refs.analysis)>>
    BY DEF AnalysisId, GraphOfAnalysis
  <2>4. QED BY <1>6, <2>1, <2>2, <2>3
<1>7. CASE f.kind = "graph"
  <2>1. role \in {"entry", "exit"} /\ SameGraph("graph", {"entry", "exit"})
    BY <1>1, <1>3, <1>7, Table, FamilyOf DEF Distinct, CfgFacts, InsideGraphs
  <2>2. GraphId(t.refs.graph) = GraphId(f.key)
    BY <1>1, <1>7, <2>1 DEF SameGraph, Kind
  <2>3. QED BY <1>5, <1>7, <2>1, <2>2, FamilyOf DEF OfSummary
<1>8. CASE f.kind \in {"block", "analysis"}
  BY <1>1, <1>4, <1>8, Table DEF OfSummary
<1>9. CASE f.kind = "element"
  <2>1. SameGraph("element", {"block"}) /\ role \in {"graph", "block"}
    BY <1>1, <1>3, <1>9, Table DEF CfgFacts, InsideGraphs
  <2>2. role = "block" => GraphId(t.refs.graph) = GraphId(f.refs.graph)
    BY <1>1, <1>9, <2>1 DEF SameGraph, Kind
  <2>3. QED BY <1>4, <1>5, <1>9, <2>1, <2>2, FamilyOf DEF OfSummary
<1>10. CASE f.kind = "cfg_edge"
  <2>1. SameGraph("cfg_edge", {"from", "into"}) /\ role \in {"graph", "from", "into"}
    BY <1>1, <1>3, <1>10, Table DEF CfgFacts, InsideGraphs
  <2>2. role \in {"from", "into"} => GraphId(t.refs.graph) = GraphId(f.refs.graph)
    BY <1>1, <1>10, <2>1 DEF SameGraph, Kind
  <2>3. QED BY <1>4, <1>5, <1>10, <2>1, <2>2, FamilyOf DEF OfSummary
<1>11. ASSUME f.kind \in Analyzed, role = "analysis" PROVE FunctionOf(t) = FunctionOf(f)
  <2>1. /\ GraphOfAnalysis(f.refs.analysis) = FunctionOf(f)
        /\ FunctionOf(f) = GraphId(f.refs.graph)
    BY <1>1, <1>11, AnalyzedFunction
  <2>2. Family(role) = "analysis"
    BY <1>11, FamilyOf
  <2>3. GraphId(t.refs.graph) = GraphId(f.refs.graph)
    BY <1>11, <2>1, <2>2 DEF GraphOfAnalysis
  <2>4. QED BY <1>5, <1>11, <2>2, <2>3 DEF Analyzed, OfSummary
<1>12. CASE f.kind = "location"
  <2>1. SameAnalysis("location", {"base"}) /\ role \in {"graph", "analysis", "base"}
    BY <1>1, <1>3, <1>12, Table DEF DataFlowFacts
  <2>2. role = "base" => AnalysisId(t.refs.analysis) = AnalysisOf(f)
    BY <1>1, <1>12, <2>1 DEF SameAnalysis, Kind
  <2>3. QED BY <1>4, <1>6, <1>11, <1>12, <2>1, <2>2, FamilyOf DEF Analyzed, OfSummary
<1>13. CASE f.kind = "access"
  <2>1. /\ SameAnalysis("access", {"location"}) /\ SameGraph("access", {"block", "element"})
        /\ role \in {"graph", "analysis", "location", "block", "element"}
    BY <1>1, <1>3, <1>13, Table, FamilyOf DEF DataFlowFacts, Distinct
  <2>2. role = "location" => AnalysisId(t.refs.analysis) = AnalysisOf(f)
    BY <1>1, <1>13, <2>1 DEF SameAnalysis, Kind
  <2>3. role \in {"block", "element"} => GraphId(t.refs.graph) = GraphId(f.refs.graph)
    BY <1>1, <1>13, <2>1 DEF SameGraph, Kind
  <2>4. QED BY <1>4, <1>5, <1>6, <1>11, <1>13, <2>1, <2>2, <2>3, FamilyOf DEF Analyzed, OfSummary
<1>14. CASE f.kind = "evidence"
  <2>1. /\ SameAnalysis("evidence", {"defined", "used", "source", "target"})
        /\ role \in {"graph", "analysis"} \cup {"defined", "used", "source", "target"}
    BY <1>1, <1>3, <1>14, Table DEF DataFlowFacts
  <2>2. role \in {"defined", "used", "source", "target"} =>
          AnalysisId(t.refs.analysis) = AnalysisOf(f)
    BY <1>1, <1>14, <2>1 DEF SameAnalysis, Kind
  <2>3. QED BY <1>4, <1>6, <1>11, <1>14, <2>1, <2>2, FamilyOf DEF Analyzed, OfSummary
<1>15. CASE f.kind = "summary"
  <2>1. SameAnalysis("summary", {"parameter"}) /\ role \in {"graph", "analysis", "parameter"}
    BY <1>1, <1>3, <1>15, Table, FamilyOf DEF InterproceduralFacts, Distinct
  <2>2. role = "parameter" => AnalysisId(t.refs.analysis) = AnalysisOf(f)
    BY <1>1, <1>15, <2>1 DEF SameAnalysis, Kind
  <2>3. QED BY <1>4, <1>6, <1>11, <1>15, <2>1, <2>2, FamilyOf DEF Analyzed, OfSummary
<1>16. CASE f.kind \in OfSummary
  <2>1. role \in {"summary", "location", "access"}
    BY <1>1, <1>16, Table, FamilyOf DEF Distinct
  <2>2. \A kind \in OfSummary : SameAnalysis(kind, {"location", "access"})
    BY <1>3 DEF InterproceduralFacts, OfSummary
  <2>3. role \in {"location", "access"} => AnalysisId(t.refs.analysis) = AnalysisOf(f)
    <3>1. SameAnalysis(f.kind, {"location", "access"})
      BY <1>16, <2>2
    <3>2. QED BY <1>1, <3>1 DEF SameAnalysis, Kind
  <2>4. role = "summary" => FunctionOf(t) = FunctionOf(f)
    BY <1>16, SummaryFunction, FamilyOf
  <2>5. QED BY <1>6, <1>16, <2>1, <2>3, <2>4, FamilyOf
<1>17. f.kind \in {"graph", "block", "analysis", "element", "cfg_edge", "location", "access",
                   "evidence", "summary"} \cup OfSummary
  BY Table DEF Graphs, Flows
<1>18. QED
  BY <1>7, <1>8, <1>9, <1>10, <1>12, <1>13, <1>14, <1>15, <1>16, <1>17

-----------------------------------------------------------------------------
(* The theorem.                                                            *)

LEMMA StoredIsInvariant == BatchSpec => []StoredInv
<1>1. BatchInit => StoredInv
  BY DEF BatchInit, StoredInv
<1>2. ASSUME StoredInv, [BatchNext]_batchVars PROVE StoredInv'
  <2>1. received' = received /\ profile' = profile
    BY <1>2 DEF BatchNext, batchVars, Refuse, Reject, Store
  <2>2. /\ Accepted' = Accepted /\ Conflict' = Conflict
        /\ {Row(i) : i \in Kept}' = {Row(i) : i \in Kept}
    <3>1. Accepted' = Accepted
      BY <2>1
      DEF Accepted, Full, SymbolFacts, CallFacts, CfgFacts, InsideGraphs, DataFlowFacts,
          InterproceduralFacts, ParametersExist, Resolved, SameGraph, SameAnalysis,
          AnalysisOf, GraphId, AnalysisId, Fact, Keys, Kind
    <3>2. {Row(i) : i \in Kept}' = {Row(i) : i \in Kept}
      BY <2>1
      DEF Row, Kept, Full, Id, GraphId, BlockId, ElementId, AnalysisId, LocationId,
          AccessId, SummaryId, SiteId, Fact, Kind
    <3>3. Conflict' = Conflict
      BY <2>1
      DEF Conflict, Row, Kept, Full, Id, GraphId, BlockId, ElementId, AnalysisId, LocationId,
          AccessId, SummaryId, SiteId, Fact, Kind
    <3>4. QED BY <3>1, <3>2, <3>3
  <2>3. CASE Refuse \/ Reject
    BY <1>2, <2>1, <2>3 DEF StoredInv, Refuse, Reject
  <2>4. CASE Store
    BY <1>2, <2>1, <2>2, <2>4 DEF StoredInv, Store
  <2>5. CASE UNCHANGED batchVars
    BY <1>2, <2>2, <2>5 DEF StoredInv, batchVars
  <2>6. QED BY <1>2, <2>3, <2>4, <2>5 DEF BatchNext
<1>3. QED BY <1>1, <1>2, PTL DEF BatchSpec

\* What is stored are the rows of an accepted stream, each under its own identifier, so
\* every reference finds its row, and the row is of the same function.
LEMMA StoredRowsStay ==
  ASSUME StoredInv PROVE RowsStayInTheirFunction
<1> SUFFICES ASSUME outcome = "stored", NEW r \in batch, NEW role \in DOMAIN r.refs
             PROVE  /\ \E q \in batch : q.kind = Family(role) /\ q.id = r.refs[role]
                    /\ Family(role) \notin {"symbol", "callsite"} =>
                         GraphOfRow(Found(Family(role), r.refs[role])) = GraphOfRow(r)
  BY DEF RowsStayInTheirFunction
<1>1. received \in Streams /\ Accepted /\ ~Conflict /\ batch = {Row(i) : i \in Kept}
  BY DEF StoredInv
<1>2. PICK i \in Kept : r = Row(i)
  BY <1>1
<1>3. role \in DOMAIN received[i].refs
  BY <1>2, RowOf
<1>4. PICK j \in Kept :
        /\ received[j] = Fact(Family(role), received[i].refs[role])
        /\ received[j].kind = Family(role)
        /\ Row(j).kind = Family(role) /\ Row(j).id = Row(i).refs[role]
  BY <1>1, <1>3, Target
<1>5. ASSUME Family(role) \notin {"symbol", "callsite"}
      PROVE  GraphOfRow(Found(Family(role), r.refs[role])) = GraphOfRow(r)
  <2>1. Family(role) \in Distinct /\ Full
    BY <1>1, <1>3, <1>5, KeptResolved
  <2>2. received[i].kind \in Kinds /\ role \in References[received[i].kind]
    BY <1>1, <1>3, Shape DEF Kept
  <2>3. received[i].kind \in Deep /\ received[j].kind \in Deep
    BY <1>4, <1>5, <2>1, <2>2, Families, Table DEF Distinct, Graphs, Flows
  <2>4. Found(Family(role), r.refs[role]) = Row(j)
    BY <1>1, <1>2, <1>4, <2>1, FoundIs
  <2>5. GraphOfRow(Row(j)) = FunctionOf(received[j]) /\ GraphOfRow(r) = FunctionOf(received[i])
    BY <1>1, <1>2, <2>3, RowFunction
  <2>6. FunctionOf(received[j]) = FunctionOf(received[i])
    BY <1>1, <1>3, <1>4, <2>1, <2>3, TargetFunction
  <2>7. QED BY <2>4, <2>5, <2>6
<1>6. Row(j) \in batch
  BY <1>1
<1>7. QED BY <1>2, <1>4, <1>5, <1>6

\* "must not be able to persist a CFG relation that crosses graph boundaries"
\* (_cfg_facts), for any stream an analyzer sends: a stored row refers to stored rows,
\* of its own function if they belong to one.
THEOREM RowsAreOfOneFunction == BatchSpec => []RowsStayInTheirFunction
BY StoredIsInvariant, StoredRowsStay, PTL

=============================================================================
