-------------------------- MODULE FactStoreProofs --------------------------
(***************************************************************************)
(* Theorems about FactStore for any units, builds, symbols and facts: what *)
(* the store keeps up to date equals what it would derive from nothing.    *)
(***************************************************************************)
EXTENDS FactStore, FiniteSetTheorems, WellFoundedInduction, TLAPS

-----------------------------------------------------------------------------
(* Reachability.                                                           *)

\* The strict order of the naturals as a set of pairs.
LessThan == {ss \in Nat \X Nat : ss[1] < ss[2]}

\* A set with 0 that is closed under successors up to n has all of 0 .. n.
LEMMA UpTo ==
  ASSUME NEW n \in Nat, NEW G, 0 \in G, \A k \in 0 .. n - 1 : k \in G => k + 1 \in G
  PROVE  \A k \in 0 .. n : k \in G
<1> DEFINE Bad == {k \in 0 .. n : k \notin G}
<1> SUFFICES ASSUME NEW k \in 0 .. n, k \notin G PROVE FALSE
  OBVIOUS
<1>1. Bad \subseteq Nat /\ Bad # {}
  OBVIOUS
<1>2. IsWellFoundedOn(LessThan, Nat)
  BY NatLessThanWellFounded DEF OpToRel, LessThan
<1>3. PICK m \in Bad : \A y \in Bad : ~(<<y, m>> \in LessThan)
  BY <1>1, <1>2, WFMin
<1>4. m \in 0 .. n /\ m \notin G /\ m # 0
  BY <1>3
<1>5. m - 1 \in 0 .. n - 1 /\ m - 1 < m /\ m - 1 \in Nat /\ m \in Nat
  BY <1>4
<1>6. m - 1 \in G
  <2>1. <<m - 1, m>> \in LessThan
    BY <1>5 DEF LessThan
  <2>2. m - 1 \notin Bad
    BY <1>3, <2>1
  <2>3. QED BY <1>4, <1>5, <2>2
<1>7. QED BY <1>4, <1>5, <1>6

\* What the elements of S are related to.
Image(R, S) == {r[2] : r \in {q \in R : q[1] \in S}}

\* The sets that are reached in n steps.
ReachedIn(reach, S, R, n) ==
  /\ reach \in [0 .. n -> SUBSET (S \cup {r[2] : r \in R})]
  /\ reach[0] = S
  /\ \A k \in 0 .. n - 1 : reach[k + 1] = reach[k] \cup Image(R, reach[k])

\* The sets that Reached is defined by exist.
LEMMA ReachSets ==
  ASSUME NEW S, NEW R, IsFiniteSet(R)
  PROVE  \E reach : /\ ReachedIn(reach, S, R, Cardinality(R))
                    /\ Reached(S, R) = reach[Cardinality(R)]
<1> DEFINE n == Cardinality(R)
           All == S \cup {r[2] : r \in R}
<1>0. n \in Nat
  BY FS_CardinalityType
<1> HIDE DEF n
<1> DEFINE Good(t, m) == t[0] = S /\ \A k \in 0 .. m - 1 : t[k + 1] = t[k] \cup Image(R, t[k])
           G == {m \in 0 .. n : \E t \in [0 .. n -> SUBSET All] : Good(t, m)}
<1>1. \A T \in SUBSET All : T \cup Image(R, T) \in SUBSET All
  BY DEF Image
<1>2. S \in SUBSET All
  OBVIOUS
<1> HIDE DEF All
<1>3. 0 \in G
  <2> DEFINE z == [k \in 0 .. n |-> S]
  <2>1. z \in [0 .. n -> SUBSET All] /\ z[0] = S
    BY <1>0, <1>2
  <2>2. 0 .. 0 - 1 = {} /\ 0 \in 0 .. n
    BY <1>0
  <2> HIDE DEF z
  <2>3. Good(z, 0)
    BY <2>1, <2>2
  <2>4. QED BY <2>1, <2>2, <2>3
<1>4. ASSUME NEW m \in 0 .. n - 1, m \in G PROVE m + 1 \in G
  <2>1. PICK t \in [0 .. n -> SUBSET All] : Good(t, m)
    BY <1>4
  <2> DEFINE next == t[m] \cup Image(R, t[m])
             u == [t EXCEPT ![m + 1] = next]
  <2>2. m \in Nat /\ m + 1 \in 0 .. n /\ m \in 0 .. n
    BY <1>0
  <2>3. next \in SUBSET All
    BY <1>1, <2>1, <2>2
  <2> HIDE DEF next
  <2>4. u \in [0 .. n -> SUBSET All]
    BY <2>2, <2>3
  <2>5. ASSUME NEW k \in 0 .. m PROVE u[k] = t[k]
    BY <1>0, <2>1, <2>2
  <2>6. u[m + 1] = next
    BY <2>1, <2>2
  <2> HIDE DEF u
  <2>7. ASSUME NEW k \in 0 .. (m + 1) - 1 PROVE u[k + 1] = u[k] \cup Image(R, u[k])
    <3>1. CASE k = m
      <4>1. u[k] = t[k]
        BY <2>2, <2>5, <3>1
      <4>2. QED BY <2>6, <3>1, <4>1 DEF next
    <3>2. CASE k # m
      <4>1. k \in 0 .. m - 1 /\ k \in 0 .. m /\ k + 1 \in 0 .. m
        BY <2>2, <3>2
      <4>2. t[k + 1] = t[k] \cup Image(R, t[k])
        BY <2>1, <4>1
      <4>3. QED BY <2>5, <4>1, <4>2
    <3>3. QED BY <3>1, <3>2
  <2>8. u[0] = S
    BY <2>1, <2>2, <2>5
  <2>9. Good(u, m + 1)
    BY <2>7, <2>8
  <2>10. QED BY <2>2, <2>4, <2>9
<1>5. n \in G
  <2> HIDE DEF G
  <2>1. \A k \in 0 .. n : k \in G
    BY <1>0, <1>3, <1>4, UpTo
  <2>2. QED BY <1>0, <2>1
<1>6. PICK t \in [0 .. n -> SUBSET All] : Good(t, n)
  BY <1>5
<1> DEFINE Rule(v) == [k \in 0 .. n |->
              IF k = 0 THEN S ELSE v[k - 1] \cup {r[2] : r \in {q \in R : q[1] \in v[k - 1]}}]
<1>7. t = Rule(t)
  <2>1. ASSUME NEW k \in 0 .. n
        PROVE  t[k] = IF k = 0 THEN S
                      ELSE t[k - 1] \cup {r[2] : r \in {q \in R : q[1] \in t[k - 1]}}
    <3>1. CASE k = 0
      BY <1>6, <3>1
    <3>2. CASE k # 0
      <4>1. k - 1 \in 0 .. n - 1 /\ (k - 1) + 1 = k
        BY <1>0, <3>2
      <4>2. t[(k - 1) + 1] = t[k - 1] \cup Image(R, t[k - 1])
        BY <1>6, <4>1
      <4>3. QED BY <3>2, <4>1, <4>2 DEF Image
    <3>3. QED BY <3>1, <3>2
  <2> DEFINE w == Rule(t)
  <2>2. w = [k \in 0 .. n |-> w[k]] /\ t = [k \in 0 .. n |-> t[k]]
    BY <1>6
  <2>3. \A k \in 0 .. n : w[k] = t[k]
    BY <2>1
  <2> HIDE DEF w
  <2>4. w = t
    BY <2>2, <2>3
  <2>5. QED BY <2>4 DEF w
<1> DEFINE reach == CHOOSE v : v = Rule(v)
<1>8. reach = Rule(reach)
  <2> HIDE DEF Rule
  <2>1. QED BY <1>7
<1>9. Reached(S, R) = reach[n]
  BY DEF Reached, n
<1> HIDE DEF reach
<1>10. \A k \in 0 .. n : reach[k] = t[k]
  <2> DEFINE H == {k \in 0 .. n : reach[k] = t[k]}
  <2>1. 0 \in H
    <3>1. reach[0] = S
      BY <1>0, <1>8
    <3>2. QED BY <1>0, <1>6, <3>1
  <2>2. ASSUME NEW k \in 0 .. n - 1, k \in H PROVE k + 1 \in H
    <3>1. k + 1 \in 0 .. n /\ k + 1 # 0 /\ (k + 1) - 1 = k
      BY <1>0
    <3>2. reach[k + 1] = reach[k] \cup {r[2] : r \in {q \in R : q[1] \in reach[k]}}
      BY <1>8, <3>1
    <3>3. t[k + 1] = t[k] \cup Image(R, t[k])
      BY <1>6
    <3>4. QED BY <2>2, <3>1, <3>2, <3>3 DEF Image
  <2> HIDE DEF H
  <2>3. \A k \in 0 .. n : k \in H
    BY <1>0, <2>1, <2>2, UpTo
  <2>4. QED BY <2>3 DEF H
<1>11. Reached(S, R) = t[n]
  BY <1>0, <1>9, <1>10
<1>12. QED BY <1>6, <1>11 DEF ReachedIn, n, All

\* What is reached contains the start and is closed: as long as a step adds something, it
\* also adds pairs that lead on, of which there are no more than the relation has.
LEMMA ReachedClosed ==
  ASSUME NEW S, NEW R, IsFiniteSet(R)
  PROVE  /\ S \subseteq Reached(S, R)
         /\ \A r \in R : r[1] \in Reached(S, R) => r[2] \in Reached(S, R)
<1> DEFINE n == Cardinality(R)
<1>1. n \in Nat
  BY FS_CardinalityType
<1>2. PICK reach : ReachedIn(reach, S, R, n) /\ Reached(S, R) = reach[n]
  BY ReachSets
<1> DEFINE E(k) == {q \in R : q[1] \in reach[k]}
           Closed(k) == \A q \in E(k) : q[2] \in reach[k]
           G == {k \in 0 .. n : S \subseteq reach[k] /\ (Closed(k) \/ Cardinality(E(k)) >= k + 1)}
<1>3. \A k \in 0 .. n : IsFiniteSet(E(k)) /\ Cardinality(E(k)) \in Nat /\ Cardinality(E(k)) <= n
  <2>1. SUFFICES ASSUME NEW k \in 0 .. n
        PROVE  IsFiniteSet(E(k)) /\ Cardinality(E(k)) \in Nat /\ Cardinality(E(k)) <= n
    OBVIOUS
  <2>2. E(k) \in SUBSET R
    OBVIOUS
  <2> HIDE DEF E
  <2>3. QED BY <2>2, FS_Subset, FS_CardinalityType
<1> HIDE DEF n
<1>4. 0 \in G
  <2>1. 0 \in 0 .. n /\ S \subseteq reach[0]
    BY <1>1, <1>2 DEF ReachedIn
  <2>2. CASE E(0) = {}
    BY <2>1, <2>2
  <2>3. CASE E(0) # {}
    <3> HIDE DEF E
    <3>1. Cardinality(E(0)) # 0
      BY <1>3, <2>1, <2>3, FS_EmptySet
    <3>2. Cardinality(E(0)) >= 0 + 1
      BY <1>3, <2>1, <3>1
    <3>3. QED BY <2>1, <3>2
  <2>4. QED BY <2>2, <2>3
<1>5. ASSUME NEW k \in 0 .. n - 1, k \in G PROVE k + 1 \in G
  <2>1. k + 1 \in 0 .. n /\ k \in Nat /\ k \in 0 .. n
    BY <1>1
  <2>2. reach[k + 1] = reach[k] \cup {q[2] : q \in E(k)}
    BY <1>2 DEF ReachedIn, Image
  <2>3. S \subseteq reach[k + 1] /\ E(k) \subseteq E(k + 1)
    BY <1>5, <2>2
  <2>4. CASE E(k) = E(k + 1)
    <3>1. Closed(k + 1)
      BY <2>2, <2>4
    <3>2. QED BY <2>1, <2>3, <3>1
  <2>5. CASE Closed(k)
    <3>1. reach[k + 1] = reach[k]
      BY <2>2, <2>5
    <3>2. QED BY <2>1, <2>3, <2>5, <3>1
  <2>6. CASE E(k) # E(k + 1) /\ ~Closed(k)
    <3>1. Cardinality(E(k)) >= k + 1
      BY <1>5, <2>6
    <3>2. E(k) # E(k + 1)
      BY <2>6
    <3> HIDE DEF E
    <3>3. Cardinality(E(k)) < Cardinality(E(k + 1))
      BY <1>3, <2>1, <2>3, <3>2, FS_Subset
    <3>4. Cardinality(E(k + 1)) >= (k + 1) + 1
      BY <1>3, <2>1, <3>1, <3>3
    <3>5. QED BY <2>1, <2>3, <3>4
  <2>7. QED BY <2>4, <2>5, <2>6
<1>6. n \in G
  <2> HIDE DEF G
  <2>1. \A k \in 0 .. n : k \in G
    BY <1>1, <1>4, <1>5, UpTo
  <2>2. QED BY <1>1, <2>1
<1>7. Closed(n)
  <2> HIDE DEF E
  <2>1. ~(Cardinality(E(n)) >= n + 1)
    BY <1>1, <1>3
  <2>2. QED BY <1>6, <2>1
<1>8. QED BY <1>2, <1>6, <1>7

\* It is the least such set.
LEMMA ReachedLeast ==
  ASSUME NEW S, NEW R, IsFiniteSet(R), NEW T, S \subseteq T,
         \A r \in R : r[1] \in T => r[2] \in T
  PROVE  Reached(S, R) \subseteq T
<1> DEFINE n == Cardinality(R)
<1>1. n \in Nat
  BY FS_CardinalityType
<1>2. PICK reach : ReachedIn(reach, S, R, n) /\ Reached(S, R) = reach[n]
  BY ReachSets
<1> HIDE DEF n
<1> DEFINE G == {k \in 0 .. n : reach[k] \subseteq T}
<1>3. 0 \in G
  BY <1>1, <1>2 DEF ReachedIn
<1>4. ASSUME NEW k \in 0 .. n - 1, k \in G PROVE k + 1 \in G
  <2>1. k + 1 \in 0 .. n
    BY <1>1
  <2>2. Image(R, reach[k]) \subseteq T
    BY <1>4 DEF Image
  <2>3. QED BY <1>2, <1>4, <2>1, <2>2 DEF ReachedIn
<1> HIDE DEF G
<1>5. \A k \in 0 .. n : k \in G
  BY <1>1, <1>3, <1>4, UpTo
<1>6. QED BY <1>1, <1>2, <1>5 DEF G

\* The same, for callers and for callees.
LEMMA CallersClosed ==
  ASSUME NEW S, NEW R, IsFiniteSet(R), R \subseteq Symbols \X Symbols
  PROVE  /\ S \subseteq Callers(S, R)
         /\ \A f, g : <<f, g>> \in R /\ g \in Callers(S, R) => f \in Callers(S, R)
<1>1. IsFiniteSet(Inverted(R))
  <2>1. Inverted(R) \subseteq Symbols \X Symbols
    BY DEF Inverted
  <2>2. IsFiniteSet(Symbols \X Symbols)
    BY FactStoreAssumption, FS_Product DEF FactStoreAssumption
  <2>3. QED BY <2>1, <2>2, FS_Subset
<1> DEFINE I == Inverted(R)
<1>2. \A f, g : <<f, g>> \in R => <<g, f>> \in I
  BY DEF Inverted
<1> HIDE DEF I
<1>3. /\ S \subseteq Reached(S, I)
      /\ \A r \in I : r[1] \in Reached(S, I) => r[2] \in Reached(S, I)
  BY <1>1, ReachedClosed DEF I
<1>4. Callers(S, R) = Reached(S, I)
  BY DEF Callers, I
<1>5. ASSUME NEW f, NEW g, <<f, g>> \in R, g \in Reached(S, I) PROVE f \in Reached(S, I)
  <2>1. <<g, f>> \in I /\ <<g, f>>[1] = g /\ <<g, f>>[2] = f
    BY <1>2, <1>5
  <2>2. QED BY <1>3, <1>5, <2>1
<1>6. QED BY <1>3, <1>4, <1>5

LEMMA CalleesClosed ==
  ASSUME NEW S, NEW R, IsFiniteSet(R)
  PROVE  /\ S \subseteq Callees(S, R)
         /\ \A f, g : <<f, g>> \in R /\ f \in Callees(S, R) => g \in Callees(S, R)
BY ReachedClosed DEF Callees

-----------------------------------------------------------------------------
(* Facts, callsites and bodies.                                            *)

\* Facts of units as analyses find them, and targets derived for callsites of theirs.
FactsOK(db) == \A u \in Units : db[u] = Absent \/ db[u] \in FactsOf[u]
DerivedOK(derived) == \A c \in derived : c[1].owner \in Symbols /\ c[2] \in Symbols

LEMMA ShapeOfFacts ==
  ASSUME NEW db, FactsOK(db), NEW u \in Units
  PROVE  /\ db[u].overrides \subseteq Symbols \X Symbols
         /\ \A c \in db[u].calls : c.owner \in Symbols /\ c.static \in Symbols
         /\ DOMAIN db[u].bodies \subseteq Symbols
<1>1. CASE db[u] = Absent
  <2>1. DOMAIN Absent.bodies = {} /\ Absent.calls = {} /\ Absent.overrides = {}
    BY DEF Absent
  <2>2. QED BY <1>1, <2>1
<1>2. CASE db[u] \in FactsOf[u]
  BY <1>2, FactStoreAssumption DEF FactStoreAssumption
<1>3. QED BY <1>1, <1>2 DEF FactsOK

LEMMA SiteIs ==
  ASSUME NEW db, NEW b
  PROVE  /\ \A s \in Sites(db, b) : \E u \in Of(b) : \E c \in db[u].calls :
              s = [unit |-> u, owner |-> c.owner, static |-> c.static, virtual |-> c.virtual]
         /\ \A u \in Of(b) : \A c \in db[u].calls :
              [unit |-> u, owner |-> c.owner, static |-> c.static, virtual |-> c.virtual]
                \in Sites(db, b)
BY DEF Sites

\* A callsite is one of its unit.
LEMMA SiteOfUnit ==
  ASSUME NEW db, NEW b, NEW s \in Sites(db, b)
  PROVE  /\ s.unit \in Of(b) /\ s.unit \in Units
         /\ FactsOK(db) => s.owner \in Symbols /\ s.static \in Symbols
<1>0. PICK u \in Of(b) : \E c \in db[u].calls :
        s = [unit |-> u, owner |-> c.owner, static |-> c.static, virtual |-> c.virtual]
  BY SiteIs
<1>1. PICK c \in db[u].calls :
        s = [unit |-> u, owner |-> c.owner, static |-> c.static, virtual |-> c.virtual]
  BY <1>0
<1>2. s.unit = u /\ s.owner = c.owner /\ s.static = c.static /\ u \in Units
  BY <1>1 DEF Of
<1>3. QED BY <1>1, <1>2, ShapeOfFacts

\* Where two collections of facts agree, so do their callsites.
LEMMA SameSites ==
  ASSUME NEW db, NEW other, NEW b, NEW s \in Sites(db, b), db[s.unit] = other[s.unit]
  PROVE  s \in Sites(other, b)
<1>0. PICK u \in Of(b) : \E c \in db[u].calls :
        s = [unit |-> u, owner |-> c.owner, static |-> c.static, virtual |-> c.virtual]
  BY SiteIs
<1>1. PICK c \in db[u].calls :
        s = [unit |-> u, owner |-> c.owner, static |-> c.static, virtual |-> c.virtual]
  BY <1>0
<1>2. s.unit = u
  BY <1>1
<1>3. c \in other[u].calls
  BY <1>1, <1>2
<1>4. QED BY <1>1, <1>3, SiteIs

\* A body is a pair of a unit and a function it has a summary of.
LEMMA BodyIs ==
  ASSUME NEW db, NEW S
  PROVE  \A x : x \in Summaries(db, S) <=>
           \E u \in S : \E f \in DOMAIN db[u].bodies : x = <<u, f>>
BY DEF Summaries

LEMMA BodyShape ==
  ASSUME NEW db, NEW S, NEW x \in Summaries(db, S)
  PROVE  x = <<x[1], x[2]>> /\ x[1] \in S /\ x[2] \in DOMAIN db[x[1]].bodies
<1>0. PICK u \in S : \E f \in DOMAIN db[u].bodies : x = <<u, f>>
  BY BodyIs
<1>1. PICK f \in DOMAIN db[u].bodies : x = <<u, f>>
  BY <1>0
<1>2. QED BY <1>1

LEMMA BodiesIn ==
  ASSUME NEW db, FactsOK(db), NEW S, S \subseteq Units
  PROVE  Summaries(db, S) \subseteq Units \X Symbols
<1>1. SUFFICES ASSUME NEW x \in Summaries(db, S) PROVE x \in Units \X Symbols
  OBVIOUS
<1>2. x = <<x[1], x[2]>> /\ x[1] \in S /\ x[2] \in DOMAIN db[x[1]].bodies
  BY BodyShape
<1>3. x[2] \in Symbols
  BY <1>2, ShapeOfFacts
<1>4. QED BY <1>2, <1>3

\* The steps from bodies to those they call.
LEMMA StepIs ==
  ASSUME NEW db, NEW b, NEW derived, NEW bodies
  PROVE  /\ \A p \in Steps(db, b, derived, bodies) :
              \E s \in Sites(db, b) : \E t \in Targets(derived, s) : \E y \in BodiesOf(bodies, s, t) :
                p = <<<<s.unit, s.owner>>, y>>
         /\ \A s \in Sites(db, b) : \A t \in Targets(derived, s) : \A y \in BodiesOf(bodies, s, t) :
              <<<<s.unit, s.owner>>, y>> \in Steps(db, b, derived, bodies)
BY DEF Steps

LEMMA CalledBodies ==
  ASSUME NEW bodies, NEW s, NEW t, NEW y \in BodiesOf(bodies, s, t)
  PROVE  y \in bodies /\ y[2] = t
<1>1. CASE <<s.unit, t>> \in bodies
  BY <1>1 DEF BodiesOf
<1>2. CASE <<s.unit, t>> \notin bodies
  BY <1>2 DEF BodiesOf
<1>3. QED BY <1>1, <1>2

LEMMA StepsFinite ==
  ASSUME NEW db, FactsOK(db), NEW b, NEW derived, NEW bodies, bodies \subseteq Units \X Symbols
  PROVE  IsFiniteSet(Steps(db, b, derived, bodies))
<1> DEFINE Pairs == Units \X Symbols
<1>1. Steps(db, b, derived, bodies) \subseteq Pairs \X Pairs
  <2>1. SUFFICES ASSUME NEW p \in Steps(db, b, derived, bodies) PROVE p \in Pairs \X Pairs
    OBVIOUS
  <2>2. PICK s \in Sites(db, b) : \E t \in Targets(derived, s) : \E y \in BodiesOf(bodies, s, t) :
          p = <<<<s.unit, s.owner>>, y>>
    BY StepIs
  <2>7. PICK t \in Targets(derived, s) : \E y \in BodiesOf(bodies, s, t) :
          p = <<<<s.unit, s.owner>>, y>>
    BY <2>2
  <2>3. PICK y \in BodiesOf(bodies, s, t) : p = <<<<s.unit, s.owner>>, y>>
    BY <2>7
  <2>4. y \in Pairs /\ s.unit \in Units /\ s.owner \in Symbols
    BY <2>3, CalledBodies, SiteOfUnit
  <2>5. QED BY <2>3, <2>4
<1>2. IsFiniteSet(Pairs)
  BY FactStoreAssumption, FS_Product DEF FactStoreAssumption
<1>3. IsFiniteSet(Pairs \X Pairs)
  BY <1>2, FS_Product
<1>4. QED BY <1>1, <1>3, FS_Subset

\* The call graph has an edge for every target of a callsite.
LEMMA CallIs ==
  ASSUME NEW db, NEW b, NEW derived, NEW s \in Sites(db, b), NEW t \in Targets(derived, s)
  PROVE  <<s.owner, t>> \in Calls(db, b, derived)
<1>1. CASE t = s.static
  BY <1>1 DEF Calls
<1>2. CASE t # s.static
  <2>1. PICK c \in derived : c[1] = s /\ c[2] = t
    BY <1>2 DEF Targets
  <2>2. BuildOf[c[1].unit] = b
    BY <2>1, SiteOfUnit DEF Of
  <2>3. QED BY <2>1, <2>2 DEF Calls
<1>3. QED BY <1>1, <1>2

LEMMA CallsFinite ==
  ASSUME NEW db, FactsOK(db), NEW b, NEW derived, DerivedOK(derived)
  PROVE  Calls(db, b, derived) \subseteq Symbols \X Symbols /\ IsFiniteSet(Calls(db, b, derived))
<1>1. Calls(db, b, derived) \subseteq Symbols \X Symbols
  BY SiteOfUnit DEF Calls, DerivedOK
<1>2. IsFiniteSet(Symbols \X Symbols)
  BY FactStoreAssumption, FS_Product DEF FactStoreAssumption
<1>3. QED BY <1>1, <1>2, FS_Subset

-----------------------------------------------------------------------------
(* Solutions that two collections of facts agree on.                       *)

\* W is a set of bodies that two collections of facts have, with all that bodies in it
\* call, and both have the same facts and targets for.
Agree(db, derived, bodies, other, derivedOther, bodiesOther, b, W) ==
  /\ W \subseteq bodies \cap bodiesOther
  /\ \A y \in W : y[1] \in Units /\ y = <<y[1], y[2]>> /\ db[y[1]] = other[y[1]]
  /\ \A s \in Sites(db, b) : <<s.unit, s.owner>> \in W =>
       /\ Targets(derived, s) = Targets(derivedOther, s)
       /\ \A t \in Targets(derived, s) : \A v :
            v[2] = t => (v \in bodies <=> v \in bodiesOther) /\ (v \in bodies => v \in W)

LEMMA AgreeBack ==
  ASSUME NEW db, NEW derived, NEW bodies, NEW other, NEW derivedOther, NEW bodiesOther, NEW b,
         NEW W, Agree(db, derived, bodies, other, derivedOther, bodiesOther, b, W)
  PROVE  Agree(other, derivedOther, bodiesOther, db, derived, bodies, b, W)
<1>1. W \subseteq bodiesOther \cap bodies
  BY DEF Agree
<1>2. \A y \in W : y[1] \in Units /\ y = <<y[1], y[2]>> /\ other[y[1]] = db[y[1]]
  BY DEF Agree
<1>3. ASSUME NEW s \in Sites(other, b), <<s.unit, s.owner>> \in W
      PROVE  /\ Targets(derivedOther, s) = Targets(derived, s)
             /\ \A t \in Targets(derivedOther, s) : \A v :
                  v[2] = t => (v \in bodiesOther <=> v \in bodies) /\ (v \in bodiesOther => v \in W)
  <2>1. other[s.unit] = db[s.unit]
    <3>1. <<s.unit, s.owner>>[1] = s.unit
      OBVIOUS
    <3>2. QED BY <1>2, <1>3, <3>1
  <2>2. s \in Sites(db, b)
    BY <2>1, SameSites
  <2>3. QED BY <1>3, <2>2 DEF Agree
<1>4. QED BY <1>1, <1>2, <1>3 DEF Agree

\* A step from a body of W is a step of both, to a body of W.
LEMMA AgreeStep ==
  ASSUME NEW db, NEW derived, NEW bodies, NEW other, NEW derivedOther, NEW bodiesOther, NEW b,
         NEW W, Agree(db, derived, bodies, other, derivedOther, bodiesOther, b, W),
         NEW p \in Steps(db, b, derived, bodies), p[1] \in W
  PROVE  p \in Steps(other, b, derivedOther, bodiesOther) /\ p[2] \in W
<1>1. PICK s \in Sites(db, b) : \E t \in Targets(derived, s) : \E y \in BodiesOf(bodies, s, t) :
        p = <<<<s.unit, s.owner>>, y>>
  BY StepIs
<1>2. PICK t \in Targets(derived, s) : \E y \in BodiesOf(bodies, s, t) :
        p = <<<<s.unit, s.owner>>, y>>
  BY <1>1
<1>3. PICK y \in BodiesOf(bodies, s, t) : p = <<<<s.unit, s.owner>>, y>>
  BY <1>2
<1>4. p[1] = <<s.unit, s.owner>> /\ p[2] = y /\ <<s.unit, s.owner>> \in W
  BY <1>3
<1>5. y \in bodies /\ y[2] = t
  BY CalledBodies
<1>6. s \in Sites(other, b)
  <2>1. <<s.unit, s.owner>>[1] = s.unit
    OBVIOUS
  <2>2. db[s.unit] = other[s.unit]
    BY <1>4, <2>1 DEF Agree
  <2>3. QED BY <2>2, SameSites
<1>7. t \in Targets(derivedOther, s) /\ y \in W
  BY <1>4, <1>5 DEF Agree
<1>8. y \in BodiesOf(bodiesOther, s, t)
  <2>1. <<s.unit, t>>[2] = t
    OBVIOUS
  <2>2. <<s.unit, t>> \in bodies <=> <<s.unit, t>> \in bodiesOther
    BY <1>4, <2>1 DEF Agree
  <2>3. y \in bodiesOther
    BY <1>7 DEF Agree
  <2>4. CASE <<s.unit, t>> \in bodies
    BY <2>2, <2>4 DEF BodiesOf
  <2>5. CASE <<s.unit, t>> \notin bodies
    BY <1>5, <2>2, <2>3, <2>5 DEF BodiesOf
  <2>6. QED BY <2>4, <2>5
<1>9. p \in Steps(other, b, derivedOther, bodiesOther)
  BY <1>3, <1>6, <1>7, <1>8, StepIs
<1>10. QED BY <1>4, <1>7, <1>9

LEMMA AgreeReached ==
  ASSUME NEW db, FactsOK(db), NEW derived, NEW bodies, bodies \subseteq Units \X Symbols,
         NEW other, FactsOK(other), NEW derivedOther,
         NEW bodiesOther, bodiesOther \subseteq Units \X Symbols, NEW b,
         NEW W, Agree(db, derived, bodies, other, derivedOther, bodiesOther, b, W), NEW x \in W
  PROVE  Reached({x}, Steps(db, b, derived, bodies))
           \subseteq W \cap Reached({x}, Steps(other, b, derivedOther, bodiesOther))
<1> DEFINE steps == Steps(db, b, derived, bodies)
           stepsOther == Steps(other, b, derivedOther, bodiesOther)
           there == Reached({x}, stepsOther)
<1>1. IsFiniteSet(steps) /\ IsFiniteSet(stepsOther)
  BY StepsFinite
<1>2. \A p \in steps : p[1] \in W => p \in stepsOther /\ p[2] \in W
  BY AgreeStep
<1> HIDE DEF steps, stepsOther
<1>3. {x} \subseteq there /\ \A p \in stepsOther : p[1] \in there => p[2] \in there
  BY <1>1, ReachedClosed
<1> HIDE DEF there
<1>4. \A p \in steps : p[1] \in W \cap there => p[2] \in W \cap there
  BY <1>2, <1>3
<1>5. Reached({x}, steps) \subseteq W \cap there
  BY <1>1, <1>3, <1>4, ReachedLeast
<1>6. QED BY <1>5 DEF steps, stepsOther, there

LEMMA BodiesShape ==
  ASSUME NEW db, FactsOK(db), NEW b, NEW selected
  PROVE  SelectedBodies(db, b, selected) \subseteq Units \X Symbols
BY BodiesIn DEF SelectedBodies, Of

\* The solution of a body in W is the same in both.
LEMMA AgreeSolution ==
  ASSUME NEW db, FactsOK(db), NEW derived, NEW selected,
         NEW other, FactsOK(other), NEW derivedOther, NEW selectedOther, NEW b, NEW W,
         Agree(db, derived, SelectedBodies(db, b, selected),
               other, derivedOther, SelectedBodies(other, b, selectedOther), b, W),
         NEW x \in W
  PROVE  Solve(db, b, derived, selected)[x] = Solve(other, b, derivedOther, selectedOther)[x]
<1> DEFINE bodies == SelectedBodies(db, b, selected)
           bodiesOther == SelectedBodies(other, b, selectedOther)
           here == Reached({x}, Steps(db, b, derived, bodies))
           there == Reached({x}, Steps(other, b, derivedOther, bodiesOther))
<1>1. bodies \subseteq Units \X Symbols /\ bodiesOther \subseteq Units \X Symbols
  BY BodiesShape
<1>2. x \in bodies /\ x \in bodiesOther /\ \A y \in W : db[y[1]] = other[y[1]]
  BY DEF Agree
<1>3. Solve(db, b, derived, selected)[x] = UNION {db[y[1]].bodies[y[2]] : y \in here}
  BY <1>2 DEF Solve
<1>4. Solve(other, b, derivedOther, selectedOther)[x] = UNION {other[y[1]].bodies[y[2]] : y \in there}
  BY <1>2 DEF Solve
<1>5. Agree(db, derived, bodies, other, derivedOther, bodiesOther, b, W)
  OBVIOUS
<1> HIDE DEF bodies, bodiesOther
<1>6. here \subseteq W \cap there
  BY <1>1, <1>5, AgreeReached
<1>7. there \subseteq W \cap here
  BY <1>1, <1>5, AgreeBack, AgreeReached
<1> HIDE DEF here, there
<1>8. here = there /\ here \subseteq W
  BY <1>6, <1>7
<1>9. \A y \in here : db[y[1]].bodies[y[2]] = other[y[1]].bodies[y[2]]
  BY <1>2, <1>8
<1>10. {db[y[1]].bodies[y[2]] : y \in here} = {other[y[1]].bodies[y[2]] : y \in there}
  BY <1>8, <1>9
<1>11. QED BY <1>3, <1>4, <1>10

\* All bodies are those of all symbols.
LEMMA AllBodies ==
  ASSUME NEW db, FactsOK(db), NEW b
  PROVE  SelectedBodies(db, b, Symbols) = Summaries(db, Of(b))
<1>1. \A x \in Summaries(db, Of(b)) : x[2] \in Symbols
  BY BodiesIn DEF Of
<1>2. QED BY <1>1 DEF SelectedBodies

\* A body that two collections of facts agree on is one of both.
LEMMA BodyKept ==
  ASSUME NEW db, NEW other, NEW S, NEW x \in Summaries(db, S), db[x[1]] = other[x[1]]
  PROVE  x \in Summaries(other, S)
<1>1. x = <<x[1], x[2]>> /\ x[1] \in S /\ x[2] \in DOMAIN db[x[1]].bodies
  BY BodyShape
<1>2. x[2] \in DOMAIN other[x[1]].bodies
  BY <1>1
<1>3. QED BY <1>1, <1>2, BodyIs

\* Some units are replaced, and T is closed under callers and has the functions of replaced
\* bodies and of callsites whose targets change.
Covers(T, db, derived, other, derivedOther, b, replaced) ==
  /\ \A u \in Of(b) \ replaced : db[u] = other[u]
  /\ \A y \in Summaries(db, Of(b)) : y[1] \in replaced => y[2] \in T
  /\ \A y \in Summaries(other, Of(b)) : y[1] \in replaced => y[2] \in T
  /\ \A f, g : <<f, g>> \in Calls(other, b, derivedOther) /\ g \in T => f \in T
  /\ \A s \in Sites(db, b) : s.unit \notin replaced /\ s.owner \notin T
       => Targets(derived, s) = Targets(derivedOther, s)

\* A body of no function in it keeps its solution.
LEMMA SameSolution ==
  ASSUME NEW db, FactsOK(db), NEW derived, NEW other, FactsOK(other), NEW derivedOther, NEW b,
         NEW replaced, NEW T, Covers(T, db, derived, other, derivedOther, b, replaced),
         NEW x \in Summaries(other, Of(b)), x[2] \notin T
  PROVE  /\ x \in Summaries(db, Of(b)) /\ x[1] \notin replaced
         /\ Solve(other, b, derivedOther, Symbols)[x] = Solve(db, b, derived, Symbols)[x]
<1> /\ \A u \in Of(b) \ replaced : db[u] = other[u]
    /\ \A y \in Summaries(db, Of(b)) : y[1] \in replaced => y[2] \in T
    /\ \A y \in Summaries(other, Of(b)) : y[1] \in replaced => y[2] \in T
    /\ \A f, g : <<f, g>> \in Calls(other, b, derivedOther) /\ g \in T => f \in T
    /\ \A s \in Sites(db, b) : s.unit \notin replaced /\ s.owner \notin T
         => Targets(derived, s) = Targets(derivedOther, s)
  BY DEF Covers
<1> DEFINE old == Summaries(db, Of(b))
           new == Summaries(other, Of(b))
           W == {y \in old \cap new : y[2] \notin T}
<1>1. \A y \in old : y[2] \notin T => y \in new /\ y[1] \notin replaced
  <2>1. SUFFICES ASSUME NEW y \in old, y[2] \notin T PROVE y \in new /\ y[1] \notin replaced
    OBVIOUS
  <2>2. y[1] \in Of(b) /\ y[1] \notin replaced
    BY <2>1, BodyShape
  <2>3. QED BY <2>2, BodyKept
<1>2. \A y \in new : y[2] \notin T => y \in old /\ y[1] \notin replaced
  <2>1. SUFFICES ASSUME NEW y \in new, y[2] \notin T PROVE y \in old /\ y[1] \notin replaced
    OBVIOUS
  <2>2. y[1] \in Of(b) /\ y[1] \notin replaced
    BY <2>1, BodyShape
  <2>3. QED BY <2>2, BodyKept
<1>3. x \in W /\ x \in old /\ x[1] \notin replaced
  BY <1>2
<1>4. SelectedBodies(db, b, Symbols) = old /\ SelectedBodies(other, b, Symbols) = new
  BY AllBodies
<1>5. \A y \in W : y[1] \in Of(b) /\ y = <<y[1], y[2]>>
  BY BodyShape
<1>6. \A y \in W : y[1] \notin replaced /\ y[2] \notin T
  BY <1>1
<1>7. W \subseteq old \cap new /\ \A y \in old : y[2] \notin T => y \in W
  BY <1>1
<1>8. \A v : v[2] \notin T => (v \in old <=> v \in new)
  BY <1>1, <1>2
<1>9. Of(b) \subseteq Units
  BY DEF Of
<1> HIDE DEF old, new, W
<1>10. \A y \in W : y[1] \in Units /\ y = <<y[1], y[2]>> /\ db[y[1]] = other[y[1]]
  BY <1>5, <1>6, <1>9
<1>11. ASSUME NEW s \in Sites(db, b), <<s.unit, s.owner>> \in W
       PROVE  /\ Targets(derived, s) = Targets(derivedOther, s)
              /\ \A t \in Targets(derived, s) : \A v :
                   v[2] = t => (v \in old <=> v \in new) /\ (v \in old => v \in W)
  <2>1. <<s.unit, s.owner>>[1] = s.unit /\ <<s.unit, s.owner>>[2] = s.owner
    OBVIOUS
  <2>2. s.unit \notin replaced /\ s.owner \notin T /\ s.unit \in Of(b)
    BY <1>5, <1>6, <1>11, <2>1
  <2>3. Targets(derived, s) = Targets(derivedOther, s)
    BY <2>2
  <2>4. s \in Sites(other, b)
    BY <2>2, SameSites
  <2>5. ASSUME NEW t \in Targets(derived, s) PROVE t \notin T
    BY <2>2, <2>3, <2>4, CallIs
  <2>6. QED BY <1>7, <1>8, <2>3, <2>5
<1>12. Agree(db, derived, old, other, derivedOther, new, b, W)
  BY <1>7, <1>10, <1>11 DEF Agree
<1>13. Solve(db, b, derived, Symbols)[x] = Solve(other, b, derivedOther, Symbols)[x]
  BY <1>3, <1>4, <1>12, AgreeSolution
<1>14. QED BY <1>3, <1>13 DEF old

\* The solver may be given fewer functions, with all that they call.
LEMMA SelectedSolution ==
  ASSUME NEW db, FactsOK(db), NEW derived, NEW b, NEW selected,
         \A f, g : <<f, g>> \in Calls(db, b, derived) /\ f \in selected
           => \/ g \in selected
              \/ \A y \in Summaries(db, Of(b)) : y[2] # g,
         NEW x \in Summaries(db, Of(b)), x[2] \in selected
  PROVE  Solve(db, b, derived, selected)[x] = Solve(db, b, derived, Symbols)[x]
<1> DEFINE W == SelectedBodies(db, b, selected)
           all == Summaries(db, Of(b))
<1>1. W = {y \in all : y[2] \in selected} /\ x \in W
  BY DEF SelectedBodies
<1>2. SelectedBodies(db, b, Symbols) = all
  BY AllBodies
<1>3. \A y \in W : y[1] \in Units /\ y = <<y[1], y[2]>>
  BY BodiesShape
<1> HIDE DEF W
<1>4. ASSUME NEW s \in Sites(db, b), <<s.unit, s.owner>> \in W
      PROVE  \A t \in Targets(derived, s) : \A v :
               v[2] = t => (v \in W <=> v \in all) /\ (v \in W => v \in W)
  <2>1. SUFFICES ASSUME NEW t \in Targets(derived, s), NEW v, v[2] = t, v \in all PROVE v \in W
    BY <1>1
  <2>2. <<s.unit, s.owner>>[2] = s.owner
    OBVIOUS
  <2>3. s.owner \in selected
    BY <1>1, <1>4, <2>2
  <2>4. t \in selected
    BY <2>1, <2>3, CallIs
  <2>5. QED BY <1>1, <2>1, <2>4
<1>5. W \subseteq W \cap all
  BY <1>1
<1>6. Agree(db, derived, W, db, derived, all, b, W)
  BY <1>3, <1>4, <1>5 DEF Agree
<1>7. Agree(db, derived, SelectedBodies(db, b, selected), db, derived, SelectedBodies(db, b, Symbols), b, W)
  BY <1>2, <1>6 DEF W
<1>8. QED BY <1>1, <1>7, AgreeSolution

-----------------------------------------------------------------------------
(* Call targets derived from override edges.                               *)

\* They depend on the facts of the units of the build.
LEMMA CandidatesSame ==
  ASSUME NEW db, NEW other, NEW b, \A u \in Of(b) : db[u] = other[u]
  PROVE  Candidates(db, b) = Candidates(other, b)
<1>1. Sites(db, b) = Sites(other, b)
  <2>1. ASSUME NEW s \in Sites(db, b) PROVE s \in Sites(other, b)
    BY SiteOfUnit, SameSites
  <2>2. ASSUME NEW s \in Sites(other, b) PROVE s \in Sites(db, b)
    BY SiteOfUnit, SameSites
  <2>3. QED BY <2>1, <2>2
<1>2. \A base : Overriders(db, b, base) = Overriders(other, b, base)
  <2>1. {db[u].overrides : u \in Of(b)} = {other[u].overrides : u \in Of(b)}
    OBVIOUS
  <2>2. QED BY <2>1 DEF Overriders
<1>3. QED BY <1>1, <1>2 DEF Candidates

\* They are pairs of a callsite of the build and a symbol.
LEMMA CandidateShape ==
  ASSUME NEW db, FactsOK(db), NEW b, NEW c \in Candidates(db, b)
  PROVE  /\ c[1] \in Sites(db, b) /\ c[1].unit \in Of(b) /\ BuildOf[c[1].unit] = b
         /\ c[1].owner \in Symbols /\ c[2] \in Symbols
<1>1. PICK s \in Sites(db, b) : \E t \in Overriders(db, b, s.static) : c = <<s, t>>
  BY DEF Candidates
<1>2. PICK t \in Overriders(db, b, s.static) : c = <<s, t>>
  BY <1>1
<1>3. c[1] = s /\ c[2] = t
  BY <1>2
<1>4. s.unit \in Of(b) /\ BuildOf[s.unit] = b /\ s.owner \in Symbols
  BY SiteOfUnit DEF Of
<1>5. Overriders(db, b, s.static) \subseteq Symbols
  <2> DEFINE edges == UNION {db[u].overrides : u \in Of(b)}
             first == {e[1] : e \in {d \in edges : d[2] = s.static}}
  <2>1. edges \subseteq Symbols \X Symbols
    BY ShapeOfFacts DEF Of
  <2>2. first \subseteq Symbols /\ Inverted(edges) \subseteq Symbols \X Symbols
    BY <2>1 DEF Inverted
  <2>3. Overriders(db, b, s.static) = Reached(first, Inverted(edges))
    BY DEF Overriders
  <2> HIDE DEF edges, first
  <2>4. IsFiniteSet(Inverted(edges))
    <3>1. IsFiniteSet(Symbols \X Symbols)
      BY FactStoreAssumption, FS_Product DEF FactStoreAssumption
    <3>2. QED BY <2>2, <3>1, FS_Subset
  <2>5. \A r \in Inverted(edges) : r[1] \in Symbols => r[2] \in Symbols
    BY <2>2
  <2>6. Reached(first, Inverted(edges)) \subseteq Symbols
    BY <2>2, <2>4, <2>5, ReachedLeast
  <2>7. QED BY <2>3, <2>6
<1>6. QED BY <1>3, <1>4, <1>5

\* Units without facts have no callsites and no bodies.
LEMMA NothingOfAbsent ==
  ASSUME NEW db, NEW b, \A u \in Of(b) : db[u] = Absent
  PROVE  Sites(db, b) = {} /\ Candidates(db, b) = {} /\ Summaries(db, Of(b)) = {}
<1>1. Absent.calls = {} /\ DOMAIN Absent.bodies = {}
  BY DEF Absent
<1>2. Sites(db, b) = {}
  <2>1. SUFFICES ASSUME NEW s \in Sites(db, b) PROVE FALSE
    OBVIOUS
  <2>2. PICK u \in Of(b) : \E c \in db[u].calls : TRUE
    BY SiteIs
  <2>3. QED BY <1>1, <2>2
<1>3. Candidates(db, b) = {}
  BY <1>2 DEF Candidates
<1>4. Summaries(db, Of(b)) = {}
  <2>1. SUFFICES ASSUME NEW x \in Summaries(db, Of(b)) PROVE FALSE
    OBVIOUS
  <2>2. x[1] \in Of(b) /\ x[2] \in DOMAIN db[x[1]].bodies
    BY BodyShape
  <2>3. QED BY <1>1, <2>2
<1>5. QED BY <1>2, <1>3, <1>4

-----------------------------------------------------------------------------
(* The invariant.                                                          *)

\* All call targets that override edges make.
AllCandidates(db) == UNION {Candidates(db, b) : b \in BuildVariants}

FreshSolutions(db, derived, solved) ==
  \A b \in BuildVariants : \A x \in Summaries(db, Of(b)) :
    solved[x] = Solve(db, b, derived, Symbols)[x]

\* Only stored units have facts, and what is derived of them is as from nothing.
StoreInv ==
  /\ FactStoreTypes
  /\ FactsOK(facts)
  /\ \A u \in Units \ stored : facts[u] = Absent
  /\ candidates = AllCandidates(facts)
  /\ FreshSolutions(facts, candidates, solution)
  /\ \A s \in DOMAIN canonical : canonical[s] = Preferred(facts, s)
  /\ documents = Documents(facts, Units)
  /\ TokensSawOverrides

\* The properties follow.
LEMMA StoreInvIsFresh == StoreInv => IncrementalIsFresh /\ TokensSawOverrides
<1> SUFFICES ASSUME StoreInv PROVE IncrementalIsFresh /\ TokensSawOverrides
  OBVIOUS
<1>1. ASSUME NEW b \in BuildVariants, NEW x \in DOMAIN Solve(facts, b, candidates, Symbols)
      PROVE  solution[x] = Solve(facts, b, candidates, Symbols)[x]
  <2>1. FactsOK(facts) /\ FreshSolutions(facts, candidates, solution)
    BY DEF StoreInv
  <2>2. DOMAIN Solve(facts, b, candidates, Symbols) = SelectedBodies(facts, b, Symbols)
    BY DEF Solve
  <2>3. x \in Summaries(facts, Of(b))
    BY <1>1, <2>1, <2>2, AllBodies
  <2>4. QED BY <2>1, <2>3 DEF FreshSolutions
<1>2. FactStoreTypes /\ candidates = UNION {Candidates(facts, b) : b \in BuildVariants}
  BY DEF StoreInv, AllCandidates
<1>3. /\ \A s \in DOMAIN canonical : canonical[s] = Preferred(facts, s)
      /\ documents = Documents(facts, Units)
      /\ TokensSawOverrides
  BY DEF StoreInv
<1>4. QED BY <1>1, <1>2, <1>3 DEF IncrementalIsFresh

LEMMA AllCandidatesOK ==
  ASSUME NEW db, FactsOK(db)
  PROVE  /\ DerivedOK(AllCandidates(db))
         /\ \A c \in AllCandidates(db) : \E b \in BuildVariants :
              c \in Candidates(db, b) /\ BuildOf[c[1].unit] = b /\ c[1].unit \in Of(b)
<1>1. \A c \in AllCandidates(db) : \E b \in BuildVariants : c \in Candidates(db, b)
  BY DEF AllCandidates
<1>2. QED BY <1>1, CandidateShape DEF DerivedOK

-----------------------------------------------------------------------------
(* A transaction that replaces units of a build.                           *)

Replacing(db, b, replaced) ==
  /\ FactsOK(db) /\ replaced \subseteq Of(b)
  /\ \A u \in Units \ replaced : db[u] = facts[u]

\* The solutions of the other builds stay.
LEMMA OtherSolutions ==
  ASSUME StoreInv, NEW db, NEW b, NEW replaced, Replacing(db, b, replaced), NEW derived,
         \A c : BuildOf[c[1].unit] # b => (c \in derived <=> c \in candidates),
         NEW other \in BuildVariants, other # b, NEW x \in Summaries(db, Of(other))
  PROVE  /\ x \in Summaries(facts, Of(other))
         /\ Solve(db, other, derived, Symbols)[x] = solution[x]
<1>1. FactsOK(facts) /\ FactsOK(db) /\ FreshSolutions(facts, candidates, solution)
  BY DEF StoreInv, Replacing
<1>2. \A u \in Of(other) \ {} : facts[u] = db[u]
  BY DEF Replacing, Of
<1>3. \A s \in Sites(facts, other) : Targets(candidates, s) = Targets(derived, s)
  <2>1. SUFFICES ASSUME NEW s \in Sites(facts, other)
        PROVE  Targets(candidates, s) = Targets(derived, s)
    OBVIOUS
  <2>2. BuildOf[s.unit] # b
    BY SiteOfUnit DEF Of
  <2>3. {d \in candidates : d[1] = s} = {d \in derived : d[1] = s}
    BY <2>2
  <2>4. QED BY <2>3 DEF Targets
<1>4. /\ x \in Summaries(facts, Of(other))
      /\ Solve(db, other, derived, Symbols)[x] = Solve(facts, other, candidates, Symbols)[x]
  <2> DEFINE T == {}
             none == {}
  <2>1. \A y \in Summaries(facts, Of(other)) : y[1] \in none => y[2] \in T
    OBVIOUS
  <2>2. \A y \in Summaries(db, Of(other)) : y[1] \in none => y[2] \in T
    OBVIOUS
  <2>3. \A f, g : <<f, g>> \in Calls(db, other, derived) /\ g \in T => f \in T
    OBVIOUS
  <2>4. \A s \in Sites(facts, other) : s.unit \notin none /\ s.owner \notin T
          => Targets(candidates, s) = Targets(derived, s)
    BY <1>3
  <2>5. x[2] \notin T /\ \A u \in Of(other) \ none : facts[u] = db[u]
    BY <1>2
  <2> HIDE DEF T, none
  <2>6. Covers(T, facts, candidates, db, derived, other, none)
    BY <2>1, <2>2, <2>3, <2>4, <2>5 DEF Covers
  <2>7. QED BY <1>1, <2>5, <2>6, SameSolution
<1>5. QED BY <1>1, <1>4 DEF FreshSolutions

\* Variants of a symbol have a first one in the order of Before.
LEMMA LeastOf ==
  ASSUME NEW S, S \subseteq Nat, S # {}
  PROVE  \E m \in S : \A k \in S : m <= k
<1>1. IsWellFoundedOn(LessThan, Nat)
  BY NatLessThanWellFounded DEF OpToRel, LessThan
<1>2. PICK m \in S : \A k \in S : ~(<<k, m>> \in LessThan)
  BY <1>1, WFMin
<1>3. ASSUME NEW k \in S PROVE m <= k
  <2>1. m \in Nat /\ k \in Nat
    OBVIOUS
  <2>2. ~(<<k, m>> \in LessThan)
    BY <1>2
  <2>3. <<k, m>> \in LessThan <=> k < m
    BY <2>1 DEF LessThan
  <2>4. QED BY <2>1, <2>2, <2>3
<1>4. QED BY <1>3

LEMMA BeforeIs ==
  ASSUME NEW db, NEW s, NEW u, NEW w,
         NEW r, r = [x \in {u, w} |-> IF db[x].symbols[s].definition THEN 0 ELSE 1],
         \/ r[u] < r[w]
         \/ r[u] = r[w] /\ BuildOf[u] < BuildOf[w]
         \/ r[u] = r[w] /\ BuildOf[u] = BuildOf[w] /\ u < w
  PROVE  Before(db, s, u, w)
<1> DEFINE rank(x) == <<IF db[x].symbols[s].definition THEN 0 ELSE 1, BuildOf[x], x>>
<1>1. rank(u) = <<r[u], BuildOf[u], u>> /\ rank(w) = <<r[w], BuildOf[w], w>>
  OBVIOUS
<1>2. Before(db, s, u, w) <=> \E i \in 1 .. 3 : /\ rank(u)[i] < rank(w)[i]
                                                /\ \A j \in 1 .. (i - 1) : rank(u)[j] = rank(w)[j]
  BY DEF Before
<1> HIDE DEF rank
<1>3. /\ rank(u)[1] = r[u] /\ rank(u)[2] = BuildOf[u] /\ rank(u)[3] = u
      /\ rank(w)[1] = r[w] /\ rank(w)[2] = BuildOf[w] /\ rank(w)[3] = w
  BY <1>1
<1>4. /\ 1 \in 1 .. 3 /\ 1 .. (1 - 1) = {}
      /\ 2 \in 1 .. 3 /\ 1 .. (2 - 1) = {1}
      /\ 3 \in 1 .. 3 /\ 1 .. (3 - 1) = {1, 2}
  OBVIOUS
<1>5. CASE r[u] < r[w]
  BY <1>2, <1>3, <1>4, <1>5
<1>6. CASE r[u] = r[w] /\ BuildOf[u] < BuildOf[w]
  BY <1>2, <1>3, <1>4, <1>6
<1>7. CASE r[u] = r[w] /\ BuildOf[u] = BuildOf[w] /\ u < w
  BY <1>2, <1>3, <1>4, <1>7
<1>8. QED BY <1>5, <1>6, <1>7

LEMMA BestExists ==
  ASSUME NEW db, NEW s, NEW v \in Units, s \in DOMAIN db[v].symbols
  PROVE  Best(db, s) # {}
<1> DEFINE having == {u \in Units : s \in DOMAIN db[u].symbols}
           r == [x \in Units |-> IF db[x].symbols[s].definition THEN 0 ELSE 1]
<1>1. Units \subseteq Nat /\ \A u \in Units : BuildOf[u] \in Nat
  BY FactStoreAssumption DEF FactStoreAssumption, BuildVariants
<1>2. v \in having /\ having \subseteq Units
  OBVIOUS
<1>3. \A u \in Units : r[u] \in Nat
  OBVIOUS
<1>0. \A u, w \in Units : [x \in {u, w} |-> r[x]]
        = [x \in {u, w} |-> IF db[x].symbols[s].definition THEN 0 ELSE 1]
  OBVIOUS
<1> HIDE DEF r
<1> DEFINE R == {r[u] : u \in having}
<1>4. PICK a \in R : \A k \in R : a <= k
  <2>1. R \subseteq Nat /\ R # {}
    BY <1>2, <1>3
  <2> HIDE DEF R
  <2>2. QED BY <2>1, LeastOf
<1> DEFINE B == {BuildOf[u] : u \in {x \in having : r[x] = a}}
<1>5. PICK c \in B : \A k \in B : c <= k
  <2>1. B \subseteq Nat /\ B # {}
    BY <1>1, <1>2, <1>4
  <2> HIDE DEF B
  <2>2. QED BY <2>1, LeastOf
<1> DEFINE U == {u \in having : r[u] = a /\ BuildOf[u] = c}
<1>6. PICK m \in U : \A k \in U : m <= k
  <2>1. U \subseteq Nat /\ U # {}
    BY <1>1, <1>2, <1>5
  <2> HIDE DEF U
  <2>2. QED BY <2>1, LeastOf
<1>7. ASSUME NEW w \in having \ {m} PROVE Before(db, s, m, w)
  <2>1. m \in Units /\ w \in Units /\ m # w /\ r[m] = a /\ BuildOf[m] = c
    BY <1>2, <1>6, <1>7
  <2>2. \/ r[m] < r[w]
        \/ r[m] = r[w] /\ BuildOf[m] < BuildOf[w]
        \/ r[m] = r[w] /\ BuildOf[m] = BuildOf[w] /\ m < w
    <3>1. a <= r[w] /\ a \in Nat /\ r[w] \in Nat
      BY <1>3, <1>4, <2>1
    <3>2. r[w] = a => c <= BuildOf[w] /\ c \in Nat /\ BuildOf[w] \in Nat
      BY <1>1, <1>5, <2>1
    <3>3. r[w] = a /\ BuildOf[w] = c => m <= w /\ m \in Nat /\ w \in Nat
      BY <1>1, <1>6, <2>1
    <3> HIDE DEF R, B, U
    <3>4. QED BY <2>1, <3>1, <3>2, <3>3
  <2> DEFINE q == [x \in {m, w} |-> r[x]]
  <2>3. q[m] = r[m] /\ q[w] = r[w]
    OBVIOUS
  <2>4. q = [x \in {m, w} |-> IF db[x].symbols[s].definition THEN 0 ELSE 1]
    BY <1>0, <2>1
  <2> HIDE DEF q
  <2>5. QED BY <2>2, <2>3, <2>4, BeforeIs
<1>8. m \in having
  BY <1>6
<1>9. QED BY <1>7, <1>8 DEF Best

\* A symbol that no replaced unit mentions, before or after, keeps its preferred variant.
LEMMA PreferredKept ==
  ASSUME StoreInv, NEW db, NEW b, NEW replaced, Replacing(db, b, replaced),
         NEW s \in Mentioned(db, Units),
         \A u \in replaced : s \notin DOMAIN facts[u].symbols /\ s \notin DOMAIN db[u].symbols
  PROVE  canonical[s] = Preferred(db, s)
<1> DEFINE Having(d) == {u \in Units : s \in DOMAIN d[u].symbols}
           First(S) == CHOOSE u \in S : TRUE
<1>1. \A u \in Units : u \notin replaced => db[u] = facts[u]
  BY DEF Replacing
<1>2. Having(db) = Having(facts) /\ \A u \in Having(db) : db[u] = facts[u]
  BY <1>1
<1>3. PICK u \in Units : s \in DOMAIN db[u].symbols
  BY DEF Mentioned
<1>4. u \in Having(db)
  BY <1>3
<1>5. s \in DOMAIN canonical
  <2>1. DOMAIN canonical = Mentioned(facts, Units)
    BY DEF StoreInv, FactStoreTypes
  <2>2. s \in DOMAIN facts[u].symbols
    BY <1>2, <1>3, <1>4
  <2>3. QED BY <2>1, <2>2 DEF Mentioned
<1>6. \A v, w \in Having(db) : Before(db, s, v, w) <=> Before(facts, s, v, w)
  BY <1>2 DEF Before
<1>7. Best(db, s) = {v \in Having(db) : \A w \in Having(db) \ {v} : Before(db, s, v, w)}
  BY DEF Best
<1>8. Best(facts, s) = {v \in Having(facts) : \A w \in Having(facts) \ {v} : Before(facts, s, v, w)}
  BY DEF Best
<1> HIDE DEF Having
<1>9. Best(db, s) = Best(facts, s)
  BY <1>2, <1>6, <1>7, <1>8
<1>10. /\ Preferred(db, s) = [unit |-> First(Best(db, s)), variant |-> db[First(Best(db, s))].symbols[s]]
       /\ Preferred(facts, s) = [unit |-> First(Best(facts, s)), variant |-> facts[First(Best(facts, s))].symbols[s]]
  BY DEF Preferred
<1> HIDE DEF First
<1>11. \A S : S # {} => First(S) \in S
  BY DEF First
<1>12. First(Best(db, s)) \in Having(db)
  <2>1. Best(db, s) # {}
    BY <1>3, BestExists
  <2>2. First(Best(db, s)) \in Best(db, s)
    BY <1>11, <2>1
  <2>3. QED BY <1>7, <2>2
<1>13. canonical[s] = Preferred(facts, s)
  BY <1>5 DEF StoreInv
<1>14. db[First(Best(db, s))] = facts[First(Best(db, s))]
  BY <1>2, <1>12
<1>15. QED BY <1>9, <1>10, <1>13, <1>14

\* Solutions: those of the affected functions are solved again, and the others stay true.
LEMMA SolvedAgain ==
  ASSUME StoreInv, NEW db, NEW b \in BuildVariants, NEW replaced, Replacing(db, b, replaced),
         NEW derived, DerivedOK(derived),
         NEW functions, NEW affected, affected = AffectedFunctions(db, b, derived, functions),
         \A y \in Summaries(facts, replaced) : y[2] \in functions,
         \A y \in Summaries(db, replaced) : y[2] \in functions,
         \A s \in ChangedSites(candidates, derived) : s.owner \in functions,
         NEW x \in Summaries(db, Of(b))
  PROVE  (IF x[2] \in affected
          THEN Solve(db, b, derived, SelectedFunctions(db, b, derived, affected))[x]
          ELSE solution[x])
           = Solve(db, b, derived, Symbols)[x]
<1>1. FactsOK(facts) /\ FactsOK(db) /\ FreshSolutions(facts, candidates, solution)
  BY DEF StoreInv, Replacing
<1> DEFINE graph == Calls(db, b, derived)
<1>2. IsFiniteSet(graph) /\ graph \subseteq Symbols \X Symbols
  BY <1>1, CallsFinite
<1>3. affected = Callers(functions, graph)
  BY DEF AffectedFunctions
<1> HIDE DEF graph
<1>4. /\ functions \subseteq affected
      /\ \A f, g : <<f, g>> \in graph /\ g \in affected => f \in affected
  BY <1>2, <1>3, CallersClosed
<1>5. CASE x[2] \in affected
  <2> DEFINE selected == SelectedFunctions(db, b, derived, affected)
             indexed == {y[2] : y \in Summaries(db, Of(b))}
  <2>1. x[2] \in selected /\ \A f, g : <<f, g>> \in graph /\ f \in selected
          => \/ g \in selected
             \/ \A y \in Summaries(db, Of(b)) : y[2] # g
    <3>1. CASE indexed \subseteq affected
      <4>1. selected = indexed
        BY <3>1 DEF SelectedFunctions
      <4>2. QED BY <4>1
    <3>2. CASE ~(indexed \subseteq affected)
      <4>1. selected = Callees(affected, graph)
        BY <3>2 DEF SelectedFunctions, graph
      <4> HIDE DEF selected
      <4>2. /\ affected \subseteq selected
            /\ \A f, g : <<f, g>> \in graph /\ f \in selected => g \in selected
        BY <1>2, <4>1, CalleesClosed
      <4>3. QED BY <1>5, <4>2
    <3>3. QED BY <3>1, <3>2
  <2> HIDE DEF selected
  <2>2. Solve(db, b, derived, selected)[x] = Solve(db, b, derived, Symbols)[x]
    BY <1>1, <2>1, SelectedSolution DEF graph
  <2>3. QED BY <1>5, <2>2 DEF selected
<1>6. CASE x[2] \notin affected
  <2>1. \A u \in Of(b) \ replaced : facts[u] = db[u]
    BY DEF Replacing, Of
  <2>2. \A y \in Summaries(facts, Of(b)) : y[1] \in replaced => y[2] \in affected
    <3>1. \A y \in Summaries(facts, Of(b)) : y[1] \in replaced => y \in Summaries(facts, replaced)
      BY BodyShape, BodyIs
    <3>2. QED BY <1>4, <3>1
  <2>3. \A y \in Summaries(db, Of(b)) : y[1] \in replaced => y[2] \in affected
    <3>1. \A y \in Summaries(db, Of(b)) : y[1] \in replaced => y \in Summaries(db, replaced)
      BY BodyShape, BodyIs
    <3>2. QED BY <1>4, <3>1
  <2>4. \A f, g : <<f, g>> \in Calls(db, b, derived) /\ g \in affected => f \in affected
    BY <1>4 DEF graph
  <2>5. \A s \in Sites(facts, b) : s.unit \notin replaced /\ s.owner \notin affected
          => Targets(candidates, s) = Targets(derived, s)
    <3>1. SUFFICES ASSUME NEW s \in Sites(facts, b), s.owner \notin affected
          PROVE  Targets(candidates, s) = Targets(derived, s)
      OBVIOUS
    <3>2. s \notin ChangedSites(candidates, derived)
      BY <1>4, <3>1
    <3>3. {d \in candidates : d[1] = s} = {d \in derived : d[1] = s}
      BY <3>2 DEF ChangedSites
    <3>4. QED BY <3>3 DEF Targets
  <2>6. /\ x \in Summaries(facts, Of(b))
        /\ Solve(db, b, derived, Symbols)[x] = Solve(facts, b, candidates, Symbols)[x]
    <3>1. Covers(affected, facts, candidates, db, derived, b, replaced)
      BY <2>1, <2>2, <2>3, <2>4, <2>5 DEF Covers
    <3>2. QED BY <1>1, <1>6, <3>1, SameSolution
  <2>7. QED BY <1>1, <1>6, <2>6 DEF FreshSolutions
<1>7. QED BY <1>5, <1>6

\* The units whose caches go, among them the replaced and those with changed call targets.
Stale(gone, replaced, derived) ==
  /\ replaced \subseteq gone
  /\ \A s \in ChangedSites(candidates, derived) : s.unit \in gone

\* Tokens: those that stay have no unit whose facts or call targets changed.
LEMMA TokensKept ==
  ASSUME StoreInv, NEW db, NEW b, NEW replaced, Replacing(db, b, replaced),
         NEW derived, NEW gone, Stale(gone, replaced, derived),
         NEW rows, rows = [u \in Units |-> IF u \in gone THEN NotCached ELSE cache[u]],
         NEW g \in ValidTokens(tokens, rows), NEW u \in DOMAIN g
  PROVE  /\ u \in stored \ replaced /\ db[u] = g[u]
         /\ rows[u].seen = {c \in derived : c[1].unit = u}
<1>0. replaced \subseteq gone /\ \A s \in ChangedSites(candidates, derived) : s.unit \in gone
  BY DEF Stale
<1>1. g \in tokens /\ rows[u].generation = g
  BY DEF ValidTokens
<1>2. u \in stored /\ u \in Units
  BY <1>1 DEF StoreInv, FactStoreTypes
<1>3. facts[u] = g[u] /\ cache[u].seen = {c \in candidates : c[1].unit = u}
  BY <1>1 DEF StoreInv, TokensSawOverrides
<1>4. u \notin gone
  <2>1. SUFFICES ASSUME u \in gone PROVE FALSE
    OBVIOUS
  <2>2. rows[u] = NotCached /\ NotCached.generation = <<>>
    BY <1>2, <2>1 DEF NotCached
  <2>3. DOMAIN g = {}
    BY <1>1, <2>2
  <2>4. QED BY <2>3
<1>5. db[u] = facts[u]
  BY <1>0, <1>2, <1>4 DEF Replacing
<1>6. {c \in candidates : c[1].unit = u} = {c \in derived : c[1].unit = u}
  <2>1. ASSUME NEW c, c[1].unit = u, c \in (candidates \ derived) \cup (derived \ candidates)
        PROVE  FALSE
    <3>1. c[1] \in ChangedSites(candidates, derived)
      BY <2>1 DEF ChangedSites
    <3>2. QED BY <1>0, <1>4, <2>1, <3>1
  <2>2. QED BY <2>1
<1>7. rows[u] = cache[u]
  BY <1>2, <1>4
<1>8. QED BY <1>0, <1>2, <1>3, <1>4, <1>5, <1>6, <1>7

-----------------------------------------------------------------------------
(* The actions.                                                            *)

LEMMA ReplaceIs ==
  ASSUME NEW db, NEW removed, NEW new
  PROVE  /\ Replace(db, removed, new) = [u \in Units |-> Replace(db, removed, new)[u]]
         /\ \A u \in Units :
              /\ u \in DOMAIN new => Replace(db, removed, new)[u] = new[u]
              /\ u \in removed /\ u \notin DOMAIN new => Replace(db, removed, new)[u] = Absent
              /\ u \notin removed /\ u \notin DOMAIN new => Replace(db, removed, new)[u] = db[u]
<1>1. ASSUME NEW u \in Units
      PROVE  Replace(db, removed, new)[u] = CASE u \in DOMAIN new -> new[u]
                                              [] u \in removed \ DOMAIN new -> Absent
                                              [] OTHER -> db[u]
  BY DEF Replace
<1>2. Replace(db, removed, new) = [u \in Units |-> Replace(db, removed, new)[u]]
  BY DEF Replace
<1>3. QED BY <1>1, <1>2

Replaces(b, replaced, new) ==
  /\ replaced \subseteq Of(b) /\ DOMAIN new \subseteq replaced
  /\ \A u \in DOMAIN new : new[u] \in FactsOf[u]

\* What the transactions have in common: replaced units get other facts or none, all
\* others keep theirs, and only stored ones have any.
LEMMA ReplacedFacts ==
  ASSUME StoreInv, NEW b, NEW replaced, NEW new, Replaces(b, replaced, new),
         NEW db, db = Replace(facts, replaced, new)
  PROVE  /\ Replacing(db, b, replaced)
         /\ db \in [Units -> (UNION {FactsOf[u] : u \in Units}) \cup {Absent}]
         /\ \A u \in DOMAIN new : db[u] = new[u]
         /\ \A u \in replaced \ DOMAIN new : db[u] = Absent
         /\ \A u \in Units \ ((stored \ replaced) \cup DOMAIN new) : db[u] = Absent
<1>1. /\ db = [u \in Units |-> db[u]]
      /\ \A u \in Units : /\ u \in DOMAIN new => db[u] = new[u]
                          /\ u \in replaced /\ u \notin DOMAIN new => db[u] = Absent
                          /\ u \notin replaced /\ u \notin DOMAIN new => db[u] = facts[u]
  BY ReplaceIs
<1>2. /\ replaced \subseteq Of(b) /\ DOMAIN new \subseteq replaced /\ replaced \subseteq Units
      /\ \A u \in DOMAIN new : new[u] \in FactsOf[u]
  BY DEF Of, Replaces
<1>3. FactsOK(facts) /\ \A u \in Units \ stored : facts[u] = Absent
  BY DEF StoreInv
<1>4. \A u \in Units : db[u] = Absent \/ db[u] \in FactsOf[u]
  <2>1. SUFFICES ASSUME NEW u \in Units PROVE db[u] = Absent \/ db[u] \in FactsOf[u]
    OBVIOUS
  <2>2. CASE u \in DOMAIN new
    <3>1. db[u] = new[u]
      BY <1>1, <2>2
    <3>2. QED BY <1>2, <2>2, <3>1
  <2>3. CASE u \in replaced /\ u \notin DOMAIN new
    BY <1>1, <2>3
  <2>4. CASE u \notin replaced /\ u \notin DOMAIN new
    <3>1. db[u] = facts[u]
      BY <1>1, <2>4
    <3>2. QED BY <1>3, <3>1 DEF FactsOK
  <2>5. QED BY <2>2, <2>3, <2>4
<1>5. Replacing(db, b, replaced)
  <2>1. FactsOK(db)
    BY <1>4 DEF FactsOK
  <2>2. \A u \in Units \ replaced : db[u] = facts[u]
    BY <1>1, <1>2
  <2>3. QED BY <1>2, <2>1, <2>2 DEF Replacing
<1>6. db \in [Units -> (UNION {FactsOf[u] : u \in Units}) \cup {Absent}]
  <2>1. \A u \in Units : db[u] \in (UNION {FactsOf[v] : v \in Units}) \cup {Absent}
    BY <1>4
  <2>2. QED BY <1>1, <2>1
<1>7. QED BY <1>1, <1>2, <1>3, <1>5, <1>6

\* Documents: those of the replaced units go, those of the new units come.
LEMMA DocumentsKept ==
  ASSUME StoreInv, NEW db, NEW b, NEW replaced, Replacing(db, b, replaced),
         NEW changed, changed \subseteq replaced, \A u \in replaced \ changed : db[u] = Absent
  PROVE  {d \in documents : d[1] \notin replaced} \cup Documents(db, changed) = Documents(db, Units)
<1>1. \A D, S : \A d : d \in Documents(D, S) <=>
        \E u \in S : \E s \in DOMAIN D[u].symbols : d = <<u, s, D[u].symbols[s].text>>
  BY DEF Documents
<1>2. documents = Documents(facts, Units)
  BY DEF StoreInv
<1>3. DOMAIN Absent.symbols = {}
  BY DEF Absent
<1>4. replaced \subseteq Units /\ \A u \in Units \ replaced : db[u] = facts[u]
  BY DEF Replacing, Of
<1>5. ASSUME NEW d \in documents, d[1] \notin replaced PROVE d \in Documents(db, Units)
  <2>1. PICK u \in Units : \E s \in DOMAIN facts[u].symbols : d = <<u, s, facts[u].symbols[s].text>>
    BY <1>1, <1>2
  <2>2. PICK s \in DOMAIN facts[u].symbols : d = <<u, s, facts[u].symbols[s].text>>
    BY <2>1
  <2>3. u \notin replaced
    BY <1>5, <2>2
  <2>4. db[u] = facts[u]
    BY <1>4, <2>3
  <2>5. QED BY <1>1, <2>2, <2>4
<1>6. Documents(db, changed) \subseteq Documents(db, Units)
  BY <1>4 DEF Documents
<1>7. ASSUME NEW d \in Documents(db, Units)
      PROVE  (d \in documents /\ d[1] \notin replaced) \/ d \in Documents(db, changed)
  <2>1. PICK u \in Units : \E s \in DOMAIN db[u].symbols : d = <<u, s, db[u].symbols[s].text>>
    BY <1>1
  <2>2. PICK s \in DOMAIN db[u].symbols : d = <<u, s, db[u].symbols[s].text>>
    BY <2>1
  <2>3. CASE u \in changed
    BY <1>1, <2>2, <2>3
  <2>4. CASE u \in replaced \ changed
    BY <1>3, <2>2, <2>4
  <2>5. CASE u \notin replaced
    <3>1. db[u] = facts[u] /\ d[1] = u
      BY <1>4, <2>2, <2>5
    <3>2. d \in documents
      BY <1>1, <1>2, <2>2, <3>1
    <3>3. QED BY <2>5, <3>1, <3>2
  <2>6. QED BY <2>3, <2>4, <2>5
<1>8. QED BY <1>5, <1>6, <1>7

\* What is left of the invariant once a transaction has given every part its value.
LEMMA NextInv ==
  ASSUME StoreInv, NEW db, NEW b, NEW replaced, Replacing(db, b, replaced),
         db \in [Units -> (UNION {FactsOf[u] : u \in Units}) \cup {Absent}],
         NEW changed, changed \subseteq replaced, \A u \in replaced \ changed : db[u] = Absent,
         NEW rows, \A u \in Units \ rows : db[u] = Absent,
         rows = (stored \ replaced) \cup changed,
         NEW derived, derived = AllCandidates(db),
         NEW solved, DOMAIN solved = Summaries(db, Units), FreshSolutions(db, derived, solved),
         NEW touched, touched = Mentioned(facts, replaced) \cup Mentioned(db, changed),
         NEW gone, Stale(gone, replaced, derived),
         facts' = db, stored' = rows, candidates' = derived, solution' = solved,
         RefreshSymbols(db, touched), RefreshDocuments(db, replaced, changed), DropCaches(gone)
  PROVE  StoreInv'
<1>1. FactsOK(db) /\ replaced \subseteq Units
  BY DEF Replacing, Of
<1>2. rows \subseteq Units
  BY <1>1 DEF StoreInv, FactStoreTypes
<1>3. /\ DOMAIN canonical' = Mentioned(db, Units)
      /\ \A s \in DOMAIN canonical' : canonical'[s] = Preferred(db, s)
  <2>1. canonical' = [s \in Mentioned(db, Units) |->
                        IF s \in touched THEN Preferred(db, s) ELSE canonical[s]]
    BY DEF RefreshSymbols
  <2>2. ASSUME NEW s \in Mentioned(db, Units), s \notin touched PROVE canonical[s] = Preferred(db, s)
    <3>1. \A u \in replaced : s \notin DOMAIN facts[u].symbols
      BY <2>2 DEF Mentioned
    <3>2. \A u \in changed : s \notin DOMAIN db[u].symbols
      BY <2>2 DEF Mentioned
    <3>3. DOMAIN Absent.symbols = {}
      BY DEF Absent
    <3>4. \A u \in replaced : s \notin DOMAIN db[u].symbols
      BY <3>2, <3>3
    <3>5. QED BY <3>1, <3>4, PreferredKept
  <2>3. QED BY <2>1, <2>2
<1>4. documents' = Documents(db, Units)
  <2>1. CASE ~project
    BY <2>1 DEF RefreshDocuments
  <2>2. CASE project
    <3>1. documents' = {d \in documents : d[1] \notin replaced} \cup Documents(db, changed)
      BY <2>2 DEF RefreshDocuments
    <3>2. QED BY <3>1, DocumentsKept
  <2>3. QED BY <2>1, <2>2
<1>5. \A g \in tokens' : \A u \in DOMAIN g :
        u \in rows /\ db[u] = g[u] /\ cache'[u].seen = {c \in derived : c[1].unit = u}
  <2>1. /\ cache' = [u \in Units |-> IF u \in gone THEN NotCached ELSE cache[u]]
        /\ tokens' = ValidTokens(tokens, cache')
    BY DEF DropCaches
  <2>2. ASSUME NEW g \in tokens', NEW u \in DOMAIN g
        PROVE  u \in stored \ replaced /\ db[u] = g[u] /\ cache'[u].seen = {c \in derived : c[1].unit = u}
    <3>1. g \in ValidTokens(tokens, cache')
      BY <2>1
    <3> DEFINE cached == cache'
    <3>2. cached = [v \in Units |-> IF v \in gone THEN NotCached ELSE cache[v]]
      BY <2>1
    <3>3. g \in ValidTokens(tokens, cached)
      BY <3>1
    <3> HIDE DEF cached
    <3>4. /\ u \in stored \ replaced /\ db[u] = g[u]
          /\ cached[u].seen = {c \in derived : c[1].unit = u}
      BY <2>2, <3>2, <3>3, TokensKept
    <3>5. QED BY <3>4 DEF cached
  <2>3. QED BY <2>2
<1>6. FactStoreTypes'
  BY <1>2, <1>3, <1>5 DEF FactStoreTypes, Summaries, Mentioned
<1>7. FactsOK(facts')
  BY <1>1
<1>8. FreshSolutions(facts', candidates', solution')
  OBVIOUS
<1>9. TokensSawOverrides'
  BY <1>5 DEF TokensSawOverrides
<1>17. FactsOK(facts)'
  BY <1>7 DEF FactsOK
<1>10. FreshSolutions(facts, candidates, solution)'
  <2>1. \A x : Solve(facts, x, candidates, Symbols)' = Solve(db, x, derived, Symbols)
    BY DEF Solve, SelectedBodies, Steps, Sites, Targets, BodiesOf, Summaries, Reached, Of
  <2>2. \A S : Summaries(facts, S)' = Summaries(db, S)
    BY DEF Summaries
  <2>3. QED BY <2>1, <2>2 DEF FreshSolutions
<1>11. AllCandidates(facts)' = AllCandidates(db)
  <2>1. \A x : Sites(facts, x)' = Sites(db, x)
    BY DEF Sites, Of
  <2>2. \A x, y : Overriders(facts, x, y)' = Overriders(db, x, y)
    BY DEF Overriders, Reached, Inverted, Of
  <2>3. \A x : Candidates(facts, x)' = Candidates(db, x)
    BY <2>1, <2>2 DEF Candidates
  <2>4. QED BY <2>3 DEF AllCandidates
<1>12. Documents(facts, Units)' = Documents(db, Units)
  BY DEF Documents
<1>13. \A s : Preferred(facts, s)' = Preferred(db, s)
  BY DEF Preferred, Best, Before
<1>14. (\A u \in Units \ stored : facts[u] = Absent)'
  OBVIOUS
<1>15. (\A s \in DOMAIN canonical : canonical[s] = Preferred(facts, s))'
  BY <1>3, <1>13
<1>16. QED BY <1>4, <1>6, <1>9, <1>10, <1>11, <1>12, <1>14, <1>15, <1>17 DEF StoreInv

LEMMA InitInv == StoreInit => StoreInv
<1> SUFFICES ASSUME StoreInit PROVE StoreInv
  OBVIOUS
<1> USE DEF StoreInit
<1>1. facts = [u \in Units |-> Absent] /\ \A u \in Units : facts[u] = Absent
  OBVIOUS
<1>2. DOMAIN Absent.symbols = {} /\ DOMAIN Absent.bodies = {} /\ DOMAIN <<>> = {}
  BY DEF Absent
<1>3. FactsOK(facts)
  BY <1>1 DEF FactsOK
<1>4. Summaries(facts, Units) = {} /\ Mentioned(facts, Units) = {}
  <2>1. Summaries(facts, Units) = {}
    <3>1. SUFFICES ASSUME NEW x \in Summaries(facts, Units) PROVE FALSE
      OBVIOUS
    <3>2. x[1] \in Units /\ x[2] \in DOMAIN facts[x[1]].bodies
      BY BodyShape
    <3>3. QED BY <1>1, <1>2, <3>2
  <2>2. Mentioned(facts, Units) = {}
    BY <1>1, <1>2 DEF Mentioned
  <2>3. QED BY <2>1, <2>2
<1>5. FactStoreTypes
  BY <1>1, <1>2, <1>4 DEF FactStoreTypes
<1>6. \A b \in BuildVariants : Candidates(facts, b) = {} /\ Summaries(facts, Of(b)) = {}
  BY <1>1, NothingOfAbsent DEF Of
<1>7. candidates = AllCandidates(facts)
  BY <1>6 DEF AllCandidates
<1>8. FreshSolutions(facts, candidates, solution)
  BY <1>6 DEF FreshSolutions
<1>9. documents = Documents(facts, Units)
  BY <1>1, <1>2 DEF Documents
<1>10. TokensSawOverrides
  BY DEF TokensSawOverrides
<1>11. \A s \in DOMAIN canonical : canonical[s] = Preferred(facts, s)
  BY <1>2
<1>12. QED BY <1>1, <1>3, <1>5, <1>7, <1>8, <1>9, <1>10, <1>11 DEF StoreInv

\* An index run keeps the invariant.
LEMMA IndexInv ==
  ASSUME StoreInv, NEW b \in BuildVariants, NEW listed, NEW changed \in SUBSET Of(b),
         NEW new, DOMAIN new = changed, \A u \in changed : new[u] \in FactsOf[u],
         Index(b, listed, new)
  PROVE  StoreInv'
<1> DEFINE replaced == ((stored \cap Of(b)) \ listed) \cup DOMAIN new
           db == Replace(facts, replaced, new)
           derived == {c \in candidates : BuildOf[c[1].unit] # b} \cup Candidates(db, b)
           sites == ChangedSites(candidates, derived)
           overriding == OverrideAffected(db, b, sites, derived)
           functions == TrackedFunctions(b, replaced) \cup
                          {x[2] : x \in Summaries(db, DOMAIN new)} \cup overriding
           affected == AffectedFunctions(db, b, derived, functions)
           solver == Solve(db, b, derived, SelectedFunctions(db, b, derived, affected))
           solved == [x \in Summaries(db, Units) |->
                        IF x[1] \in Of(b) /\ x[2] \in affected THEN solver[x] ELSE solution[x]]
           rows == (stored \ replaced) \cup DOMAIN new
           touched == Mentioned(facts, replaced) \cup Mentioned(db, DOMAIN new)
           gone == replaced \cup StaleUnits(db, b, sites, overriding)
<1>1. /\ stored' = rows /\ facts' = db /\ candidates' = derived /\ solution' = solved
      /\ RefreshSymbols(db, touched) /\ RefreshDocuments(db, replaced, DOMAIN new)
      /\ DropCaches(gone)
  BY DEF Index
<1>2. replaced \subseteq Of(b) /\ DOMAIN new \subseteq replaced
  OBVIOUS
<1> HIDE DEF replaced
<1>3. /\ Replacing(db, b, replaced)
      /\ db \in [Units -> (UNION {FactsOf[u] : u \in Units}) \cup {Absent}]
      /\ \A u \in replaced \ DOMAIN new : db[u] = Absent
      /\ \A u \in Units \ rows : db[u] = Absent
  <2>1. Replaces(b, replaced, new)
    BY <1>2 DEF Replaces
  <2>2. QED BY <2>1, ReplacedFacts
<1> HIDE DEF db
<1>4. FactsOK(db) /\ FactsOK(facts) /\ candidates = AllCandidates(facts)
  BY <1>3 DEF Replacing, StoreInv
<1>5. derived = AllCandidates(db)
  <2>1. \A other \in BuildVariants : other # b => Candidates(db, other) = Candidates(facts, other)
    <3>1. SUFFICES ASSUME NEW other \in BuildVariants, other # b
          PROVE  Candidates(db, other) = Candidates(facts, other)
      OBVIOUS
    <3>2. \A u \in Of(other) : db[u] = facts[u]
      BY <1>2, <1>3, <3>1 DEF Replacing, Of
    <3>3. QED BY <3>2, CandidatesSame
  <2>2. ASSUME NEW c \in AllCandidates(db) PROVE c \in derived
    <3>1. PICK other \in BuildVariants : c \in Candidates(db, other) /\ BuildOf[c[1].unit] = other
      BY <1>4, AllCandidatesOK
    <3>2. CASE other = b
      BY <3>1, <3>2
    <3>3. CASE other # b
      <4>1. c \in AllCandidates(facts)
        BY <2>1, <3>1, <3>3 DEF AllCandidates
      <4>2. QED BY <1>4, <3>1, <3>3, <4>1
    <3>4. QED BY <3>2, <3>3
  <2>3. ASSUME NEW c \in candidates, BuildOf[c[1].unit] # b PROVE c \in AllCandidates(db)
    <3>1. PICK other \in BuildVariants : c \in Candidates(facts, other) /\ BuildOf[c[1].unit] = other
      BY <1>4, AllCandidatesOK
    <3>2. c \in Candidates(db, other)
      BY <2>1, <2>3, <3>1
    <3>3. QED BY <3>2 DEF AllCandidates
  <2>4. Candidates(db, b) \subseteq AllCandidates(db)
    BY DEF AllCandidates
  <2>5. QED BY <2>2, <2>3, <2>4
<1>6. \A c : BuildOf[c[1].unit] # b => (c \in derived <=> c \in candidates)
  <2>1. \A c \in Candidates(db, b) : BuildOf[c[1].unit] = b
    BY <1>4, CandidateShape
  <2>2. QED BY <2>1
<1>7. DerivedOK(derived) /\ DerivedOK(candidates)
  BY <1>4, <1>5, AllCandidatesOK
<1> HIDE DEF derived
<1>8. /\ {s.owner : s \in sites} \subseteq overriding
      /\ \A f \in overriding : f \in functions
  <2> DEFINE graph == Calls(db, b, derived)
             owners == {s.owner : s \in sites}
  <2>1. IsFiniteSet(graph) /\ graph \subseteq Symbols \X Symbols
    BY <1>4, <1>7, CallsFinite
  <2>2. overriding = Callers(owners, graph)
    BY DEF OverrideAffected
  <2> HIDE DEF graph, owners, overriding
  <2>3. owners \subseteq overriding
    BY <2>1, <2>2, CallersClosed
  <2>4. QED BY <2>3 DEF owners
<1>9. Stale(gone, replaced, derived)
  BY DEF Stale, StaleUnits
<1> HIDE DEF overriding
<1>10. \A y \in Summaries(facts, replaced) : y[2] \in functions
  <2> DEFINE graph == Calls(facts, b, candidates)
             had == {x[2] : x \in Summaries(facts, replaced)}
  <2>1. IsFiniteSet(graph) /\ graph \subseteq Symbols \X Symbols
    BY <1>4, <1>7, CallsFinite
  <2>2. TrackedFunctions(b, replaced) = Callers(had, graph)
    BY DEF TrackedFunctions
  <2> HIDE DEF graph, had
  <2>3. had \subseteq TrackedFunctions(b, replaced)
    BY <2>1, <2>2, CallersClosed
  <2>4. QED BY <2>3 DEF had
<1>11. \A y \in Summaries(db, replaced) : y[2] \in functions
  <2>1. SUFFICES ASSUME NEW y \in Summaries(db, replaced) PROVE y[2] \in functions
    OBVIOUS
  <2>2. y = <<y[1], y[2]>> /\ y[1] \in replaced /\ y[2] \in DOMAIN db[y[1]].bodies
    BY BodyShape
  <2>3. DOMAIN Absent.bodies = {}
    BY DEF Absent
  <2>4. y[1] \in DOMAIN new
    BY <1>3, <2>2, <2>3
  <2>5. y \in Summaries(db, DOMAIN new)
    BY <2>2, <2>4, BodyIs
  <2>6. QED BY <2>5
<1>12. \A s \in sites : s.owner \in functions
  BY <1>8
<1> HIDE DEF functions, sites
<1>13. FreshSolutions(db, derived, solved)
  <2>1. SUFFICES ASSUME NEW other \in BuildVariants, NEW x \in Summaries(db, Of(other))
        PROVE  solved[x] = Solve(db, other, derived, Symbols)[x]
    BY DEF FreshSolutions
  <2>2. x = <<x[1], x[2]>> /\ x[1] \in Of(other) /\ x[1] \in Units /\ BuildOf[x[1]] = other
    BY BodyShape DEF Of
  <2>3. x \in Summaries(db, Units)
    BY <2>2, BodyShape, BodyIs
  <2>4. solved[x] = IF x[1] \in Of(b) /\ x[2] \in affected THEN solver[x] ELSE solution[x]
    BY <2>3
  <2>5. CASE other = b
    <3>1. (IF x[2] \in affected THEN solver[x] ELSE solution[x]) = Solve(db, b, derived, Symbols)[x]
      <4> HIDE DEF affected
      <4>1. affected = AffectedFunctions(db, b, derived, functions)
        BY DEF affected
      <4>2. \A s \in ChangedSites(candidates, derived) : s.owner \in functions
        BY <1>12 DEF sites
      <4>3. QED BY <1>3, <1>7, <1>10, <1>11, <2>5, <4>1, <4>2, SolvedAgain
    <3>2. x[1] \in Of(b)
      BY <2>2, <2>5
    <3>3. QED BY <2>4, <2>5, <3>1, <3>2
  <2>6. CASE other # b
    <3>1. solved[x] = solution[x]
      BY <2>2, <2>4, <2>6 DEF Of
    <3>2. QED BY <1>3, <1>6, <2>6, <3>1, OtherSolutions
  <2>7. QED BY <2>5, <2>6
<1>14. DOMAIN solved = Summaries(db, Units)
  OBVIOUS
<1>15. rows = (stored \ replaced) \cup DOMAIN new /\ touched = Mentioned(facts, replaced) \cup Mentioned(db, DOMAIN new)
  OBVIOUS
<1> HIDE DEF solved, rows, touched, gone
<1>16. QED
  BY <1>1, <1>2, <1>3, <1>5, <1>9, <1>13, <1>14, <1>15, NextInv

\* The removal of a build keeps it.
LEMMA RemoveInv ==
  ASSUME StoreInv, NEW b \in BuildVariants, RemoveBuild(b)
  PROVE  StoreInv'
<1> DEFINE replaced == stored \cap Of(b)
           none == {}
           db == Replace(facts, replaced, <<>>)
           derived == {c \in candidates : c[1].unit \notin replaced}
           solved == [x \in Summaries(db, Units) |-> solution[x]]
           rows == (stored \ replaced) \cup none
           touched == Mentioned(facts, replaced) \cup Mentioned(db, none)
<1>1. /\ stored' = rows /\ facts' = db /\ candidates' = derived /\ solution' = solved
      /\ RefreshSymbols(db, touched) /\ RefreshDocuments(db, replaced, none)
      /\ DropCaches(replaced)
  <2>1. Mentioned(db, none) = {}
    BY DEF Mentioned
  <2> HIDE DEF db
  <2>2. touched = Mentioned(facts, replaced)
    BY <2>1
  <2>3. QED BY <2>2 DEF RemoveBuild, Restrict, db
<1>2. replaced \subseteq Of(b) /\ DOMAIN <<>> = {} /\ replaced \subseteq Units
  BY DEF Of
<1>3. \A u \in Of(b) \ replaced : facts[u] = Absent
  BY DEF StoreInv, Of
<1> HIDE DEF replaced
<1>4. /\ Replacing(db, b, replaced)
      /\ db \in [Units -> (UNION {FactsOf[u] : u \in Units}) \cup {Absent}]
      /\ \A u \in replaced \ none : db[u] = Absent
      /\ \A u \in Units \ rows : db[u] = Absent
  <2> DEFINE new == <<>>
  <2>1. DOMAIN new = none /\ DOMAIN new \subseteq replaced /\ \A u \in DOMAIN new : new[u] \in FactsOf[u]
    BY <1>2
  <2>2. db = Replace(facts, replaced, new)
    OBVIOUS
  <2> HIDE DEF new, db, none, rows
  <2>3. /\ Replacing(db, b, replaced)
        /\ db \in [Units -> (UNION {FactsOf[u] : u \in Units}) \cup {Absent}]
        /\ \A u \in replaced \ DOMAIN new : db[u] = Absent
        /\ \A u \in Units \ ((stored \ replaced) \cup DOMAIN new) : db[u] = Absent
    <3>1. Replaces(b, replaced, new)
      BY <1>2, <2>1 DEF Replaces
    <3>2. QED BY <2>2, <3>1, ReplacedFacts
  <2>4. QED BY <2>1, <2>3 DEF rows
<1> HIDE DEF db
<1>5. FactsOK(db) /\ FactsOK(facts) /\ candidates = AllCandidates(facts)
  BY <1>4 DEF Replacing, StoreInv
<1>6. \A u \in Of(b) : db[u] = Absent
  <2>1. SUFFICES ASSUME NEW u \in Of(b) PROVE db[u] = Absent
    OBVIOUS
  <2>2. CASE u \in replaced
    BY <1>4, <2>2
  <2>3. CASE u \notin replaced
    BY <1>3, <1>4, <2>3 DEF Replacing, Of
  <2>4. QED BY <2>2, <2>3
<1>7. \A c \in candidates : BuildOf[c[1].unit] = b => c[1].unit \in replaced
  <2>1. SUFFICES ASSUME NEW c \in candidates, BuildOf[c[1].unit] = b, c[1].unit \notin replaced
        PROVE  FALSE
    OBVIOUS
  <2>2. PICK other \in BuildVariants :
          c \in Candidates(facts, other) /\ BuildOf[c[1].unit] = other /\ c[1].unit \in Of(other)
    BY <1>5, AllCandidatesOK
  <2>3. c[1] \in Sites(facts, b) /\ c[1].unit \in Of(b)
    BY <1>5, <2>1, <2>2, CandidateShape
  <2>4. facts[c[1].unit] = Absent
    BY <1>3, <2>1, <2>3
  <2>5. \E u \in Of(b) : \E a \in facts[u].calls :
          c[1] = [unit |-> u, owner |-> a.owner, static |-> a.static, virtual |-> a.virtual]
    BY <2>3, SiteIs
  <2>6. facts[c[1].unit].calls # {}
    BY <2>5
  <2>7. QED BY <2>4, <2>6 DEF Absent
<1>8. \A c : BuildOf[c[1].unit] # b => (c \in derived <=> c \in candidates)
  BY <1>2 DEF Of
<1>9. derived = AllCandidates(db)
  <2>1. Candidates(db, b) = {}
    BY <1>6, NothingOfAbsent
  <2>2. \A other \in BuildVariants : other # b => Candidates(db, other) = Candidates(facts, other)
    <3>1. SUFFICES ASSUME NEW other \in BuildVariants, other # b
          PROVE  Candidates(db, other) = Candidates(facts, other)
      OBVIOUS
    <3>2. \A u \in Of(other) : db[u] = facts[u]
      BY <1>2, <1>4, <3>1 DEF Replacing, Of
    <3>3. QED BY <3>2, CandidatesSame
  <2>3. ASSUME NEW c \in AllCandidates(db) PROVE c \in derived
    <3>1. PICK other \in BuildVariants : c \in Candidates(db, other) /\ BuildOf[c[1].unit] = other
      BY <1>5, AllCandidatesOK
    <3>2. c \in AllCandidates(facts) /\ other # b
      BY <2>1, <2>2, <3>1 DEF AllCandidates
    <3>3. QED BY <1>5, <1>8, <3>1, <3>2
  <2>4. ASSUME NEW c \in derived PROVE c \in AllCandidates(db)
    <3>1. c \in candidates /\ BuildOf[c[1].unit] # b
      BY <1>7
    <3>2. PICK other \in BuildVariants : c \in Candidates(facts, other) /\ BuildOf[c[1].unit] = other
      BY <1>5, <3>1, AllCandidatesOK
    <3>3. c \in Candidates(db, other)
      BY <2>2, <3>1, <3>2
    <3>4. QED BY <3>3 DEF AllCandidates
  <2>5. QED BY <2>3, <2>4
<1>10. Stale(replaced, replaced, derived)
  BY DEF Stale, ChangedSites
<1> HIDE DEF derived
<1>11. FreshSolutions(db, derived, solved)
  <2>1. SUFFICES ASSUME NEW other \in BuildVariants, NEW x \in Summaries(db, Of(other))
        PROVE  solved[x] = Solve(db, other, derived, Symbols)[x]
    BY DEF FreshSolutions
  <2>2. other # b
    BY <1>6, NothingOfAbsent
  <2>3. x \in Summaries(db, Units)
    BY BodyShape, BodyIs DEF Of
  <2>4. QED BY <1>4, <1>8, <2>2, <2>3, OtherSolutions
<1>12. DOMAIN solved = Summaries(db, Units) /\ none \subseteq replaced
  OBVIOUS
<1>13. rows = (stored \ replaced) \cup none /\ touched = Mentioned(facts, replaced) \cup Mentioned(db, none)
  OBVIOUS
<1> HIDE DEF solved, rows, touched, none
<1>14. QED
  BY <1>1, <1>4, <1>9, <1>10, <1>11, <1>12, <1>13, NextInv

\* Where the facts and what is derived of them stay, so does what the invariant says of them.
LEMMA DerivedStays ==
  ASSUME StoreInv, UNCHANGED <<stored, facts, candidates, solution, canonical, documents>>,
         FactStoreTypes', TokensSawOverrides'
  PROVE  StoreInv'
<1>1. FactsOK(facts)' /\ (\A u \in Units \ stored : facts[u] = Absent)'
  BY DEF StoreInv, FactsOK
<1>2. FreshSolutions(facts, candidates, solution)'
  <2>1. \A x : Solve(facts, x, candidates, Symbols)' = Solve(facts, x, candidates, Symbols)
    BY DEF Solve, SelectedBodies, Steps, Sites, Targets, BodiesOf, Summaries, Reached, Of
  <2>2. \A S : Summaries(facts, S)' = Summaries(facts, S)
    BY DEF Summaries
  <2>3. QED BY <2>1, <2>2 DEF StoreInv, FreshSolutions
<1>3. candidates' = AllCandidates(facts)'
  <2>1. \A x : Sites(facts, x)' = Sites(facts, x)
    BY DEF Sites, Of
  <2>2. \A x, y : Overriders(facts, x, y)' = Overriders(facts, x, y)
    BY DEF Overriders, Reached, Inverted, Of
  <2>3. \A x : Candidates(facts, x)' = Candidates(facts, x)
    BY <2>1, <2>2 DEF Candidates
  <2>4. QED BY <2>3 DEF StoreInv, AllCandidates
<1>4. documents' = Documents(facts, Units)'
  BY DEF StoreInv, Documents
<1>5. (\A s \in DOMAIN canonical : canonical[s] = Preferred(facts, s))'
  <2>1. \A s : Preferred(facts, s)' = Preferred(facts, s)
    BY DEF Preferred, Best, Before
  <2>2. QED BY <2>1 DEF StoreInv
<1>6. QED BY <1>1, <1>2, <1>3, <1>4, <1>5 DEF StoreInv

\* The publication of deep facts keeps it: they have the facts and the targets of today.
LEMMA PublishInv ==
  ASSUME StoreInv, NEW closure \in Closures, PublishToken(closure)
  PROVE  StoreInv'
<1> DEFINE generation == Restrict(facts, closure)
<1>1. /\ UNCHANGED <<stored, facts, candidates, solution, canonical, documents>>
      /\ closure \subseteq stored /\ stored \subseteq Units
      /\ tokens' = ValidTokens(tokens \cup {generation}, cache')
      /\ cache' = [u \in Units |->
           IF u \in closure
           THEN [generation |-> generation, seen |-> {c \in candidates : c[1].unit = u}]
           ELSE cache[u]]
  BY DEF PublishToken, StoreInv, FactStoreTypes
<1>2. generation = [u \in closure |-> facts[u]]
  BY DEF Restrict
<1> HIDE DEF generation
<1>3. ASSUME NEW g \in tokens', NEW u \in DOMAIN g
      PROVE  u \in stored /\ facts[u] = g[u] /\ cache'[u].seen = {c \in candidates : c[1].unit = u}
  <2>1. g \in tokens \cup {generation} /\ cache'[u].generation = g
    BY <1>1 DEF ValidTokens
  <2>2. CASE g = generation
    BY <1>1, <1>2, <2>2
  <2>3. CASE g # generation
    <3>1. u \in stored /\ facts[u] = g[u] /\ cache[u].seen = {c \in candidates : c[1].unit = u}
      BY <2>1, <2>3 DEF StoreInv, FactStoreTypes, TokensSawOverrides
    <3>2. u \notin closure
      BY <1>1, <2>1, <2>3
    <3>3. cache'[u] = cache[u]
      BY <1>1, <3>1, <3>2
    <3>4. QED BY <3>1, <3>3
  <2>4. QED BY <2>2, <2>3
<1>4. FactStoreTypes'
  <2>1. /\ stored \subseteq Units /\ facts \in [Units -> (UNION {FactsOf[u] : u \in Units}) \cup {Absent}]
        /\ DOMAIN solution = Summaries(facts, Units) /\ DOMAIN canonical = Mentioned(facts, Units)
    BY DEF StoreInv, FactStoreTypes
  <2>2. \A g \in tokens' : DOMAIN g \subseteq stored
    BY <1>3
  <2>3. Summaries(facts, Units)' = Summaries(facts, Units) /\ Mentioned(facts, Units)' = Mentioned(facts, Units)
    BY <1>1 DEF Summaries, Mentioned
  <2>4. QED BY <1>1, <2>1, <2>2, <2>3 DEF FactStoreTypes
<1>5. TokensSawOverrides'
  BY <1>1, <1>3 DEF TokensSawOverrides
<1>6. QED BY <1>1, <1>4, <1>5, DerivedStays

LEMMA StutterInv == StoreInv /\ UNCHANGED storeVars => StoreInv'
<1> SUFFICES ASSUME StoreInv, UNCHANGED storeVars PROVE StoreInv'
  OBVIOUS
<1> USE DEF storeVars
<1>1. FactStoreTypes'
  <2>1. FactStoreTypes
    BY DEF StoreInv
  <2>2. QED BY <2>1 DEF FactStoreTypes, Summaries, Mentioned
<1>2. TokensSawOverrides'
  BY DEF StoreInv, TokensSawOverrides
<1>3. QED BY <1>1, <1>2, DerivedStays

LEMMA NextKeepsInv == StoreInv /\ [StoreNext]_storeVars => StoreInv'
<1> SUFFICES ASSUME StoreInv, [StoreNext]_storeVars PROVE StoreInv'
  OBVIOUS
<1>1. CASE IndexRun
  <2>1. PICK b \in BuildVariants : \E listed \in SUBSET Of(b) : \E changed \in SUBSET listed :
          /\ listed \ changed \subseteq stored
          /\ \E new \in [changed -> UNION {FactsOf[u] : u \in Units}] :
               /\ \A u \in changed : new[u] \in FactsOf[u]
               /\ Index(b, listed, new)
    BY <1>1 DEF IndexRun
  <2>2. PICK listed \in SUBSET Of(b) : \E changed \in SUBSET listed :
          \E new \in [changed -> UNION {FactsOf[u] : u \in Units}] :
            /\ \A u \in changed : new[u] \in FactsOf[u]
            /\ Index(b, listed, new)
    BY <2>1
  <2>3. PICK changed \in SUBSET listed :
          \E new \in [changed -> UNION {FactsOf[u] : u \in Units}] :
            /\ \A u \in changed : new[u] \in FactsOf[u]
            /\ Index(b, listed, new)
    BY <2>2
  <2>4. PICK new \in [changed -> UNION {FactsOf[u] : u \in Units}] :
          (\A u \in changed : new[u] \in FactsOf[u]) /\ Index(b, listed, new)
    BY <2>3
  <2>5. DOMAIN new = changed /\ changed \in SUBSET Of(b)
    OBVIOUS
  <2>6. QED BY <2>4, <2>5, IndexInv
<1>2. CASE \E b \in BuildVariants : RemoveBuild(b)
  BY <1>2, RemoveInv
<1>3. CASE \E closure \in Closures : PublishToken(closure)
  BY <1>3, PublishInv
<1>4. CASE UNCHANGED storeVars
  BY <1>4, StutterInv
<1>5. QED BY <1>1, <1>2, <1>3, <1>4 DEF StoreNext

\* What the invariant says holds of every reachable store.
THEOREM StoreInvariant == FactStoreSpec => []StoreInv
<1>1. QED BY InitInv, NextKeepsInv, PTL DEF FactStoreSpec

\* apply_ingestion_batches replaces some units of a build, solves some summaries again and
\* refreshes some symbols and documents, remove_build_variant deletes a build: whatever
\* runs led to the present facts, for any units, overrides, calls and bodies, call targets,
\* solutions, preferred variants and documents are those of a store filled at once.
THEOREM IncrementalMatchesFresh == FactStoreSpec => []IncrementalIsFresh
<1>1. QED BY StoreInvariant, StoreInvIsFresh, PTL

\* A deep materialization that _delete_invalid_deep_materializations leaves in place has
\* the facts and the virtual call targets its units have today.
THEOREM TokensAreOfToday == FactStoreSpec => []TokensSawOverrides
<1>1. QED BY StoreInvariant, StoreInvIsFresh, PTL

=============================================================================
