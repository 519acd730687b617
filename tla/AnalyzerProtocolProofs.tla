----------------------- MODULE AnalyzerProtocolProofs -----------------------
(***************************************************************************)
(* Theorems about AnalyzerProtocol for any responses, outputs, cuts into   *)
(* chunks and limits: the records read are the lines of the output, and    *)
(* symbols get the texts that were declared for them.                      *)
(***************************************************************************)
EXTENDS AnalyzerProtocol, WellFoundedInduction, TLAPS

-----------------------------------------------------------------------------
(* Recursion over the elements of a sequence.                              *)

\* The strict order of the naturals as a set of pairs.
LessThan == {ss \in Nat \X Nat : ss[1] < ss[2]}

\* A set with 0 that is closed under successors up to n has all of 0 .. n.
LEMMA UpTo ==
  ASSUME NEW n \in Nat, NEW G, 0 \in G, \A k \in 0 .. n - 1 : k \in G => k + 1 \in G
  PROVE  \A k \in 0 .. n : k \in G
<1> DEFINE Bad == {k \in 0 .. n : k \notin G}
<1> SUFFICES ASSUME NEW k \in 0 .. n, k \notin G PROVE FALSE
  OBVIOUS
<1>1. Bad \subseteq Nat /\ Bad # {}
  OBVIOUS
<1>2. IsWellFoundedOn(LessThan, Nat)
  BY NatLessThanWellFounded DEF OpToRel, LessThan
<1>3. PICK m \in Bad : \A y \in Bad : ~(<<y, m>> \in LessThan)
  BY <1>1, <1>2, WFMin
<1>4. m \in 0 .. n /\ m \notin G /\ m # 0
  BY <1>3
<1>5. m - 1 \in 0 .. n - 1 /\ m - 1 < m /\ m - 1 \in Nat /\ m \in Nat
  BY <1>4
<1>6. m - 1 \in G
  <2>1. <<m - 1, m>> \in LessThan
    BY <1>5 DEF LessThan
  <2>2. m - 1 \notin Bad
    BY <1>3, <2>1
  <2>3. QED BY <1>4, <1>5, <2>2
<1>7. QED BY <1>4, <1>5, <1>6

\* A step of each of the four recursions: over bytes that are read, bytes that are split
\* into lines, pieces of a symbol, and symbols of a batch.
StepBy(kind, s, e) ==
  CASE kind = "bytes" -> Byte(s, e)
    [] kind = "lines" -> LineStep(s, e)
    [] kind = "pieces" -> TakePiece(s, e)
    [] kind = "symbols" -> TakePieces(s, e)

\* The values of a recursion over q that starts with z.
Values(t, kind, z, q) ==
  t = [i \in 0 .. Len(q) |-> IF i = 0 THEN z ELSE StepBy(kind, t[i - 1], q[i])]

\* A recursive function over the elements of a sequence exists.
LEMMA ValuesExist ==
  ASSUME NEW kind, NEW z, NEW q, Len(q) \in Nat
  PROVE  \E t : Values(t, kind, z, q)
<1> DEFINE n == Len(q)
           Next1(t, i) == StepBy(kind, t[i - 1], q[i])
           Good(t, m) == /\ t = [i \in 0 .. n |-> t[i]] /\ t[0] = z
                         /\ \A i \in 1 .. m : t[i] = Next1(t, i)
           G == {m \in 0 .. n : \E t : Good(t, m)}
<1> HIDE DEF n
<1>0. n \in Nat
  BY DEF n
<1>1. 0 \in G
  <2> DEFINE t == [i \in 0 .. n |-> z]
  <2>1. t[0] = z /\ 0 \in 0 .. n /\ 1 .. 0 = {}
    BY <1>0
  <2>2. t = [i \in 0 .. n |-> t[i]]
    OBVIOUS
  <2> HIDE DEF t
  <2>3. Good(t, 0)
    BY <2>1, <2>2
  <2>4. QED BY <2>1, <2>3
<1>2. ASSUME NEW m \in 0 .. n - 1, m \in G PROVE m + 1 \in G
  <2>1. PICK t : Good(t, m)
    BY <1>2
  <2> DEFINE next == Next1(t, m + 1)
             u == [i \in 0 .. n |-> IF i = m + 1 THEN next ELSE t[i]]
  <2>2. m + 1 \in 0 .. n /\ m \in Nat
    BY <1>0
  <2>3. u[m + 1] = next
    BY <2>2
  <2> HIDE DEF next
  <2>4. \A i \in 0 .. m : u[i] = t[i]
    BY <1>0
  <2>5. u = [i \in 0 .. n |-> u[i]]
    OBVIOUS
  <2> HIDE DEF u
  <2>6. u[0] = z
    <3>1. 0 \in 0 .. m /\ t[0] = z
      BY <2>1, <2>2
    <3>2. QED BY <2>4, <3>1
  <2>7. ASSUME NEW i \in 1 .. m + 1 PROVE u[i] = Next1(u, i)
    <3>1. u[i - 1] = t[i - 1]
      BY <2>2, <2>4
    <3>2. CASE i = m + 1
      BY <2>3, <3>1, <3>2 DEF next
    <3>3. CASE i # m + 1
      <4>1. i \in 1 .. m /\ i \in 0 .. m
        BY <2>2, <3>3
      <4>2. t[i] = Next1(t, i)
        BY <2>1, <4>1
      <4>3. QED BY <2>4, <3>1, <4>1, <4>2
    <3>4. QED BY <3>2, <3>3
  <2>8. Good(u, m + 1)
    BY <2>5, <2>6, <2>7
  <2>9. QED BY <2>2, <2>8
<1>3. n \in G
  <2> HIDE DEF G
  <2>1. \A k \in 0 .. n : k \in G
    BY <1>0, <1>1, <1>2, UpTo
  <2>2. QED BY <1>0, <2>1
<1>4. PICK t : Good(t, n)
  BY <1>3
<1> DEFINE w == [i \in 0 .. n |-> IF i = 0 THEN z ELSE Next1(t, i)]
<1>5. ASSUME NEW i \in 0 .. n PROVE w[i] = t[i]
  <2>1. CASE i = 0
    BY <1>4, <2>1
  <2>2. CASE i # 0
    <3>1. i \in 1 .. n
      BY <1>0, <2>2
    <3>2. t[i] = Next1(t, i)
      BY <1>4, <3>1
    <3>3. QED BY <2>2, <3>2
  <2>3. QED BY <2>1, <2>2
<1>6. w = [i \in 0 .. n |-> w[i]] /\ t = [i \in 0 .. n |-> t[i]]
  BY <1>4
<1>7. w = t
  <2> HIDE DEF w
  <2>1. QED BY <1>5, <1>6
<1>8. Values(t, kind, z, q)
  BY <1>7 DEF Values, w, n
<1>9. QED BY <1>8

\* Step by step.
LEMMA ValuesAre ==
  ASSUME NEW t, NEW kind, NEW z, NEW q, Len(q) \in Nat, Values(t, kind, z, q)
  PROVE  t[0] = z /\ \A i \in 1 .. Len(q) : t[i] = StepBy(kind, t[i - 1], q[i])
<1> DEFINE n == Len(q)
<1> HIDE DEF n
<1>1. t = [i \in 0 .. n |-> IF i = 0 THEN z ELSE StepBy(kind, t[i - 1], q[i])] /\ n \in Nat
  BY DEF Values, n
<1>2. 0 \in 0 .. n
  BY <1>1
<1>3. t[0] = z
  BY <1>1, <1>2
<1>4. ASSUME NEW i \in 1 .. n PROVE t[i] = StepBy(kind, t[i - 1], q[i])
  <2>1. i \in 0 .. n /\ i # 0
    BY <1>1
  <2>2. QED BY <1>1, <2>1
<1>5. QED BY <1>3, <1>4 DEF n

\* Reading bytes, one after the other.
Ended(s) == IF s.failure = "none" /\ Len(s.record) > bounds.record THEN Failed(s, "limit") ELSE s

LEMMA ReadIs ==
  ASSUME NEW s, NEW bytes, Len(bytes) \in Nat
  PROVE  \E read : /\ read[0] = s
                   /\ \A i \in 1 .. Len(bytes) : read[i] = Byte(read[i - 1], bytes[i])
                   /\ ReadBytes(s, bytes) = Ended(read[Len(bytes)])
<1> DEFINE Rule(v) == [i \in 0 .. Len(bytes) |-> IF i = 0 THEN s ELSE Byte(v[i - 1], bytes[i])]
           read == CHOOSE v : v = Rule(v)
<1>1. \A v : Values(v, "bytes", s, bytes) <=> v = Rule(v)
  BY DEF Values, StepBy
<1>2. \E v : v = Rule(v)
  BY <1>1, ValuesExist
<1>3. read = Rule(read)
  <2> HIDE DEF Rule
  <2>1. QED BY <1>2
<1>4. ReadBytes(s, bytes) = Ended(read[Len(bytes)])
  BY DEF ReadBytes, Ended, Continued
<1> HIDE DEF read
<1>5. Values(read, "bytes", s, bytes)
  BY <1>1, <1>3
<1>6. read[0] = s /\ \A i \in 1 .. Len(bytes) : read[i] = StepBy("bytes", read[i - 1], bytes[i])
  BY <1>5, ValuesAre
<1>7. QED BY <1>4, <1>6 DEF StepBy

\* Splitting bytes.
LEMMA SplitIs ==
  ASSUME NEW bytes, Len(bytes) \in Nat
  PROVE  /\ Split(bytes)[0] = [all |-> <<>>, line |-> <<>>]
         /\ \A i \in 1 .. Len(bytes) : Split(bytes)[i] = LineStep(Split(bytes)[i - 1], bytes[i])
<1> DEFINE z == [all |-> <<>>, line |-> <<>>]
           Rule(v) == [i \in 0 .. Len(bytes) |-> IF i = 0 THEN z ELSE LineStep(v[i - 1], bytes[i])]
           split == CHOOSE v : v = Rule(v)
<1>1. \A v : Values(v, "lines", z, bytes) <=> v = Rule(v)
  BY DEF Values, StepBy
<1>2. \E v : v = Rule(v)
  BY <1>1, ValuesExist
<1>3. split = Rule(split)
  <2> HIDE DEF Rule
  <2>1. QED BY <1>2
<1>4. Split(bytes) = split
  BY DEF Split
<1> HIDE DEF split, z
<1>5. Values(split, "lines", z, bytes)
  BY <1>1, <1>3
<1>6. split[0] = z /\ \A i \in 1 .. Len(bytes) : split[i] = StepBy("lines", split[i - 1], bytes[i])
  BY <1>5, ValuesAre
<1>7. QED BY <1>4, <1>6 DEF StepBy, z

\* A symbol and the pieces that are left.
FirstOf(symbol) ==
  LET first == AcceptPiece(NoPieces, symbol)
  IN  [c |-> first.c, ok |-> first.ok, done |-> first.done, text |-> first.text, used |-> 0]

LEMMA TakenIs ==
  ASSUME NEW symbol, NEW left, Len(left) \in Nat
  PROVE  \E taken : /\ taken[0] = FirstOf(symbol)
                    /\ \A i \in 1 .. Len(left) : taken[i] = TakePiece(taken[i - 1], left[i])
                    /\ Taken(symbol, left) = taken[Len(left)]
<1> DEFINE z == FirstOf(symbol)
           Rule(v) == [i \in 0 .. Len(left) |-> IF i = 0 THEN z ELSE TakePiece(v[i - 1], left[i])]
           taken == CHOOSE v : v = Rule(v)
<1>1. \A v : Values(v, "pieces", z, left) <=> v = Rule(v)
  BY DEF Values, StepBy
<1>2. \E v : v = Rule(v)
  BY <1>1, ValuesExist
<1>3. taken = Rule(taken)
  <2> HIDE DEF Rule
  <2>1. QED BY <1>2
<1>4. Taken(symbol, left) = taken[Len(left)]
  BY DEF Taken, FirstOf
<1> HIDE DEF taken, z
<1>5. Values(taken, "pieces", z, left)
  BY <1>1, <1>3
<1>6. taken[0] = z /\ \A i \in 1 .. Len(left) : taken[i] = StepBy("pieces", taken[i - 1], left[i])
  BY <1>5, ValuesAre
<1>7. QED BY <1>4, <1>6 DEF StepBy, z

\* The symbols of a batch, one after the other.
LEMMA AssembledIs ==
  ASSUME NEW symbols, NEW pieces, Len(symbols) \in Nat
  PROVE  \E t : /\ t[0] = [ok |-> TRUE, left |-> pieces, texts |-> <<>>]
                /\ \A i \in 1 .. Len(symbols) : t[i] = TakePieces(t[i - 1], symbols[i])
                /\ Assembled(symbols, pieces) = t[Len(symbols)]
<1> DEFINE z == [ok |-> TRUE, left |-> pieces, texts |-> <<>>]
           Rule(v) == [i \in 0 .. Len(symbols) |->
                         IF i = 0 THEN z ELSE TakePieces(v[i - 1], symbols[i])]
           t == CHOOSE v : v = Rule(v)
<1>1. \A v : Values(v, "symbols", z, symbols) <=> v = Rule(v)
  BY DEF Values, StepBy
<1>2. \E v : v = Rule(v)
  BY <1>1, ValuesExist
<1>3. t = Rule(t)
  <2> HIDE DEF Rule
  <2>1. QED BY <1>2
<1>4. Assembled(symbols, pieces) = t[Len(symbols)]
  BY DEF Assembled
<1> HIDE DEF t, z
<1>5. Values(t, "symbols", z, symbols)
  BY <1>1, <1>3
<1>6. t[0] = z /\ \A i \in 1 .. Len(symbols) : t[i] = StepBy("symbols", t[i - 1], symbols[i])
  BY <1>5, ValuesAre
<1>7. QED BY <1>4, <1>6 DEF StepBy, z

-----------------------------------------------------------------------------
(* Lines.                                                                  *)

\* The output consists of bytes of records and newlines, and symbols declare texts.
OutputOK ==
  /\ output \in Seq({0} \cup DOMAIN response)
  /\ \A i \in DOMAIN response :
       response[i].kind = "symbol" => response[i].pieces \in [DOMAIN response[i].pieces -> Seq(Nat)]

\* What the output is split into after its first n bytes.
Whole(n) == Split(output)[n].all
Begun(n) == Split(output)[n].line

LEMMA Splits ==
  ASSUME OutputOK
  PROVE  /\ Len(output) \in Nat
         /\ Split(output)[0] = [all |-> <<>>, line |-> <<>>]
         /\ \A i \in 0 .. Len(output) - 1 :
              /\ output[i + 1] \in {0} \cup DOMAIN response
              /\ Split(output)[i + 1] = LineStep(Split(output)[i], output[i + 1])
<1>1. Len(output) \in Nat /\ output \in Seq({0} \cup DOMAIN response)
  BY DEF OutputOK
<1>2. ASSUME NEW i \in 0 .. Len(output) - 1
      PROVE  /\ output[i + 1] \in {0} \cup DOMAIN response
             /\ Split(output)[i + 1] = LineStep(Split(output)[i], output[i + 1])
  <2>1. i + 1 \in 1 .. Len(output) /\ (i + 1) - 1 = i
    BY <1>1
  <2>2. output[i + 1] \in {0} \cup DOMAIN response
    BY <1>1, <2>1
  <2>3. Split(output)[i + 1] = LineStep(Split(output)[(i + 1) - 1], output[i + 1])
    BY <1>1, <2>1, SplitIs
  <2>4. QED BY <2>1, <2>2, <2>3
<1>3. QED BY <1>1, <1>2, SplitIs

\* The lines are sequences of bytes of records.
LEMMA SplitShape ==
  ASSUME OutputOK
  PROVE  \A n \in 0 .. Len(output) :
           Whole(n) \in Seq(Seq(DOMAIN response)) /\ Begun(n) \in Seq(DOMAIN response)
<1> DEFINE D == DOMAIN response
           Good(n) == Whole(n) \in Seq(Seq(D)) /\ Begun(n) \in Seq(D)
           G == {n \in 0 .. Len(output) : Good(n)}
<1>0. ASSUME NEW Q, NEW x \in Q, NEW s \in Seq(Q) PROVE Append(s, x) \in Seq(Q)
  OBVIOUS
<1>e. \A Q : <<>> \in Seq(Q)
  OBVIOUS
<1>1. Len(output) \in Nat
  BY Splits
<1>2. 0 \in G
  <2>1. Whole(0) = <<>> /\ Begun(0) = <<>>
    BY Splits DEF Whole, Begun
  <2>2. Good(0)
    BY <1>e, <2>1
  <2>3. QED BY <1>1, <2>2
<1>3. ASSUME NEW n \in 0 .. Len(output) - 1, n \in G PROVE n + 1 \in G
  <2>1. Good(n) /\ n + 1 \in 0 .. Len(output)
    BY <1>1, <1>3
  <2>2. /\ output[n + 1] \in {0} \cup D
        /\ Split(output)[n + 1] = LineStep(Split(output)[n], output[n + 1])
    BY Splits
  <2>3. CASE output[n + 1] = 0
    <3>1. Whole(n + 1) = Append(Whole(n), Begun(n)) /\ Begun(n + 1) = <<>>
      BY <2>2, <2>3 DEF LineStep, Whole, Begun
    <3>2. Append(Whole(n), Begun(n)) \in Seq(Seq(D))
      BY <1>0, <2>1
    <3>3. Good(n + 1)
      BY <1>e, <3>1, <3>2
    <3>4. QED BY <2>1, <3>3
  <2>4. CASE output[n + 1] # 0
    <3>1. Whole(n + 1) = Whole(n) /\ Begun(n + 1) = Append(Begun(n), output[n + 1])
      BY <2>2, <2>4 DEF LineStep, Whole, Begun
    <3>2. output[n + 1] \in D
      BY <2>2, <2>4
    <3>3. Append(Begun(n), output[n + 1]) \in Seq(D)
      BY <1>0, <2>1, <3>2
    <3>4. QED BY <2>1, <3>1, <3>3
  <2>5. QED BY <2>3, <2>4
<1>4. \A n \in 0 .. Len(output) : n \in G
  <2> HIDE DEF G
  <2>1. QED BY <1>1, <1>2, <1>3, UpTo
<1>5. QED BY <1>4

\* s is a prefix of t, place by place.
Begins(s, t) == Len(s) <= Len(t) /\ \A i \in 1 .. Len(s) : s[i] = t[i]

LEMMA BeginsIsPrefix ==
  ASSUME NEW D, NEW s \in Seq(D), NEW t \in Seq(D), Begins(s, t)
  PROVE  IsPrefix(s, t)
<1>1. Len(s) \in Nat /\ Len(t) \in Nat /\ Len(s) <= Len(t)
  BY DEF Begins
<1>2. SubSeq(s, 1, Len(s)) = SubSeq(t, 1, Len(s))
  <2>1. SubSeq(s, 1, Len(s)) = [i \in 1 .. Len(s) |-> s[i]]
    BY <1>1
  <2>2. SubSeq(t, 1, Len(s)) = [i \in 1 .. Len(s) |-> t[i]]
    BY <1>1
  <2>3. QED BY <2>1, <2>2 DEF Begins
<1>3. QED BY <1>1, <1>2 DEF IsPrefix

\* Lines that are whole stay.
LEMMA LinesStay ==
  ASSUME OutputOK, NEW j \in 0 .. Len(output)
  PROVE  Begins(Whole(j), Lines(output))
<1> DEFINE G == {n \in 0 .. Len(output) : n >= j => Begins(Whole(j), Whole(n))}
<1>1. Len(output) \in Nat
  BY Splits
<1>2. \A n \in 0 .. Len(output) : Whole(n) \in Seq(Seq(DOMAIN response)) /\ Len(Whole(n)) \in Nat
  BY SplitShape
<1>3. Begins(Whole(j), Whole(j))
  BY <1>2 DEF Begins
<1>4. 0 \in G
  <2>1. 0 >= j => j = 0
    BY <1>1
  <2>2. QED BY <1>1, <1>3, <2>1
<1>5. ASSUME NEW n \in 0 .. Len(output) - 1, n \in G PROVE n + 1 \in G
  <2>1. n + 1 \in 0 .. Len(output) /\ n \in 0 .. Len(output)
    BY <1>1
  <2>2. ASSUME n + 1 >= j PROVE Begins(Whole(j), Whole(n + 1))
    <3>1. CASE n + 1 = j
      BY <1>3, <3>1
    <3>2. CASE n >= j
      <4>1. Begins(Whole(j), Whole(n))
        BY <1>5, <3>2
      <4>2. Whole(n + 1) = Whole(n) \/ Whole(n + 1) = Append(Whole(n), Begun(n))
        <5>1. Split(output)[n + 1] = LineStep(Split(output)[n], output[n + 1])
          BY Splits
        <5>2. QED BY <5>1 DEF LineStep, Whole, Begun
      <4>3. CASE Whole(n + 1) = Append(Whole(n), Begun(n))
        <5> DEFINE w == Whole(n)
        <5>1. w \in Seq(Seq(DOMAIN response)) /\ Begun(n) \in Seq(DOMAIN response)
          BY <2>1, SplitShape
        <5> HIDE DEF w
        <5>2. Begins(w, Append(w, Begun(n)))
          BY <5>1 DEF Begins
        <5>3. Begins(Whole(j), w)
          BY <4>1 DEF w
        <5>4. Len(w) \in Nat /\ Len(Append(w, Begun(n))) \in Nat /\ Len(Whole(j)) \in Nat
          BY <1>2, <5>1
        <5>5. Begins(Whole(j), Append(w, Begun(n)))
          BY <5>2, <5>3, <5>4 DEF Begins
        <5>6. QED BY <4>3, <5>5 DEF w
      <4>4. QED BY <4>1, <4>2, <4>3
    <3>3. QED BY <2>1, <2>2, <3>1, <3>2
  <2>3. QED BY <2>1, <2>2
<1>6. \A n \in 0 .. Len(output) : n \in G
  <2> HIDE DEF G
  <2>1. QED BY <1>1, <1>4, <1>5, UpTo
<1>7. Lines(output) = Whole(Len(output))
  BY DEF Lines, Whole
<1>8. QED BY <1>1, <1>6, <1>7

-----------------------------------------------------------------------------
(* The reader.                                                             *)

Kinds == {"fact", "symbol", "piece"}
Records == {response[k] : k \in DOMAIN response}

\* The spools have records of the response, each those of its kind.
Spooled(spools) ==
  /\ spools \in [Kinds -> Seq(Records)]
  /\ \A i \in DOMAIN spools["symbol"] : spools["symbol"][i].kind = "symbol"

\* A reader in its first three or its last but two phases, whose records are the first
\* lines of the output.
ReaderOK(s) ==
  /\ s = [phase |-> s.phase, failure |-> s.failure, record |-> s.record, lines |-> s.lines,
          pieces |-> s.pieces, spools |-> s.spools]
  /\ Spooled(s.spools)
  /\ \E j \in 0 .. Len(output) : s.lines = Whole(j)

Reading(s) == s.phase \notin {"read", "built"}

\* As long as nothing went wrong the reader is where the output is split.
Follows(s, n) == s.failure = "none" => s.lines = Whole(n) /\ s.record = Begun(n)

LEMMA FailedIs ==
  ASSUME NEW s, NEW why \in {"protocol", "limit"}, ReaderOK(s)
  PROVE  /\ ReaderOK(Failed(s, why)) /\ Failed(s, why).failure = why
         /\ Failed(s, why).phase = s.phase /\ Failed(s, why).lines = s.lines
         /\ Failed(s, why).record = s.record
<1>1. Failed(s, why) = [phase |-> s.phase, failure |-> why, record |-> s.record,
                        lines |-> s.lines, pieces |-> s.pieces, spools |-> s.spools]
  BY DEF Failed, ReaderOK
<1>2. QED BY <1>1 DEF ReaderOK

\* What a record leads to leaves the lines alone.
LEMMA AcceptKeeps ==
  ASSUME NEW s, NEW r \in Records, ReaderOK(s), Reading(s)
  PROVE  /\ ReaderOK(Accept(s, r)) /\ Reading(Accept(s, r))
         /\ Accept(s, r).lines = s.lines /\ Accept(s, r).record = s.record
<1>1. CASE Accept(s, r) = Failed(s, "protocol")
  BY <1>1, FailedIs DEF Reading
<1>2. ASSUME NEW p \in {"begin", "facts", "complete"}, Accept(s, r) = [s EXCEPT !.phase = p]
      PROVE  /\ ReaderOK(Accept(s, r)) /\ Reading(Accept(s, r))
             /\ Accept(s, r).lines = s.lines /\ Accept(s, r).record = s.record
  <2>1. Accept(s, r) = [phase |-> p, failure |-> s.failure, record |-> s.record,
                        lines |-> s.lines, pieces |-> s.pieces, spools |-> s.spools]
    BY <1>2 DEF ReaderOK
  <2>2. QED BY <2>1 DEF ReaderOK, Reading
<1>3. ASSUME r.kind \in Kinds, NEW c,
             Accept(s, r) = [s EXCEPT !.pieces = c, !.spools[r.kind] = Append(@, r)]
      PROVE  /\ ReaderOK(Accept(s, r)) /\ Reading(Accept(s, r))
             /\ Accept(s, r).lines = s.lines /\ Accept(s, r).record = s.record
  <2> DEFINE spools == [s.spools EXCEPT ![r.kind] = Append(@, r)]
  <2>1. Accept(s, r) = [phase |-> s.phase, failure |-> s.failure, record |-> s.record,
                        lines |-> s.lines, pieces |-> c, spools |-> spools]
    BY <1>3 DEF ReaderOK
  <2>2. Spooled(spools)
    <3>1. s.spools \in [Kinds -> Seq(Records)]
      BY DEF ReaderOK, Spooled
    <3>2. Append(s.spools[r.kind], r) \in Seq(Records)
      BY <1>3, <3>1
    <3>3. spools \in [Kinds -> Seq(Records)]
      BY <1>3, <3>1, <3>2
    <3>4. ASSUME NEW i \in DOMAIN spools["symbol"] PROVE spools["symbol"][i].kind = "symbol"
      <4>1. "symbol" \in Kinds
        BY DEF Kinds
      <4>2. CASE r.kind = "symbol"
        <5>1. spools["symbol"] = Append(s.spools["symbol"], r)
          BY <3>1, <4>1, <4>2
        <5> DEFINE old == s.spools["symbol"]
        <5>2. old \in Seq(Records) /\ \A k \in DOMAIN old : old[k].kind = "symbol"
          BY <3>1, <4>1 DEF ReaderOK, Spooled
        <5> HIDE DEF old
        <5>3. i \in 1 .. Len(old) + 1 /\ Append(old, r)[i] = IF i \in 1 .. Len(old) THEN old[i] ELSE r
          BY <5>1, <5>2 DEF old
        <5>4. i \in 1 .. Len(old) => i \in DOMAIN old
          BY <5>2
        <5>5. QED BY <4>2, <5>1, <5>2, <5>3, <5>4 DEF old
      <4>3. CASE r.kind # "symbol"
        <5>1. spools["symbol"] = s.spools["symbol"]
          BY <3>1, <4>1, <4>3
        <5>2. QED BY <5>1 DEF ReaderOK, Spooled
      <4>4. QED BY <4>2, <4>3
    <3>5. QED BY <3>3, <3>4 DEF Spooled
  <2> HIDE DEF spools
  <2>3. QED BY <2>1, <2>2 DEF ReaderOK, Reading
<1>4. \/ Accept(s, r) = Failed(s, "protocol")
      \/ \E p \in {"begin", "facts", "complete"} : Accept(s, r) = [s EXCEPT !.phase = p]
      \/ /\ r.kind \in Kinds
         /\ \E c : Accept(s, r) = [s EXCEPT !.pieces = c, !.spools[r.kind] = Append(@, r)]
  BY DEF Accept, Kinds
<1>5. QED BY <1>1, <1>2, <1>3, <1>4

\* A record that has ended, in the components of a reader.
LEMMA LineEnded ==
  ASSUME NEW s, s = [phase |-> s.phase, failure |-> s.failure, record |-> s.record,
                     lines |-> s.lines, pieces |-> s.pieces, spools |-> s.spools]
  PROVE  [s EXCEPT !.record = <<>>, !.lines = Append(@, s.record)]
           = [phase |-> s.phase, failure |-> s.failure, record |-> <<>>,
              lines |-> Append(s.lines, s.record), pieces |-> s.pieces, spools |-> s.spools]
<1> DEFINE m == Append(s.lines, s.record)
           x == [phase |-> s.phase, failure |-> s.failure, record |-> <<>>,
                 lines |-> s.lines, pieces |-> s.pieces, spools |-> s.spools]
           y == [phase |-> s.phase, failure |-> s.failure, record |-> <<>>,
                 lines |-> m, pieces |-> s.pieces, spools |-> s.spools]
<1> HIDE DEF m
<1>1. [s EXCEPT !.record = <<>>] = x
  OBVIOUS
<1>2. [x EXCEPT !.lines = m] = y
  OBVIOUS
<1>3. [s EXCEPT !.record = <<>>, !.lines = m] = [[s EXCEPT !.record = <<>>] EXCEPT !.lines = m]
  OBVIOUS
<1> HIDE DEF x, y
<1>4. [s EXCEPT !.record = <<>>, !.lines = m] = y
  BY <1>1, <1>2, <1>3
<1>5. QED BY <1>4 DEF m, y

\* One byte: the reader does what the split does, or fails.
LEMMA ByteFollows ==
  ASSUME OutputOK, NEW n \in 0 .. Len(output) - 1, NEW s, ReaderOK(s), Reading(s), Follows(s, n)
  PROVE  /\ ReaderOK(Byte(s, output[n + 1])) /\ Reading(Byte(s, output[n + 1]))
         /\ Follows(Byte(s, output[n + 1]), n + 1)
<1> DEFINE b == output[n + 1]
<1>0. n \in 0 .. Len(output) /\ n + 1 \in 0 .. Len(output)
  BY Splits
<1>1. b \in {0} \cup DOMAIN response /\ Split(output)[n + 1] = LineStep(Split(output)[n], b)
  BY Splits
<1>2. CASE s.failure # "none"
  BY <1>2 DEF Byte, Follows
<1>3. CASE s.failure = "none" /\ b # 0
  <2>1. Byte(s, b) = [phase |-> s.phase, failure |-> s.failure, record |-> Append(s.record, b),
                      lines |-> s.lines, pieces |-> s.pieces, spools |-> s.spools]
    BY <1>3 DEF Byte, ReaderOK
  <2>2. Whole(n + 1) = Whole(n) /\ Begun(n + 1) = Append(Begun(n), b)
    BY <1>1, <1>3 DEF LineStep, Whole, Begun
  <2>3. QED BY <1>3, <2>1, <2>2 DEF ReaderOK, Reading, Follows
<1>4. CASE s.failure = "none" /\ b = 0
  <2>1. Byte(s, b) = EndRecord(s)
    BY <1>4 DEF Byte
  <2>2. Whole(n + 1) = Append(Whole(n), Begun(n)) /\ Begun(n + 1) = <<>>
    BY <1>1, <1>4 DEF LineStep, Whole, Begun
  <2>3. CASE \E why \in {"protocol", "limit"} : EndRecord(s) = Failed(s, why)
    BY <2>1, <2>3, FailedIs DEF Reading, Follows
  <2>4. CASE /\ s.record # <<>>
             /\ EndRecord(s) = Accept([s EXCEPT !.record = <<>>, !.lines = Append(@, s.record)],
                                      response[s.record[1]])
    <3> DEFINE t == [phase |-> s.phase, failure |-> s.failure, record |-> <<>>,
                     lines |-> Whole(n + 1), pieces |-> s.pieces, spools |-> s.spools]
    <3>1. s.lines = Whole(n) /\ s.record = Begun(n)
      BY <1>4 DEF Follows
    <3>2. [s EXCEPT !.record = <<>>, !.lines = Append(@, s.record)] = t
      <4>1. [s EXCEPT !.record = <<>>, !.lines = Append(@, s.record)]
              = [phase |-> s.phase, failure |-> s.failure, record |-> <<>>,
                 lines |-> Append(s.lines, s.record), pieces |-> s.pieces, spools |-> s.spools]
        BY LineEnded DEF ReaderOK
      <4>2. QED BY <2>2, <3>1, <4>1
    <3>3. response[s.record[1]] \in Records
      <4>1. s.record \in Seq(DOMAIN response)
        BY <1>0, <3>1, SplitShape
      <4>2. s.record[1] \in DOMAIN response
        BY <2>4, <4>1
      <4>3. QED BY <4>2 DEF Records
    <3>4. ReaderOK(t) /\ Reading(t)
      BY <1>0 DEF ReaderOK, Reading
    <3>5. t.lines = Whole(n + 1) /\ t.record = Begun(n + 1)
      BY <2>2
    <3> HIDE DEF t
    <3>6. EndRecord(s) = Accept(t, response[s.record[1]])
      BY <2>4, <3>2
    <3>7. QED BY <2>1, <3>3, <3>4, <3>5, <3>6, AcceptKeeps DEF Follows
  <2>5. QED BY <2>3, <2>4 DEF EndRecord
<1>5. QED BY <1>2, <1>3, <1>4

\* A chunk of bytes.
LEMMA ReadFollows ==
  ASSUME OutputOK, NEW n \in 0 .. Len(output), NEW k \in 0 .. Len(output) - n, NEW s,
         ReaderOK(s), Reading(s), Follows(s, n)
  PROVE  LET t == ReadBytes(s, SubSeq(output, n + 1, n + k))
         IN  ReaderOK(t) /\ Reading(t) /\ Follows(t, n + k)
<1> DEFINE bytes == SubSeq(output, n + 1, n + k)
<1>0. Len(output) \in Nat /\ n \in Nat /\ k \in Nat /\ n + k <= Len(output)
  BY Splits
<1>1. Len(bytes) = k /\ \A i \in 0 .. k - 1 : bytes[i + 1] = output[n + i + 1]
  BY <1>0 DEF OutputOK
<1> HIDE DEF bytes
<1>2. PICK read : /\ read[0] = s
                  /\ \A i \in 1 .. Len(bytes) : read[i] = Byte(read[i - 1], bytes[i])
                  /\ ReadBytes(s, bytes) = Ended(read[Len(bytes)])
  <2>1. Len(bytes) \in Nat
    BY <1>0, <1>1
  <2>2. QED BY ONLY <2>1, ReadIs
<1> DEFINE Good(i) == ReaderOK(read[i]) /\ Reading(read[i]) /\ Follows(read[i], n + i)
           G == {i \in 0 .. k : Good(i)}
<1>3. 0 \in G
  BY <1>0, <1>2
<1>4. ASSUME NEW i \in 0 .. k - 1, i \in G PROVE i + 1 \in G
  <2>1. i + 1 \in 1 .. k /\ (i + 1) - 1 = i /\ n + i \in 0 .. Len(output) - 1
        /\ n + i + 1 = n + (i + 1)
    BY <1>0
  <2>2. read[i + 1] = Byte(read[(i + 1) - 1], bytes[i + 1])
    BY <1>1, <1>2, <2>1
  <2>3. read[i + 1] = Byte(read[i], output[n + i + 1])
    BY <1>1, <2>1, <2>2
  <2>4. Good(i)
    BY <1>4
  <2> DEFINE x == read[i]
  <2>5. ReaderOK(x) /\ Reading(x) /\ Follows(x, n + i)
    BY <2>4
  <2> HIDE DEF x
  <2>6. /\ ReaderOK(Byte(x, output[n + i + 1])) /\ Reading(Byte(x, output[n + i + 1]))
        /\ Follows(Byte(x, output[n + i + 1]), n + i + 1)
    BY <2>1, <2>5, ByteFollows
  <2>7. Good(i + 1)
    BY <2>1, <2>3, <2>6 DEF x
  <2>8. QED BY <2>1, <2>7
<1>5. k \in G
  <2> HIDE DEF G
  <2>1. \A i \in 0 .. k : i \in G
    BY <1>0, <1>3, <1>4, UpTo
  <2>2. QED BY <1>0, <2>1
<1> DEFINE e == read[k]
<1>6. ReaderOK(e) /\ Reading(e) /\ Follows(e, n + k) /\ ReadBytes(s, bytes) = Ended(e)
  BY <1>1, <1>2, <1>5
<1> HIDE DEF e
<1>7. ReaderOK(Ended(e)) /\ Reading(Ended(e)) /\ Follows(Ended(e), n + k)
  <2>1. CASE Ended(e) = e
    BY <1>6, <2>1
  <2>2. CASE Ended(e) = Failed(e, "limit")
    BY <1>6, <2>2, FailedIs DEF Reading, Follows
  <2>3. QED BY <2>1, <2>2 DEF Ended
<1>8. QED BY <1>6, <1>7 DEF bytes

-----------------------------------------------------------------------------
(* Symbols and their pieces.                                               *)

\* A set of numbers that is not empty has a least one.
LEMMA LeastOf ==
  ASSUME NEW S \in SUBSET Nat, S # {}
  PROVE  \E m \in S : \A k \in S : m <= k
<1>1. IsWellFoundedOn(LessThan, Nat)
  BY NatLessThanWellFounded DEF OpToRel, LessThan
<1>2. PICK m \in S : \A y \in S : ~(<<y, m>> \in LessThan)
  BY <1>1, WFMin
<1>3. ASSUME NEW k \in S PROVE m <= k
  <2>1. k \in Nat /\ m \in Nat
    OBVIOUS
  <2>2. ~(k < m)
    BY <1>2, <2>1 DEF LessThan
  <2>3. QED BY <2>1, <2>2
<1>4. QED BY <1>3

\* The field that is due is one of those that have still to come.
LEMMA DueIsLeft ==
  ASSUME NEW c, c.fields \subseteq Fields, Pending(c)
  PROVE  Due(c) \in c.fields
<1> DEFINE S == {i \in DOMAIN FieldOrder : FieldOrder[i] \in c.fields}
<1>1. DOMAIN FieldOrder = 1 .. Len(FieldOrder) /\ Len(FieldOrder) \in Nat
  BY DeliveryAssumption DEF DeliveryAssumption
<1>2. S # {} /\ S \in SUBSET Nat
  <2>1. PICK f \in c.fields : TRUE
    BY DEF Pending
  <2>2. f \in Fields
    BY <2>1
  <2>3. \E i \in DOMAIN FieldOrder : FieldOrder[i] = f
    BY <2>2 DEF Fields
  <2>4. QED BY <1>1, <2>1, <2>3
<1>3. PICK m \in S : \A k \in S : m <= k
  <2> HIDE DEF S
  <2>1. QED BY <1>2, LeastOf
<1>4. m \in DOMAIN FieldOrder /\ FieldOrder[m] \in c.fields
  BY <1>3
<1>5. \A j \in 1 .. m - 1 : FieldOrder[j] \notin c.fields
  <2> SUFFICES ASSUME NEW j \in 1 .. m - 1, FieldOrder[j] \in c.fields PROVE FALSE
    OBVIOUS
  <2>1. j \in DOMAIN FieldOrder /\ j < m /\ j \in Nat /\ m \in Nat
    BY <1>1, <1>4
  <2>2. j \in S
    BY <2>1
  <2>3. QED BY <1>3, <2>1, <2>2
<1>6. QED BY <1>4, <1>5 DEF Due

\* A symbol as a response may have it.
Declares(r) == r.kind = "symbol" /\ r.pieces \in [DOMAIN r.pieces -> Seq(Nat)]

\* Texts that came have been declared so.
Collecting(c, r) ==
  /\ c = [symbol |-> c.symbol, pieces |-> c.pieces, fields |-> c.fields, index |-> c.index,
          received |-> c.received, text |-> c.text]
  /\ c.pieces = r.pieces /\ Pending(c)
  /\ c.fields \subseteq Fields /\ c.fields \subseteq DOMAIN r.pieces
  /\ c.text = [f \in DOMAIN r.pieces \ c.fields |-> r.pieces[f]]

Finishing(s, r) ==
  s.ok => /\ s.done => s.text = r.pieces
          /\ ~s.done => Collecting(s.c, r)

LEMMA FirstFinishing ==
  ASSUME NEW r, Declares(r)
  PROVE  Finishing(FirstOf(r), r) /\ FirstOf(r).used = 0
<1> DEFINE a == AcceptPiece(NoPieces, r)
           c == Awaiting(r.key, r.pieces, DOMAIN r.pieces, <<>>)
<1>1. a = [ok |-> ~Pending(NoPieces) /\ (r.pieces # <<>> => Announces(r)),
           done |-> r.pieces = <<>>, text |-> <<>>,
           c |-> IF r.pieces = <<>> THEN NoPieces ELSE c]
  BY DEF AcceptPiece, Declares
<1> DEFINE P == Pending(NoPieces)
           A == Announces(r)
           Z == r.pieces = <<>>
<1>2. /\ a.ok = (~P /\ (~Z => A)) /\ a.done = Z /\ a.text = <<>>
      /\ a.c = IF Z THEN NoPieces ELSE c
  <2> HIDE DEF P, A, Z
  <2>1. a = [ok |-> ~P /\ (~Z => A), done |-> Z, text |-> <<>>, c |-> IF Z THEN NoPieces ELSE c]
    BY <1>1 DEF P, A, Z
  <2> HIDE DEF a, c
  <2>2. QED BY <2>1
<1> HIDE DEF P, A, Z
<1>3. c = [symbol |-> r.key, pieces |-> r.pieces, fields |-> DOMAIN r.pieces, index |-> 0,
           received |-> <<>>, text |-> <<>>]
  BY DEF Awaiting
<1> HIDE DEF c
<1>4. ASSUME a.ok, ~a.done PROVE Collecting(c, r)
  <2>1. r.pieces # <<>> /\ DOMAIN r.pieces \subseteq Fields
    <3>1. ~Z /\ A
      BY <1>2, <1>4
    <3>2. QED BY <3>1 DEF A, Z, Announces
  <2>2. DOMAIN r.pieces # {}
    <3>1. ASSUME DOMAIN r.pieces = {} PROVE r.pieces = <<>>
      <4>1. r.pieces = [f \in DOMAIN r.pieces |-> r.pieces[f]]
        BY DEF Declares
      <4>2. r.pieces = [f \in {} |-> r.pieces[f]] /\ <<>> = [f \in {} |-> <<>>[f]]
        BY <3>1, <4>1
      <4>3. QED BY <4>2
    <3>2. QED BY <2>1, <3>1
  <2>3. <<>> = [f \in DOMAIN r.pieces \ DOMAIN r.pieces |-> r.pieces[f]]
    OBVIOUS
  <2>4. QED BY <1>3, <2>1, <2>2, <2>3 DEF Collecting, Pending
<1>5. a.done => a.text = r.pieces
  <2> HIDE DEF a
  <2>1. Z => r.pieces = <<>>
    BY DEF Z
  <2>2. QED BY <1>2, <2>1
<1>6. FirstOf(r) = [c |-> a.c, ok |-> a.ok, done |-> a.done, text |-> a.text, used |-> 0]
  BY DEF FirstOf
<1> HIDE DEF a
<1>7. /\ FirstOf(r).c = a.c /\ FirstOf(r).ok = a.ok /\ FirstOf(r).done = a.done
      /\ FirstOf(r).text = a.text /\ FirstOf(r).used = 0
  BY <1>6
<1>8. a.ok /\ ~a.done => Collecting(a.c, r)
  BY <1>2, <1>4
<1>9. QED BY <1>5, <1>7, <1>8 DEF Finishing

LEMMA PieceFinishing ==
  ASSUME NEW r, Declares(r), NEW s, Finishing(s, r), NEW p
  PROVE  Finishing(TakePiece(s, p), r)
<1>1. CASE s.done \/ ~s.ok
  BY <1>1 DEF TakePiece
<1>2. CASE ~s.done /\ s.ok
  <2> DEFINE c == s.c
             a == AcceptPiece(c, p)
             received == c.received \o p.text
             ends == Len(received) = Len(Declared(c))
             left == c.fields \ {Due(c)}
             text == WithText(c, received)
  <2>1. TakePiece(s, p) = [c |-> a.c, ok |-> a.ok, done |-> a.done, text |-> a.text,
                           used |-> s.used + 1]
    BY <1>2 DEF TakePiece
  <2>2. Collecting(c, r)
    BY <1>2 DEF Finishing
  <2> HIDE DEF c
  <2>3. Due(c) \in c.fields
    BY <2>2, DueIsLeft DEF Collecting
  <2>4. SUFFICES ASSUME a.ok
                 PROVE  (a.done => a.text = r.pieces) /\ (~a.done => Collecting(a.c, r))
    BY <2>1 DEF Finishing
  <2>5. /\ p.kind = "piece" /\ Pending(c) /\ Fits(c, p)
        /\ ends => received = Declared(c)
        /\ a.done = (ends /\ left = {}) /\ a.text = text
        /\ a.c = IF ~ends THEN [c EXCEPT !.received = received, !.index = @ + 1]
                 ELSE IF left # {}
                 THEN Awaiting(c.symbol, c.pieces, left, text) ELSE NoPieces
    <3>1. p.kind = "piece" /\ Pending(c) /\ Fits(c, p)
      BY <2>2, <2>4 DEF AcceptPiece, Collecting
    <3>2. QED BY <2>4, <3>1 DEF AcceptPiece, OfDeclaredDigest
  <2> HIDE DEF a, received, ends
  <2>6. ASSUME ends PROVE text = [f \in DOMAIN r.pieces \ left |-> r.pieces[f]]
    <3>1. received = r.pieces[Due(c)]
      BY <2>2, <2>5, <2>6 DEF Declared, Collecting
    <3>2. DOMAIN c.text = DOMAIN r.pieces \ c.fields
      BY <2>2 DEF Collecting
    <3>3. DOMAIN c.text \cup {Due(c)} = DOMAIN r.pieces \ left
      BY <2>2, <2>3, <3>2 DEF Collecting
    <3>4. ASSUME NEW f \in DOMAIN r.pieces \ left
          PROVE  (IF f = Due(c) THEN received ELSE c.text[f]) = r.pieces[f]
      <4>1. f # Due(c) => f \in DOMAIN r.pieces \ c.fields
        OBVIOUS
      <4>2. f # Due(c) => c.text[f] = r.pieces[f]
        BY <2>2, <4>1 DEF Collecting
      <4>3. QED BY <3>1, <4>2
    <3>5. QED BY <3>3, <3>4 DEF WithText
  <2> HIDE DEF text
  <2>7. CASE ~ends
    <3>1. a.c = [symbol |-> c.symbol, pieces |-> c.pieces, fields |-> c.fields,
                 index |-> c.index + 1, received |-> received, text |-> c.text]
      <4> DEFINE x == [symbol |-> c.symbol, pieces |-> c.pieces, fields |-> c.fields,
                       index |-> c.index, received |-> received, text |-> c.text]
      <4>1. [c EXCEPT !.received = received] = x
        BY <2>2 DEF Collecting
      <4>2. [x EXCEPT !.index = c.index + 1]
              = [symbol |-> c.symbol, pieces |-> c.pieces, fields |-> c.fields,
                 index |-> c.index + 1, received |-> received, text |-> c.text]
        OBVIOUS
      <4> HIDE DEF x
      <4>3. a.c = [[c EXCEPT !.received = received] EXCEPT !.index = c.index + 1]
        BY <2>5, <2>7
      <4>4. QED BY <4>1, <4>2, <4>3
    <3>2. QED BY <2>2, <2>5, <2>7, <3>1 DEF Collecting, Pending
  <2>8. CASE ends /\ left # {}
    <3>1. a.c = [symbol |-> c.symbol, pieces |-> c.pieces, fields |-> left,
                 index |-> 0, received |-> <<>>, text |-> text]
      BY <2>5, <2>8 DEF Awaiting
    <3>2. left \subseteq Fields /\ left \subseteq DOMAIN r.pieces /\ c.pieces = r.pieces
      BY <2>2 DEF Collecting
    <3>3. ~a.done
      BY <2>5, <2>8
    <3>4. text = [f \in DOMAIN r.pieces \ left |-> r.pieces[f]] /\ left # {}
      BY <2>6, <2>8
    <3> HIDE DEF left
    <3>5. Collecting(a.c, r)
      BY <3>1, <3>2, <3>4 DEF Collecting, Pending
    <3>6. QED BY <3>3, <3>5
  <2>9. CASE ends /\ left = {}
    <3>1. r.pieces = [f \in DOMAIN r.pieces |-> r.pieces[f]]
      BY DEF Declares
    <3>2. DOMAIN r.pieces \ left = DOMAIN r.pieces
      BY <2>9
    <3>3. a.done
      BY <2>5, <2>9
    <3>4. a.text = r.pieces
      BY <2>5, <2>6, <2>9, <3>1, <3>2
    <3>5. QED BY <3>3, <3>4
  <2>10. QED BY <2>7, <2>8, <2>9
<1>3. QED BY <1>1, <1>2

\* A symbol that is finished has the texts it declared.
LEMMA TakenIsWhole ==
  ASSUME NEW r, Declares(r), NEW left, Len(left) \in Nat
  PROVE  LET end == Taken(r, left)
         IN  end.used \in Nat /\ (end.ok /\ end.done => end.text = r.pieces)
<1> DEFINE n == Len(left)
<1>1. PICK taken : /\ taken[0] = FirstOf(r)
                   /\ \A i \in 1 .. n : taken[i] = TakePiece(taken[i - 1], left[i])
                   /\ Taken(r, left) = taken[n]
  BY TakenIs
<1> HIDE DEF n
<1>0. n \in Nat
  BY DEF n
<1> DEFINE G == {i \in 0 .. n : Finishing(taken[i], r) /\ taken[i].used \in Nat}
<1>2. 0 \in G
  BY <1>0, <1>1, FirstFinishing
<1>3. ASSUME NEW i \in 0 .. n - 1, i \in G PROVE i + 1 \in G
  <2>1. i + 1 \in 1 .. n /\ i + 1 \in 0 .. n /\ (i + 1) - 1 = i
    BY <1>0
  <2>2. taken[i + 1] = TakePiece(taken[(i + 1) - 1], left[i + 1])
    BY <1>1, <2>1
  <2>3. Finishing(taken[i], r) /\ taken[i].used \in Nat
    BY <1>3
  <2>4. taken[i + 1] = TakePiece(taken[i], left[i + 1])
    BY <2>1, <2>2
  <2>5. Finishing(taken[i + 1], r)
    BY <2>3, <2>4, PieceFinishing
  <2>6. taken[i + 1].used \in Nat
    BY <2>3, <2>4 DEF TakePiece
  <2>7. QED BY <2>1, <2>5, <2>6
<1>4. n \in G
  <2> HIDE DEF G
  <2>1. \A i \in 0 .. n : i \in G
    BY <1>0, <1>2, <1>3, UpTo
  <2>2. QED BY <1>0, <2>1
<1>5. QED BY <1>1, <1>4 DEF Finishing

\* What the symbols of a batch are by then.
LEMMA AssembledIsWhole ==
  ASSUME NEW R, NEW symbols \in Seq(R), NEW pieces \in Seq(R),
         \A i \in 1 .. Len(symbols) : Declares(symbols[i])
  PROVE  LET built == Assembled(symbols, pieces)
         IN  built.ok => /\ DOMAIN built.texts = 1 .. Len(symbols)
                         /\ Len(built.texts) = Len(symbols)
                         /\ \A i \in 1 .. Len(symbols) :
                              built.texts[i] = <<symbols[i].key, symbols[i].pieces>>
<1> DEFINE n == Len(symbols)
           Text(i) == <<symbols[i].key, symbols[i].pieces>>
           Q == {Text(i) : i \in 1 .. n}
           Good(b, i) == /\ b = [ok |-> b.ok, left |-> b.left, texts |-> b.texts]
                         /\ b.left \in Seq(R)
                         /\ b.ok => /\ b.texts \in Seq(Q) /\ Len(b.texts) = i
                                    /\ \A k \in 1 .. i : b.texts[k] = Text(k)
<1>1. PICK t : /\ t[0] = [ok |-> TRUE, left |-> pieces, texts |-> <<>>]
               /\ \A i \in 1 .. n : t[i] = TakePieces(t[i - 1], symbols[i])
               /\ Assembled(symbols, pieces) = t[n]
  BY AssembledIs
<1>0. n \in Nat /\ \A i \in 1 .. n : Declares(symbols[i])
  OBVIOUS
<1> HIDE DEF n, Text, Q
<1>2. Good(t[0], 0)
  BY <1>1
<1> DEFINE G == {i \in 0 .. n : Good(t[i], i)}
<1>3. ASSUME NEW i \in 0 .. n - 1, i \in G PROVE i + 1 \in G
  <2> DEFINE b == t[i]
             symbol == symbols[i + 1]
             end == Taken(symbol, b.left)
  <2>1. i + 1 \in 1 .. n /\ i + 1 \in 0 .. n /\ (i + 1) - 1 = i /\ i \in Nat
    BY <1>0
  <2>2. t[i + 1] = TakePieces(b, symbol)
    <3>1. t[i + 1] = TakePieces(t[(i + 1) - 1], symbols[i + 1])
      BY <1>1, <2>1
    <3>2. QED BY <2>1, <3>1
  <2>3. Good(b, i)
    BY <1>3
  <2>4. Declares(symbol)
    BY <1>0, <2>1
  <2> HIDE DEF b, symbol
  <2>5. end.used \in Nat /\ (end.ok /\ end.done => end.text = symbol.pieces)
    <3>1. Len(b.left) \in Nat
      BY <2>3
    <3>2. QED BY <2>4, <3>1, TakenIsWhole
  <2> HIDE DEF end
  <2>6. CASE ~b.ok \/ ~end.ok \/ ~end.done
    <3>1. TakePieces(b, symbol) = [b EXCEPT !.ok = FALSE]
      BY <2>6 DEF TakePieces, end
    <3>2. TakePieces(b, symbol) = [ok |-> FALSE, left |-> b.left, texts |-> b.texts]
      BY <2>3, <3>1
    <3>3. Good(TakePieces(b, symbol), i + 1)
      BY <2>3, <3>2
    <3>4. QED BY <2>1, <2>2, <3>3
  <2>7. CASE b.ok /\ end.ok /\ end.done
    <3> DEFINE left == SubSeq(b.left, end.used + 1, Len(b.left))
               new == <<symbol.key, end.text>>
               longer == Append(b.texts, new)
    <3>1. TakePieces(b, symbol) = [ok |-> TRUE, left |-> left, texts |-> longer]
      BY <2>7 DEF TakePieces, end
    <3>2. left \in Seq(R)
      BY <2>3, <2>5
    <3>3. new = Text(i + 1) /\ Text(i + 1) \in Q
      BY <2>1, <2>5, <2>7 DEF Text, Q, symbol
    <3> HIDE DEF left, new
    <3>4. b.texts \in Seq(Q) /\ Len(b.texts) = i /\ \A k \in 1 .. i : b.texts[k] = Text(k)
      BY <2>3, <2>7
    <3>5. /\ longer \in Seq(Q) /\ Len(longer) = i + 1
          /\ \A k \in 1 .. i + 1 : longer[k] = Text(k)
      <4> DEFINE old == b.texts
      <4>1. old \in Seq(Q) /\ Len(old) = i /\ new \in Q
        BY <3>3, <3>4
      <4> HIDE DEF old
      <4>2. /\ Append(old, new) \in Seq(Q) /\ Len(Append(old, new)) = i + 1
            /\ Append(old, new)[i + 1] = new
            /\ \A k \in 1 .. i : Append(old, new)[k] = old[k]
        BY <2>1, <4>1
      <4>3. \A k \in 1 .. i + 1 : k \in 1 .. i \/ k = i + 1
        BY <2>1
      <4>4. QED BY <3>3, <3>4, <4>2, <4>3 DEF old
    <3> HIDE DEF longer
    <3>6. Good(TakePieces(b, symbol), i + 1)
      BY <3>1, <3>2, <3>5
    <3>7. QED BY <2>1, <2>2, <3>6
  <2>8. QED BY <2>6, <2>7
<1>4. n \in G
  <2>1. 0 \in G
    BY <1>0, <1>2
  <2> HIDE DEF G
  <2>2. \A i \in 0 .. n : i \in G
    BY <1>0, <1>3, <2>1, UpTo
  <2>3. QED BY <1>0, <2>2
<1> DEFINE built == Assembled(symbols, pieces)
<1>5. Good(built, n)
  BY <1>1, <1>4
<1> HIDE DEF built, G
<1>6. ASSUME built.ok
      PROVE  /\ Len(built.texts) = n /\ \A i \in 1 .. n : built.texts[i] = Text(i)
             /\ DOMAIN built.texts = 1 .. n
  BY <1>5, <1>6
<1>7. QED BY <1>6 DEF built, n, Text

-----------------------------------------------------------------------------
(* The theorems.                                                           *)

Exact ==
  /\ decodedBytes \in 0 .. Len(output) /\ bounds.decoded \in Nat
  /\ ReaderOK(reader) /\ Follows(reader, decodedBytes)
  /\ reader.failure = "none" => decodedBytes <= bounds.decoded
  /\ gzip => decodedBytes <= bounds.decoded + 1
  /\ ~Reading(reader) =>
       decodedBytes = Len(output) /\ reader.lines = Whole(Len(output)) /\ Begun(Len(output)) = <<>>

\* The reader is where the output is split as long as it does not fail, within the limit,
\* and at the end of the output once the response is accepted.
ProtocolInv == OutputOK /\ Exact /\ SymbolTextIsWhole

LEMMA InitInv == ProtocolInit => ProtocolInv
<1> SUFFICES ASSUME ProtocolInit PROVE ProtocolInv
  OBVIOUS
<1>1. PICK d \in Deliveries : response = d[1] /\ output = d[2] /\ bounds = d[3]
  BY DEF ProtocolInit
<1>2. OutputOK /\ bounds.decoded \in Nat
  BY <1>1, DeliveryAssumption DEF OutputOK, DeliveryAssumption
<1>3. /\ decodedBytes = 0 /\ reader.phase = "hello" /\ reader.failure = "none"
      /\ reader.record = <<>> /\ reader.lines = <<>>
      /\ reader = [phase |-> reader.phase, failure |-> reader.failure, record |-> reader.record,
                   lines |-> reader.lines, pieces |-> reader.pieces, spools |-> reader.spools]
      /\ reader.spools = [k \in Kinds |-> <<>>]
  BY DEF ProtocolInit, Kinds
<1>4. Spooled(reader.spools)
  <2>1. <<>> \in Seq(Records) /\ "symbol" \in Kinds
    BY DEF Kinds
  <2>2. reader.spools \in [Kinds -> Seq(Records)] /\ reader.spools["symbol"] = <<>>
    BY <1>3, <2>1
  <2>3. QED BY <2>2 DEF Spooled
<1>5. Whole(0) = <<>> /\ Begun(0) = <<>> /\ 0 \in 0 .. Len(output)
  BY <1>2, Splits DEF Whole, Begun
<1>6. ReaderOK(reader) /\ Follows(reader, 0) /\ Reading(reader)
  BY <1>3, <1>4, <1>5 DEF ReaderOK, Follows, Reading
<1>7. Exact
  BY <1>2, <1>3, <1>5, <1>6 DEF Exact
<1>8. SymbolTextIsWhole
  BY <1>3 DEF SymbolTextIsWhole
<1>9. QED BY <1>2, <1>7, <1>8 DEF ProtocolInv

\* The invariant names the reader and the place in the output; all else stays.
LEMMA Primed ==
  ASSUME OutputOK, UNCHANGED <<response, output, bounds, gzip>>,
         decodedBytes' \in 0 .. Len(output), bounds.decoded \in Nat,
         ReaderOK(reader'), Follows(reader', decodedBytes'),
         reader'.failure = "none" => decodedBytes' <= bounds.decoded,
         gzip => decodedBytes' <= bounds.decoded + 1,
         ~Reading(reader') => /\ decodedBytes' = Len(output)
                              /\ reader'.lines = Whole(Len(output))
                              /\ Begun(Len(output)) = <<>>
  PROVE  OutputOK' /\ Exact'
<1>1. OutputOK'
  BY DEF OutputOK
<1>2. \A n : Whole(n)' = Whole(n) /\ Begun(n)' = Begun(n)
  BY DEF Whole, Begun
<1>3. ReaderOK(reader)'
  <2>1. Records' = Records
    BY DEF Records
  <2>2. Spooled(reader.spools)'
    BY <2>1 DEF ReaderOK, Spooled
  <2>3. \E j \in 0 .. Len(output') : reader'.lines = Whole(j)'
    BY <1>2 DEF ReaderOK
  <2>4. QED BY <2>2, <2>3 DEF ReaderOK
<1>4. Follows(reader, decodedBytes)'
  BY <1>2 DEF Follows
<1>5. Reading(reader)' = Reading(reader')
  BY DEF Reading
<1>6. QED BY <1>1, <1>2, <1>3, <1>4, <1>5 DEF Exact

LEMMA FeedKeeps == ProtocolInv /\ Feed => ProtocolInv'
<1> SUFFICES ASSUME ProtocolInv, Feed PROVE ProtocolInv'
  OBVIOUS
<1>0. /\ OutputOK /\ decodedBytes \in 0 .. Len(output) /\ Len(output) \in Nat
      /\ bounds.decoded \in Nat /\ ReaderOK(reader) /\ Follows(reader, decodedBytes)
      /\ decodedBytes <= bounds.decoded /\ reader.failure = "none"
      /\ UNCHANGED <<response, output, bounds, gzip, texts>>
  BY Splits DEF ProtocolInv, Exact, Feed
<1>1. PICK n \in 1 .. Len(output) - decodedBytes :
        LET wire == wireBytes + (IF gzip THEN 1 ELSE n)
            taken == IF gzip THEN Asked(n) ELSE n
        IN  \/ reader' = Failed(reader, "limit") /\ UNCHANGED decodedBytes
            \/ /\ decodedBytes' = decodedBytes + taken
               /\ reader' = IF taken > Left THEN Failed(reader, "limit")
                            ELSE ReadBytes(reader, SubSeq(output, decodedBytes + 1,
                                                          decodedBytes + taken))
  BY DEF Feed
<1> DEFINE taken == IF gzip THEN Asked(n) ELSE n
<1>2. Reading(reader)
  BY <1>0, <1>1 DEF ProtocolInv, Exact
<1>3. /\ taken \in 0 .. Len(output) - decodedBytes
      /\ gzip => decodedBytes + taken <= bounds.decoded + 1
      /\ taken <= Left => decodedBytes + taken <= bounds.decoded
      /\ taken > Left \/ taken <= Left
  BY <1>0, <1>1 DEF Asked, Left
<1> HIDE DEF taken
<1>4. ReaderOK(Failed(reader, "limit")) /\ Reading(Failed(reader, "limit"))
      /\ Failed(reader, "limit").failure = "limit"
  BY <1>0, <1>2, FailedIs DEF Reading
<1>5. CASE reader' = Failed(reader, "limit") /\ decodedBytes' = decodedBytes
  <2>1. gzip => decodedBytes <= bounds.decoded + 1
    BY <1>0
  <2>2. Follows(reader', decodedBytes')
    BY <1>4, <1>5 DEF Follows
  <2>3. OutputOK' /\ Exact'
    BY <1>0, <1>4, <1>5, <2>1, <2>2, Primed
  <2>4. SymbolTextIsWhole'
    BY <1>4, <1>5 DEF SymbolTextIsWhole, Reading
  <2>5. QED BY <2>3, <2>4 DEF ProtocolInv
<1>6. CASE decodedBytes' = decodedBytes + taken /\ taken > Left /\ reader' = Failed(reader, "limit")
  <2>1. decodedBytes' \in 0 .. Len(output)
    BY <1>0, <1>3, <1>6
  <2>2. Follows(reader', decodedBytes')
    BY <1>4, <1>6 DEF Follows
  <2>3. OutputOK' /\ Exact'
    BY <1>0, <1>3, <1>4, <1>6, <2>1, <2>2, Primed
  <2>4. SymbolTextIsWhole'
    BY <1>4, <1>6 DEF SymbolTextIsWhole, Reading
  <2>5. QED BY <2>3, <2>4 DEF ProtocolInv
<1>7. CASE /\ decodedBytes' = decodedBytes + taken /\ taken <= Left
           /\ reader' = ReadBytes(reader, SubSeq(output, decodedBytes + 1, decodedBytes + taken))
  <2>1. decodedBytes' \in 0 .. Len(output)
    BY <1>0, <1>3, <1>7
  <2>2. ReaderOK(reader') /\ Reading(reader') /\ Follows(reader', decodedBytes')
    BY <1>0, <1>2, <1>3, <1>7, ReadFollows
  <2>3. decodedBytes' <= bounds.decoded /\ (gzip => decodedBytes' <= bounds.decoded + 1)
    BY <1>3, <1>7
  <2>4. OutputOK' /\ Exact'
    BY <1>0, <2>1, <2>2, <2>3, Primed
  <2>5. SymbolTextIsWhole'
    BY <2>2 DEF SymbolTextIsWhole, Reading
  <2>6. QED BY <2>4, <2>5 DEF ProtocolInv
<1>8. QED
  <2>1. taken > Left => ~(taken <= Left)
    BY <1>0, <1>3 DEF Left
  <2>2. QED BY <1>1, <1>3, <1>5, <1>6, <1>7, <2>1 DEF taken

LEMMA FinishKeeps == ProtocolInv /\ Finish => ProtocolInv'
<1> SUFFICES ASSUME ProtocolInv, Finish PROVE ProtocolInv'
  OBVIOUS
<1>0. /\ OutputOK /\ decodedBytes \in 0 .. Len(output) /\ decodedBytes = Len(output)
      /\ bounds.decoded \in Nat /\ ReaderOK(reader) /\ Follows(reader, decodedBytes)
      /\ decodedBytes <= bounds.decoded /\ reader.failure = "none" /\ Reading(reader)
      /\ gzip => decodedBytes <= bounds.decoded + 1
      /\ UNCHANGED <<response, output, bounds, gzip, decodedBytes, texts>>
  BY DEF ProtocolInv, Exact, Finish, Reading
<1>1. CASE reader.record = <<>> /\ reader' = [reader EXCEPT !.phase = "read"]
  <2>1. reader' = [phase |-> "read", failure |-> reader.failure, record |-> reader.record,
                   lines |-> reader.lines, pieces |-> reader.pieces, spools |-> reader.spools]
    BY <1>0, <1>1 DEF ReaderOK
  <2>2. ReaderOK(reader') /\ Follows(reader', decodedBytes')
    BY <1>0, <2>1 DEF ReaderOK, Follows
  <2>3. reader'.lines = Whole(Len(output)) /\ Begun(Len(output)) = <<>>
    BY <1>0, <1>1, <2>1 DEF Follows
  <2>4. OutputOK' /\ Exact'
    BY <1>0, <2>2, <2>3, Primed
  <2>5. SymbolTextIsWhole'
    BY <2>1 DEF SymbolTextIsWhole
  <2>6. QED BY <2>4, <2>5 DEF ProtocolInv
<1>2. CASE reader' = Failed(reader, "protocol")
  <2>1. ReaderOK(reader') /\ Reading(reader') /\ reader'.failure = "protocol"
    BY <1>0, <1>2, FailedIs DEF Reading
  <2>2. OutputOK' /\ Exact'
    <3>1. Follows(reader', decodedBytes')
      BY <2>1 DEF Follows
    <3>2. QED BY <1>0, <2>1, <3>1, Primed
  <2>3. SymbolTextIsWhole'
    BY <2>1 DEF SymbolTextIsWhole, Reading
  <2>4. QED BY <2>2, <2>3 DEF ProtocolInv
<1>3. QED BY <1>1, <1>2 DEF Finish

LEMMA BuildKeeps == ProtocolInv /\ Build => ProtocolInv'
<1> SUFFICES ASSUME ProtocolInv, Build PROVE ProtocolInv'
  OBVIOUS
<1> DEFINE symbols == reader.spools["symbol"]
           pieces == reader.spools["piece"]
           built == Assembled(symbols, pieces)
<1>0. /\ OutputOK /\ decodedBytes \in 0 .. Len(output) /\ ~Reading(reader)
      /\ decodedBytes = Len(output) /\ reader.lines = Whole(Len(output))
      /\ Begun(Len(output)) = <<>>
      /\ bounds.decoded \in Nat /\ ReaderOK(reader) /\ Follows(reader, decodedBytes)
      /\ decodedBytes <= bounds.decoded /\ reader.failure = "none" /\ reader.phase = "read"
      /\ gzip => decodedBytes <= bounds.decoded + 1
      /\ UNCHANGED <<response, output, bounds, gzip, decodedBytes>>
  BY DEF ProtocolInv, Exact, Build, Reading
<1>1. CASE built.ok /\ texts' = built.texts /\ reader' = [reader EXCEPT !.phase = "built"]
  <2>1. reader' = [phase |-> "built", failure |-> reader.failure, record |-> reader.record,
                   lines |-> reader.lines, pieces |-> reader.pieces, spools |-> reader.spools]
    BY <1>0, <1>1 DEF ReaderOK
  <2>2. ReaderOK(reader') /\ Follows(reader', decodedBytes')
    BY <1>0, <2>1 DEF ReaderOK, Follows
  <2>3. OutputOK' /\ Exact'
    BY <1>0, <2>1, <2>2, Primed
  <2>4. symbols \in Seq(Records) /\ pieces \in Seq(Records)
        /\ \A i \in 1 .. Len(symbols) : symbols[i].kind = "symbol" /\ symbols[i] \in Records
    <3>1. "symbol" \in Kinds /\ "piece" \in Kinds
      BY DEF Kinds
    <3>2. symbols \in Seq(Records) /\ pieces \in Seq(Records)
      BY <1>0, <3>1 DEF ReaderOK, Spooled
    <3>3. \A i \in DOMAIN symbols : symbols[i].kind = "symbol"
      BY <1>0 DEF ReaderOK, Spooled
    <3> HIDE DEF symbols
    <3>4. QED BY <3>2, <3>3
  <2>5. \A i \in 1 .. Len(symbols) : Declares(symbols[i])
    <3> SUFFICES ASSUME NEW i \in 1 .. Len(symbols) PROVE Declares(symbols[i])
      OBVIOUS
    <3>1. PICK k \in DOMAIN response : symbols[i] = response[k]
      BY <2>4 DEF Records
    <3>2. QED BY <1>0, <2>4, <3>1 DEF OutputOK, Declares
  <2>6. /\ DOMAIN built.texts = 1 .. Len(symbols) /\ Len(built.texts) = Len(symbols)
        /\ \A i \in 1 .. Len(symbols) : built.texts[i] = <<symbols[i].key, symbols[i].pieces>>
    <3> HIDE DEF symbols, pieces
    <3>1. QED BY <1>1, <2>4, <2>5, AssembledIsWhole
  <2>7. SymbolTextIsWhole'
    <3>1. reader'.spools["symbol"] = symbols
      BY <2>1
    <3> HIDE DEF symbols, built
    <3>2. QED BY <1>1, <2>6, <3>1 DEF SymbolTextIsWhole
  <2>8. QED BY <2>3, <2>7 DEF ProtocolInv
<1>2. CASE reader' = Failed(reader, "protocol")
  <2>1. /\ ReaderOK(reader') /\ reader'.failure = "protocol" /\ reader'.phase = "read"
        /\ reader'.lines = reader.lines
    BY <1>0, <1>2, FailedIs
  <2>2. OutputOK' /\ Exact'
    <3>1. Follows(reader', decodedBytes')
      BY <2>1 DEF Follows
    <3>2. QED BY <1>0, <2>1, <3>1, Primed
  <2>3. SymbolTextIsWhole'
    BY <2>1 DEF SymbolTextIsWhole
  <2>4. QED BY <2>2, <2>3 DEF ProtocolInv
<1>3. QED BY <1>1, <1>2 DEF Build

LEMMA NextInv == ProtocolInv /\ [ProtocolNext]_protocolVars => ProtocolInv'
<1> SUFFICES ASSUME ProtocolInv, [ProtocolNext]_protocolVars PROVE ProtocolInv'
  OBVIOUS
<1>1. CASE UNCHANGED protocolVars
  <2>1. /\ UNCHANGED <<response, output, bounds, gzip>>
        /\ reader' = reader /\ decodedBytes' = decodedBytes /\ texts' = texts
    BY <1>1 DEF protocolVars
  <2>2. OutputOK' /\ Exact'
    BY <2>1, Primed DEF ProtocolInv, Exact
  <2>3. SymbolTextIsWhole'
    BY <2>1 DEF ProtocolInv, SymbolTextIsWhole
  <2>4. QED BY <2>2, <2>3 DEF ProtocolInv
<1>2. QED BY <1>1, FeedKeeps, FinishKeeps, BuildKeeps DEF ProtocolNext

LEMMA ExactDecoding == ProtocolInv => DecodingIsExact
<1> SUFFICES ASSUME ProtocolInv PROVE DecodingIsExact
  OBVIOUS
<1>1. PICK j \in 0 .. Len(output) : reader.lines = Whole(j)
  BY DEF ProtocolInv, Exact, ReaderOK
<1>2. Lines(output) = Whole(Len(output)) /\ Split(output)[Len(output)].line = Begun(Len(output))
  BY DEF Lines, Whole, Begun
<1>3. IsPrefix(reader.lines, Lines(output))
  <2>1. OutputOK /\ Len(output) \in 0 .. Len(output)
    BY Splits DEF ProtocolInv
  <2>2. Whole(j) \in Seq(Seq(DOMAIN response)) /\ Lines(output) \in Seq(Seq(DOMAIN response))
    BY <1>2, <2>1, SplitShape
  <2>3. Begins(Whole(j), Lines(output))
    BY <2>1, LinesStay
  <2>4. QED BY <1>1, <2>2, <2>3, BeginsIsPrefix
<1>4. reader.phase \in {"read", "built"} =>
        reader.lines = Lines(output) /\ Split(output)[Len(output)].line = <<>>
  BY <1>2 DEF ProtocolInv, Exact, Reading
<1>5. gzip => decodedBytes <= bounds.decoded + 1
  BY DEF ProtocolInv, Exact
<1>6. QED BY <1>3, <1>4, <1>5 DEF DecodingIsExact

THEOREM ProtocolInvariant == ProtocolSpec => []ProtocolInv
BY InitInv, NextInv, PTL DEF ProtocolSpec

\* However the output of the analyzer is cut into chunks, plain or compressed, the records
\* the decoder hands on are its lines in their order, an accepted response is read to its
\* end, and at most one byte past the limit is decoded (_JsonlStreamDecoder).
THEOREM EveryCutIsDecodedExactly == ProtocolSpec => []DecodingIsExact
BY ProtocolInvariant, ExactDecoding, PTL

\* The symbols of a batch that is built are those of the response, each with the texts it
\* declared (_SymbolTextChunks, _FactBatchBuilder.build).
THEOREM TextsAreThoseDeclared == ProtocolSpec => []SymbolTextIsWhole
<1>1. ProtocolInv => SymbolTextIsWhole
  BY DEF ProtocolInv
<1>2. QED BY ProtocolInvariant, <1>1, PTL

=============================================================================
