-------------------------------- MODULE StoreMC --------------------------------
(* A TLC instance of components that do not share state, on the way from the   *)
(* analyzer's bytes to the rows of the index: AnalyzerProtocol, FactBatch,     *)
(* SummarySolver, FactStore, EmbeddingStore and SchemaMigration.  The first    *)
(* state chooses the one that moves; what the others get to do is empty.       *)
EXTENDS SchemaMigration, FactStore, EmbeddingStore, SummarySolver, FactBatch,
        AnalyzerProtocol, TLC

-----------------------------------------------------------------------------
(* Units of two builds that declare, define, override and call f, g, h and k. *)

Decl(t) == [definition |-> FALSE, text |-> t]
Def(t) == [definition |-> TRUE, text |-> t]
ThreeVariants == <<1, 1, 2>>
OneText == <<1, 1, 2>>
TwoDimensions == {<<1, 1>>, <<2, 1>>}
Site(owner, static, virtual) == [owner |-> owner, static |-> static, virtual |-> virtual]
UnitFacts(symbols, overrides, calls, bodies) ==
  [symbols |-> symbols, overrides |-> overrides, calls |-> calls, bodies |-> bodies]

TwoBuilds == <<1, 1, 1, 2>>
UnitsFacts == <<
  { UnitFacts("f" :> Def(1), {}, {}, "f" :> {1}),
    UnitFacts("f" :> Def(2) @@ "h" :> Decl(1) @@ "g" :> Decl(1), {<<"h", "g">>}, {}, "f" :> {}) },
  { UnitFacts("f" :> Decl(1) @@ "g" :> Def(1), {<<"g", "f">>}, {}, "g" :> {2}),
    UnitFacts("f" :> Decl(2) @@ "g" :> Decl(1) @@ "h" :> Def(1) @@ "k" :> Decl(1),
              {<<"g", "f">>}, {Site("h", "k", FALSE)}, "h" :> {3}),
    UnitFacts("f" :> Decl(1) @@ "g" :> Def(1), {}, {}, "g" :> {}) },
  { UnitFacts("f" :> Decl(1) @@ "k" :> Def(1), {}, {Site("k", "f", TRUE)}, "k" :> {}),
    UnitFacts("f" :> Decl(1) @@ "k" :> Def(1) @@ "g" :> Def(2), {}, {Site("k", "g", TRUE)},
              "k" :> {} @@ "g" :> {4}) },
  { UnitFacts("f" :> Def(2), {}, {}, "f" :> {2}) } >>

-----------------------------------------------------------------------------
(* Programs: f, g and h with calls that pass their parameter, a global or a    *)
(* dereference on, some unresolved; and every call graph of three functions.   *)

Effect(kind, place) == [kind |-> kind, source |-> place, place |-> place, via |-> <<>>]
Call(n, targets, argument) ==
  [name |-> n, targets |-> targets, closed |-> TRUE, argument |-> argument,
   whole |-> argument # "none", result |-> TRUE]
Body(f, u, parameters, effects, sites) ==
  [function |-> f, unit |-> u, parameters |-> parameters, gaps |-> {}, effects |-> effects,
   origins |-> {[place |-> "result", via |-> <<s.name>>] : s \in sites}
                 \cup {[place |-> "parameter", via |-> <<>>]},
   sites |-> sites]
Writes(place) == {Effect("write", place)}
CallsOf(n) ==
  {{}, {Call(n, {"f"}, "none")}, {Call(n, {"g"}, "parameter")}, {Call(n, {"h"}, "global")},
   {Call(n, {"g", "h"}, "parameter")},
   {Call(n, {"f"}, "global"), Call(n + 10, {"h"}, "parameter")},
   {[Call(n, {"x"}, "none") EXCEPT !.closed = FALSE]}}
Dereferences == {Call(2, {"g"}, "dereference")}
ThreeFunctions ==
  {<<Body("f", 1, 0, Writes("global"), a), Body("g", 1, 1, Writes("parameter"), b),
     Body("h", 2, 1, Writes("parameter"), c)>>
   : a \in CallsOf(1), b \in CallsOf(2) \cup {Dereferences}, c \in CallsOf(3)}
Name == <<"f", "g", "h">>
Graphs ==
  {[i \in 1..3 |-> Body(Name[i], 1, 0, IF i = 1 THEN Writes("global") ELSE {},
                        {Call(10 * i + j, {Name[j]}, "global") : j \in adjacent[i]})]
   : adjacent \in [1..3 -> SUBSET (1..3)]}
Limits(iterations, size, effects) ==
  [iterations |-> iterations, size |-> size, effects |-> effects]
SmallPrograms == ThreeFunctions \cup Graphs
SmallLimits == {Limits(9, 9, 9), Limits(2, 9, 9), Limits(9, 2, 9), Limits(9, 9, 1)}

-----------------------------------------------------------------------------
(* Streams of facts: two functions whose facts have the keys of one letter,    *)
(* with one reference, key or index changed, or one fact missing; and six of   *)
(* these with a second change.                                                 *)

FactOf(kind, key, index, refs) == [kind |-> kind, key |-> key, index |-> index, refs |-> refs]
In(x, roles) == [role \in roles |-> x]
FunctionFacts(x) == <<
  FactOf("symbol", x, 0, <<>>),
  FactOf("occurrence", x, 0, In(x, {"symbol", "enclosing"})),
  FactOf("edge", x, 0, In(x, {"symbol", "callee"})),
  FactOf("callsite", x, 0, In(x, {"owner", "static"})),
  FactOf("resolution", x, 0, In(x, {"callsite"})),
  FactOf("call_target", x, 0, In(x, {"callsite", "symbol"})),
  FactOf("graph", x, 0, In(x, {"function", "entry", "exit"})),
  FactOf("block", x, 0, In(x, {"graph"})),
  FactOf("element", x, 0, In(x, {"graph", "block"})),
  FactOf("cfg_edge", x, 0, In(x, {"graph", "from", "into"})),
  FactOf("analysis", x, 0, In(x, {"graph"})),
  FactOf("location", x, 0, In(x, {"analysis", "graph", "base"})),
  FactOf("access", x, 0, In(x, {"analysis", "graph", "block", "element", "location", "pointee"})),
  FactOf("evidence", x, 0, In(x, {"analysis", "graph", "defined", "used"})),
  FactOf("evidence", x \o "l", 0, In(x, {"analysis", "graph", "source", "target"})),
  FactOf("summary", x, 1, In(x, {"function", "graph", "analysis", "parameter"})),
  FactOf("effect", x, 1, In(x, {"summary", "location", "access"})),
  FactOf("origin", x, 0, In(x, {"summary", "location", "callsite"})),
  FactOf("argument", x, 1, In(x, {"summary", "location", "callsite"})),
  FactOf("result", x, 0, In(x, {"summary", "location", "callsite", "access"})) >>
TwoFunctions == FunctionFacts("f") \o FunctionFacts("g")
Changed(s) ==
  UNION {{[s EXCEPT ![i].refs[role] = k] : role \in DOMAIN s[i].refs, k \in {"g", "x"}}
         : i \in DOMAIN s}
  \cup {RemoveAt(s, i) : i \in DOMAIN s}
  \cup {[s EXCEPT ![i].key = "g"] : i \in DOMAIN s}
  \cup {[s EXCEPT ![i].index = 2] : i \in DOMAIN s}
TwiceChanged ==
  UNION {Changed([TwoFunctions EXCEPT ![p[1]].refs[p[2]] = "g"])
         : p \in {<<7, "function">>, <<8, "graph">>, <<11, "graph">>,
                  <<12, "analysis">>, <<12, "graph">>, <<13, "analysis">>}}
FactStreams == {<<>>, TwoFunctions} \cup Changed(TwoFunctions) \cup TwiceChanged

-----------------------------------------------------------------------------
(* Responses: a whole one, and those with a record lost, repeated, exchanged   *)
(* or damaged; limits that are just missed.                                    *)

Record(kind) == [kind |-> kind, size |-> 1, ended |-> TRUE]
Symbol(key, pieces) == Record("symbol") @@ [key |-> key, pieces |-> pieces]
Piece(key, field, i, text) ==
  Record("piece") @@ [key |-> key, field |-> field, index |-> i, text |-> text]
Whole == <<
  Record("hello"), Record("begin"),
  Symbol("s", "doc" :> <<1, 2>> @@ "source" :> <<3, 4, 5>>), Piece("s", "doc", 0, <<1, 2>>),
  Piece("s", "source", 0, <<3>>), Piece("s", "source", 1, <<4, 5>>),
  Record("fact") @@ [pieces |-> <<>>, key |-> "x"],
  Symbol("t", "source" :> <<6, 7>>), Piece("t", "source", 0, <<6>>),
  Piece("t", "source", 1, <<7>>), Record("complete") @@ [success |-> TRUE] >>
Damaged ==
  {RemoveAt(Whole, i) : i \in DOMAIN Whole}
  \cup {InsertAt(Whole, i, Whole[j]) : i, j \in DOMAIN Whole}
  \cup {[Whole EXCEPT ![i] = Whole[j], ![j] = Whole[i]] : i, j \in DOMAIN Whole}
  \cup {[Whole EXCEPT ![i].ended = FALSE] : i \in DOMAIN Whole}
  \cup {[Whole EXCEPT ![i].size = n] : i \in DOMAIN Whole, n \in {0, 3}}
  \cup {[Whole EXCEPT ![6].text = <<5, 4>>], [Whole EXCEPT ![11].success = FALSE]}
  \cup {[Whole EXCEPT ![3].pieces = p] : p \in {"doc" :> <<>>, "name" :> <<1, 2>>}}
Bytes(wire, decoded, record) == [wire |-> wire, decoded |-> decoded, record |-> record]
\* The bytes a response is written with.
OutputOf(s) ==
  FlattenSeq([i \in DOMAIN s |-> [k \in 1 .. s[i].size |-> i] \o (IF s[i].ended THEN <<0>> ELSE <<>>)])
AllDeliveries ==
  {<<s, OutputOf(s), Bytes(99, 99, 9)>> : s \in Damaged \cup {<<>>}}
  \cup {<<Whole, OutputOf(Whole), b>>
         : b \in {Bytes(99, 99, 2), Bytes(99, 20, 9), Bytes(99, 7, 9), Bytes(5, 99, 9), Bytes(22, 22, 1)}}
TextFields == <<"doc", "source">>

-----------------------------------------------------------------------------
VARIABLE subject

unitVars == <<schemaVars, storeVars, embeddingVars>>
pathVars == <<solverVars, batchVars, protocolVars>>

\* An idle component has no program, no facts and no response.
Init ==
  /\ subject \in {"schema", "store", "embeddings", "solver", "batch", "protocol"}
  /\ SchemaInit /\ StoreInit /\ EmbeddingInit
  /\ subject # "schema" => db = At(Released(Current), 26)
  /\ subject # "embeddings" => snapshot = [r \in Rows |-> 0]
  /\ IF subject = "batch" THEN BatchInit
     ELSE received = <<>> /\ profile = "full" /\ outcome = "pending" /\ batch = {}
  /\ IF subject = "protocol" THEN ProtocolInit
     ELSE ProtocolInit /\ response = <<>> /\ gzip
  /\ IF subject = "solver" THEN SolverInit
     ELSE /\ program = <<>> /\ limits = Limits(9, 9, 9) /\ components = <<>> /\ iteration = 0
          /\ values = <<>> /\ remaining = <<>> /\ emitted = <<>>

Next ==
  \/ /\ subject = "schema" /\ SchemaNext
     /\ UNCHANGED <<subject, storeVars, embeddingVars, pathVars>>
  \/ /\ subject = "store" /\ StoreNext
     /\ UNCHANGED <<subject, schemaVars, embeddingVars, pathVars>>
  \/ /\ subject = "embeddings" /\ EmbeddingNext
     /\ UNCHANGED <<subject, schemaVars, storeVars, pathVars>>
  \/ /\ subject = "solver" /\ SolverNext
     /\ UNCHANGED <<subject, unitVars, batchVars, protocolVars>>
  \/ /\ subject = "batch" /\ BatchNext
     /\ UNCHANGED <<subject, unitVars, solverVars, protocolVars>>
  \/ /\ subject = "protocol" /\ ProtocolNext
     /\ UNCHANGED <<subject, unitVars, solverVars, batchVars>>

Spec == Init /\ [][Next]_<<subject, unitVars, pathVars>>
=============================================================================
