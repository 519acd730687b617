------------------------------- MODULE FactBatch -------------------------------
(* The facts of one translation unit, from the analyzer to the rows of the     *)
(* store (_FactBatchBuilder).  The analyzer sends facts that refer to each      *)
(* other by key.  The builder gives each key an identifier, resolves the        *)
(* references and refuses facts that leave their function; the store inserts    *)
(* the rows under their identifiers.                                            *)
EXTENDS Naturals, Sequences, FiniteSets, Functions

CONSTANT Streams   \* what an analyzer may send: sequences of facts

\* The kinds of fact, and the references each has fields for.
References ==
  [symbol |-> {}, occurrence |-> {"symbol", "enclosing"}, edge |-> {"symbol", "callee"},
   callsite |-> {"owner", "static"}, resolution |-> {"callsite"},
   call_target |-> {"callsite", "symbol"},
   graph |-> {"function", "entry", "exit"}, block |-> {"graph"},
   element |-> {"graph", "block"}, cfg_edge |-> {"graph", "from", "into"},
   analysis |-> {"graph"}, location |-> {"analysis", "graph", "base"},
   access |-> {"analysis", "graph", "block", "element", "location", "pointee"},
   evidence |-> {"analysis", "graph", "defined", "used", "source", "target"},
   summary |-> {"function", "graph", "analysis", "parameter"},
   effect |-> {"summary", "location", "access"},
   origin |-> {"summary", "location", "callsite"},
   argument |-> {"summary", "location", "callsite"},
   result |-> {"summary", "location", "callsite", "access"}]

Kinds == DOMAIN References

\* The kinds of fact only the full profile has.
Deep == Kinds \ {"symbol", "occurrence", "edge", "callsite", "resolution", "call_target"}

\* Of the fields a fact cannot lack, because _string refuses it without (native.py:2977),
\* those that say what it belongs to.
Mandatory == {"graph", "analysis", "summary"}

ASSUME StreamAssumption ==
  \A s \in Streams :
    /\ Len(s) \in Nat /\ DOMAIN s = 1 .. Len(s)
    /\ \A i \in DOMAIN s :
         /\ s[i].kind \in Kinds
         /\ DOMAIN s[i].refs \subseteq References[s[i].kind]
         /\ References[s[i].kind] \cap Mandatory \subseteq DOMAIN s[i].refs

VARIABLES
  received,  \* the facts received: kind, key, index, and refs, a key by role
  profile,   \* the index profile of the run
  outcome,   \* "pending", "refused", "conflict" at the store, or "stored"
  batch      \* the rows stored

batchVars == <<received, profile, outcome, batch>>

\* The kind of fact a role refers to.
Family(role) ==
  CASE role \in {"entry", "exit", "from", "into"} -> "block"
    [] role \in {"base", "parameter", "source", "target"} -> "location"
    [] role \in {"defined", "used"} -> "access"
    [] role \in {"function", "owner", "static", "callee", "pointee", "enclosing"} -> "symbol"
    [] OTHER -> role

Kind(kind) == {i \in DOMAIN received : received[i].kind = kind}

Keys(kind) == {received[i].key : i \in Kind(kind)}

\* The fact a key stands for: a later fact of the same key takes its place.
Fact(kind, key) ==
  LET same == {i \in Kind(kind) : received[i].key = key}
  IN  received[CHOOSE i \in same : \A j \in same : j <= i]

\* An edge without a resolved target is passed over.
OpenEdge(f) == f.kind = "edge" /\ "callee" \notin DOMAIN f.refs
-----------------------------------------------------------------------------
(* Identifiers, made of what identifies a fact in the whole build.           *)

GraphId(key) == <<"cfg", Fact("graph", key).refs.function>>

BlockId(key) ==
  LET f == Fact("block", key) IN <<"block", GraphId(f.refs.graph), f.index>>

ElementId(key) ==
  LET f == Fact("element", key)
  IN  <<"element", GraphId(f.refs.graph), BlockId(f.refs.block), f.index>>

AnalysisId(key) == <<"flow", GraphId(Fact("analysis", key).refs.graph)>>

LocationId(key) == <<"memory", AnalysisId(Fact("location", key).refs.analysis), key>>

AccessId(key) == <<"access", AnalysisId(Fact("access", key).refs.analysis), key>>

SummaryId(key) == <<"summary", GraphId(Fact("summary", key).refs.graph)>>

SiteId(key) == <<"callsite", Fact("callsite", key).refs.owner, key>>

Id(kind, key) ==
  CASE kind = "graph" -> GraphId(key)
    [] kind = "block" -> BlockId(key)
    [] kind = "element" -> ElementId(key)
    [] kind = "analysis" -> AnalysisId(key)
    [] kind = "location" -> LocationId(key)
    [] kind = "access" -> AccessId(key)
    [] kind = "summary" -> SummaryId(key)
    [] kind = "callsite" -> SiteId(key)
    [] kind = "symbol" -> <<"sym", key>>
-----------------------------------------------------------------------------
(* What the builder refuses.                                                 *)

\* Every reference is to a fact that was sent.
Resolved(kinds) ==
  \A kind \in kinds : \A i \in Kind(kind) :
    ~OpenEdge(received[i]) => \A role \in DOMAIN received[i].refs :
      received[i].refs[role] \in Keys(Family(role))

\* The references of a kind in these roles are to facts of the fact's own graph.
SameGraph(kind, roles) ==
  \A i \in Kind(kind) : \A role \in roles \cap DOMAIN received[i].refs :
    GraphId(Fact(Family(role), received[i].refs[role]).refs.graph)
      = (IF kind = "graph" THEN GraphId(received[i].key) ELSE GraphId(received[i].refs.graph))

SymbolFacts == Resolved({"occurrence", "edge"})

CallFacts == Resolved({"callsite", "resolution", "call_target"})

\* Mutant: only the edges are compared with the graph.
EdgesInGraph == SameGraph("cfg_edge", {"from", "into"})

\* _cfg_facts: endpoints, elements and edges stay inside their graph.
InsideGraphs ==
  /\ SameGraph("graph", {"entry", "exit"})
  /\ SameGraph("element", {"block"})
  /\ SameGraph("cfg_edge", {"from", "into"})

CfgFacts == Resolved({"graph", "block", "element", "cfg_edge"}) /\ InsideGraphs

\* The analysis a fact names, or the one its summary names.
AnalysisOf(f) ==
  AnalysisId(IF "summary" \in DOMAIN f.refs THEN Fact("summary", f.refs.summary).refs.analysis
             ELSE f.refs.analysis)

\* The references of a kind in these roles are to facts of the fact's own analysis.
SameAnalysis(kind, roles) ==
  \A i \in Kind(kind) : \A role \in roles \cap DOMAIN received[i].refs :
    AnalysisId(Fact(Family(role), received[i].refs[role]).refs.analysis) = AnalysisOf(received[i])

\* _data_flow_facts: locations, accesses and evidence stay in one analysis, and the
\* analysis in one graph.  Evidence relates two accesses or two locations.
DataFlowFacts ==
  /\ Resolved({"analysis", "location", "access", "evidence"})
  /\ \A kind \in {"location", "access", "evidence"} : SameGraph(kind, {"analysis"})
  /\ SameAnalysis("location", {"base"})
  /\ SameAnalysis("access", {"location"})
  /\ SameGraph("access", {"block", "element"})
  /\ SameAnalysis("evidence", {"defined", "used", "source", "target"})
  /\ \A i \in Kind("evidence") :
       DOMAIN received[i].refs \ {"graph", "analysis"}
         \in {{"defined", "used"}, {"source", "target"}}

\* A parameter a summary's fact names by its place is one the summary has.
ParametersExist ==
  \A kind \in {"effect", "origin", "argument"} : \A i \in Kind(kind) :
    received[i].index <= Fact("summary", received[i].refs.summary).index

\* _interprocedural_facts: a summary belongs to the function and the analysis of its
\* graph, and its effects, origins and bindings to that analysis.
InterproceduralFacts ==
  /\ Resolved({"summary", "effect", "origin", "argument", "result"})
  /\ SameGraph("summary", {"analysis"})
  /\ \A i \in Kind("summary") :
       received[i].refs.function = Fact("graph", received[i].refs.graph).refs.function
  /\ SameAnalysis("summary", {"parameter"})
  /\ \A kind \in {"effect", "origin", "argument", "result"} :
       SameAnalysis(kind, {"location", "access"})
  /\ ParametersExist

Full == profile = "full"

Accepted ==
  SymbolFacts /\ CallFacts /\ (Full => CfgFacts /\ DataFlowFacts /\ InterproceduralFacts)
-----------------------------------------------------------------------------
(* The rows.                                                                 *)

\* Kinds of which several facts may stand for one thing.
Merged == {"symbol", "occurrence", "edge", "callsite"}

\* The facts that become rows: a resolution only completes its callsite, of which
\* the last fact counts.
Kept ==
  {i \in DOMAIN received :
     LET f == received[i]
     IN  /\ Full \/ f.kind \notin Deep
         /\ f.kind # "resolution" /\ ~OpenEdge(f)
         /\ f.kind = "callsite" => f = Fact("callsite", f.key)}

\* What other rows refer to is known by its identifier, the rest by what it is of.
Row(i) ==
  LET f == received[i]
      refs == [role \in DOMAIN f.refs |-> Id(Family(role), f.refs[role])]
      of == DOMAIN refs \cap {"analysis", "summary", "callsite"}
  IN  [kind |-> f.kind, refs |-> refs,
       id |-> IF f.kind \in {"effect", "origin", "argument", "result", "evidence", "cfg_edge",
                             "call_target", "occurrence", "edge"}
              THEN <<Restrict(refs, of), f.key>> ELSE Id(f.kind, f.key)]

\* Two facts for one primary key: the insert fails.
Conflict ==
  \E i, j \in Kept : /\ i # j /\ received[i].kind = received[j].kind
                     /\ received[i].kind \notin Merged /\ Row(i).id = Row(j).id

BatchInit ==
  /\ received \in Streams /\ profile \in {"navigation", "full"}
  /\ outcome = "pending" /\ batch = {}

Refuse ==
  /\ outcome = "pending" /\ ~Accepted
  /\ outcome' = "refused" /\ UNCHANGED <<received, profile, batch>>

Reject ==
  /\ outcome = "pending" /\ Accepted /\ Conflict
  /\ outcome' = "conflict" /\ UNCHANGED <<received, profile, batch>>

Store ==
  /\ outcome = "pending" /\ Accepted /\ ~Conflict
  /\ outcome' = "stored" /\ batch' = {Row(i) : i \in Kept}
  /\ UNCHANGED <<received, profile>>

BatchNext == Refuse \/ Reject \/ Store

BatchSpec == BatchInit /\ [][BatchNext]_batchVars
-----------------------------------------------------------------------------
Found(kind, id) == CHOOSE r \in batch : r.kind = kind /\ r.id = id

\* The function a row belongs to, read from the rows alone.
GraphOfRow(r) ==
  CASE r.kind = "graph" -> r.id
    [] "graph" \in DOMAIN r.refs -> r.refs.graph
    [] "summary" \in DOMAIN r.refs -> Found("summary", r.refs.summary).refs.graph

\* "must not be able to persist a CFG relation that crosses graph boundaries"
\* (_cfg_facts), and the same of data flow and summaries: whatever the analyzer sent,
\* a stored row refers to stored rows, of its own function if they belong to one.
RowsStayInTheirFunction ==
  outcome = "stored" => \A r \in batch : \A role \in DOMAIN r.refs :
    LET kind == Family(role)
    IN  /\ \E q \in batch : q.kind = kind /\ q.id = r.refs[role]
        /\ kind \notin {"symbol", "callsite"} =>
             GraphOfRow(Found(kind, r.refs[role])) = GraphOfRow(r)
=============================================================================
