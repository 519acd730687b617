----------------------------- MODULE SummarySolver -----------------------------
(* The solver of the function summaries of one build (analysis/interprocedural *)
(* .py).  A summary belongs to a body of a function: its effects and return     *)
(* origins are its own and those of the bodies it calls, seen through the       *)
(* arguments of the call.  The solver orders the strongly connected components  *)
(* of the call graph callees first, iterates each to its fixed point within     *)
(* limits, writes its summaries, and drops the values of a body as soon as      *)
(* every caller outside its component is solved.                                *)
EXTENDS Naturals, Sequences, FiniteSets, FiniteSetsExt, Functions, SequencesExt, TLC

CONSTANTS
  Programs,    \* programs: functions from 1 .. n to bodies
  LimitChoices \* limits: records of iterations, size and effects

VARIABLES
  program,     \* the bodies: function, unit, parameters, gaps, effects, origins, sites
  limits,      \* max_scc_iterations, max_scc_size, max_summary_effects
  components,  \* the components still to solve, in order
  iteration,   \* transfers of the first of them made so far
  values,      \* current effects, origins and reasons of the bodies not released
  remaining,   \* remaining_callers
  emitted      \* the summaries written, with the flows recorded for them

solverVars == <<program, limits, components, iteration, values, remaining, emitted>>

Bodies == DOMAIN program

\* The bodies a target stands for: those of the caller's unit if there are any.
CalleeBodies(caller, target) ==
  LET candidates == {b \in Bodies : program[b].function = target}
      same == {b \in candidates : program[b].unit = program[caller].unit}
  IN  IF same # {} THEN same ELSE candidates

\* The calls of a body, one for each site, target and body.
Edges(caller) ==
  {e \in [site : program[caller].sites, target : {program[b].function : b \in Bodies},
          callee : Bodies] :
     e.target \in e.site.targets /\ e.callee \in CalleeBodies(caller, e.target)}

Adjacency == [b \in Bodies |-> {e.callee : e \in Edges(b)}]
-----------------------------------------------------------------------------
(* Tarjan's components.                                                      *)

\* A successor still on the stack lowers the node to the successor's index.
OnStack(s, node) == node \in ToSet(s.stack)

\* The members of the stack down to the node become a component.
PopComponent(s, node) ==
  LET at == CHOOSE i \in DOMAIN s.stack : s.stack[i] = node
  IN  [s EXCEPT !.stack = SubSeq(@, 1, at - 1),
                !.result = Append(@, ToSet(SubSeq(s.stack, at, Len(s.stack))))]

RECURSIVE Visit(_, _, _)
Visit(s, node, adjacency) ==
  LET LowerTo(t, low) == [t EXCEPT !.low[node] = IF low < @ THEN low ELSE @]
      Follow(t, target) ==
        IF target \notin DOMAIN t.index
        THEN LET after == Visit(t, target, adjacency) IN LowerTo(after, after.low[target])
        ELSE IF OnStack(t, target) THEN LowerTo(t, t.index[target])
        ELSE t
      entered == [index |-> s.index @@ (node :> Cardinality(DOMAIN s.index)),
                  low |-> s.low @@ (node :> Cardinality(DOMAIN s.index)),
                  stack |-> Append(s.stack, node), result |-> s.result]
      explored == FoldLeft(Follow, entered, SetToSortSeq(adjacency[node], <))
  IN  IF explored.low[node] = explored.index[node] THEN PopComponent(explored, node)
      ELSE explored

Components(adjacency) ==
  FoldLeft(LAMBDA s, node :
             IF node \in DOMAIN s.index THEN s ELSE Visit(s, node, adjacency),
           [index |-> <<>>, low |-> <<>>, stack |-> <<>>, result |-> <<>>],
           SetToSortSeq(DOMAIN adjacency, <)).result
-----------------------------------------------------------------------------
(* One transfer.                                                             *)

Component == Head(components)

Oversized == Cardinality(Component) > limits.size

Recursive == Cardinality(Component) > 1 \/ \E b \in Component : b \in Adjacency[b]

\* A body's values v as a caller reads them: a released body has none.
Known(v, b) ==
  IF b \in DOMAIN v THEN v[b] ELSE [effects |-> {}, origins |-> {}, reasons |-> {}]

\* An effect of a callee in its caller: on the argument when it is on the parameter,
\* as it is when the place is visible everywhere, and else dropped.
EffectsThrough(e, effects) ==
  LET Seen(f, place) == [kind |-> f.kind, source |-> f.source, place |-> place,
                         via |-> <<e.site.name, e.target>>]
  IN  {Seen(f, e.site.argument) :
         f \in {f \in effects : f.place = "parameter" /\ e.site.argument # "none"}}
      \cup {Seen(f, f.place) : f \in {f \in effects : f.place = "global"}}

\* A return origin of a callee in its caller: unknown at worst.
OriginsThrough(e, origins) ==
  LET Place(o) == IF o.place # "parameter" THEN o.place
                  ELSE IF e.site.argument = "none" THEN "unknown" ELSE e.site.argument
  IN  {[place |-> IF o.place = "result" THEN "unknown" ELSE Place(o),
        via |-> <<e.site.name, e.target>>] : o \in origins}

\* The caller returns what the call returns.
Returned(caller, site) == [place |-> "result", via |-> <<site.name>>] \in program[caller].origins

Reason(name, holds) == IF holds THEN {name} ELSE {}

\* Evidence that is missing at the caller itself, whatever its callees hold.
OwnReasons(b) ==
  program[b].gaps
  \cup Reason("target", \E s \in program[b].sites : ~s.closed \/ s.targets = {})
  \cup Reason("body", \E s \in program[b].sites : \E t \in s.targets : CalleeBodies(b, t) = {})
  \cup Reason("bodies", \E e \in Edges(b) : Cardinality(CalleeBodies(b, e.target)) > 1)
  \cup Reason("binding", \E e \in Edges(b) : /\ program[e.callee].parameters > 0
                                             /\ e.site.argument = "none" \/ ~e.site.whole)

CalleeIncomplete(v, b) == \E e \in Edges(b) : Known(v, e.callee).reasons # {}

Transfer(b) ==
  LET effects == program[b].effects
                 \cup UNION {EffectsThrough(e, Known(values, e.callee).effects) : e \in Edges(b)}
      kept == IF Cardinality(effects) <= limits.effects THEN effects
              ELSE CHOOSE some \in kSubset(limits.effects, effects) : TRUE
  IN  [effects |-> kept,
       origins |-> program[b].origins
                   \cup UNION {OriginsThrough(e, Known(values, e.callee).origins) :
                                 e \in {e \in Edges(b) : Returned(b, e.site)}},
       reasons |-> OwnReasons(b) \cup Reason("size", Oversized)
                   \cup Reason("callee", CalleeIncomplete(values, b))
                   \cup Reason("effects", kept # effects)]

\* The flows of a body's calls, from the values v of its callees.
Flows(v, b) ==
  LET Flow(e, kind) == <<kind, e.site.name, e.target, e.callee>>
      bound == {e \in Edges(b) : e.site.argument # "none" /\ program[e.callee].parameters > 0}
      written == {e \in bound : \E f \in Known(v, e.callee).effects :
                                  f.kind = "write" /\ f.place = "parameter"}
      received == {e \in Edges(b) : e.site.result /\ Known(v, e.callee).origins # {}}
  IN  {Flow(e, "argument") : e \in bound} \cup {Flow(e, "writeback") : e \in written}
      \cup {Flow(e, "return") : e \in received}
-----------------------------------------------------------------------------
SolverInit ==
  /\ program \in Programs /\ limits \in LimitChoices
  /\ components = Components(Adjacency)
  /\ iteration = 0 /\ emitted = <<>>
  /\ values = [b \in Bodies |-> [effects |-> program[b].effects,
                                 origins |-> program[b].origins, reasons |-> program[b].gaps]]
  /\ remaining = [b \in Bodies |->
       Cardinality({c \in Bodies : b \in Adjacency[c] /\
                      ~\E k \in DOMAIN components : {b, c} \subseteq components[k]})]

\* Mutant: the first caller releases a body.
ReleasedByOne(b) == TRUE

\* No body after this component calls b from outside b's own component.
Unneeded(b) ==
  remaining[b] = Cardinality({c \in Component \ {b} : b \in Adjacency[c]})

\* The component is solved: its summaries are written from the values v, and the
\* values no later caller needs are dropped.
Settle(v) ==
  LET called == (UNION {Adjacency[c] : c \in Component}) \ Component
      dropped == {b \in called : Unneeded(b)} \cup {b \in Component : remaining[b] = 0}
  IN  /\ emitted' = [b \in Component |-> [result |-> v[b], flows |-> Flows(v, b),
                                          recursive |-> Recursive]] @@ emitted
      /\ remaining' = [b \in Bodies |->
           IF b \in called THEN remaining[b] - Cardinality({c \in Component : b \in Adjacency[c]})
           ELSE remaining[b]]
      /\ values' = Restrict(v, DOMAIN v \ dropped)
      /\ components' = Tail(components) /\ iteration' = 0

\* A body outside every cycle: one transfer reaches its fixed point.
SolveAlone ==
  /\ components # <<>> /\ ~Recursive
  /\ \E b \in Component :
       LET next == Transfer(b)
           capped == next # values[b] /\ limits.iterations = 1
       IN  Settle([values EXCEPT ![b] =
                     [next EXCEPT !.reasons = @ \cup Reason("iterations", capped)]])
  /\ UNCHANGED <<program, limits>>

IterationLimit == IF Oversized THEN 1 ELSE limits.iterations

Capped(converged) == ~converged /\ ~Oversized

\* A recursive component: every member from the values of the iteration before.
Iterate ==
  /\ components # <<>> /\ Recursive
  /\ LET next == [b \in Component |-> Transfer(b)] @@ values
         converged == next = values
         last == [b \in Component |->
                    [next[b] EXCEPT !.reasons =
                       @ \cup Reason("iterations", Capped(converged))]] @@ next
     IN  IF converged \/ iteration + 1 = IterationLimit THEN Settle(last)
         ELSE /\ values' = next /\ iteration' = iteration + 1
              /\ UNCHANGED <<components, remaining, emitted>>
  /\ UNCHANGED <<program, limits>>

SolverNext == SolveAlone \/ Iterate
-----------------------------------------------------------------------------
(* What the bodies do, with no limit and no order.                           *)

\* The effects of each body within n calls.
Within(n) ==
  FoldLeft(LAMBDA known, k : [b \in Bodies |-> program[b].effects
             \cup UNION {EffectsThrough(e, known[e.callee]) : e \in Edges(b)}],
           [b \in Bodies |-> program[b].effects], [k \in 1 .. n |-> k])

\* The bodies b calls, itself included.
Below(b) ==
  FoldLeft(LAMBDA known, k : known \cup UNION {Adjacency[c] : c \in known}, {b},
           [k \in 1 .. Cardinality(Bodies) |-> k])

\* A summary that is complete has every effect of the calls below it, none of them
\* misses evidence, and the flows into its calls are those of the summaries written
\* for the callees: no limit, cycle or early release takes a fact away unnoticed
\* (solve_interprocedural).  No summary, complete or not, has an effect of no chain.
SummariesAreWhole ==
  components = <<>> =>
    LET whole == Within(3 * Cardinality(Bodies))
    IN  \A b \in Bodies :
          LET solved == emitted[b].result
          IN  /\ solved.effects \subseteq whole[b]
              /\ solved.reasons = {} =>
                   /\ solved.effects = whole[b]
                   /\ \A c \in Below(b) : OwnReasons(c) = {} /\ emitted[c].result.reasons = {}
                   /\ emitted[b].flows = Flows([c \in Bodies |-> emitted[c].result], b)

\* "an omitted fact always reduces completeness" (solve_interprocedural): a complete
\* summary has, for each call, every effect of the callee outside the callee's frame.
OmissionsAreReported ==
  components = <<>> =>
    \A b \in Bodies : emitted[b].result.reasons = {} =>
      \A e \in Edges(b) : \A f \in emitted[e.callee].result.effects :
        f.place # "local" =>
          \E g \in emitted[b].result.effects :
            g.source = f.source /\ g.via = <<e.site.name, e.target>>
=============================================================================
