---------------------------- MODULE SummarySolverMC ----------------------------
(* A TLC instance of SummarySolver: f calls g with a pointer, and g passes it   *)
(* on to h as a pointer, a pointee, a global or a local.                         *)
EXTENDS SummarySolver

Write == [kind |-> "write", source |-> "parameter", place |-> "parameter", via |-> <<>>]
Call(target, argument) ==
  [name |-> target, targets |-> {target}, closed |-> TRUE, argument |-> argument,
   whole |-> TRUE, result |-> FALSE]
Body(f, effects, sites) ==
  [function |-> f, unit |-> 1, parameters |-> 1, gaps |-> {}, effects |-> effects,
   origins |-> {}, sites |-> sites]
Arguments == {"parameter", "dereference", "global", "local"}
Chains ==
  {<<Body("f", {}, {Call("g", a)}), Body("g", own, {Call("h", b)}), Body("h", {Write}, {})>>
   : a \in Arguments, b \in Arguments, own \in {{}, {Write}}}
NoLimits == {[iterations |-> 9, size |-> 9, effects |-> 9]}

Spec == SolverInit /\ [][SolverNext]_solverVars
=============================================================================
