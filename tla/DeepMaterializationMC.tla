------------------------ MODULE DeepMaterializationMC ------------------------
(* TLC instances of DeepMaterialization.                                   *)
EXTENDS DeepMaterialization, TLC

CONSTANTS r1, r2, r3, h1, h2, s1, s2, s3, u1, u2

\* Two requests of one process, one of another.
TwoHosts == r1 :> h1 @@ r2 :> h1 @@ r3 :> h2

\* Two symbols of one unit, one of another.
TwoRoots == s1 :> u1 @@ s2 :> u2 @@ s3 :> u1

\* u1 calls into u2 until it is edited.
CallsAtFirst == u1 :> <<{u2}, {}>> @@ u2 :> <<{}, {}>>

\* What a behaviour is about: who asks for which symbols, the profiles the index
\* runs use, and whether files are edited.
Scenarios ==
  [races      |-> [asks |-> r1 :> {s1, s2} @@ r2 :> {} @@ r3 :> {s1},
                   profiles |-> {"navigation"}, edits |-> TRUE],
   coalescing |-> [asks |-> r1 :> {s1, s3} @@ r2 :> {s1, s3} @@ r3 :> {},
                   profiles |-> {"navigation", "full"}, edits |-> FALSE],
   full       |-> [asks |-> r1 :> {s1, s2} @@ r2 :> {} @@ r3 :> {s1},
                   profiles |-> {"full"}, edits |-> TRUE]]

VARIABLE scenario

Within ==
  /\ \A r \in Requests : symbol[r] \in Scenarios[scenario].asks[r] \cup {None}
  /\ \A u \in Units :
       /\ rows[u].profile \in Scenarios[scenario].profiles
       /\ disk[u] = 1 \/ Scenarios[scenario].edits

ScenarioInit(names) == Init /\ scenario \in names /\ Within
ScenarioNext == UNCHANGED scenario /\ Next /\ Within'

MCSpec ==
  /\ ScenarioInit({"races", "coalescing"}) /\ [][ScenarioNext]_<<vars, scenario>>
  /\ Fairness
FullProfileSpec == ScenarioInit({"full"}) /\ [][ScenarioNext]_<<vars, scenario>>
=============================================================================
