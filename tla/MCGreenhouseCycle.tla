-------------------------- MODULE MCGreenhouseCycle --------------------------
(* Instances of GreenhouseCycle for TLC: two goals, the first with the     *)
(* higher priority, and the symmetries that are sound for them.            *)
EXTENDS GreenhouseCycle, TLC

MCGoals == {1, 2}
MCPriority == [g \in MCGoals |-> IF g = 1 THEN 2 ELSE 1]
MCWantOne == [g \in MCGoals |-> 1]
MCWantMore == [g \in MCGoals |-> g]

Symmetry == Permutations(Tickets) \cup Permutations(Procs)
=============================================================================
