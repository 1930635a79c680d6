--------------------------- MODULE MCIslandKernel ---------------------------
(* Two searches for TLC: one with the constants of the configuration, and  *)
(* a fleet of islands that specialise, whose range of generations is used  *)
(* up before its budget.                                                   *)
EXTENDS IslandKernel

MCPoor == [i \in Islands |-> {[s \in Slots |-> 0], [s \in Slots |-> 1]}]

VARIABLE
    fleet      \* whether this is the search of the fleet

Fleet == INSTANCE IslandKernel WITH Generations <- 5, Specialised <- TRUE

mcVars == <<vars, fleet>>

MCInit == Init /\ fleet \in BOOLEAN

MCNext ==
    \/ ~fleet /\ Next /\ UNCHANGED fleet
    \/ fleet /\ Fleet!Next /\ UNCHANGED fleet

MCSpec == MCInit /\ [][MCNext]_mcVars /\ Fairness /\ Fleet!Fairness
=============================================================================
