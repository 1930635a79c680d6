------------------------------ MODULE BudgetCalls ------------------------------
(***************************************************************************)
(* CompositeBudgetGuard (audit/budget_guard.py) and its callers.  A caller *)
(* asks the guard, makes its call, and tells the guard when it is over;    *)
(* the two are apart, and a call that fails is never told.                 *)
(***************************************************************************)
EXTENDS RateBudget

CONSTANTS
    Callers,      \* the threads that share the guard
    MaxCost,      \* max_cost_dollars, 0 when there is no dollar cap
    MaxWallTime,  \* max_wall_time_seconds
    MaxTime,      \* bound: the clock
    MaxCalls      \* bound: the calls that are made

(* What the constants may be; the MC module assumes it.                     *)
ValidBudgetCalls ==
    /\ IsFiniteSet(Callers) /\ MaxCost \in Nat /\ MaxWallTime \in Nat \ {0}
    /\ MaxTime \in Nat /\ MaxCalls \in Nat

VARIABLES
    clock,
    stamps,      \* RateBudgetGuard._timestamps
    rateFired,   \* its thresholds that have fired
    cost,        \* BudgetGuard.current_cost_dollars
    costFired,
    halted,      \* the guards that have emitted their halt
    caller,      \* what each caller does
    finished,    \* when the calls that were recorded came back
    made         \* the calls that were started

vars == <<clock, stamps, rateFired, cost, costFired, halted, caller, finished, made>>

CallerStates == {"Idle", "Calling", "Halting", "RateBudgetExceeded", "BudgetExceeded"}

TypeOK ==
    /\ clock \in 0 .. MaxTime
    /\ stamps \in Seq(0 .. MaxTime)
    /\ rateFired \subseteq Thresholds /\ costFired \subseteq Thresholds
    /\ cost \in Nat
    /\ halted \subseteq {"rate", "cost"}
    /\ caller \in [Callers -> CallerStates]
    /\ made \in 0 .. MaxCalls

Init ==
    /\ clock = 0
    /\ stamps = <<>> /\ rateFired = {}
    /\ cost = 0 /\ costFired = {}
    /\ halted = {}
    /\ caller = [c \in Callers |-> "Idle"]
    /\ finished = <<>> /\ made = 0

CostOk == ~(MaxCost > 0 /\ cost >= MaxCost) /\ clock < MaxWallTime

(* fraction_used: the larger of the two fractions.                         *)
CostCrossed(spent) ==
    (IF MaxCost = 0 THEN {} ELSE Crossed(spent, MaxCost)) \cup Crossed(clock, MaxWallTime)

Tick ==
    /\ clock < MaxTime
    /\ clock' = clock + 1
    /\ UNCHANGED <<stamps, rateFired, cost, costFired, halted, caller, finished,
                   made>>

(* check: the rate guard first, then the dollar guard.                     *)
Check(c) ==
    /\ caller[c] = "Idle" /\ made < MaxCalls
    /\ stamps' = Pruned(stamps, clock)
    /\ IF RateOk(stamps, clock) /\ CostOk
       THEN caller' = [caller EXCEPT ![c] = "Calling"] /\ made' = made + 1
       ELSE caller' = [caller EXCEPT ![c] = "Halting"] /\ made' = made
    /\ UNCHANGED <<clock, rateFired, cost, costFired, halted, finished>>

(* record_request(cost_usd), after the answer.                             *)
Record(c) ==
    /\ caller[c] = "Calling"
    /\ stamps' = Recorded(stamps, clock)
    /\ rateFired' = rateFired \cup Crossed(Len(stamps'), EffectiveMax)
    /\ \E usd \in 0 .. 1 : cost' = cost + usd
    /\ costFired' = costFired \cup CostCrossed(cost')
    /\ finished' = Append(finished, clock)
    /\ caller' = [caller EXCEPT ![c] = "Idle"]
    /\ UNCHANGED <<clock, halted, made>>

(* The call raises; nobody records it.                                     *)
Fail(c) ==
    /\ caller[c] = "Calling"
    /\ caller' = [caller EXCEPT ![c] = "Idle"]
    /\ UNCHANGED <<clock, stamps, rateFired, cost, costFired, halted, finished,
                   made>>

(***************************************************************************)
(* halt: the rate is looked at again, to choose the exception.  The window *)
(* may have moved since the check.                                         *)
(***************************************************************************)
Halt(c) ==
    /\ caller[c] = "Halting"
    /\ stamps' = Pruned(stamps, clock)
    /\ IF RateOk(stamps, clock)
       THEN /\ halted' = halted \cup {"cost"}
            /\ caller' = [caller EXCEPT ![c] = "BudgetExceeded"]
       ELSE /\ halted' = halted \cup {"rate"}
            /\ caller' = [caller EXCEPT ![c] = "RateBudgetExceeded"]
    /\ UNCHANGED <<clock, rateFired, cost, costFired, finished, made>>

(* The program above catches the exception and goes on.                    *)
Caught(c) ==
    /\ caller[c] \in {"RateBudgetExceeded", "BudgetExceeded"}
    /\ caller' = [caller EXCEPT ![c] = "Idle"]
    /\ UNCHANGED <<clock, stamps, rateFired, cost, costFired, halted, finished,
                   made>>

Next ==
    \/ Tick
    \/ \E c \in Callers : Check(c) \/ Record(c) \/ Fail(c) \/ Halt(c) \/ Caught(c)

Spec == Init /\ [][Next]_vars
-----------------------------------------------------------------------------
InWindow == {k \in DOMAIN finished : finished[k] + WindowSeconds > clock}

(***************************************************************************)
(* Check and record are apart, so callers that are let in together pass    *)
(* the cap together; but never by more than one call for each of the       *)
(* others, however long the calls take and wherever the window is.         *)
(***************************************************************************)
OvershootBounded ==
    Cardinality(InWindow) + 1 <= EffectiveMax + Cardinality(Callers)

(* No caller is refused for the rate before the thresholds that lead there *)
(* have been announced, the last one included.                             *)
RefusedAfterWarning ==
    Len(Pruned(stamps, clock)) >= EffectiveMax => rateFired = Thresholds
=============================================================================
