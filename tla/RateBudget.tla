------------------------------ MODULE RateBudget ------------------------------
(***************************************************************************)
(* The arithmetic of the sliding-window guard (audit/budget_guard.py,      *)
(* RateBudgetGuard) on a sequence of time stamps, the oldest first.        *)
(***************************************************************************)
EXTENDS Naturals, Sequences, FiniteSets, FiniteSetsExt

CONSTANTS
    MaxRequests,    \* max_requests
    SafetyMargin,   \* safety_margin, in percent
    WindowSeconds   \* window_seconds

(* What the constants may be; the MC module assumes it.                     *)
ValidRate ==
    /\ MaxRequests \in Nat /\ SafetyMargin \in 0 .. 100 /\ WindowSeconds \in Nat \ {0}

Thresholds == {50, 80, 100}

(* Truncated, and never less than one request.                             *)
EffectiveMax ==
    LET m == (MaxRequests * (100 - SafetyMargin)) \div 100 IN IF m = 0 THEN 1 ELSE m

(* Mutant: a stamp leaves the window one second early.                     *)
MutantPruned(stamps, now) ==
    LET alive == {k \in DOMAIN stamps : stamps[k] + WindowSeconds > now + 1}
    IN IF alive = {} THEN <<>> ELSE SubSeq(stamps, Min(alive), Len(stamps))

(* Stamps leave from the left, up to the first that is in the window.      *)
Pruned(stamps, now) ==
    LET alive == {k \in DOMAIN stamps : stamps[k] + WindowSeconds > now}
    IN IF alive = {} THEN <<>> ELSE SubSeq(stamps, Min(alive), Len(stamps))

(* Mutant: the request that reaches the cap is let through.                *)
MutantRateOk(stamps, now) == Len(Pruned(stamps, now)) <= EffectiveMax

RateOk(stamps, now) == Len(Pruned(stamps, now)) < EffectiveMax

Recorded(stamps, now) == Pruned(Append(stamps, now), now)

Crossed(used, max) == {t \in Thresholds : 100 * used >= t * max}
=============================================================================
