----------------------------- MODULE ScoreKeeping -----------------------------
(***************************************************************************)
(* What a score means from one iteration to the next: the utility of a run *)
(* (evaluator/engine.py, score_harness), the weights that are adapted to   *)
(* the scores of the runs before (run, _compute_score_stats), and the loop *)
(* that keeps the best harness by these scores (rsi/loop.py).              *)
(*                                                                         *)
(* A share of one is Whole; weights are in thousandths and a score is in   *)
(* Whole * 1000ths.                                                        *)
(***************************************************************************)
EXTENDS Integers, Sequences

CONSTANTS
    Whole,
    Results,       \* what a run of a harness can give: [passed, cost, latency], the
                   \* cost and the latency as shares of what the budget allows,
                   \* or None for no program
    Adaptive,      \* AUTOBENCH_ADAPTIVE_WEIGHTS and a weights_fn
    WallTime,      \* whether the harness's budget has a max_wall_time_seconds
    Floor,         \* the variance floor, as a score
    Window,        \* the scores that the evaluator looks back on: 5
    MaxRuns,       \* a bound of the model
    None

VARIABLES
    step,          \* "run", "checkpoint" or "over"
    history,       \* _score_history: the scores, in order
    weights,       \* self.weights of the evaluator
    reason,        \* of the last weights_adapted event, or None
    best,          \* which run _best_harness was
    reverts,       \* the runs that regressed: [regressed, best]
    trail          \* the runs: [result, weights, score] (history)

scoreVars == <<step, history, weights, reason, best, reverts, trail>>

ValidScores ==
    /\ {Whole, Floor, Window, MaxRuns} \subseteq Nat /\ Window > 1
    /\ Adaptive \in BOOLEAN /\ WallTime \in BOOLEAN
    /\ Results \subseteq [passed : 0..Whole, cost : Nat, latency : Nat] \cup {None}
    /\ None \notin Nat
-----------------------------------------------------------------------------
Weights(s, c, t) == [score |-> s, cost |-> c, time |-> t]

(* DEFAULT_WEIGHTS.                                                        *)
DefaultWeights == Weights(500, 0, 500)

Clamped(share) == IF share > Whole THEN Whole ELSE share

(* _normalize_p_cost: what is above the anchor costs as much as the anchor.*)
CostOf(r) == Clamped(r.cost)

(* What _run_case reports of it: the time is 1 for the fastest, and all is *)
(* 0 if the worker gave no program.                                        *)
Measured(r) ==
    IF r = None THEN [score |-> 0, cost |-> 0, time |-> 0]
    ELSE [score |-> r.passed, cost |-> CostOf(r), time |-> Whole - Clamped(r.latency)]

(* score_harness: the cost and the time are both turned round.             *)
Utility(p, w) ==
    w.score * p.score + w.cost * (Whole - p.cost) + w.time * (Whole - p.time)

Lookback(h) == SubSeq(h, Len(h) - (IF Len(h) < Window THEN Len(h) ELSE Window) + 1, Len(h))

Deltas(s) == [k \in 1..(Len(s) - 1) |-> s[k + 1] - s[k]]

SumOf(s) ==
    LET sum[k \in 0 .. Len(s)] == IF k = 0 THEN 0 ELSE sum[k - 1] + s[k]
    IN  sum[Len(s)]

(* _compute_score_stats: the square of twice the deviation of the deltas,  *)
(* times the square of how many they are; of one delta it is the delta.    *)
Spread(d) ==
    LET squares == SumOf([k \in DOMAIN d |-> d[k] * d[k]])
    IN  IF Len(d) <= 1 THEN squares
        ELSE 4 * (Len(d) * squares - SumOf(d) * SumOf(d))

Bar(d) == (Len(d) * Floor) * (Len(d) * Floor)

(* The remaining time is read from where the total is, so the budget is    *)
(* exhausted if and only if there is none.                                 *)
BudgetExhausted == ~WallTime

(* _reason_from_stats.                                                     *)
Reason(d) ==
    CASE Spread(d) > Bar(d) -> "plateau_detected"
      [] Spread(d) > 0 /\ Spread(d) < Bar(d) -> "high_variance"
      [] Spread(d) \in {0, Bar(d)} /\ SumOf(d) > Len(d) * Floor -> "improving"
      [] OTHER -> IF BudgetExhausted THEN "budget_exhausted" ELSE "early_iteration"

(* _compute_adaptive_weights, which the evaluator has and does not call:   *)
(* the strategy that a weights_fn is meant to be.                          *)
Adapted(why) ==
    CASE why = "plateau_detected" -> Weights(100, 450, 450)
      [] why = "high_variance" -> Weights(250, 375, 375)
      [] why = "improving" -> Weights(650, 175, 175)
      [] why = "budget_exhausted" -> Weights(300, 400, 300)
      [] OTHER -> Weights(400, 300, 300)
-----------------------------------------------------------------------------
Init ==
    /\ step = "run" /\ history = <<>> /\ weights = DefaultWeights /\ reason = None
    /\ best = None /\ reverts = <<>> /\ trail = <<>>

(* run: the weights first, by the scores so far, then the cases.           *)
Run ==
    /\ step = "run" /\ Len(trail) < MaxRuns
    /\ LET why == Reason(Deltas(Lookback(history)))
       IN  IF Adaptive THEN reason' = why /\ weights' = Adapted(why)
           ELSE UNCHANGED <<reason, weights>>
    /\ \E r \in Results :
        LET score == Utility(Measured(r), weights')
        IN  /\ history' = Append(history, score)
            /\ trail' = Append(trail, [result |-> r, weights |-> weights', score |-> score])
    /\ step' = "checkpoint"
    /\ UNCHANGED <<best, reverts>>

Latest == Len(trail)

(* improve: a run is the best, or a regression that its harness is given   *)
(* up for, or neither.                                                     *)
NewBest == best = None \/ trail[Latest].score > trail[best].score

Regressed == best # None /\ trail[Latest].score < trail[best].score - Floor

Checkpoint ==
    /\ step = "checkpoint"
    /\ best' = IF NewBest THEN Latest ELSE best
    /\ reverts' =
        IF ~NewBest /\ Regressed
        THEN Append(reverts, [regressed |-> Latest, best |-> best]) ELSE reverts
    /\ step' \in {"run", "over"}
    /\ UNCHANGED <<history, weights, reason, trail>>

Next == Run \/ Checkpoint

Spec == Init /\ [][Next]_scoreVars
-----------------------------------------------------------------------------
(* What score_harness takes for no worse, and what it says is better.      *)
AtLeast(p, q) == p.score >= q.score /\ p.cost <= q.cost /\ p.time <= q.time

Alike(j, k) == trail[j].weights = trail[k].weights

Of(k) == Measured(trail[k].result)

(* Of the runs that were weighed alike, none that is better in everything  *)
(* and passes more was passed over for the best one or given up for it.    *)
(* Of runs that were weighed differently that cannot be said.              *)
BestUndominated ==
    /\ (best # None /\ step # "checkpoint") =>
        \A k \in DOMAIN trail :
            Alike(k, best) =>
                ~(AtLeast(Of(k), Of(best)) /\ Of(k).score > Of(best).score)
    /\ \A n \in DOMAIN reverts :
        Alike(reverts[n].regressed, reverts[n].best) =>
            ~AtLeast(Of(reverts[n].regressed), Of(reverts[n].best))

(* Before the last run.                                                    *)
Before == Lookback(SubSeq(history, 1, Latest - 1))

(* The weights follow the scores of five runs and nothing older: when they *)
(* were the same the weights are the early ones again, although those are  *)
(* not the weights they were scored with; one jump is a plateau, however   *)
(* good it was; and only a steady climb is an improvement.                 *)
ReasonsHonest ==
    (reason # None /\ Latest > 0) =>
        LET d == Deltas(Before)
            same == \A k \in DOMAIN d : d[k] = d[1]
        IN  /\ (same /\ Len(d) > 0 /\ d[1] = 0) =>
                reason \in {"early_iteration", "budget_exhausted"}
            /\ (Len(d) = 1 /\ (d[1] > Floor \/ d[1] < -Floor)) =>
                reason = "plateau_detected"
            /\ (same /\ Len(d) > 1 /\ d[1] > Floor) => reason = "improving"
            /\ (reason = "improving" /\ ~same) => Spread(d) = Bar(d)

ScoresSound == BestUndominated /\ ReasonsHonest

(* "cost/time are normalized such that 1.0 = best = cheapest/fastest": of  *)
(* two runs that are weighed alike, pass as much and cost as much, the     *)
(* faster one is worth no less.                                            *)
FasterIsNotWorse ==
    \A j, k \in DOMAIN trail :
        LET a == trail[j].result
            b == trail[k].result
        IN  (/\ None \notin {a, b} /\ Alike(j, k)
             /\ a.passed = b.passed /\ a.cost = b.cost /\ a.latency <= b.latency)
                => trail[j].score >= trail[k].score
=============================================================================
