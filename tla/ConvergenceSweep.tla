--------------------------- MODULE ConvergenceSweep ---------------------------
(***************************************************************************)
(* The simulation from which the loop's thresholds were taken              *)
(* (rsi/simulation.py): trajectories of noisy scores, each cut off when a  *)
(* detector with a threshold and a window takes it for converged, and a    *)
(* grid of detectors of which the one that cuts off most is called best.   *)
(* The trajectories of all detectors have the same seeds and so the same   *)
(* scores for as long as they go on; they are simulated side by side.      *)
(***************************************************************************)
EXTENDS Integers, Sequences, FiniteSets, FiniteSetsExt

CONSTANTS
    Grid,          \* the detectors, in the order of the grid: [threshold, window]
    Scores,        \* the aggregate scores that a noisy run can give
    MaxIterations, Trajectories,
    None

VARIABLES
    points,        \* the scores of the trajectory under way
    ended,         \* detector -> where it cut the trajectory off, or None
    results,       \* detector -> its trajectories: [points, at]
    optimum        \* the detector that the sweep calls best, or None

sweepVars == <<points, ended, results, optimum>>

ValidSweep ==
    /\ MaxIterations \in Nat \ {0} /\ Trajectories \in Nat \ {0} /\ None \notin Nat
    /\ Scores \subseteq Int
    /\ Grid \in Seq([threshold : Nat, window : Nat \ {0}]) /\ Len(Grid) > 0
-----------------------------------------------------------------------------
Detectors == DOMAIN Grid

Gap(a, b) == IF a < b THEN b - a ELSE a - b

LastOf(s, n) == SubSeq(s, Len(s) - n + 1, Len(s))

(* The check in run_single_trajectory, which is convergence_check of the   *)
(* loop: a window of one is always flat.                                   *)
Flat(s, d) ==
    /\ Len(s) >= d.window
    /\ LET w == LastOf(s, d.window)
       IN  \A k \in 1..(Len(w) - 1) : Gap(w[k], w[k + 1]) < d.threshold

Converged(c) == {r \in Range(results[c]) : r.at # None}

(* n_converged of compute_convergence_stats.                               *)
Count(c) == Cardinality({n \in DOMAIN results[c] : results[c][n].at # None})

(* plateau_at, final_score and total_improvement of a trajectory.          *)
PlateauAt(c, r) == r.at - Grid[c].window + 1

FinalScore(r) == r.points[Len(r.points)]

Improvement(r) == FinalScore(r) - r.points[1]

(* The scores that the noise floor is the deviation of: the last five of   *)
(* each trajectory that has as many, converged or not.                     *)
FloorScores(c) ==
    [n \in {k \in DOMAIN results[c] : Len(results[c][k].points) >= 5} |->
        LastOf(results[c][n].points, 5)]

(* compute_mean_trajectory: the scores that the mean of an iteration is    *)
(* taken of.                                                               *)
Averaged(c, i) == {n \in DOMAIN results[c] : i \in DOMAIN results[c][n].points}
-----------------------------------------------------------------------------
Init ==
    /\ points = <<>> /\ ended = [c \in Detectors |-> None]
    /\ results = [c \in Detectors |-> <<>>] /\ optimum = None

Over == \A c \in Detectors : Len(results[c]) = Trajectories

(* run_benchmark and the check: whoever finds it flat cuts it off here.    *)
Score ==
    /\ ~Over /\ Len(points) < MaxIterations
    /\ \E c \in Detectors : ended[c] = None
    /\ \E s \in Scores : points' = Append(points, s)
    /\ ended' =
        [c \in Detectors |->
            IF ended[c] = None /\ Flat(points', Grid[c]) THEN Len(points') ELSE ended[c]]
    /\ UNCHANGED <<results, optimum>>

(* The end of run_single_trajectory for all detectors; run_batch goes on   *)
(* with another seed.                                                      *)
EndTrajectory ==
    /\ ~Over
    /\ \/ Len(points) = MaxIterations
       \/ \A c \in Detectors : ended[c] # None
    /\ results' =
        [c \in Detectors |->
            Append(results[c],
                   [points |-> IF ended[c] = None THEN points
                               ELSE SubSeq(points, 1, ended[c]),
                    at |-> ended[c]])]
    /\ points' = <<>> /\ ended' = [c \in Detectors |-> None]
    /\ UNCHANGED optimum

(* run_experiment_threshold_sweep: the first of the highest rates.         *)
Choose ==
    /\ Over /\ optimum = None
    /\ optimum' =
        Min({c \in Detectors : \A q \in Detectors : Count(q) <= Count(c)})
    /\ UNCHANGED <<points, ended, results>>

Next == Score \/ EndTrajectory \/ Choose

Spec == Init /\ [][Next]_sweepVars
-----------------------------------------------------------------------------
Looser(q, c) ==
    Grid[q].threshold >= Grid[c].threshold /\ Grid[q].window <= Grid[c].window

(* A looser detector cuts a trajectory off no later, and so no less often: *)
(* what the sweep calls the best is as good as the loosest detector there  *)
(* is, whatever the scores were.                                           *)
LooserIsEarlier ==
    /\ \A c, q \in Detectors :
        Looser(q, c) =>
            /\ \A n \in DOMAIN results[c] :
                 results[c][n].at # None =>
                    results[q][n].at # None /\ results[q][n].at <= results[c][n].at
            /\ Count(q) >= Count(c)
    /\ optimum # None =>
        \A q \in Detectors :
            (\A c \in Detectors : Looser(q, c)) => Count(q) = Count(optimum)

Slack(d) == (d.window - 1) * (IF d.threshold = 0 THEN 0 ELSE d.threshold - 1)

(* A trajectory that was cut off had stayed within threshold times window  *)
(* less one, and only there: it may still be far from where it would get   *)
(* to, or have come down from where it had been.                           *)
CutOffWhereFlat ==
    \A c \in Detectors : \A r \in Converged(c) :
        LET d == Grid[c]
            plateau == SubSeq(r.points, PlateauAt(c, r), r.at)
        IN  /\ Len(r.points) = r.at /\ Len(plateau) = d.window
            /\ \A j, k \in DOMAIN plateau : Gap(plateau[j], plateau[k]) <= Slack(d)
            /\ \A n \in 1..(r.at - 1) : ~Flat(SubSeq(r.points, 1, n), d)
            /\ Gap(Improvement(r), plateau[1] - r.points[1]) <= Slack(d)

(* The mean trajectory is of ever fewer trajectories, in the end only of   *)
(* those that did not converge, and the noise floor of a detector whose    *)
(* trajectories are all short is of none.                                  *)
SurvivorsAveraged ==
    \A c \in Detectors :
        /\ \A i \in 1..(MaxIterations - 1) : Averaged(c, i + 1) \subseteq Averaged(c, i)
        /\ \A i \in 2..MaxIterations : \A n \in Averaged(c, i) :
             results[c][n].at = None \/ results[c][n].at >= i
        /\ (\A n \in DOMAIN results[c] : results[c][n].at # None /\ results[c][n].at < 5)
                => DOMAIN FloorScores(c) = {}

SweepSound == LooserIsEarlier /\ CutOffWhereFlat /\ SurvivorsAveraged
=============================================================================
