-------------------------- MODULE SelfImprovement --------------------------
(***************************************************************************)
(* SelfImprovingHarness.improve of rsi/loop.py, the prediction contract of *)
(* audit/ahe.py it enforces, and what its two callers make of its return:  *)
(* a session of the continuous daemon, which promotes the harness, and an  *)
(* advocate of a population, which is ranked by it.                        *)
(*                                                                         *)
(* A harness is its version: 0 is the one improve() was given, n + 1 the   *)
(* one the improver wrote in iteration n.  Scores are in thousandths.  A   *)
(* benchmark case ends OK or not, and a prediction claims a change of the  *)
(* number of OK cases; what worker and improver answer is unconstrained.   *)
(***************************************************************************)
EXTENDS Integers, Sequences

CONSTANTS
  MaxIterations, (* self.max_iterations *)
  NCases,        (* benchmark cases *)
  Attempts,      (* attempts the harness's rollout protocol gives a case *)
  Scores,        (* aggregate scores an evaluation may yield *)
  Floor,         (* self.variance_floor *)
  Threshold,     (* self.improvement_threshold *)
  Gains,         (* changes of the score an improver may predict *)
  Callers        (* subset of {"session", "advocate"} *)

Iterations == 0..(MaxIterations - 1)
Versions == 0..MaxIterations

(* SelfImprovingHarness as the daemon and the population construct it. *)
ValidHarness ==
  /\ MaxIterations \in Nat \ {0}
  /\ NCases \in Nat \ {0}
  /\ Attempts \in Nat \ {0}
  /\ Scores \subseteq Nat
  /\ Floor \in Nat
  /\ Threshold \in Nat
  /\ Gains \subseteq Int
  /\ Callers \subseteq {"session", "advocate"}

ASSUME HarnessAssumption == ValidHarness

NoScore == -1       (* nothing measured yet *)
NoVersion == -1     (* nothing run, or nothing promoted *)
Tolerance == 50     (* _SCORE_DELTA_TOLERANCE *)

NoResult == [score |-> 0, ok |-> 0]
NoPrediction == [claim |-> 0, gain |-> 0, made |-> -1]

VARIABLES
  pc,            (* where improve() or its caller is *)
  caller,        (* who called it *)
  initial,       (* the session's baseline score of version 0 *)
  iter,          (* i *)
  harness,       (* the working harness *)
  result,        (* result, score 0 before the first one *)
  prev,          (* prev_result *)
  bench,         (* progress of evaluator.run and of its interceptor *)
  pending,       (* pending_prediction *)
  verifications, (* self._verifications *)
  killed,        (* self._live_refuted_iterations *)
  best,          (* self._best_harness, _best_score, _best_iter *)
  noop,          (* is_noop_delta of this iteration *)
  ran,           (* iteration -> version it evaluated (history) *)
  scores,        (* iteration -> score, as `history` holds it *)
  final,         (* the harness handed to the caller *)
  credited,      (* the score the caller credits it with *)
  outcome,       (* ahe_outcome of the advocate *)
  promoted       (* the version the session made canonical *)

benchVars == <<bench, killed>>
predictionVars == <<pending, verifications>>
measureVars == <<result, prev, ran, scores>>
callerVars == <<final, credited, outcome, promoted>>
vars == <<pc, caller, initial, iter, harness, best, noop,
          benchVars, predictionVars, measureVars, callerVars>>

-----------------------------------------------------------------------------
(* The prediction contract *)

LargerOf(a, b) == IF a > b THEN a ELSE b
AbsOf(n) == IF n < 0 THEN -n ELSE n
SignOf(n) == IF n > 0 THEN 1 ELSE IF n < 0 THEN -1 ELSE 0

(* clip_prediction_to_feasible gives no reason to clip. *)
Feasible(claim, prior) == -prior <= claim /\ claim <= NCases - prior

(* prior_count / max(prior_count, 1): a rate that is 0 or 1, and whose     *)
(* variance is 0.                                                          *)
Rate(prior) == prior \div LargerOf(prior, 1)

(* _compute_max_achievable_with_variance *)
MaxReachable(sofar, prior, remaining) ==
  sofar + remaining * Rate(prior) - prior

(* _compute_min_achievable_with_variance *)
MinReachable(sofar, prior, remaining) ==
  sofar - remaining * (1 - Rate(prior)) - prior

(* refute_live *)
RefutedLive(claim, sofar, prior, remaining) ==
  \/ claim > 0 /\ claim > MaxReachable(sofar, prior, remaining)
  \/ claim < 0 /\ claim < MinReachable(sofar, prior, remaining)

(* verify_prediction: a prediction that claims nothing matches. *)
Matches(p, before, after) ==
  p.claim # 0 => SignOf(p.claim) = SignOf(after.ok - before.ok)

OnScore(p, before, after) ==
  AbsOf(p.gain - (after.score - before.score)) <= Tolerance

Label(p, before, after) ==
  IF Matches(p, before, after) /\ OnScore(p, before, after) THEN "confirmed"
  ELSE IF Matches(p, before, after) \/ OnScore(p, before, after)
       THEN "partial" ELSE "refuted"

(* A bug: the label of the last verification decides alone. *)
MutantOutcome(vs, ks) ==
  IF vs # <<>> THEN vs[Len(vs)].label
  ELSE IF ks # {} THEN "refuted_live" ELSE "none"

(* _derive_ahe_outcome: the last iteration of ks against the last position *)
(* of vs.                                                                  *)
Outcome(vs, ks) ==
  IF \E k \in ks : k >= Len(vs) - 1 THEN "refuted_live"
  ELSE IF vs # <<>> THEN vs[Len(vs)].label ELSE "none"

-----------------------------------------------------------------------------
(* One iteration *)

NoBench == [cases |-> 0, attempt |-> 0, ok |-> 0,
            seen |-> 0, seenOk |-> 0, emitted |-> FALSE]

(* The loop's top. *)
BeginIteration ==
  /\ pc = "begin"
  /\ pc' = "cases"
  /\ prev' = result
  /\ ran' = [ran EXCEPT ![iter] = harness]
  /\ UNCHANGED <<caller, initial, iter, harness, best, noop, benchVars, result,
                 scores, predictionVars, callerVars>>

(* _wrapped_run_case has seen one more verdict; it counts an attempt as a  *)
(* case.                                                                   *)
Intercepted(pass) ==
  LET seen == bench.seen + 1
      seenOk == bench.seenOk + (IF pass THEN 1 ELSE 0)
      remaining == LargerOf(0, NCases - seen)
  IN [bench EXCEPT
        !.seen = seen, !.seenOk = seenOk,
        !.emitted = @ \/ /\ pending # NoPrediction
                         /\ RefutedLive(pending.claim, seenOk, prev.ok,
                                        remaining)]

CaseOver(pass) == pass \/ bench.attempt + 1 = Attempts

(* One call of _run_case: a case is over when it passes or its attempts    *)
(* are used up.                                                            *)
RunAttempt(pass) ==
  /\ pc = "cases"
  /\ bench.cases < NCases
  /\ bench' =
       IF CaseOver(pass)
       THEN [Intercepted(pass) EXCEPT !.cases = @ + 1, !.attempt = 0,
                                      !.ok = @ + (IF pass THEN 1 ELSE 0)]
       ELSE [Intercepted(pass) EXCEPT !.attempt = @ + 1]
  /\ UNCHANGED <<pc, caller, initial, iter, harness, best, noop, killed,
                 predictionVars, measureVars, callerVars>>

(* The finally clause of evaluator.run: the interceptor is removed. *)
EndLiveRefutation ==
  /\ killed' = IF bench.emitted THEN killed \cup {iter} ELSE killed
  /\ bench' = NoBench

EvaluationEnds(score) ==
  /\ pc = "cases"
  /\ bench.cases = NCases
  /\ pc' = "measured"
  /\ result' = [score |-> score, ok |-> bench.ok]
  /\ scores' = [scores EXCEPT ![iter] = score]
  /\ EndLiveRefutation
  /\ UNCHANGED <<caller, initial, iter, harness, best, noop, prev, ran,
                 predictionVars, callerVars>>

EvaluationRaises ==
  /\ pc = "cases"
  /\ pc' = "raised"
  /\ EndLiveRefutation
  /\ UNCHANGED <<caller, initial, iter, harness, best, noop, predictionVars,
                 measureVars, callerVars>>

(* budget_guard.halt raises; only an advocate is given a guard. *)
BudgetHalt ==
  /\ pc = "measured"
  /\ caller = "advocate"
  /\ pc' = "raised"
  /\ UNCHANGED <<caller, initial, iter, harness, best, noop, benchVars,
                 predictionVars, measureVars, callerVars>>

NewBest == best.iter = -1 \/ result.score > best.score
Regressed == ~NewBest /\ result.score < best.score - Floor

(* A bug: the latest harness is kept, better or not. *)
MutantKept == [harness |-> harness, score |-> result.score, iter |-> iter]

(* The checkpoint: snapshot a new best. *)
Kept == IF NewBest THEN [harness |-> harness, score |-> result.score,
                         iter |-> iter]
        ELSE best

(* A bug: the regression is reported and the edit goes on from it. *)
MutantWorkingHarness == harness

(* The harness the improver is given: the best one after a regression. *)
WorkingHarness == IF Regressed THEN best.harness ELSE harness

Verification ==
  [label |-> Label(pending, prev, result), made |-> pending.made,
   at |-> iter, killed |-> iter \in killed]

Verified ==
  /\ verifications' = IF pending = NoPrediction THEN verifications
                      ELSE Append(verifications, Verification)
  /\ pending' = NoPrediction

(* Checkpoint or revert, then the verification of last iteration's         *)
(* prediction.                                                             *)
Checkpoint ==
  /\ pc = "measured"
  /\ pc' = "improve"
  /\ best' = Kept
  /\ harness' = WorkingHarness
  /\ Verified
  /\ UNCHANGED <<caller, initial, iter, noop, benchVars, measureVars,
                 callerVars>>

(* The changes of the OK count that an improver may predict; any other is  *)
(* infeasible, and then there is no prediction.                            *)
Claims == -NCases..NCases

(* The predictions an improver may attach, or none. *)
Offers == [claim : Claims, gain : Gains, made : {iter}] \cup {NoPrediction}

(* The improver edits the harness or returns it with an empty delta.  An   *)
(* infeasible prediction is clipped and not emitted.                       *)
Improve(edited, offer) ==
  /\ pc = "improve"
  /\ pc' = "judge"
  /\ harness' = IF edited THEN iter + 1 ELSE harness
  /\ noop' = ~edited
  /\ pending' = IF offer # NoPrediction /\ Feasible(offer.claim, result.ok)
                THEN offer ELSE pending
  /\ UNCHANGED <<caller, initial, iter, best, benchVars, verifications,
                 measureVars, callerVars>>

ImproverRaises ==
  /\ pc = "improve"
  /\ pc' = "raised"
  /\ UNCHANGED <<caller, initial, iter, harness, best, noop, benchVars,
                 predictionVars, measureVars, callerVars>>

-----------------------------------------------------------------------------
(* Whether to go on *)

(* _compute_adaptive_threshold of two deltas: their mean is the velocity,  *)
(* and twice the square of their standard deviation is Spread.             *)
EffectiveThreshold(d1, d2) ==
  LET Spread == (d1 - d2) * (d1 - d2)
  IN IF d1 + d2 > 100 /\ Spread < 2 * 20 * 20 THEN Floor + 15
     ELSE IF d1 + d2 > 40 /\ Spread < 2 * 50 * 50 THEN Floor
     ELSE Floor + 40

(* convergence_check without a diversity tracker. *)
Converged ==
  /\ iter >= 2
  /\ LET d1 == scores[iter - 1] - scores[iter - 2]
         d2 == scores[iter] - scores[iter - 1]
     IN \A d \in {d1, d2} : AbsOf(d) < EffectiveThreshold(d1, d2)

(* An attempt that did not move the score ends the loop. *)
Plateaued == ~noop /\ AbsOf(result.score - prev.score) < Threshold

Exhausted == iter + 1 = MaxIterations

Continue ==
  /\ pc = "judge"
  /\ ~Converged /\ ~Plateaued /\ ~Exhausted
  /\ pc' = "begin"
  /\ iter' = iter + 1
  /\ UNCHANGED <<caller, initial, harness, best, noop, benchVars,
                 predictionVars, measureVars, callerVars>>

Return ==
  /\ pc = "judge"
  /\ Converged \/ Plateaued \/ Exhausted
  /\ pc' = "returned"
  /\ UNCHANGED <<caller, initial, iter, harness, best, noop, benchVars,
                 predictionVars, measureVars, callerVars>>

-----------------------------------------------------------------------------
(* What the caller does with it *)

(* The iterations `history` holds: all of them, or those before the one    *)
(* that raised.                                                            *)
History == {j \in Iterations : j < iter \/ (j = iter /\ pc = "returned")}

(* run_one_session: promote what scored strictly more than the baseline. *)
SessionEnds ==
  /\ caller = "session"
  /\ pc \in {"returned", "raised"}
  /\ pc' = "ended"
  /\ final' = IF pc = "returned" THEN harness ELSE 0
  /\ credited' = IF pc = "returned" THEN result.score ELSE 0
  /\ promoted' = IF pc = "returned" /\ result.score > initial
                 THEN harness ELSE NoVersion
  /\ UNCHANGED <<caller, initial, iter, harness, best, noop, benchVars,
                 predictionVars, measureVars, outcome>>

(* _run_one_advocate: the best score of the history is what it is ranked   *)
(* by.                                                                     *)
AdvocateEnds ==
  /\ caller = "advocate"
  /\ pc \in {"returned", "raised"}
  /\ pc' = "ended"
  /\ final' = IF pc = "returned" THEN harness ELSE 0
  /\ \E s \in {scores[j] : j \in History} \cup {0} :
       /\ \A j \in History : s >= scores[j]
       /\ History = {} => s = 0
       /\ credited' = s
  /\ outcome' = Outcome(verifications, killed)
  /\ UNCHANGED <<caller, initial, iter, harness, best, noop, benchVars,
                 predictionVars, measureVars, promoted>>

Init ==
  /\ pc = "begin"
  /\ caller \in Callers
  /\ initial \in IF caller = "session" THEN Scores ELSE {0}
  /\ iter = 0
  /\ harness = 0
  /\ result = NoResult /\ prev = NoResult
  /\ bench = NoBench
  /\ pending = NoPrediction
  /\ verifications = <<>>
  /\ killed = {}
  /\ best = [harness |-> 0, score |-> NoScore, iter |-> -1]
  /\ noop = FALSE
  /\ ran = [j \in Iterations |-> NoVersion]
  /\ scores = [j \in Iterations |-> NoScore]
  /\ final = 0
  /\ credited = 0
  /\ outcome = "none"
  /\ promoted = NoVersion

Next ==
  \/ BeginIteration
  \/ \E pass \in BOOLEAN : RunAttempt(pass)
  \/ \E s \in Scores : EvaluationEnds(s)
  \/ EvaluationRaises
  \/ BudgetHalt
  \/ Checkpoint
  \/ \E edited \in BOOLEAN, offer \in Offers : Improve(edited, offer)
  \/ ImproverRaises
  \/ Continue
  \/ Return
  \/ SessionEnds
  \/ AdvocateEnds

Spec == Init /\ [][Next]_vars

(* A bug: a worker call that may hang. *)
MutantFairness == WF_vars(BeginIteration \/ Checkpoint \/ Continue \/ Return)

(* improve() is one thread, and worker and improver calls time out. *)
Fairness == WF_vars(Next)

FairSpec == Spec /\ Fairness

-----------------------------------------------------------------------------
(* Properties *)

TypeOK ==
  /\ pc \in {"begin", "cases", "measured", "improve", "judge",
             "returned", "raised", "ended"}
  /\ caller \in {"session", "advocate"}
  /\ initial \in Nat
  /\ iter \in Iterations
  /\ harness \in Versions
  /\ result \in [score : Nat, ok : 0..NCases]
  /\ prev \in [score : Nat, ok : 0..NCases]
  /\ bench \in [cases : 0..NCases, attempt : 0..(Attempts - 1),
                ok : 0..NCases, seen : Nat, seenOk : Nat,
                emitted : BOOLEAN]
  /\ bench.ok <= bench.cases
  /\ pending \in [claim : Int, gain : Int, made : Int]
  /\ verifications \in
       Seq([label : {"confirmed", "partial", "refuted"}, made : Int,
            at : Iterations, killed : BOOLEAN])
  /\ killed \in SUBSET Iterations
  /\ best \in [harness : Versions, score : Int, iter : Int]
  /\ noop \in BOOLEAN
  /\ ran \in [Iterations -> Versions \cup {NoVersion}]
  /\ scores \in [Iterations -> Nat \cup {NoScore}]
  /\ final \in Versions
  /\ credited \in Int
  /\ outcome \in {"confirmed", "partial", "refuted", "refuted_live", "none"}
  /\ promoted \in Versions \cup {NoVersion}

(* The checkpoint is a harness that was evaluated, with the score it got,  *)
(* and nothing judged before scored more: reverts and edits never make the *)
(* loop lose the best it has seen.                                         *)
BestIsMeasured ==
  best.iter # -1 =>
    /\ best.iter \in Iterations
    /\ best.iter <= iter
    /\ ran[best.iter] = best.harness
    /\ scores[best.iter] = best.score
    /\ \A j \in Iterations :
         j < iter \/ (j = iter /\ pc \in {"improve", "judge", "returned"})
           => scores[j] <= best.score

(* The last evaluation of a harness, up to iteration i, was iteration j.   *)
LastRun(h, j, i) ==
  ran[j] = h /\ \A k \in Iterations : j < k /\ k <= i => ran[k] # h

(* The improver edits the best harness so far, or one whose own last       *)
(* evaluation was within the variance floor of the best score: an edit     *)
(* that made things worse is never built upon (test_best_iter_keep), even  *)
(* when an empty delta had the same harness evaluated before.  The best    *)
(* harness itself may have scored less when it was evaluated again.        *)
EditsKnownGood ==
  pc = "improve" =>
    \/ harness = best.harness
    \/ \E j \in Iterations :
         /\ j <= iter
         /\ LastRun(harness, j, iter)
         /\ scores[j] >= best.score - Floor

(* A prediction is verified at most once, in the iteration after the one   *)
(* that made it, whatever was clipped or not predicted in between.         *)
VerifiedOnce ==
  \A m \in DOMAIN verifications :
    /\ verifications[m].at = verifications[m].made + 1
    /\ \A n \in DOMAIN verifications :
         m < n => verifications[m].at < verifications[n].at

(* A lineage whose most recent prediction was killed during an evaluation  *)
(* is never promotable: select_promotion_candidate takes confirmed and     *)
(* partial outcomes only, although _derive_ahe_outcome compares an         *)
(* iteration with a list position.                                         *)
KilledTailIsRefused ==
  outcome \in {"confirmed", "partial"} =>
    /\ verifications # <<>>
    /\ LET last == verifications[Len(verifications)]
       IN /\ outcome = last.label
          /\ \A k \in killed : k < last.at

(* improve() comes to an end, whatever the improver does. *)
Terminates == <>(pc = "ended")

(* A prediction refuted while its iteration runs is one the finished       *)
(* iteration does not bear out.                                            *)
RefutedWasUnachievable ==
  pc = "measured" /\ iter \in killed =>
    \/ pending.claim > 0 /\ result.ok - prev.ok < pending.claim
    \/ pending.claim < 0 /\ result.ok - prev.ok > pending.claim
=============================================================================
