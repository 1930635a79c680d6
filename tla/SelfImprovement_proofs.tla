----------------------- MODULE SelfImprovement_proofs -----------------------
(***************************************************************************)
(* Proofs about SelfImprovement: its invariants for every number of        *)
(* iterations, cases and attempts, and what live refutation may conclude.  *)
(***************************************************************************)
EXTENDS SelfImprovement, SequenceTheorems, TLAPS

USE HarnessAssumption DEF ValidHarness

-----------------------------------------------------------------------------
(* Live refutation *)

(* The prior rate refute_live estimates is 0 or 1. *)
LEMMA RateIsBinary ==
  ASSUME NEW prior \in Nat
  PROVE  Rate(prior) = IF prior = 0 THEN 0 ELSE 1
<1>1. CASE prior = 0
  BY <1>1 DEF Rate, LargerOf
<1>2. CASE prior # 0
  <2>1. LargerOf(prior, 1) = prior
    BY <1>2 DEF LargerOf
  <2>2. prior \div prior = 1
    <3>1. prior = prior * 1 + 0
      OBVIOUS
    <3> QED BY <3>1, <1>2
  <2> QED BY <2>1, <2>2, <1>2 DEF Rate
<1> QED BY <1>1, <1>2

(* A claim about a verdict the previous iteration had, refuted with        *)
(* `remaining` cases to go, is out of reach of every way they can end, as  *)
(* long as every case is seen once.                                        *)
THEOREM LiveRefutationSound ==
  ASSUME NEW claim \in Int, NEW sofar \in Nat, NEW prior \in Nat \ {0},
         NEW remaining \in Nat, RefutedLive(claim, sofar, prior, remaining),
         NEW more \in 0..remaining
  PROVE  \/ claim > 0 /\ sofar + more - prior < claim
         \/ claim < 0 /\ sofar + more - prior > claim
<1>1. Rate(prior) = 1
  BY RateIsBinary
<1>2. MaxReachable(sofar, prior, remaining) = sofar + remaining - prior
  BY <1>1 DEF MaxReachable
<1>3. MinReachable(sofar, prior, remaining) = sofar - prior
  BY <1>1 DEF MinReachable
<1> QED BY <1>2, <1>3 DEF RefutedLive

-----------------------------------------------------------------------------
(* Typing *)

Labels == {"confirmed", "partial", "refuted"}
Verifications ==
  [label : Labels, made : Int, at : Iterations, killed : BOOLEAN]
Results == [score : Nat, ok : 0..NCases]
Benches == [cases : 0..NCases, attempt : 0..(Attempts - 1), ok : 0..NCases,
            seen : Nat, seenOk : Nat, emitted : BOOLEAN]

LEMMA NoBenchType == NoBench \in Benches /\ NoBench.ok <= NoBench.cases
BY DEF NoBench, Benches

LEMMA NoResultType == NoResult \in Results
BY DEF NoResult, Results

LEMMA ReadBenchType ==
  ASSUME TypeOK
  PROVE  bench \in Benches /\ bench.ok <= bench.cases
BY DEF TypeOK, Benches

(* The interceptor only counts. *)
LEMMA InterceptedType ==
  ASSUME TypeOK, NEW pass \in BOOLEAN
  PROVE  /\ Intercepted(pass) \in Benches
         /\ Intercepted(pass).cases = bench.cases
         /\ Intercepted(pass).attempt = bench.attempt
         /\ Intercepted(pass).ok = bench.ok
<1>1. bench \in Benches
  BY ReadBenchType
<1> DEFINE seen == bench.seen + 1
           seenOk == bench.seenOk + (IF pass THEN 1 ELSE 0)
           hit == /\ pending # NoPrediction
                  /\ RefutedLive(pending.claim, seenOk, prev.ok,
                                 LargerOf(0, NCases - seen))
<1>2. Intercepted(pass) = [bench EXCEPT !.seen = seen, !.seenOk = seenOk,
                                        !.emitted = bench.emitted \/ hit]
  BY DEF Intercepted
<1>3. seen \in Nat /\ seenOk \in Nat /\ hit \in BOOLEAN
  BY <1>1 DEF Benches
<1> HIDE DEF seen, seenOk, hit
<1>4. (bench.emitted \/ hit) \in BOOLEAN
  BY <1>3
<1> DEFINE e == bench.emitted \/ hit
<1> HIDE DEF e
<1>5. Intercepted(pass) = [bench EXCEPT !.seen = seen, !.seenOk = seenOk,
                                        !.emitted = e]
  BY <1>2 DEF e
<1>6. e \in BOOLEAN
  BY <1>4 DEF e
<1> QED BY <1>1, <1>3, <1>5, <1>6 DEF Benches

(* A verification is one of the three labels about this iteration. *)
LEMMA VerificationType ==
  ASSUME TypeOK
  PROVE  Verification \in Verifications
<1>1. Label(pending, prev, result) \in Labels
  BY DEF Label, Labels
<1>2. pending.made \in Int /\ iter \in Iterations
  BY DEF TypeOK
<1>3. (iter \in killed) \in BOOLEAN
  OBVIOUS
<1> QED BY <1>1, <1>2, <1>3 DEF Verification, Verifications

LEMMA VerificationAt ==
  ASSUME NEW vs \in Seq(Verifications), NEW m \in DOMAIN vs
  PROVE  vs[m].at \in Int
<1>1. vs[m] \in Verifications
  <2>1. m \in 1..Len(vs)
    OBVIOUS
  <2> QED BY <2>1, ElementOfSeq
<1>2. vs[m].at \in Iterations
  BY <1>1 DEF Verifications
<1> QED BY <1>2 DEF Iterations

LEMMA VerifiedType ==
  ASSUME TypeOK, Verified
  PROVE  /\ verifications' \in Seq(Verifications)
         /\ pending' \in [claim : Int, gain : Int, made : Int]
<1>1. verifications \in Seq(Verifications)
  BY DEF TypeOK, Verifications, Labels
<1>2. Append(verifications, Verification) \in Seq(Verifications)
  BY <1>1, VerificationType, AppendProperties
<1>3. pending' = NoPrediction
  BY DEF Verified
<1> QED BY <1>1, <1>2, <1>3 DEF Verified, NoPrediction

LEMMA OutcomeType ==
  ASSUME TypeOK
  PROVE  Outcome(verifications, killed)
           \in {"confirmed", "partial", "refuted", "refuted_live", "none"}
<1>1. verifications \in Seq(Verifications)
  BY DEF TypeOK, Verifications, Labels
<1>2. CASE verifications = <<>>
  BY <1>2 DEF Outcome
<1>3. CASE verifications # <<>>
  <2>1. verifications[Len(verifications)] \in Verifications
    BY <1>1, <1>3
  <2> QED BY <1>3, <2>1 DEF Outcome, Verifications, Labels
<1> QED BY <1>2, <1>3

LEMMA InitType == Init => TypeOK
<1> SUFFICES ASSUME Init PROVE TypeOK
  OBVIOUS
<1>1. initial \in Nat
  BY DEF Init
<1>2. bench \in Benches /\ bench.ok <= bench.cases
  BY NoBenchType DEF Init
<1>3. result \in Results /\ prev \in Results
  BY NoResultType DEF Init
<1>4. pending \in [claim : Int, gain : Int, made : Int]
  BY DEF Init, NoPrediction
<1>5. best \in [harness : Versions, score : Int, iter : Int]
  BY DEF Init, Versions, NoScore
<1>6. /\ ran \in [Iterations -> Versions \cup {NoVersion}]
      /\ scores \in [Iterations -> Nat \cup {NoScore}]
  BY DEF Init
<1>7. verifications \in Seq(Verifications)
  BY DEF Init
<1>8. /\ iter \in Iterations /\ harness \in Versions
      /\ final \in Versions /\ credited \in Int
      /\ killed \in SUBSET Iterations
  BY DEF Init, Iterations, Versions
<1>9. /\ pc \in {"begin", "cases", "measured", "improve", "judge",
                 "returned", "raised", "ended"}
      /\ caller \in {"session", "advocate"}
      /\ noop \in BOOLEAN
      /\ outcome \in {"confirmed", "partial", "refuted", "refuted_live",
                      "none"}
      /\ promoted \in Versions \cup {NoVersion}
  BY DEF Init
<1> QED BY <1>1, <1>2, <1>3, <1>4, <1>5, <1>6, <1>7, <1>8, <1>9
        DEF TypeOK, Benches, Results, Verifications, Labels

LEMMA NextType == TypeOK /\ [Next]_vars => TypeOK'
<1> SUFFICES ASSUME TypeOK, [Next]_vars PROVE TypeOK'
  OBVIOUS
<1> USE DEF benchVars, predictionVars, measureVars, callerVars
<1>1. CASE BeginIteration
  <2>1. ran' \in [Iterations -> Versions \cup {NoVersion}]
    BY <1>1 DEF BeginIteration, TypeOK
  <2> QED BY <1>1, <2>1 DEF BeginIteration, TypeOK
<1>2. ASSUME NEW pass \in BOOLEAN, RunAttempt(pass)
      PROVE  TypeOK'
  <2>1. bench' \in Benches /\ bench'.ok <= bench'.cases
    <3>1. bench \in Benches /\ bench.ok <= bench.cases /\ bench.cases < NCases
      BY <1>2, ReadBenchType DEF RunAttempt
    <3> DEFINE seen == Intercepted(pass)
    <3>2. /\ seen \in Benches
          /\ seen.cases = bench.cases /\ seen.attempt = bench.attempt
          /\ seen.ok = bench.ok
      BY InterceptedType
    <3>3. bench' = IF CaseOver(pass)
                   THEN [seen EXCEPT !.cases = seen.cases + 1, !.attempt = 0,
                           !.ok = seen.ok + (IF pass THEN 1 ELSE 0)]
                   ELSE [seen EXCEPT !.attempt = seen.attempt + 1]
      BY <1>2 DEF RunAttempt
    <3> HIDE DEF seen
    <3>4. CASE CaseOver(pass)
      <4> DEFINE ok == seen.ok + (IF pass THEN 1 ELSE 0)
      <4>1. /\ ok \in 0..NCases /\ seen.cases + 1 \in 0..NCases
            /\ ok <= seen.cases + 1 /\ 0 \in 0..(Attempts - 1)
        BY <3>1, <3>2 DEF Benches
      <4>2. bench' = [seen EXCEPT !.cases = seen.cases + 1, !.attempt = 0,
                                  !.ok = ok]
        BY <3>3, <3>4
      <4> HIDE DEF ok
      <4> QED BY <3>2, <4>1, <4>2 DEF Benches
    <3>5. CASE ~CaseOver(pass)
      BY <3>1, <3>2, <3>3, <3>5 DEF Benches, CaseOver
    <3> QED BY <3>4, <3>5
  <2> QED BY <1>2, <2>1 DEF RunAttempt, TypeOK, Benches
<1>3. ASSUME NEW s \in Scores, EvaluationEnds(s)
      PROVE  TypeOK'
  <2>1. bench' \in Benches /\ bench'.ok <= bench'.cases
    BY <1>3, NoBenchType DEF EvaluationEnds, EndLiveRefutation
  <2>2. result' \in Results
    <3>1. bench.ok \in 0..NCases /\ s \in Nat
      BY DEF TypeOK
    <3> QED BY <1>3, <3>1 DEF EvaluationEnds, Results
  <2>3. killed' \in SUBSET Iterations
    BY <1>3 DEF EvaluationEnds, EndLiveRefutation, TypeOK
  <2>4. scores' \in [Iterations -> Nat \cup {NoScore}]
    BY <1>3 DEF EvaluationEnds, TypeOK
  <2> QED BY <1>3, <2>1, <2>2, <2>3, <2>4
          DEF EvaluationEnds, TypeOK, Benches, Results
<1>4. CASE EvaluationRaises
  <2>1. bench' \in Benches /\ bench'.ok <= bench'.cases
    BY <1>4, NoBenchType DEF EvaluationRaises, EndLiveRefutation
  <2>2. killed' \in SUBSET Iterations
    BY <1>4 DEF EvaluationRaises, EndLiveRefutation, TypeOK
  <2> QED BY <1>4, <2>1, <2>2 DEF EvaluationRaises, TypeOK, Benches
<1>5. CASE BudgetHalt
  BY <1>5 DEF BudgetHalt, TypeOK
<1>6. CASE Checkpoint
  <2>1. best' \in [harness : Versions, score : Int, iter : Int]
    <3>1. harness \in Versions /\ result.score \in Int /\ iter \in Int
      BY DEF TypeOK, Iterations
    <3> QED BY <1>6, <3>1 DEF Checkpoint, Kept, TypeOK
  <2>2. harness' \in Versions
    BY <1>6 DEF Checkpoint, WorkingHarness, TypeOK
  <2>3. /\ verifications' \in Seq(Verifications)
        /\ pending' \in [claim : Int, gain : Int, made : Int]
    BY <1>6, VerifiedType DEF Checkpoint
  <2> QED BY <1>6, <2>1, <2>2, <2>3
          DEF Checkpoint, TypeOK, Verifications, Labels
<1>7. ASSUME NEW edited \in BOOLEAN, NEW offer \in Offers,
             Improve(edited, offer)
      PROVE  TypeOK'
  <2>1. harness' \in Versions
    BY <1>7 DEF Improve, TypeOK, Versions, Iterations
  <2>2. pending' \in [claim : Int, gain : Int, made : Int]
    <3>1. iter \in Int
      BY DEF TypeOK, Iterations
    <3>2. offer \in [claim : Int, gain : Int, made : Int]
      <4>1. CASE offer = NoPrediction
        BY <4>1 DEF NoPrediction
      <4>2. CASE offer \in [claim : Claims, gain : Gains, made : {iter}]
        <5>1. offer = [claim |-> offer.claim, gain |-> offer.gain,
                       made |-> offer.made]
          BY <4>2
        <5>2. offer.claim \in Claims /\ offer.gain \in Gains /\ offer.made = iter
          BY <4>2
        <5>3. offer.claim \in Int
          <6> HIDE <5>1
          <6> QED BY <5>2 DEF Claims
        <5>4. offer.gain \in Int
          BY <5>2, HarnessAssumption DEF HarnessAssumption
        <5>5. offer.made \in Int
          BY <3>1, <5>2
        <5> QED BY <5>1, <5>3, <5>4, <5>5
      <4> QED BY <4>1, <4>2 DEF Offers
    <3>3. pending \in [claim : Int, gain : Int, made : Int]
      BY DEF TypeOK
    <3>4. pending' = offer \/ pending' = pending
      BY <1>7 DEF Improve
    <3> QED BY <3>2, <3>3, <3>4
  <2>3. noop' \in BOOLEAN
    BY <1>7 DEF Improve
  <2>4. /\ pc' = "judge"
        /\ caller' = caller /\ initial' = initial /\ iter' = iter
        /\ best' = best /\ bench' = bench /\ killed' = killed
        /\ verifications' = verifications /\ result' = result
        /\ prev' = prev /\ ran' = ran /\ scores' = scores
        /\ final' = final /\ credited' = credited
        /\ outcome' = outcome /\ promoted' = promoted
    BY <1>7 DEF Improve
  <2> QED BY <2>1, <2>2, <2>3, <2>4 DEF TypeOK
<1>8. CASE ImproverRaises
  BY <1>8 DEF ImproverRaises, TypeOK
<1>9. CASE Continue
  BY SMTT(60), <1>9 DEF Continue, Exhausted, TypeOK, Iterations
<1>10. CASE Return
  BY <1>10 DEF Return, TypeOK
<1>11. CASE SessionEnds
  <2>1. /\ final' \in Versions /\ credited' \in Nat
        /\ promoted' \in Versions \cup {NoVersion}
    BY <1>11 DEF SessionEnds, TypeOK, Versions
  <2> QED BY SMTT(60), <1>11, <2>1 DEF SessionEnds, TypeOK
<1>12. CASE AdvocateEnds
  <2>1. final' \in Versions
    BY <1>12 DEF AdvocateEnds, TypeOK, Versions
  <2>2. credited' \in Int
    <3>1. PICK s \in {scores[j] : j \in History} \cup {0} : credited' = s
      BY <1>12 DEF AdvocateEnds
    <3>2. \A j \in History : scores[j] \in Int
      BY DEF History, TypeOK, NoScore
    <3> QED BY <3>1, <3>2
  <2>3. outcome' \in {"confirmed", "partial", "refuted", "refuted_live",
                      "none"}
    BY <1>12, OutcomeType DEF AdvocateEnds
  <2> QED BY <1>12, <2>1, <2>2, <2>3 DEF AdvocateEnds, TypeOK
<1>13. CASE UNCHANGED vars
  BY SMTT(60), <1>13 DEF vars, TypeOK
<1> QED BY <1>1, <1>2, <1>3, <1>4, <1>5, <1>6, <1>7, <1>8, <1>9, <1>10,
           <1>11, <1>12, <1>13 DEF Next

(* Every variable keeps its type, for every bound and every set of scores  *)
(* and claims.                                                             *)
THEOREM TypeCorrect == Spec => []TypeOK
BY InitType, NextType, PTL DEF Spec

-----------------------------------------------------------------------------
(* The checkpoint *)

Unjudged == {"begin", "cases", "measured"}

(* What ties the checkpoint, the working harness and the history together. *)
MeasureInv ==
  /\ pc \in {"cases", "measured"} => ran[iter] = harness
  /\ pc = "measured" => scores[iter] = result.score
  /\ pc \in Unjudged =>
       best.iter < iter /\ (best.iter = -1 => iter = 0)
  /\ pc \in {"improve", "judge"} => best.iter # -1
  /\ BestIsMeasured
  /\ EditsKnownGood

CheckpointInv == TypeOK /\ MeasureInv

LEMMA InitMeasure == Init => MeasureInv
BY DEF Init, MeasureInv, BestIsMeasured, EditsKnownGood

(* The step that judges a score. *)
LEMMA CheckpointMeasure ==
  ASSUME TypeOK, MeasureInv, Checkpoint
  PROVE  MeasureInv'
<1> USE DEF measureVars
<1>1. /\ pc = "measured" /\ pc' = "improve" /\ iter' = iter
      /\ scores' = scores /\ ran' = ran
      /\ best' = Kept /\ harness' = WorkingHarness
  BY DEF Checkpoint
<1>2. /\ ran[iter] = harness /\ scores[iter] = result.score
      /\ best.iter < iter /\ (best.iter = -1 => iter = 0)
      /\ BestIsMeasured
  BY <1>1 DEF MeasureInv, Unjudged
<1>3. /\ iter \in Iterations /\ result.score \in Nat /\ best.score \in Int
      /\ best.iter \in Int
      /\ \A j \in Iterations : scores[j] \in Int
  BY DEF TypeOK, NoScore
<1>4. Iterations \subseteq Int
  BY DEF Iterations
<1>5. CASE NewBest
  <2>1. best' = [harness |-> harness, score |-> result.score, iter |-> iter]
    BY <1>1, <1>5 DEF Kept
  <2>2. harness' = harness
    BY <1>1, <1>5 DEF WorkingHarness, Regressed
  <2>3. \A j \in Iterations : j <= iter => scores[j] <= result.score
    <3> SUFFICES ASSUME NEW j \in Iterations, j <= iter
                 PROVE  scores[j] <= result.score
      OBVIOUS
    <3>1. CASE j = iter
      BY <3>1, <1>2, <1>3
    <3>2. CASE j < iter
      <4>1. best.iter # -1
        BY <3>2, <1>2 DEF Iterations
      <4>2. scores[j] <= best.score
        BY <4>1, <3>2, <1>2 DEF BestIsMeasured
      <4>3. best.score < result.score
        BY <4>1, <1>5, <1>3 DEF NewBest
      <4> QED BY <4>2, <4>3, <1>3
    <3> QED BY <3>1, <3>2, <1>3, <1>4
  <2>4. BestIsMeasured'
    BY <1>1, <1>2, <1>3, <1>4, <2>1, <2>3 DEF BestIsMeasured
  <2>5. EditsKnownGood'
    <3> QED BY <2>1, <2>2 DEF EditsKnownGood
  <2>6. best'.iter # -1
    BY <2>1, <1>3 DEF Iterations
  <2> QED BY <1>1, <2>4, <2>5, <2>6 DEF MeasureInv, Unjudged
<1>6. CASE ~NewBest
  <2>1. best' = best /\ best.iter # -1 /\ result.score <= best.score
    BY <1>1, <1>3, <1>6 DEF Kept, NewBest
  <2>2. /\ best.iter \in Iterations /\ ran[best.iter] = best.harness
        /\ scores[best.iter] = best.score
    BY <2>1, <1>2 DEF BestIsMeasured
  <2>3. BestIsMeasured'
    BY <1>1, <1>2, <1>3, <1>4, <2>1 DEF BestIsMeasured
  <2>4. EditsKnownGood'
    <3>1. CASE Regressed
      <4>1. harness' = best.harness
        BY <3>1, <1>1 DEF WorkingHarness
      <4> QED BY <4>1, <2>1 DEF EditsKnownGood
    <3>2. CASE ~Regressed
      <4>1. harness' = harness /\ result.score >= best.score - Floor
        BY <3>2, <1>1, <1>3, <1>6 DEF WorkingHarness, Regressed
      <4>2. LastRun(harness, iter, iter)'
        <5>1. \A k \in Iterations : ~(iter < k /\ k <= iter)
          BY <1>3, <1>4
        <5> QED BY <4>1, <5>1, <1>1, <1>2 DEF LastRun
      <4> QED BY <4>1, <4>2, <2>1, <1>1, <1>2, <1>3, <1>4 DEF EditsKnownGood
    <3> QED BY <3>1, <3>2
  <2> QED BY <1>1, <2>1, <2>3, <2>4 DEF MeasureInv, Unjudged
<1> QED BY <1>5, <1>6

LEMMA NextMeasure == TypeOK /\ MeasureInv /\ [Next]_vars => MeasureInv'
<1> SUFFICES ASSUME TypeOK, MeasureInv, [Next]_vars PROVE MeasureInv'
  OBVIOUS
<1> USE DEF benchVars, predictionVars, measureVars, callerVars
<1>0. /\ iter \in Iterations /\ Iterations \subseteq Int
      /\ best.iter \in Int
      /\ ran \in [Iterations -> Versions \cup {NoVersion}]
      /\ scores \in [Iterations -> Nat \cup {NoScore}]
  BY SMTT(60) DEF TypeOK, Iterations
<1>1. CASE BeginIteration
  <2>1. /\ pc = "begin" /\ pc' = "cases" /\ iter' = iter /\ best' = best
        /\ harness' = harness /\ scores' = scores
        /\ ran' = [ran EXCEPT ![iter] = harness]
    BY <1>1 DEF BeginIteration
  <2>2. best.iter < iter /\ (best.iter = -1 => iter = 0)
    BY <2>1 DEF MeasureInv, Unjudged
  <2>3. BestIsMeasured'
    BY <1>0, <2>1, <2>2 DEF MeasureInv, BestIsMeasured
  <2> QED BY <1>0, <2>1, <2>2, <2>3 DEF MeasureInv, Unjudged, EditsKnownGood
<1>2. ASSUME NEW pass \in BOOLEAN, RunAttempt(pass)
      PROVE  MeasureInv'
  BY <1>2 DEF RunAttempt, MeasureInv, BestIsMeasured, EditsKnownGood, Unjudged
<1>3. ASSUME NEW s \in Scores, EvaluationEnds(s)
      PROVE  MeasureInv'
  <2>1. /\ pc = "cases" /\ pc' = "measured" /\ iter' = iter /\ best' = best
        /\ harness' = harness /\ ran' = ran
        /\ scores' = [scores EXCEPT ![iter] = s]
        /\ result' = [score |-> s, ok |-> bench.ok]
    BY <1>3 DEF EvaluationEnds
  <2>2. /\ best.iter < iter /\ (best.iter = -1 => iter = 0)
        /\ ran[iter] = harness
    BY <2>1 DEF MeasureInv, Unjudged
  <2>3. BestIsMeasured'
    BY <1>0, <2>1, <2>2 DEF MeasureInv, BestIsMeasured
  <2>4. scores'[iter] = result'.score
    BY <1>0, <2>1
  <2> QED BY <1>0, <2>1, <2>2, <2>3, <2>4
          DEF MeasureInv, Unjudged, EditsKnownGood
<1>4. CASE EvaluationRaises
  BY <1>4 DEF EvaluationRaises, MeasureInv, BestIsMeasured, EditsKnownGood,
              Unjudged
<1>5. CASE BudgetHalt
  BY <1>5 DEF BudgetHalt, MeasureInv, BestIsMeasured, EditsKnownGood, Unjudged
<1>6. CASE Checkpoint
  BY <1>6, CheckpointMeasure
<1>7. ASSUME NEW edited \in BOOLEAN, NEW offer \in Offers,
             Improve(edited, offer)
      PROVE  MeasureInv'
  <2>1. /\ pc = "improve" /\ pc' = "judge" /\ iter' = iter /\ best' = best
        /\ ran' = ran /\ scores' = scores
    BY <1>7 DEF Improve
  <2> QED BY <2>1 DEF MeasureInv, BestIsMeasured, EditsKnownGood, Unjudged
<1>8. CASE ImproverRaises
  BY <1>8 DEF ImproverRaises, MeasureInv, BestIsMeasured, EditsKnownGood,
              Unjudged
<1>9. CASE Continue
  <2>1. /\ pc = "judge" /\ pc' = "begin" /\ iter' = iter + 1 /\ best' = best
        /\ ran' = ran /\ scores' = scores
    BY <1>9 DEF Continue
  <2>2. best.iter # -1 /\ BestIsMeasured
    BY <2>1 DEF MeasureInv
  <2>3. BestIsMeasured'
    BY <1>0, <2>1, <2>2 DEF BestIsMeasured
  <2>4. best'.iter < iter'
    BY <1>0, <2>1, <2>2 DEF BestIsMeasured
  <2> QED BY <1>0, <2>1, <2>2, <2>3, <2>4
          DEF MeasureInv, Unjudged, EditsKnownGood
<1>10. CASE Return
  BY <1>10 DEF Return, MeasureInv, BestIsMeasured, EditsKnownGood, Unjudged
<1>11. CASE SessionEnds
  BY <1>11 DEF SessionEnds, MeasureInv, BestIsMeasured, EditsKnownGood,
               Unjudged
<1>12. CASE AdvocateEnds
  BY <1>12 DEF AdvocateEnds, MeasureInv, BestIsMeasured, EditsKnownGood,
               Unjudged
<1>13. CASE UNCHANGED vars
  BY <1>13 DEF vars, MeasureInv, BestIsMeasured, EditsKnownGood, LastRun,
               Unjudged
<1> QED BY <1>1, <1>2, <1>3, <1>4, <1>5, <1>6, <1>7, <1>8, <1>9, <1>10,
           <1>11, <1>12, <1>13 DEF Next

(* The checkpoint is always a measured harness with the greatest score     *)
(* judged so far.                                                          *)
THEOREM BestIsKept == Spec => []BestIsMeasured
<1>1. Init => CheckpointInv
  BY InitType, InitMeasure DEF CheckpointInv
<1>2. CheckpointInv /\ [Next]_vars => CheckpointInv'
  BY NextType, NextMeasure DEF CheckpointInv
<1>3. CheckpointInv => BestIsMeasured
  BY DEF CheckpointInv, MeasureInv
<1> QED BY <1>1, <1>2, <1>3, PTL DEF Spec

(* The improver is given the best harness, or one whose last evaluation    *)
(* was within the variance floor of the best: SelfImprovingHarness.improve *)
(* reverts what regressed before it edits.                                 *)
THEOREM RegressionsAreReverted == Spec => []EditsKnownGood
<1>1. Init => CheckpointInv
  BY InitType, InitMeasure DEF CheckpointInv
<1>2. CheckpointInv /\ [Next]_vars => CheckpointInv'
  BY NextType, NextMeasure DEF CheckpointInv
<1>3. CheckpointInv => EditsKnownGood
  BY DEF CheckpointInv, MeasureInv
<1> QED BY <1>1, <1>2, <1>3, PTL DEF Spec

-----------------------------------------------------------------------------
(* Predictions *)

(* Which iteration made the pending prediction, and how far verification   *)
(* has come: the m-th verification cannot precede iteration m.             *)
PredictionInv ==
  /\ pending # NoPrediction =>
       /\ pending.made \in Iterations
       /\ pc \in Unjudged => pending.made = iter - 1
       /\ pc = "judge" => pending.made = iter
  /\ pc = "improve" => pending = NoPrediction
  /\ \A m \in DOMAIN verifications :
       /\ m <= verifications[m].at
       /\ verifications[m].at <= iter
       /\ pc \in Unjudged => verifications[m].at < iter
  /\ VerifiedOnce

VerifiedInv == TypeOK /\ PredictionInv

LEMMA InitPrediction == Init => PredictionInv
BY DEF Init, PredictionInv, VerifiedOnce

(* The step that verifies. *)
LEMMA CheckpointPrediction ==
  ASSUME TypeOK, PredictionInv, Checkpoint
  PROVE  PredictionInv'
<1>1. /\ pc = "measured" /\ pc' = "improve" /\ iter' = iter
      /\ Verified
  BY DEF Checkpoint
<1>2. pending' = NoPrediction
  BY <1>1 DEF Verified
<1>3. verifications \in Seq(Verifications) /\ iter \in Int
  BY DEF TypeOK, Verifications, Labels, Iterations
<1>4. CASE pending = NoPrediction
  <2>1. verifications' = verifications
    BY <1>1, <1>4 DEF Verified
  <2> QED BY <1>1, <1>2, <2>1 DEF PredictionInv, VerifiedOnce, Unjudged
<1>5. CASE pending # NoPrediction
  <2> DEFINE vs == verifications
             v == Verification
             n == Len(verifications)
  <2>1. /\ v.at = iter /\ v.made = pending.made
    BY DEF Verification
  <2>2. pending.made = iter - 1 /\ pending.made \in Iterations
    BY <1>1, <1>5 DEF PredictionInv, Unjudged
  <2>3. verifications' = Append(vs, v)
    BY <1>1, <1>5 DEF Verified
  <2>4. n \in Nat /\ DOMAIN vs = 1..n
    BY <1>3
  <2>5. /\ Len(Append(vs, v)) = n + 1
        /\ DOMAIN Append(vs, v) = 1..(n + 1)
        /\ \A m \in 1..n : Append(vs, v)[m] = vs[m]
        /\ Append(vs, v)[n + 1] = v
    BY <1>3, VerificationType, AppendProperties
  <2>6. \A m \in 1..n :
          /\ m <= vs[m].at /\ vs[m].at < iter
          /\ vs[m].at = vs[m].made + 1
          /\ vs[m].at \in Int
    <3>1. \A m \in 1..n : vs[m].at \in Int
      BY <1>3, <2>4, VerificationAt
    <3>2. \A m \in DOMAIN vs : m <= vs[m].at /\ vs[m].at < iter
      BY <1>1 DEF PredictionInv, Unjudged
    <3>3. \A m \in DOMAIN vs : vs[m].at = vs[m].made + 1
      BY DEF PredictionInv, VerifiedOnce
    <3> QED BY <2>4, <3>1, <3>2, <3>3
  <2>7. n + 1 <= iter
    <3>1. CASE n = 0
      BY <3>1, <2>2, <1>3 DEF Iterations
    <3>2. CASE n # 0
      <4>1. n <= vs[n].at /\ vs[n].at < iter /\ vs[n].at \in Int
        BY <3>2, <2>4, <2>6
      <4> QED BY <4>1, <2>4, <1>3
    <3> QED BY <3>1, <3>2
  <2> HIDE DEF vs, v, n
  <2>8. \A m \in DOMAIN verifications' :
          /\ m <= verifications'[m].at
          /\ verifications'[m].at <= iter'
          /\ verifications'[m].at = verifications'[m].made + 1
    <3> SUFFICES ASSUME NEW m \in 1..(n + 1)
                 PROVE  /\ m <= Append(vs, v)[m].at
                        /\ Append(vs, v)[m].at <= iter
                        /\ Append(vs, v)[m].at = Append(vs, v)[m].made + 1
      BY <1>1, <2>3, <2>5
    <3>1. CASE m = n + 1
      BY <3>1, <2>1, <2>2, <2>5, <2>7, <1>3
    <3>2. CASE m \in 1..n
      BY <3>2, <2>5, <2>6, <1>3
    <3> QED BY <3>1, <3>2, <2>4
  <2>9. \A l, m \in DOMAIN verifications' :
          l < m => verifications'[l].at < verifications'[m].at
    <3> SUFFICES ASSUME NEW l \in 1..(n + 1), NEW m \in 1..(n + 1), l < m
                 PROVE  Append(vs, v)[l].at < Append(vs, v)[m].at
      BY <2>3, <2>5
    <3>1. l \in 1..n
      BY <2>4
    <3>2. CASE m = n + 1
      BY <3>1, <3>2, <2>1, <2>5, <2>6
    <3>3. CASE m \in 1..n
      <4>1. vs[l].at < vs[m].at
        BY <3>1, <3>3, <2>4 DEF PredictionInv, VerifiedOnce, vs
      <4> QED BY <4>1, <3>1, <3>3, <2>5
    <3> QED BY <3>2, <3>3, <2>4
  <2>10. VerifiedOnce'
    BY <2>8, <2>9 DEF VerifiedOnce
  <2> QED BY <1>1, <1>2, <2>8, <2>10 DEF PredictionInv, Unjudged
<1> QED BY <1>4, <1>5

LEMMA NextPrediction ==
  TypeOK /\ PredictionInv /\ [Next]_vars => PredictionInv'
<1> SUFFICES ASSUME TypeOK, PredictionInv, [Next]_vars PROVE PredictionInv'
  OBVIOUS
<1> USE DEF benchVars, predictionVars, measureVars, callerVars
<1>0. iter \in Iterations /\ Iterations \subseteq Int
  BY DEF TypeOK, Iterations
<1>1. CASE BeginIteration
  BY <1>1 DEF BeginIteration, PredictionInv, VerifiedOnce, Unjudged
<1>2. ASSUME NEW pass \in BOOLEAN, RunAttempt(pass)
      PROVE  PredictionInv'
  BY <1>2 DEF RunAttempt, PredictionInv, VerifiedOnce, Unjudged
<1>3. ASSUME NEW s \in Scores, EvaluationEnds(s)
      PROVE  PredictionInv'
  BY <1>3 DEF EvaluationEnds, PredictionInv, VerifiedOnce, Unjudged
<1>4. CASE EvaluationRaises
  BY <1>4 DEF EvaluationRaises, PredictionInv, VerifiedOnce, Unjudged
<1>5. CASE BudgetHalt
  BY <1>5 DEF BudgetHalt, PredictionInv, VerifiedOnce, Unjudged
<1>6. CASE Checkpoint
  BY <1>6, CheckpointPrediction
<1>7. ASSUME NEW edited \in BOOLEAN, NEW offer \in Offers,
             Improve(edited, offer)
      PROVE  PredictionInv'
  <2>1. /\ pc = "improve" /\ pc' = "judge" /\ iter' = iter
        /\ verifications' = verifications
        /\ pending' = offer \/ pending' = pending
    BY <1>7 DEF Improve
  <2>2. pending = NoPrediction
    BY <2>1 DEF PredictionInv
  <2>3. offer # NoPrediction => offer.made = iter
    BY <1>7 DEF Offers
  <2>4. pending' # NoPrediction => pending'.made = iter
    BY <2>1, <2>2, <2>3
  <2> QED BY <1>0, <2>1, <2>4 DEF PredictionInv, VerifiedOnce, Unjudged
<1>8. CASE ImproverRaises
  BY <1>8 DEF ImproverRaises, PredictionInv, VerifiedOnce, Unjudged
<1>9. CASE Continue
  <2>1. /\ pc = "judge" /\ pc' = "begin" /\ iter' = iter + 1
        /\ verifications' = verifications /\ pending' = pending
    BY <1>9 DEF Continue
  <2>2. pending # NoPrediction => pending.made = iter'  - 1
    BY <1>0, <2>1 DEF PredictionInv
  <2>3. \A m \in DOMAIN verifications : verifications[m].at \in Int
    <3>1. verifications \in Seq(Verifications)
      BY DEF TypeOK, Verifications, Labels
    <3> QED BY <3>1, VerificationAt
  <2>4. \A m \in DOMAIN verifications :
          verifications[m].at < iter' /\ verifications[m].at <= iter'
    BY <1>0, <2>1, <2>3 DEF PredictionInv
  <2> QED BY <2>1, <2>2, <2>4 DEF PredictionInv, VerifiedOnce, Unjudged
<1>10. CASE Return
  BY <1>10 DEF Return, PredictionInv, VerifiedOnce, Unjudged
<1>11. CASE SessionEnds
  BY <1>11 DEF SessionEnds, PredictionInv, VerifiedOnce, Unjudged
<1>12. CASE AdvocateEnds
  BY <1>12 DEF AdvocateEnds, PredictionInv, VerifiedOnce, Unjudged
<1>13. CASE UNCHANGED vars
  BY <1>13 DEF vars, PredictionInv, VerifiedOnce, Unjudged
<1> QED BY <1>1, <1>2, <1>3, <1>4, <1>5, <1>6, <1>7, <1>8, <1>9, <1>10,
           <1>11, <1>12, <1>13 DEF Next

LEMMA VerifiedInvHolds == Spec => []VerifiedInv
<1>1. Init => VerifiedInv
  BY InitType, InitPrediction DEF VerifiedInv
<1>2. VerifiedInv /\ [Next]_vars => VerifiedInv'
  BY NextType, NextPrediction DEF VerifiedInv
<1> QED BY <1>1, <1>2, PTL DEF Spec

(* No prediction is verified twice or against a later iteration. *)
THEOREM VerificationsAreDue == Spec => []VerifiedOnce
<1>1. VerifiedInv => VerifiedOnce
  BY DEF VerifiedInv, PredictionInv
<1> QED BY <1>1, VerifiedInvHolds, PTL

-----------------------------------------------------------------------------
(* Promotable outcomes *)

(* The outcome is derived once, when the advocate ends. *)
TailInv == (pc # "ended" => outcome = "none") /\ KilledTailIsRefused

LEMMA InitTail == Init => TailInv
BY DEF Init, TailInv, KilledTailIsRefused

LEMMA OutcomeTail ==
  ASSUME VerifiedInv, AdvocateEnds
  PROVE  TailInv'
<1>1. /\ pc' = "ended" /\ verifications' = verifications /\ killed' = killed
      /\ outcome' = Outcome(verifications, killed)
  BY DEF AdvocateEnds, benchVars, predictionVars
<1>2. /\ verifications \in Seq(Verifications)
      /\ killed \subseteq Int
  BY DEF VerifiedInv, TypeOK, Verifications, Labels, Iterations
<1> DEFINE n == Len(verifications)
<1>3. CASE outcome' \in {"confirmed", "partial"}
  <2>1. ~ \E k \in killed : k >= n - 1
    BY <1>1, <1>3 DEF Outcome
  <2>2. verifications # <<>> /\ outcome' = verifications[n].label
    BY <1>1, <1>3 DEF Outcome
  <2>3. n \in Nat /\ n \in DOMAIN verifications
    BY <1>2, <2>2
  <2>4. n <= verifications[n].at /\ verifications[n].at \in Int
    BY <1>2, <2>3, VerificationAt DEF VerifiedInv, PredictionInv
  <2> HIDE DEF n
  <2>5. \A k \in killed : k < verifications[n].at
    BY <1>2, <2>1, <2>3, <2>4
  <2> QED BY <1>1, <2>2, <2>5 DEF TailInv, KilledTailIsRefused, n
<1>4. CASE outcome' \notin {"confirmed", "partial"}
  BY <1>1, <1>4 DEF TailInv, KilledTailIsRefused
<1> QED BY <1>3, <1>4

LEMMA NextTail == VerifiedInv /\ TailInv /\ [Next]_vars => TailInv'
<1> SUFFICES ASSUME VerifiedInv, TailInv, [Next]_vars PROVE TailInv'
  OBVIOUS
<1> USE DEF benchVars, predictionVars, measureVars, callerVars
<1>1. CASE AdvocateEnds
  BY <1>1, OutcomeTail
<1>2. CASE SessionEnds
  BY <1>2 DEF SessionEnds, TailInv, KilledTailIsRefused
<1>3. CASE UNCHANGED vars
  BY <1>3 DEF vars, TailInv, KilledTailIsRefused
<1>4. ASSUME ~AdvocateEnds, ~SessionEnds, Next
      PROVE  TailInv'
  <2>1. outcome' = outcome /\ pc # "ended"
    BY <1>4 DEF Next, BeginIteration, RunAttempt, EvaluationEnds,
                EvaluationRaises, BudgetHalt, Checkpoint, Improve,
                ImproverRaises, Continue, Return
  <2>2. outcome' = "none"
    BY <2>1 DEF TailInv
  <2> QED BY <2>2 DEF TailInv, KilledTailIsRefused
<1> QED BY <1>1, <1>2, <1>3, <1>4

(* A lineage whose last prediction was killed is never promotable. *)
THEOREM KilledTailsAreRefused == Spec => []KilledTailIsRefused
<1>1. TailInv => KilledTailIsRefused
  BY DEF TailInv
<1> QED BY <1>1, InitTail, NextTail, VerifiedInvHolds, PTL DEF Spec
=============================================================================
