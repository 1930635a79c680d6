---------------------------- MODULE PopulationCycle ----------------------------
(***************************************************************************)
(* PopulationRunner.run of rsi/population.py: the cases of a cycle, some   *)
(* of them replaced by traps for what failed in the cycle before           *)
(* (evaluation/assembly.py, rsi/adversarial.py), the advocates one after   *)
(* the other, and the winners, one of them with a bonus for being          *)
(* different (evaluation/diversity.py).  Scores and weights in percent.     *)
(***************************************************************************)
EXTENDS Curveballs, Integers, Sequences, FiniteSets, FiniteSetsExt

CONSTANTS
    N,          \* n_advocates
    Corpus,     \* the cases of the primary domain
    Ratio,      \* adversarial_ratio, in hundredths of a percent
    Weight,     \* diversity_penalty_weight
    Histories,  \* what the loop of an advocate may leave
    MaxCycles   \* bound: cycles that know the one before

VARIABLES
    pc,         \* "Mix", "Place", "Advocate", "Rank", "Over" or "Raised"
    cycle,
    prior,      \* prior_result: the histories of the last cycle
    balls,      \* the curveballs generated
    cases,      \* the primary cases of the cycle
    advocates,  \* the results so far
    context,    \* _cross_advocate_context
    shown,      \* the context that each advocate began with
    winner,     \* winner_id
    adjusted    \* adjusted_winner_id

vars == <<pc, cycle, prior, balls, cases, advocates, context, shown, winner, adjusted>>
mixVars == <<balls, cases>>
runVars == <<advocates, context, shown>>
winners == <<winner, adjusted>>

Init ==
    /\ pc = "Mix" /\ cycle = 1 /\ prior = <<>>
    /\ balls = <<>> /\ cases = Corpus
    /\ advocates = <<>> /\ context = <<>> /\ shown = <<>>
    /\ winner = None /\ adjusted = None
-----------------------------------------------------------------------------
(* The cases *)

(* _round_up_ratio.  The product is one of floats: where it lies above a    *)
(* whole number that it should be (100 times 0.07), it is rounded up, and  *)
(* the ratio of the model is then as little above what it should be.       *)
HowMany == (Len(Corpus) * Ratio + 9999) \div 10000

DefaultModes == <<"off_by_one", "edge_case_empty_input", "missing_modulo", "integer_overflow">>

ModeOf(verdict) ==
    CASE verdict = "WA" -> "off_by_one"
      [] verdict \in {"TLE", "MLE"} -> "integer_overflow"
      [] verdict \in {"RE", "CE"} -> "edge_case_empty_input"
      [] OTHER -> None

Alphabetical == <<"edge_case_empty_input", "integer_overflow", "off_by_one">>

Place(mode) == CHOOSE k \in DOMAIN Alphabetical : Alphabetical[k] = mode

Last(s) == s[Len(s)]

(* The cases that failed this way in the last iterations of the advocates. *)
Failed(mode) ==
    UNION {UNION {({k} \X {v}) \X (1 .. Last(prior[k]).verdicts[v]) :
                     v \in {w \in DOMAIN Last(prior[k]).verdicts : ModeOf(w) = mode}} :
             k \in {a \in DOMAIN prior : prior[a] # <<>>}}

Tally(mode) == Cardinality(Failed(mode))

Failing == {mode \in Range(Alphabetical) : Tally(mode) > 0}

Sooner(a, b) == Tally(a) > Tally(b) \/ (Tally(a) = Tally(b) /\ Place(a) < Place(b))

(* mine_failure_modes_from_result                                          *)
Mined ==
    [n \in 1 .. Cardinality(Failing) |->
        CHOOSE mode \in Failing : Cardinality({m \in Failing : Sooner(m, mode)}) = n - 1]

Modes == LET mined == Mined IN IF mined = <<>> THEN DefaultModes ELSE mined

(* Mutant: every curveball is of the first mode.                           *)
MutantModeFor(k) == Modes[1]

(* The mode that the kth curveball is steered to.                          *)
ModeFor(k) == Modes[((k - 1) % Len(Modes)) + 1]

Generate ==
    /\ pc = "Mix" /\ Len(balls) < HowMany
    /\ \E answer \in Answers :
        IF Raises(answer) THEN pc' = "Raised" /\ UNCHANGED balls
        ELSE /\ balls' = Append(balls, Curveball(ModeFor(Len(balls) + 1), answer))
             /\ UNCHANGED pc
    /\ UNCHANGED <<cycle, prior, cases, runVars, winners>>

(* The sampled positions are distinct, and the number of cases is kept.    *)
Assemble ==
    /\ pc = "Mix" /\ Len(balls) = HowMany
    /\ pc' = "Advocate"
    /\ \E positions \in [1 .. HowMany -> DOMAIN Corpus] :
        /\ IsInjective(positions)
        /\ cases' = [k \in DOMAIN Corpus |->
                       IF k \in Range(positions)
                       THEN balls[CHOOSE b \in DOMAIN balls : positions[b] = k] ELSE Corpus[k]]
    /\ UNCHANGED <<cycle, prior, balls, runVars, winners>>
-----------------------------------------------------------------------------
(* The advocates *)

Best(history) == IF history = <<>> THEN 0 ELSE Max({history[k].score : k \in DOMAIN history})

(***************************************************************************)
(* _run_one_advocate.  A loop that raises leaves what it had done so far.  *)
(* The scores of the other domains decide nothing and are left out.        *)
(***************************************************************************)
RunAdvocate ==
    /\ pc = "Advocate" /\ Len(advocates) < N
    /\ \E h \in Histories :
        /\ advocates' = Append(advocates, [history |-> h, best |-> Best(h)])
        /\ context' = IF h = <<>> THEN context ELSE Append(context, Last(h).fields)
    /\ shown' = Append(shown, context)
    /\ pc' = IF Len(advocates') = N THEN "Rank" ELSE pc
    /\ UNCHANGED <<cycle, prior, mixVars, winners>>

(* lineage_signature: the fields its deltas changed.                       *)
Fields(history) == UNION {history[k].fields : k \in DOMAIN history}

(* pairwise_lineage_distance.  The cosine of the fingerprints scales the   *)
(* overlap of the fields; it is not told apart further.                    *)
Distances(p) ==
    LET a == advocates[p[1]].history
        b == advocates[p[2]].history
        union == Fields(a) \cup Fields(b)
        overlap == IF union = {} THEN 0
                   ELSE (100 * Cardinality(Fields(a) \cap Fields(b))) \div Cardinality(union)
    IN IF a = <<>> /\ b = <<>> THEN {0}
       ELSE IF a = <<>> \/ b = <<>> THEN {100}
       ELSE {100 - overlap, 100}

Pairs == {p \in (1 .. N) \X (1 .. N) : p[1] < p[2]}

(* 200 times the adjusted score.                                           *)
Adjust(best, mean) == best * (200 + (Weight * (2 * mean - 100)) \div 100)

(* The first of those that score highest.                                  *)
FirstBest(score) == CHOOSE k \in DOMAIN score :
    /\ \A j \in DOMAIN score : score[j] <= score[k]
    /\ \A j \in 1 .. k - 1 : score[j] < score[k]

Rank ==
    /\ pc = "Rank"
    /\ pc' = "Over"
    /\ winner' = FirstBest([k \in 1 .. N |-> advocates[k].best])
    /\ \E dist \in [Pairs -> UNION {Distances(p) : p \in Pairs}] :
        /\ \A p \in Pairs : dist[p] \in Distances(p)
        /\ LET Mean(k) == MapThenSumSet(LAMBDA p : dist[p],
                                        {p \in Pairs : k \in {p[1], p[2]}})
                          \div (N - 1)
           IN adjusted' = IF N = 1 \/ Weight = 0 THEN winner'
                          ELSE FirstBest([k \in 1 .. N |-> Adjust(advocates[k].best, Mean(k))])
    /\ UNCHANGED <<cycle, prior, mixVars, runVars>>

(* The next cycle, of a caller that hands the result on.                   *)
NextCycle ==
    /\ pc = "Over" /\ cycle < MaxCycles
    /\ pc' = "Mix" /\ cycle' = cycle + 1
    /\ prior' = [k \in 1 .. N |-> advocates[k].history]
    /\ balls' = <<>> /\ cases' = Corpus
    /\ advocates' = <<>> /\ context' = <<>> /\ shown' = <<>>
    /\ winner' = None /\ adjusted' = None

(* What the constants may be; the MC module assumes it.  A case of the     *)
(* corpus is no curveball.                                                 *)
ValidPopulation ==
    /\ N \in Nat \ {0} /\ Corpus \in Seq(Range(Corpus)) /\ Corpus # <<>>
    /\ Ratio \in 0 .. 10000 /\ Weight \in Nat
    /\ \A k \in DOMAIN Corpus, answer \in Answers :
          \A mode \in Range(DefaultModes) : Corpus[k] # Curveball(mode, answer)
    /\ None \notin Range(DefaultModes)
    /\ \A h \in Histories :
          /\ h \in Seq(Range(h))
          /\ \A k \in DOMAIN h :
                /\ h[k].score \in 0 .. 100
                /\ \A v \in DOMAIN h[k].verdicts : h[k].verdicts[v] \in Nat

Next == Generate \/ Assemble \/ RunAdvocate \/ Rank \/ NextCycle

Spec == Init /\ [][Next]_vars
-----------------------------------------------------------------------------
Traps == {k \in DOMAIN Corpus : cases[k] # Corpus[k]}

AimedAt(mode) == {k \in Traps : cases[k].mode = mode}

(* Some advocate of the last cycle failed this way in its last iteration.  *)
Met(mode) ==
    \E a \in DOMAIN prior :
        /\ prior[a] # <<>>
        /\ \E v \in DOMAIN Last(prior[a]).verdicts :
              Last(prior[a]).verdicts[v] > 0 /\ ModeOf(v) = mode

(* The traps are as many as the ratio rounds up to, the other cases stay   *)
(* where they were, every trap is aimed at what failed in the last         *)
(* iteration of some advocate of the cycle before, if anything did, and no *)
(* mode has two traps more than another.                                   *)
MixSound ==
    pc \in {"Advocate", "Rank", "Over"} =>
        /\ Cardinality(Traps) = HowMany /\ Len(cases) = Len(Corpus)
        /\ \A k \in Traps :
             \/ Met(cases[k].mode)
             \/ /\ cases[k].mode \in Range(DefaultModes)
                /\ \A mode \in Range(Alphabetical) : ~Met(mode)
        /\ LET modes == Range(Modes)
           IN \A m, n \in modes : Cardinality(AimedAt(m)) <= Cardinality(AimedAt(n)) + 1

(* The advocates among the first of these that got somewhere.              *)
Runners(results, k) == {j \in 1 .. k : results[j].history # <<>>}

(* The edits are the last ones of the advocates in these places, in order. *)
LastEdits(results, edits, places) ==
    \E at \in [1 .. Cardinality(places) -> places] :
        /\ \A m, n \in 1 .. Cardinality(places) : m < n => at[m] < at[n]
        /\ edits = [n \in 1 .. Cardinality(places) |-> Last(results[at[n]].history).fields]

(* An advocate is shown the last edits of the siblings that have run in    *)
(* this cycle and got somewhere, and nothing of an earlier cycle.          *)
SiblingsShown ==
    \A k \in DOMAIN shown : LastEdits(advocates, shown[k], Runners(advocates, k - 1))
===============================================================================
