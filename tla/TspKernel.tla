------------------------------ MODULE TspKernel ------------------------------
(***************************************************************************)
(* TSPKernel (tsp_kernel/loop.py), which overrides step and run of the     *)
(* base kernel: no migration, no islands that specialise, no artifact, but *)
(* a history with a mark for every reset, and a result file.  A program is *)
(* its fitness: the mean of its ratios, here their sum.                    *)
(***************************************************************************)
EXTENDS Integers, Sequences, FiniteSets

CONSTANTS
    Islands,       \* 1..n
    Pop,           \* population_per_island
    Seeds,         \* how many programs init_baseline_programs returns: 3
    PerIsland,     \* candidates_per_island
    Generations, MaxRequests, Target, PlateauGens,
    MaxRatio,      \* the ratio of an optimal tour; 0 is a failure
    Instances,
    None

VARIABLES
    phase,         \* what run() does next
    seed,          \* what a baseline measures, the same every time
    pops,          \* island -> population, a sequence of fitnesses, best first
    tops,          \* island -> fitness of best_program, or None
    wave,          \* the candidates to be evaluated: their island, and whether
                   \* the model gave code
    gen,           \* self.generation
    requests,      \* llm_requests
    stale,         \* _plateau_count
    before,        \* prev_best
    hinted,        \* whether _active_hint is set
    mark,          \* _last_published_best_fitness
    history,       \* of a generation: its number, best_fitness, island_reset_fired
    resets,        \* after how many generations islands were reset (history)
    found,         \* the best fitness ever measured (history)
    result         \* the best program that run() returns and save_results saves

tspVars ==
    <<phase, seed, pops, tops, wave, gen, requests, stale, before, hinted, mark, history,
      resets, found, result>>
-----------------------------------------------------------------------------
Largest(S) == CHOOSE n \in S : \A m \in S : m <= n

Larger(a, b) == IF a > b THEN a ELSE b
Smaller(a, b) == IF a < b THEN a ELSE b

(* evaluate_on_instance: the verdict comes first, then the output, which   *)
(* may not parse or tell of a tour of no length.  An instance without a    *)
(* known optimum counts as solved.                                         *)
Outcomes ==
    {"not OK", "unparsable", "no length", "poor tour", "optimal tour", "no optimum"}

RatioTo(outcome) ==
    CASE outcome \in {"not OK", "unparsable", "no length"} -> 0
      [] outcome = "poor tour" -> 1
      [] OTHER -> MaxRatio

(* evaluate_fitness: the sum of the ratios, counted unit by unit.  An empty *)
(* program does not link.                                                  *)
Fitnesses ==
    {Cardinality({u \in Instances \X (1..MaxRatio) : u[2] <= RatioTo(o[u[1]])}) :
        o \in [Instances -> Outcomes]}

FitnessOf(hasCode) == IF hasCode THEN Fitnesses ELSE {0}

(* The baselines: the poor tour everywhere, or a failure everywhere.       *)
SeedFitness == {0, Cardinality(Instances)}

(* evaluate_island: the best program that works, or the one it had.        *)
BestOf(pop, old) ==
    IF pop[1] > 0 THEN pop[1] ELSE old

(* initialize_islands and the reseeding of island_reset: all the seeds,    *)
(* and copies of one of them up to the size, which they may exceed.        *)
Fresh(f) == [k \in 1..Larger(Pop, Seeds) |-> f]

(* global_best_fitness.                                                    *)
GlobalBest(best) == Largest({0} \cup {best[i] : i \in {j \in Islands : best[j] # None}})

Value(best, i) == IF best[i] = None THEN 0 ELSE best[i]

(* The order of sorted(islands, key = best_program.fitness).               *)
Weaker(best, i, j) ==
    \/ Value(best, i) < Value(best, j)
    \/ Value(best, i) = Value(best, j) /\ i < j

NumberCulled == Larger(1, (2 * Cardinality(Islands)) \div 5)

(* island_reset: the weakest two fifths.                                   *)
Culled(best) ==
    {i \in Islands : Cardinality({j \in Islands : Weaker(best, j, i)}) < NumberCulled}

(* The midpoint of a plateau.                                              *)
Midpoint == (IF PlateauGens = None THEN 6 ELSE PlateauGens) \div 2

Calls == Larger(1, PerIsland)

WaveSize == Cardinality(Islands) * Calls

(* _horizon_reason.                                                        *)
HorizonHit(late) ==
    \/ Target # None /\ GlobalBest(tops) >= Target
    \/ MaxRequests # None /\ requests + WaveSize > MaxRequests
    \/ late
    \/ PlateauGens # None /\ stale >= PlateauGens
-----------------------------------------------------------------------------
(* initialize, and the reset of what run() keeps for a run.  An island has *)
(* a best program before it is evaluated, and keeps it if none works.      *)
Init ==
    /\ seed \in SeedFitness
    /\ pops = [i \in Islands |-> Fresh(seed)]
    /\ tops = [i \in Islands |-> BestOf(Fresh(seed), 0)]
    /\ mark = seed /\ found = seed
    /\ phase = "check" /\ wave = <<>> /\ gen = 0 /\ requests = 0 /\ stale = 0
    /\ before = 0 /\ hinted = FALSE /\ history = <<>> /\ resets = {} /\ result = None

(* A wave: prompts of all islands, then the calls, then their answers in   *)
(* the order of the tasks.  Every attempt counts, the failed ones too.     *)
Generate ==
    /\ phase = "check" /\ gen < Generations /\ ~HorizonHit(FALSE)
    /\ \E codes \in [1..WaveSize -> BOOLEAN] :
        wave' = [k \in 1..WaveSize |->
                    [island |-> ((k - 1) \div Calls) + 1, code |-> codes[k]]]
    /\ requests' = requests + WaveSize
    /\ before' = GlobalBest(tops)
    /\ phase' = "evaluate"
    /\ UNCHANGED <<seed, pops, tops, gen, stale, hinted, mark, history, resets,
                   found, result>>

(* Of a sorted population the first Pop stay.                              *)
Trimmed(pop) == [k \in 1..Smaller(Pop, Len(pop)) |-> pop[k]]

(* Behind its equals, as the sort is stable.                               *)
Inserted(pop, f) ==
    [k \in 1..Len(pop) + 1 |->
        IF k <= Len(pop) /\ pop[k] >= f THEN pop[k]
        ELSE IF k = 1 \/ pop[k - 1] >= f THEN f ELSE pop[k - 1]]

(* A bug: the population is not sorted before it is trimmed.               *)
MutantAccepted(pop, f) ==
    Trimmed(IF f > pop[Len(pop)] THEN Append(pop, f) ELSE pop)

(* Soft elitism: in if better than the worst, and the best of them stay.   *)
Accepted(pop, f) ==
    Trimmed(IF f > pop[Len(pop)] THEN Inserted(pop, f) ELSE pop)

(* One candidate: measured, or an exception that skips it.                 *)
Evaluate ==
    /\ phase = "evaluate" /\ wave # <<>>
    /\ wave' = Tail(wave)
    /\ LET c == Head(wave)
       IN  \/ \E f \in FitnessOf(c.code) :
                /\ pops' = [pops EXCEPT ![c.island] = Accepted(@, f)]
                /\ found' = Larger(found, f)
           \/ UNCHANGED <<pops, found>>
    /\ UNCHANGED <<phase, seed, tops, gen, requests, stale, before, hinted,
                   mark, history, resets, result>>

(* The rest of step(): the bests, an entry of the history, and a published *)
(* improvement.                                                            *)
Finish ==
    /\ phase = "evaluate" /\ wave = <<>>
    /\ tops' = [i \in Islands |-> BestOf(pops[i], tops[i])]
    /\ gen' = gen + 1
    /\ phase' = "judge"
    /\ IF \E i \in Islands : tops'[i] # None
       THEN /\ history' =
                Append(history,
                       [gen |-> gen, best |-> GlobalBest(tops'), reset |-> FALSE])
            /\ mark' = Larger(mark, GlobalBest(tops'))
       ELSE UNCHANGED <<history, mark>>
    /\ UNCHANGED <<seed, pops, wave, requests, stale, before, hinted, resets,
                   found, result>>

(* run() after a better generation.                                        *)
Improvement ==
    /\ phase = "judge" /\ GlobalBest(tops) > before
    /\ stale' = 0 /\ hinted' = FALSE /\ phase' = "check"
    /\ UNCHANGED <<seed, pops, tops, wave, gen, requests, before, mark, history,
                   resets, found, result>>

Stagnation ==
    /\ phase = "judge" /\ GlobalBest(tops) <= before /\ stale + 1 # Midpoint
    /\ stale' = stale + 1 /\ phase' = "check"
    /\ UNCHANGED <<seed, pops, tops, wave, gen, requests, before, hinted, mark,
                   history, resets, found, result>>

(* island_reset, the mark in the last entry of the history, and a hint if  *)
(* none is active, some program works and the advisor answers.  The call   *)
(* of the advisor is not counted.                                          *)
PlateauReset ==
    /\ phase = "judge" /\ GlobalBest(tops) <= before /\ stale + 1 = Midpoint
    /\ stale' = stale + 1 /\ phase' = "check"
    /\ LET culled == Culled(tops)
       IN  /\ pops' = [i \in Islands |-> IF i \in culled THEN Fresh(seed) ELSE pops[i]]
           /\ tops' =
                [i \in Islands |-> IF i \in culled THEN BestOf(Fresh(seed), None) ELSE tops[i]]
    /\ history' =
        IF history = <<>> THEN history ELSE [history EXCEPT ![Len(history)].reset = TRUE]
    /\ resets' = resets \cup {gen}
    /\ hinted' \in
        IF GlobalBest(tops') > 0 THEN {hinted, TRUE} ELSE {hinted}
    /\ UNCHANGED <<seed, wave, gen, requests, before, mark, found, result>>

(* The end of run(), and save_results.                                     *)
Return ==
    /\ phase = "check" /\ phase' = "done"
    /\ gen = Generations \/ \E late \in BOOLEAN : HorizonHit(late)
    /\ result' = Largest({pops[i][1] : i \in Islands})
    /\ UNCHANGED <<seed, pops, tops, wave, gen, requests, stale, before, hinted,
                   mark, history, resets, found>>

Done == phase = "done" /\ UNCHANGED tspVars

Next ==
    \/ Generate \/ Evaluate \/ Finish \/ Improvement \/ Stagnation \/ PlateauReset
    \/ Return \/ Done

ValidTsp ==
    /\ IsFiniteSet(Islands) /\ Cardinality(Islands) >= 2
    /\ Islands = 1..Cardinality(Islands)
    /\ Pop \in Nat \ {0} /\ Seeds \in Nat \ {0} /\ PerIsland \in Nat
    /\ Generations \in Nat /\ MaxRatio \in Nat \ {0} /\ IsFiniteSet(Instances)
    /\ MaxRequests \in Nat \cup {None} /\ None \notin Nat
-----------------------------------------------------------------------------
(* Of two islands or more, the resets leave one with the best program, so  *)
(* the result is the best program that was ever measured, and the best     *)
(* that was announced.  (A single island is reset with its best program.)  *)
ResultIsBest == phase = "done" => result = found /\ mark = found

(* The history has an entry of every generation: although a reset leaves   *)
(* an island without a best program if its baselines fail, it never leaves *)
(* all of them so, and a generation without one would not be written.  The *)
(* bests never fall, and those marked are those after which islands were   *)
(* reset.                                                                  *)
HistoryIsTrue ==
    /\ Len(history) = gen
    /\ \A k \in 1..Len(history) :
        /\ history[k].gen = k - 1
        /\ k > 1 => history[k].best >= history[k - 1].best
        /\ history[k].reset <=> history[k].gen + 1 \in resets

(* All the calls of a run, the failed ones too, are within its budget.     *)
WithinBudget == MaxRequests # None => requests <= MaxRequests

TspSound == ResultIsBest /\ HistoryIsTrue /\ WithinBudget
=============================================================================
