---------------------------- MODULE IslandKernel ----------------------------
(***************************************************************************)
(* FunSearchKernel.run of kernels/base.py: the island model, its thread    *)
(* pool of LLM calls, migration, plateau bookkeeping, island resets and    *)
(* the horizons that stop it.                                              *)
(*                                                                         *)
(* A program is its fitness, a number of units in 0..MaxFit; a unit is     *)
(* more than the 1e-6 of best_fitness_improved.  A population is a         *)
(* non-increasing function on Slots: step() sorts it, and what the code    *)
(* does to an unsorted one depends on the fitnesses only.  What an LLM     *)
(* proposes, and what the oracle says of it, is any fitness.               *)
(***************************************************************************)
EXTENDS Integers, FiniteSets, FiniteSetsExt

CONSTANTS
  NIslands,          (* config.n_islands *)
  Pop,               (* config.population_per_island *)
  MaxFit,            (* the greatest fitness, in units *)
  Seeds,             (* island -> populations seed_programs may yield *)
  Candidates,        (* config.candidates_per_island *)
  Workers,           (* config.max_concurrent_llm threads *)
  Generations,       (* config.generations *)
  MigrationInterval, (* config.migration_interval *)
  Target,            (* config.target_fitness *)
  MaxRequests,       (* config.max_requests *)
  WallClock,         (* whether config.max_wall_seconds is set *)
  PlateauGens,       (* config.plateau_generations *)
  PlateauEps,        (* config.plateau_epsilon, in units *)
  PlateauHint,       (* config.plateau_hint *)
  Specialised        (* island_instance_assignment, with several instances *)

NoLimit == -1        (* a horizon that is None *)
NoBest == -1         (* best_program is None *)

Islands == 0..(NIslands - 1)
Slots == 1..Pop
Fitness == 0..MaxFit
Populations ==
  {p \in [Slots -> Fitness] : \A s, t \in Slots : s < t => p[s] >= p[t]}

(* The configurations of KernelConfig that run() accepts. *)
ValidConfig ==
  /\ NIslands \in Nat \ {0}
  /\ Pop \in Nat \ {0}
  /\ MaxFit \in Nat
  /\ Seeds \in [Islands -> SUBSET Populations]
  /\ \A i \in Islands : Seeds[i] # {}
  /\ Candidates \in Nat
  /\ Generations \in Nat
  /\ MigrationInterval \in Nat \ {0}
  /\ Target \in Fitness \cup {NoLimit}
  /\ MaxRequests \in Nat \cup {NoLimit}
  /\ PlateauGens \in Nat \cup {NoLimit}
  /\ PlateauEps \in Nat
  /\ WallClock \in BOOLEAN
  /\ PlateauHint \in BOOLEAN
  /\ Specialised \in BOOLEAN

ASSUME ConfigAssumption == ValidConfig

ASSUME WorkersAssumption == Workers # {}

VARIABLES
  pc,             (* where run() is *)
  pop,            (* island.population *)
  best,           (* island.best_program *)
  generation,     (* self.generation *)
  llmRequests,    (* self.llm_requests *)
  todo,           (* tasks of the wave no thread has taken *)
  counting,       (* threads inside `with self._llm_lock` *)
  seen,           (* thread -> llm_requests as it read it in there *)
  calling,        (* threads whose LLM call is out *)
  cand,           (* candidates of the wave already scored *)
  prevBest,       (* run()'s prev_best *)
  plateau,        (* self._plateau_count *)
  islandPlateau,  (* self._island_plateau_counts *)
  islandPrev,     (* self._island_prev_best *)
  age,            (* self._island_age *)
  watermark,      (* self._last_published_best_fitness *)
  hint,           (* whether self._active_hint is set *)
  saved,          (* fitness of the last artifact saved *)
  stop,           (* self.stop_reason *)
  made,           (* LLM calls of _llm_call (history) *)
  hintCalls,      (* deer calls of _get_plateau_hint (history) *)
  found           (* best fitness any population ever held (history) *)

poolVars == <<llmRequests, todo, counting, seen, calling, made>>
searchVars == <<pop, best, generation, islandPlateau, islandPrev, age,
                watermark, found>>
runVars == <<prevBest, plateau, hint, saved, stop, hintCalls>>
vars == <<pc, cand, poolVars, searchVars, runVars>>

-----------------------------------------------------------------------------
(* Populations and bests *)

(* What .fitness if best_program else 0.0 reads. *)
Value(b) == IF b = NoBest THEN 0 ELSE b

(* global_best_fitness *)
GlobalBest(b) == Max({Value(b[i]) : i \in Islands})

(* Append f if it beats the worst program, sort, keep the first Pop. *)
Insert(p, f) ==
  [s \in Slots |-> IF p[s] >= f THEN p[s]
                   ELSE IF s = 1 \/ p[s - 1] >= f THEN f
                   ELSE p[s - 1]]

(* A migrant of fitness f takes the weakest program's slot. *)
Inject(p, f) == Insert([p EXCEPT ![Pop] = 0], f)

Donor(i) == (i + 1) % NIslands

MigrationDue == generation > 0 /\ generation % MigrationInterval = 0

(* The fitness of donor's best program on island i: the donor's, unless    *)
(* islands are scored on instances of their own.                           *)
MigrantFitness ==
  {g \in [Islands -> Fitness] :
     Specialised \/ \A i \in Islands : g[i] = Value(best[Donor(i)])}

(* migrate(), to which a donor without a best program gives nothing. *)
Migrated(g) ==
  [i \in Islands |-> IF MigrationDue /\ best[Donor(i)] # NoBest
                     THEN Inject(pop[i], g[i]) ELSE pop[i]]

(* evaluate_island: a population without a valid program keeps the best    *)
(* program the island had.                                                 *)
Evaluated(p, b) == IF p[1] > 0 THEN p[1] ELSE b

(* seed_programs, scored, for every island. *)
Seedings ==
  {p \in [Islands -> UNION {Seeds[i] : i \in Islands}] :
     \A i \in Islands : p[i] \in Seeds[i]}

Found(p) == Max({found} \cup {p[i][1] : i \in Islands})

PerIsland == Max({1, Candidates})

(* _next_wave_requests *)
Wave == NIslands * PerIsland

IslandOf(c) == c \div PerIsland

(* Half the plateau budget; `or 6` also replaces a budget of 0. *)
Midpoint == IF PlateauGens \in {NoLimit, 0} THEN 3 ELSE PlateauGens \div 2

NCulled == Max({1, (NIslands * 2) \div 5})

(* A bug: the strongest islands come first. *)
MutantWeaker(i, j) ==
  \/ Value(best[i]) > Value(best[j])
  \/ Value(best[i]) = Value(best[j]) /\ i < j

(* The order of sorted(), which is stable, by best fitness. *)
Weaker(i, j) ==
  \/ Value(best[i]) < Value(best[j])
  \/ Value(best[i]) = Value(best[j]) /\ i < j

(* ranked[:n_cull] *)
Culled(C) ==
  /\ C \subseteq Islands
  /\ Cardinality(C) = NCulled
  /\ \A i \in C, j \in Islands \ C : Weaker(i, j)

(* The plateau horizon: global, or of every island when they specialise. *)
PlateauReached ==
  /\ PlateauGens # NoLimit
  /\ IF Specialised
     THEN generation > 0 /\ \A i \in Islands : islandPlateau[i] >= PlateauGens
     ELSE plateau >= PlateauGens

(* A bug: the wave to come is not counted. *)
MutantRequestsReached == MaxRequests # NoLimit /\ llmRequests >= MaxRequests

RequestsReached == MaxRequests # NoLimit /\ llmRequests + Wave > MaxRequests

TargetReached == Target # NoLimit /\ GlobalBest(best) >= Target

(* A bug: a run with a target forgets the request horizon. *)
MutantHorizonReason(late) ==
  IF TargetReached THEN "target"
  ELSE IF Target = NoLimit /\ RequestsReached THEN "requests"
  ELSE IF late THEN "wall"
  ELSE IF PlateauReached THEN "plateau"
  ELSE "none"

(* _horizon_reason: the first horizon reached; late is whether the wall    *)
(* clock budget is used up.                                                *)
HorizonReason(late) ==
  IF TargetReached THEN "target"
  ELSE IF RequestsReached THEN "requests"
  ELSE IF late THEN "wall"
  ELSE IF PlateauReached THEN "plateau"
  ELSE "none"

Init ==
  /\ pc = "check"
  /\ pop \in Seedings
  /\ best = [i \in Islands |-> pop[i][1]]
  /\ generation = 0
  /\ llmRequests = 0 /\ todo = 0
  /\ counting = {} /\ seen = [w \in Workers |-> 0] /\ calling = {}
  /\ cand = 0
  /\ prevBest = 0 /\ plateau = 0
  /\ islandPlateau = [i \in Islands |-> 0]
  /\ islandPrev = [i \in Islands |-> -1]
  /\ age = [i \in Islands |-> 0]
  /\ watermark = GlobalBest(best)
  /\ hint = FALSE
  /\ saved = GlobalBest(best)
  /\ stop = "none"
  /\ made = 0 /\ hintCalls = 0
  /\ found = GlobalBest(best)
 
-----------------------------------------------------------------------------
(* The top of the loop *)

(* The range of generations is used up. *)
Cap ==
  /\ pc = "check" /\ generation = Generations
  /\ pc' = "done" /\ stop' = "cap"
  /\ UNCHANGED <<cand, poolVars, searchVars, prevBest, plateau, hint, saved,
                 hintCalls>>

Halt ==
  /\ pc = "check" /\ generation < Generations
  /\ \E late \in {FALSE, WallClock} :
       /\ HorizonReason(late) # "none"
       /\ stop' = HorizonReason(late)
  /\ pc' = "done"
  /\ UNCHANGED <<cand, poolVars, searchVars, prevBest, plateau, hint, saved,
                 hintCalls>>

(* No horizon is hit: a wave of tasks goes to a fresh thread pool. *)
BeginWave ==
  /\ pc = "check" /\ generation < Generations
  /\ HorizonReason(FALSE) = "none"
  /\ prevBest' = GlobalBest(best)
  /\ todo' = Wave
  /\ pc' = "generate"
  /\ UNCHANGED <<cand, llmRequests, counting, seen, calling, made, searchVars,
                 plateau, hint, saved, stop, hintCalls>>

-----------------------------------------------------------------------------
(* The thread pool: _llm_call *)

LockFree == counting = {}

(* A thread takes the next task, enters the lock and reads the counter. *)
TakeTask(w) ==
  /\ pc = "generate" /\ todo > 0
  /\ w \notin calling \cup counting
  /\ LockFree
  /\ counting' = counting \cup {w}
  /\ seen' = [seen EXCEPT ![w] = llmRequests]
  /\ todo' = todo - 1
  /\ UNCHANGED <<pc, cand, llmRequests, calling, made, searchVars, runVars>>

(* It writes the counter back, leaves the lock and makes the call. *)
Call(w) ==
  /\ w \in counting
  /\ llmRequests' = seen[w] + 1
  /\ seen' = [seen EXCEPT ![w] = 0]
  /\ counting' = counting \ {w}
  /\ calling' = calling \cup {w}
  /\ made' = made + 1
  /\ UNCHANGED <<pc, cand, todo, searchVars, runVars>>

(* The call answers, fails or times out; all three yield a response. *)
Answer(w) ==
  /\ w \in calling
  /\ calling' = calling \ {w}
  /\ UNCHANGED <<pc, cand, llmRequests, todo, counting, seen, made, searchVars,
                 runVars>>

(* The executor is closed once every task has answered. *)
WaveAnswered ==
  /\ pc = "generate" /\ todo = 0
  /\ LockFree /\ calling = {}
  /\ cand' = 0
  /\ pc' = "evaluate"
  /\ UNCHANGED <<poolVars, searchVars, runVars>>

-----------------------------------------------------------------------------
(* step() after the wave *)

(* The next candidate is scored and offered to its island. *)
EvaluateCandidate(f) ==
  /\ pc = "evaluate" /\ cand < Wave
  /\ pop' = [pop EXCEPT ![IslandOf(cand)] = Insert(@, f)]
  /\ found' = Found(pop')
  /\ cand' = cand + 1
  /\ UNCHANGED <<pc, poolVars, best, generation, islandPlateau, islandPrev, age,
                 watermark, runVars>>

(* Scoring or publishing it raises: it is logged and left out. *)
CandidateFails ==
  /\ pc = "evaluate" /\ cand < Wave
  /\ cand' = cand + 1
  /\ UNCHANGED <<pc, poolVars, searchVars, runVars>>

(* Per island: did its best rise by more than epsilon this generation? *)
IslandPlateaus(b) ==
  [i \in Islands |-> IF Value(b[i]) - islandPrev[i] > PlateauEps
                     THEN 0 ELSE islandPlateau[i] + 1]

(* A bug: the bests from before the wave are reported. *)
MutantReport(b) ==
  /\ age' = [i \in Islands |-> age[i] + 1]
  /\ watermark' = Max({watermark, GlobalBest(best)})

(* The block under `if all_best`: ages and best_fitness_improved. *)
Report(b) ==
  IF \A i \in Islands : b[i] = NoBest THEN UNCHANGED <<age, watermark>>
  ELSE /\ age' = [i \in Islands |-> age[i] + 1]
       /\ watermark' = Max({watermark, GlobalBest(b)})

(* Migration when it is due, evaluation, plateau counts and reports. *)
FinishStep ==
  /\ pc = "evaluate" /\ cand = Wave
  /\ \E g \in MigrantFitness : pop' = Migrated(g)
  /\ best' = [i \in Islands |-> Evaluated(pop'[i], best[i])]
  /\ found' = Found(pop')
  /\ islandPlateau' = IslandPlateaus(best')
  /\ islandPrev' =
       [i \in Islands |-> Max({islandPrev[i], Value(best'[i])})]
  /\ Report(best')
  /\ generation' = generation + 1
  /\ pc' = "judge"
  /\ UNCHANGED <<cand, poolVars, runVars>>

-----------------------------------------------------------------------------
(* The rest of the loop: improvement, plateau, reset *)

Improved == GlobalBest(best) - prevBest > PlateauEps

(* _save_best_artifact: the best valid program of all populations. *)
SaveBest ==
  IF \E i \in Islands : pop[i][1] > 0
  THEN saved' = Max({pop[i][1] : i \in Islands})
  ELSE UNCHANGED saved

Improvement ==
  /\ pc = "judge" /\ Improved
  /\ plateau' = 0
  /\ hint' = FALSE
  /\ SaveBest
  /\ pc' = "check"
  /\ UNCHANGED <<cand, poolVars, searchVars, prevBest, stop, hintCalls>>

AtMidpoint == plateau + 1 = Midpoint

Stagnation ==
  /\ pc = "judge" /\ ~Improved /\ ~AtMidpoint
  /\ plateau' = plateau + 1
  /\ pc' = "check"
  /\ UNCHANGED <<cand, poolVars, searchVars, prevBest, hint, saved, stop,
                 hintCalls>>

(* island_reset: the culled islands start again from their seeds; their    *)
(* plateau counts and previous bests stay.                                 *)
Reset(C, p) ==
  /\ pop' = [i \in Islands |-> IF i \in C THEN p[i] ELSE pop[i]]
  /\ best' = [i \in Islands |-> IF i \in C THEN Evaluated(p[i], NoBest)
                                ELSE best[i]]
  /\ age' = [i \in Islands |-> IF i \in C THEN 0 ELSE age[i]]
  /\ found' = Found(pop')
  /\ UNCHANGED <<generation, islandPlateau, islandPrev, watermark>>

(* _get_plateau_hint makes a call of its own and may come back empty. *)
AskForHint ==
  IF PlateauHint /\ ~hint /\ \E i \in Islands : pop'[i][1] > 0
  THEN /\ hintCalls' = hintCalls + 1
       /\ hint' \in BOOLEAN
  ELSE UNCHANGED <<hint, hintCalls>>

PlateauReset ==
  /\ pc = "judge" /\ ~Improved /\ AtMidpoint
  /\ plateau' = plateau + 1
  /\ \E C \in SUBSET Islands :
       /\ Culled(C)
       /\ \E p \in Seedings : Reset(C, p)
  /\ AskForHint
  /\ pc' = "check"
  /\ UNCHANGED <<cand, poolVars, prevBest, saved, stop>>

-----------------------------------------------------------------------------
(* The specification *)

Next ==
  \/ Cap
  \/ Halt
  \/ BeginWave
  \/ \E w \in Workers : TakeTask(w)
  \/ \E w \in Workers : Call(w)
  \/ \E w \in Workers : Answer(w)
  \/ WaveAnswered
  \/ \E f \in Fitness : EvaluateCandidate(f)
  \/ CandidateFails
  \/ FinishStep
  \/ Improvement
  \/ Stagnation
  \/ PlateauReset

(* A bug: the subprocess of a call has no timeout. *)
MutantFairness == WF_vars(Next /\ ~ \E w \in Workers : Answer(w))

(* The interpreter runs on; a call ends, as llm_timeout sees to.           *)
Fairness == WF_vars(Next)

Spec == Init /\ [][Next]_vars
FairSpec == Spec /\ Fairness

-----------------------------------------------------------------------------
(* Properties *)

(* Every variable has its type; populations stay sorted and full.          *)
TypeOK ==
  /\ pc \in {"check", "generate", "evaluate", "judge", "done"}
  /\ pop \in [Islands -> Populations]
  /\ best \in [Islands -> Fitness \cup {NoBest}]
  /\ generation \in 0..Generations
  /\ llmRequests \in Nat /\ made \in Nat /\ hintCalls \in Nat
  /\ todo \in 0..Wave /\ cand \in 0..Wave
  /\ counting \subseteq Workers /\ calling \subseteq Workers
  /\ seen \in [Workers -> Nat]
  /\ prevBest \in Fitness
  /\ plateau \in Nat
  /\ islandPlateau \in [Islands -> Nat]
  /\ islandPrev \in [Islands -> Fitness \cup {-1}]
  /\ age \in [Islands -> Nat]
  /\ watermark \in Fitness /\ saved \in Fitness /\ found \in Fitness
  /\ hint \in BOOLEAN
  /\ stop \in {"none", "cap", "target", "requests", "wall", "plateau"}

(* No increment of llm_requests is lost between the threads of a wave:     *)
(* outside the lock the counter is the number of calls made.               *)
EveryCallCounted == counting = {} => llmRequests = made

(* The horizon is checked before a wave for the whole wave, so the calls   *)
(* of all threads together never exceed max_requests.                      *)
RequestsWithinBudget == MaxRequests # NoLimit => made <= MaxRequests

(* The search is elitist across islands: whatever insertion, truncation,   *)
(* migration and reset do, some island holds a program as good as the best *)
(* one ever held.  It takes two islands and two slots: the reset of a      *)
(* single island, and a migration into a single slot, do lose it.          *)
BestRetained ==
  pc # "evaluate" => GlobalBest(best) = found

(* best_fitness_improved.v1 is never late: when a step ends, the last      *)
(* best fitness published is the best ever found.                          *)
Announced == pc = "judge" => watermark = found

(* An artifact is saved for a new best only, never for a worse program     *)
(* than the one saved before.                                              *)
ArtifactsAreNewBests == [][saved' >= saved]_vars

(* The run returns.                                                        *)
Terminates == <>(pc = "done")

(* The kernel keeps the promise its callers rely on.                       *)
Promise == INSTANCE KernelRun WITH
  Budget <- MaxRequests, Unlimited <- NoLimit,
  spent <- made, running <- (pc # "done")

KeepsPromise == Promise!Spec

(* Asking for a hint costs half a plateau budget of generations, so the    *)
(* calls that are not counted are in all at most the generations run       *)
(* divided by that; and the run is one that its abstract specification     *)
(* allows.                                                                 *)
HintsArePaced == hintCalls * Midpoint <= generation

RunsAsPromised == KeepsPromise /\ []HintsArePaced
=============================================================================
