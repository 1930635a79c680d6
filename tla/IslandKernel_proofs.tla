------------------------- MODULE IslandKernel_proofs -------------------------
(***************************************************************************)
(* Proofs about IslandKernel, for every configuration: its types, the      *)
(* request counter and budget, and that the best program is never lost.    *)
(***************************************************************************)
EXTENDS IslandKernel, FiniteSetTheorems, WellFoundedInduction, TLAPS

-----------------------------------------------------------------------------
(* Greatest elements *)

(* A set of numbers with a greatest element has that one as its Max.       *)
LEMMA MaxIs ==
  ASSUME NEW S, S \subseteq Int, NEW m \in S, \A y \in S : m >= y
  PROVE  Max(S) = m
<1>1. \E x \in S : \A y \in S : x >= y
  OBVIOUS
<1>2. Max(S) \in S /\ \A y \in S : Max(S) >= y
  BY <1>1 DEF Max
<1>3. \A x \in S : (\A y \in S : x >= y) => x = m
  OBVIOUS
<1> QED
  BY <1>2, <1>3, Zenon

(* Of two numbers one is the greater.                                      *)
LEMMA MaxOfTwo ==
  ASSUME NEW a \in Int, NEW b \in Int
  PROVE  /\ Max({a, b}) \in {a, b}
         /\ Max({a, b}) >= a /\ Max({a, b}) >= b
<1>1. CASE a >= b
  <2>1. Max({a, b}) = a
    BY <1>1, MaxIs
  <2> QED
    BY <1>1, <2>1
<1>2. CASE b >= a
  <2>1. Max({a, b}) = b
    BY <1>2, MaxIs
  <2> QED
    BY <1>2, <2>1
<1> QED
  BY <1>1, <1>2

(* A nonempty set of fitnesses has a greatest element.                     *)
LEMMA MaxOfFitness ==
  ASSUME NEW S, S \subseteq Fitness, S # {}
  PROVE  Max(S) \in S /\ \A y \in S : Max(S) >= y
<1> DEFINE T == {MaxFit - x : x \in S}
<1>0. MaxFit \in Nat
  BY ConfigAssumption DEF ValidConfig
<1>1. T \subseteq Nat /\ T # {}
  <2>1. \A x \in S : MaxFit - x \in Nat
    BY <1>0 DEF Fitness
  <2> QED
    BY <2>1
<1>2. PICK t \in T : \A y \in T : ~ (<<y, t>> \in OpToRel(<, Nat))
  <2>1. IsWellFoundedOn(OpToRel(<, Nat), Nat)
    BY NatLessThanWellFounded
  <2>2. \E x \in T : \A y \in T : ~ (<<y, x>> \in OpToRel(<, Nat))
    <3> HIDE DEF T
    <3> QED
      BY <1>1, <2>1, WFMin
  <2> QED
    BY <2>2
<1>3. \A y \in T : ~ (y < t)
  BY <1>1, <1>2 DEF OpToRel
<1>4. PICK m \in S : t = MaxFit - m
  OBVIOUS
<1>5. \A y \in S : m >= y
  <2>1. SUFFICES ASSUME NEW y \in S PROVE m >= y
    OBVIOUS
  <2>2. ~ (MaxFit - y < MaxFit - m)
    BY <1>3, <1>4
  <2> QED
    BY <2>2, <1>0 DEF Fitness
<1>6. S \subseteq Int
  BY <1>0 DEF Fitness
<1>7. Max(S) = m
  BY <1>5, <1>6, MaxIs
<1> QED
  BY <1>5, <1>7

-----------------------------------------------------------------------------
(* Populations *)

LEMMA ConfigFacts ==
  /\ NIslands \in Nat \ {0} /\ Pop \in Nat \ {0} /\ MaxFit \in Nat
  /\ 0 \in Islands /\ 0 \in Fitness /\ Fitness \subseteq Nat
  /\ 1 \in Slots /\ Pop \in Slots /\ Slots \subseteq Nat
BY ConfigAssumption DEF ValidConfig, Islands, Slots, Fitness

(* Inserting keeps a population sorted and full, and its best program is   *)
(* the better one of the newcomer and the best before.                     *)
LEMMA InsertType ==
  ASSUME NEW p \in Populations, NEW f \in Fitness
  PROVE  /\ Insert(p, f) \in Populations
         /\ Insert(p, f)[1] = IF p[1] >= f THEN p[1] ELSE f
<1> DEFINE q == Insert(p, f)
<1>1. /\ p \in [Slots -> Fitness]
      /\ \A s, t \in Slots : s < t => p[s] >= p[t]
  BY DEF Populations
<1>n. f \in Int /\ \A s \in Slots : p[s] \in Int
  BY <1>1, ConfigFacts DEF Fitness
<1>2. \A s \in Slots : s # 1 => s - 1 \in Slots
  BY ConfigFacts DEF Slots
<1>3. q \in [Slots -> Fitness]
  BY <1>1, <1>2 DEF Insert
<1>4. ASSUME NEW s \in Slots, NEW t \in Slots, s < t
      PROVE  q[s] >= q[t]
  <2>1. p[s] \in Int /\ p[t] \in Int /\ f \in Int /\ p[s] >= p[t]
    BY <1>1, <1>n, <1>4
  <2>2. t # 1 /\ t - 1 \in Slots /\ s <= t - 1
    BY <1>2, <1>4 DEF Slots
  <2>3. p[t - 1] \in Int /\ p[s] >= p[t - 1]
    <3>1. s = t - 1 \/ s < t - 1
      BY <2>2 DEF Slots
    <3> QED
      BY <1>1, <1>n, <2>1, <2>2, <3>1
  <2>4. q[t] = IF p[t] >= f THEN p[t]
               ELSE IF p[t - 1] >= f THEN f ELSE p[t - 1]
    BY <2>2 DEF Insert
  <2>5. CASE p[s] >= f
    <3>1. q[s] = p[s]
      BY <2>5 DEF Insert
    <3> QED
      BY <2>1, <2>3, <2>4, <2>5, <3>1
  <2>6. CASE ~ (p[s] >= f)
    <3>1. q[t] = p[t - 1]
      BY <2>1, <2>3, <2>4, <2>6
    <3>2. q[s] = f \/ (s # 1 /\ q[s] = p[s - 1])
      BY <2>6 DEF Insert
    <3>3. s # 1 => p[s - 1] \in Int /\ p[s - 1] >= p[s]
      BY <1>1, <1>n, <1>2 DEF Slots
    <3> QED
      BY <2>1, <2>3, <2>6, <3>1, <3>2, <3>3
  <2> QED
    BY <2>5, <2>6
<1>5. q \in Populations
  BY <1>3, <1>4 DEF Populations
<1>6. q[1] = IF p[1] >= f THEN p[1] ELSE f
  BY ConfigFacts DEF Insert
<1> QED
  BY <1>5, <1>6

(* So does a migrant, and with two slots the best program stays.           *)
LEMMA InjectType ==
  ASSUME NEW p \in Populations, NEW f \in Fitness
  PROVE  /\ Inject(p, f) \in Populations
         /\ Pop >= 2 =>
              Inject(p, f)[1] = IF p[1] >= f THEN p[1] ELSE f
<1> DEFINE q == [p EXCEPT ![Pop] = 0]
<1>1. /\ p \in [Slots -> Fitness]
      /\ \A s, t \in Slots : s < t => p[s] >= p[t]
  BY DEF Populations
<1>n. \A s \in Slots : p[s] \in Nat
  BY <1>1, ConfigFacts DEF Fitness
<1>2. q \in [Slots -> Fitness]
  BY <1>1, ConfigFacts
<1>3. ASSUME NEW s \in Slots, NEW t \in Slots, s < t
      PROVE  q[s] >= q[t]
  <2>1. s # Pop /\ q[s] = p[s] /\ p[s] \in Nat
    BY <1>1, <1>n, <1>3, ConfigFacts DEF Slots
  <2>2. q[t] = 0 \/ q[t] = p[t]
    BY <1>1
  <2> QED
    BY <1>1, <1>3, <2>1, <2>2
<1>4. q \in Populations
  BY <1>2, <1>3 DEF Populations
<1>5. Pop >= 2 => q[1] = p[1]
  BY <1>1, ConfigFacts
<1> QED
  BY <1>4, <1>5, InsertType DEF Inject

LEMMA TopKept ==
  ASSUME NEW p \in Populations, NEW f \in Fitness
  PROVE  /\ Insert(p, f)[1] >= p[1]
         /\ Pop >= 2 => Inject(p, f)[1] >= p[1]
<1>1. p[1] \in Int /\ f \in Int
  BY ConfigFacts DEF Populations, Fitness
<1>2. Insert(p, f)[1] = IF p[1] >= f THEN p[1] ELSE f
  BY InsertType
<1>3. Pop >= 2 => Inject(p, f)[1] = IF p[1] >= f THEN p[1] ELSE f
  BY InjectType
<1> QED
  BY <1>1, <1>2, <1>3

LEMMA SeedingType ==
  ASSUME NEW p \in Seedings
  PROVE  p \in [Islands -> Populations]
BY ConfigAssumption DEF ValidConfig, Seedings

(* global_best_fitness returns the best value of some island.              *)
LEMMA GlobalBestType ==
  ASSUME NEW b \in [Islands -> Fitness \cup {NoBest}]
  PROVE  /\ GlobalBest(b) \in Fitness
         /\ \E i \in Islands : GlobalBest(b) = Value(b[i])
         /\ \A i \in Islands : GlobalBest(b) >= Value(b[i])
<1> DEFINE S == {Value(b[i]) : i \in Islands}
<1>1. \A i \in Islands : Value(b[i]) \in Fitness
  BY ConfigFacts DEF Value
<1>2. S \subseteq Fitness /\ S # {}
  BY <1>1, ConfigFacts
<1>3. Max(S) \in S /\ \A y \in S : Max(S) >= y
  <2> HIDE DEF S
  <2> QED
    BY <1>2, MaxOfFitness
<1>4. GlobalBest(b) = Max(S)
  BY DEF GlobalBest
<1>5. /\ GlobalBest(b) \in S
      /\ \A y \in S : GlobalBest(b) >= y
  <2> HIDE DEF S
  <2> QED
    BY <1>3, <1>4, Zenon
<1> QED
  BY <1>1, <1>5

(* The record of what was found, extended by new populations.              *)
LEMMA FoundType ==
  ASSUME NEW p \in [Islands -> Populations], found \in Fitness
  PROVE  /\ Found(p) \in Fitness
         /\ Found(p) = found \/ \E i \in Islands : Found(p) = p[i][1]
         /\ Found(p) >= found
         /\ \A i \in Islands : Found(p) >= p[i][1]
<1> DEFINE S == {found} \cup {p[i][1] : i \in Islands}
<1>1. \A i \in Islands : p[i][1] \in Fitness
  BY ConfigFacts DEF Populations
<1>2. S \subseteq Fitness /\ S # {}
  BY <1>1
<1>3. Max(S) \in S /\ \A y \in S : Max(S) >= y
  <2> HIDE DEF S
  <2> QED
    BY <1>2, MaxOfFitness
<1>4. Found(p) = Max(S)
  BY DEF Found
<1>5. /\ Found(p) \in S
      /\ \A y \in S : Found(p) >= y
  <2> HIDE DEF S
  <2> QED
    BY <1>3, <1>4, Zenon
<1> QED
  BY <1>1, <1>5

LEMMA WaveType ==
  /\ PerIsland \in Nat \ {0}
  /\ Wave \in Nat
<1>1. Candidates \in Nat /\ NIslands \in Nat
  BY ConfigAssumption DEF ValidConfig
<1>2. PerIsland \in Nat \ {0}
  <2> DEFINE m == Max({1, Candidates})
  <2>0. 1 \in Int /\ Candidates \in Int
    BY <1>1
  <2>1. m \in {1, Candidates} /\ m >= 1
    BY <2>0, MaxOfTwo, Zenon
  <2>2. m \in Nat \ {0}
    <3> HIDE DEF m
    <3> QED
      BY <1>1, <2>1
  <2> QED
    BY <2>2 DEF PerIsland
<1>3. \A m, n \in Nat : m * n \in Nat
  OBVIOUS
<1> QED
  BY <1>1, <1>2, <1>3 DEF Wave

LEMMA EvaluatedType ==
  ASSUME NEW p \in Populations, NEW b \in Fitness \cup {NoBest}
  PROVE  Evaluated(p, b) \in Fitness \cup {NoBest}
BY ConfigFacts DEF Evaluated, Populations

LEMMA MigratedType ==
  ASSUME TypeOK, NEW g \in MigrantFitness
  PROVE  Migrated(g) \in [Islands -> Populations]
<1>1. \A i \in Islands : g[i] \in Fitness /\ pop[i] \in Populations
  BY DEF TypeOK, MigrantFitness
<1>2. \A i \in Islands : Inject(pop[i], g[i]) \in Populations
  BY <1>1, InjectType
<1> QED
  BY <1>1, <1>2 DEF Migrated

-----------------------------------------------------------------------------
(* Types *)

(* A wave is begun only while the range of generations lasts.              *)
RoundInv == pc \in {"generate", "evaluate"} => generation < Generations

TypeInv == TypeOK /\ RoundInv

LEMMA TypeInit == Init => TypeInv
<1> SUFFICES ASSUME Init PROVE TypeInv
  OBVIOUS
<1>1. pop \in [Islands -> Populations]
  BY SeedingType DEF Init
<1>2. \A i \in Islands : pop[i][1] \in Fitness
  BY <1>1, ConfigFacts DEF Populations
<1>3. best \in [Islands -> Fitness \cup {NoBest}]
  BY <1>2 DEF Init
<1>4. GlobalBest(best) \in Fitness
  BY <1>3, GlobalBestType
<1>5. Generations \in Nat /\ Wave \in Nat
  BY WaveType, ConfigAssumption DEF ValidConfig
<1>6. /\ seen \in [Workers -> Nat]
      /\ islandPlateau \in [Islands -> Nat] /\ age \in [Islands -> Nat]
      /\ islandPrev \in [Islands -> Fitness \cup {-1}]
  BY DEF Init
<1>7. watermark \in Fitness /\ saved \in Fitness /\ found \in Fitness
  BY <1>4 DEF Init
<1>8. /\ generation \in 0..Generations /\ todo \in 0..Wave /\ cand \in 0..Wave
      /\ prevBest \in Fitness
  BY <1>5, ConfigFacts DEF Init
<1> QED
  BY <1>1, <1>3, <1>6, <1>7, <1>8 DEF Init, TypeInv, TypeOK, RoundInv

LEMMA TypeNext == TypeInv /\ [Next]_vars => TypeInv'
<1> SUFFICES ASSUME TypeInv, [Next]_vars PROVE TypeInv'
  OBVIOUS
<1> USE DEF TypeInv, TypeOK, RoundInv, poolVars, searchVars, runVars
<1>c. Generations \in Nat /\ Wave \in Nat
  BY WaveType, ConfigAssumption DEF ValidConfig
<1>b. GlobalBest(best) \in Fitness
  BY GlobalBestType
<1>1. CASE Cap
  BY <1>1 DEF Cap
<1>2. CASE Halt
  BY <1>2 DEF Halt, HorizonReason
<1>3. CASE BeginWave
  BY <1>3, <1>b, <1>c DEF BeginWave
<1>4. ASSUME NEW w \in Workers, TakeTask(w) PROVE TypeInv'
  BY <1>4, <1>c DEF TakeTask
<1>5. ASSUME NEW w \in Workers, Call(w) PROVE TypeInv'
  <2>1. seen[w] + 1 \in Nat /\ made + 1 \in Nat
    OBVIOUS
  <2> QED
    BY <1>5, <2>1 DEF Call
<1>6. ASSUME NEW w \in Workers, Answer(w) PROVE TypeInv'
  BY <1>6 DEF Answer
<1>7. CASE WaveAnswered
  BY <1>7, <1>c DEF WaveAnswered
<1>8. ASSUME NEW f \in Fitness, EvaluateCandidate(f) PROVE TypeInv'
  <2>1. pop' \in [Islands -> Populations]
    BY <1>8, InsertType DEF EvaluateCandidate
  <2>2. found' \in Fitness
    BY <1>8, <2>1, FoundType DEF EvaluateCandidate
  <2>3. cand' \in 0..Wave
    BY <1>8, <1>c DEF EvaluateCandidate
  <2> QED
    BY <1>8, <2>1, <2>2, <2>3 DEF EvaluateCandidate
<1>9. CASE CandidateFails
  BY <1>9, <1>c DEF CandidateFails
<1>10. CASE FinishStep
  <2>1. pop' \in [Islands -> Populations]
    BY <1>10, MigratedType DEF FinishStep
  <2>2. best' \in [Islands -> Fitness \cup {NoBest}]
    BY <1>10, <2>1, EvaluatedType DEF FinishStep
  <2>3. found' \in Fitness
    BY <1>10, <2>1, FoundType DEF FinishStep
  <2>4. islandPlateau' \in [Islands -> Nat]
    BY <1>10 DEF FinishStep, IslandPlateaus
  <2>5. \A i \in Islands : Value(best'[i]) \in Fitness
    BY <2>2, ConfigFacts DEF Value
  <2>6. \A i \in Islands :
          Max({islandPrev[i], Value(best'[i])}) \in Fitness \cup {-1}
    <3> SUFFICES ASSUME NEW i \in Islands
                 PROVE  Max({islandPrev[i], Value(best'[i])})
                          \in Fitness \cup {-1}
      OBVIOUS
    <3>1. islandPrev[i] \in Int /\ Value(best'[i]) \in Int
      BY <2>5, ConfigFacts DEF Fitness
    <3> QED
      BY <2>5, <3>1, MaxOfTwo
  <2>7. islandPrev' \in [Islands -> Fitness \cup {-1}]
    BY <1>10, <2>6 DEF FinishStep
  <2>8. GlobalBest(best') \in Fitness
    BY <2>2, GlobalBestType
  <2>9. Max({watermark, GlobalBest(best')}) \in Fitness
    <3>1. watermark \in Int /\ GlobalBest(best') \in Int
      BY <2>8, ConfigFacts DEF Fitness
    <3> QED
      BY <2>8, <3>1, MaxOfTwo
  <2>10. age' \in [Islands -> Nat] /\ watermark' \in Fitness
    BY <1>10, <2>9 DEF FinishStep, Report
  <2>11. generation' \in 0..Generations
    BY <1>10, <1>c DEF FinishStep
  <2> QED
    BY <1>10, <2>1, <2>2, <2>3, <2>4, <2>7, <2>10, <2>11 DEF FinishStep
<1>11. CASE Improvement
  <2> DEFINE S == {pop[i][1] : i \in Islands}
  <2>1. S \subseteq Fitness /\ S # {}
    BY ConfigFacts DEF Populations
  <2>2. Max(S) \in Fitness
    <3> HIDE DEF S
    <3> QED
      BY <2>1, MaxOfFitness
  <2>3. saved' \in Fitness
    BY <1>11, <2>2 DEF Improvement, SaveBest
  <2> QED
    BY <1>11, <2>3 DEF Improvement
<1>12. CASE Stagnation
  BY <1>12 DEF Stagnation
<1>13. CASE PlateauReset
  <2>1. PICK C \in SUBSET Islands, p \in Seedings : Reset(C, p)
    BY <1>13 DEF PlateauReset
  <2>2. p \in [Islands -> Populations]
    BY SeedingType
  <2>3. pop' \in [Islands -> Populations]
    BY <2>1, <2>2 DEF Reset
  <2>4. \A i \in Islands : Evaluated(p[i], NoBest) \in Fitness \cup {NoBest}
    BY <2>2, EvaluatedType
  <2>5. best' \in [Islands -> Fitness \cup {NoBest}]
    BY <2>1, <2>4 DEF Reset
  <2>6. found' \in Fitness
    BY <2>1, <2>3, FoundType DEF Reset
  <2>7. age' \in [Islands -> Nat]
    BY <2>1 DEF Reset
  <2>8. hint' \in BOOLEAN /\ hintCalls' \in Nat
    BY <1>13 DEF PlateauReset, AskForHint
  <2>9. UNCHANGED <<generation, islandPlateau, islandPrev, watermark>>
    BY <2>1 DEF Reset
  <2> QED
    BY <1>13, <2>3, <2>5, <2>6, <2>7, <2>8, <2>9 DEF PlateauReset
<1>14. CASE UNCHANGED vars
  BY <1>14 DEF vars
<1> QED
  BY <1>1, <1>2, <1>3, <1>4, <1>5, <1>6, <1>7, <1>8, <1>9, <1>10, <1>11,
     <1>12, <1>13, <1>14 DEF Next

(* Types: populations stay sorted and full, fitnesses and counts in range, *)
(* and no more generations are run than configured.                        *)
THEOREM TypeCorrect == Spec => []TypeOK
<1>1. TypeInv => TypeOK
  BY DEF TypeInv
<1> QED
  BY <1>1, TypeInit, TypeNext, PTL DEF Spec

-----------------------------------------------------------------------------
(* The request budget *)

(* Calls the tasks of the wave will still make: those nobody has taken,    *)
(* and the one between the read and the write of the counter.              *)
Pending == todo + (IF counting = {} THEN 0 ELSE 1)

(* The lock holds one thread, which has read the current counter; threads  *)
(* and tasks exist only during a wave; the whole wave fits in the budget.  *)
CounterInv ==
  /\ llmRequests = made
  /\ \A v, w \in counting : v = w
  /\ \A w \in counting : seen[w] = llmRequests
  /\ pc # "generate" => todo = 0 /\ counting = {}
  /\ MaxRequests # NoLimit => made + Pending <= MaxRequests

BudgetInv == TypeInv /\ CounterInv

LEMMA BudgetInit == Init => BudgetInv
<1> SUFFICES ASSUME Init PROVE CounterInv
  BY TypeInit DEF BudgetInv
<1>1. MaxRequests # NoLimit => MaxRequests \in Nat
  BY ConfigAssumption DEF ValidConfig
<1> QED
  BY <1>1 DEF Init, CounterInv, Pending

LEMMA BudgetNext == BudgetInv /\ [Next]_vars => BudgetInv'
<1> SUFFICES ASSUME BudgetInv, [Next]_vars PROVE CounterInv'
  BY TypeNext DEF BudgetInv
<1> USE DEF BudgetInv, CounterInv, Pending, TypeInv, TypeOK,
            poolVars, searchVars, runVars
<1>c. Wave \in Nat /\ MaxRequests \in Int
  BY WaveType, ConfigAssumption DEF ValidConfig, NoLimit
<1>1. CASE Cap
  BY <1>1 DEF Cap
<1>2. CASE Halt
  BY <1>2 DEF Halt
<1>3. CASE BeginWave
  <2>1. ~ RequestsReached
    BY <1>3 DEF BeginWave, HorizonReason
  <2> QED
    BY <1>3, <1>c, <2>1 DEF BeginWave, RequestsReached
<1>4. ASSUME NEW w \in Workers, TakeTask(w) PROVE CounterInv'
  <2>1. counting = {} /\ counting' = {w}
    BY <1>4 DEF TakeTask, LockFree
  <2> QED
    BY <1>4, <1>c, <2>1 DEF TakeTask
<1>5. ASSUME NEW w \in Workers, Call(w) PROVE CounterInv'
  <2>1. counting = {w} /\ counting' = {}
    BY <1>5 DEF Call
  <2>2. llmRequests' = llmRequests + 1 /\ made' = made + 1
    BY <1>5 DEF Call
  <2> QED
    BY <1>5, <1>c, <2>1, <2>2 DEF Call
<1>6. ASSUME NEW w \in Workers, Answer(w) PROVE CounterInv'
  BY <1>6 DEF Answer
<1>7. CASE WaveAnswered
  BY <1>7 DEF WaveAnswered, LockFree
<1>8. ASSUME NEW f \in Fitness, EvaluateCandidate(f) PROVE CounterInv'
  BY <1>8 DEF EvaluateCandidate
<1>9. CASE CandidateFails
  BY <1>9 DEF CandidateFails
<1>10. CASE FinishStep
  BY <1>10 DEF FinishStep
<1>11. CASE Improvement
  BY <1>11 DEF Improvement
<1>12. CASE Stagnation
  BY <1>12 DEF Stagnation
<1>13. CASE PlateauReset
  BY <1>13 DEF PlateauReset
<1>14. CASE UNCHANGED vars
  BY <1>14 DEF vars
<1> QED
  BY <1>1, <1>2, <1>3, <1>4, <1>5, <1>6, <1>7, <1>8, <1>9, <1>10, <1>11,
     <1>12, <1>13, <1>14 DEF Next

(* No call of the thread pool is missing from llm_requests, whatever the   *)
(* number of threads and their interleaving.                               *)
THEOREM CounterExact == Spec => []EveryCallCounted
<1>1. BudgetInv => EveryCallCounted
  BY DEF BudgetInv, CounterInv, EveryCallCounted
<1> QED
  BY <1>1, BudgetInit, BudgetNext, PTL DEF Spec

(* A run never makes more calls for candidates than max_requests, because  *)
(* the horizon is checked for the whole wave before it begins.             *)
THEOREM BudgetKept == Spec => []RequestsWithinBudget
<1>1. BudgetInv => RequestsWithinBudget
  BY ConfigAssumption DEF BudgetInv, CounterInv, TypeInv, TypeOK, Pending,
     RequestsWithinBudget, ValidConfig, NoLimit
<1> QED
  BY <1>1, BudgetInit, BudgetNext, PTL DEF Spec

-----------------------------------------------------------------------------
(* The promise *)

LEMMA PromiseInit == Init => Promise!Init
BY DEF Init, Promise!Init

LEMMA PromiseNext ==
  BudgetInv /\ BudgetInv' /\ [Next]_vars => [Promise!Next]_(Promise!runVars)
<1> SUFFICES ASSUME BudgetInv, BudgetInv', [Next]_vars
             PROVE  [Promise!Next]_(Promise!runVars)
  OBVIOUS
<1> USE DEF Promise!Next, Promise!runVars, poolVars
<1>1. CASE Cap \/ Halt
  BY <1>1 DEF Cap, Halt, Promise!Return
<1>2. CASE \E w \in Workers : Call(w)
  <2>1. PICK w \in Workers : Call(w)
    BY <1>2
  <2>2. /\ w \in counting /\ counting # {}
        /\ pc = "generate" /\ pc' = pc /\ made' = made + 1
    BY <2>1 DEF Call, BudgetInv, CounterInv
  <2>3. MaxRequests # NoLimit => made < MaxRequests
    BY <2>2, ConfigAssumption DEF BudgetInv, CounterInv, TypeInv, TypeOK,
       Pending, ValidConfig, NoLimit
  <2> QED
    BY <2>2, <2>3 DEF Promise!Request
<1>3. CASE UNCHANGED vars
  BY <1>3 DEF vars
<1>4. ASSUME made' = made, pc # "done", pc' # "done"
      PROVE  UNCHANGED Promise!runVars
  BY <1>4
<1>5. CASE BeginWave \/ WaveAnswered \/ CandidateFails \/ FinishStep
  BY <1>4, <1>5 DEF BeginWave, WaveAnswered, CandidateFails, FinishStep
<1>6. CASE Improvement \/ Stagnation \/ PlateauReset
  BY <1>4, <1>6 DEF Improvement, Stagnation, PlateauReset
<1>7. CASE \E w \in Workers : TakeTask(w) \/ Answer(w)
  BY <1>7 DEF TakeTask, Answer
<1>8. CASE \E f \in Fitness : EvaluateCandidate(f)
  BY <1>4, <1>8 DEF EvaluateCandidate
<1> QED
  BY <1>1, <1>2, <1>3, <1>5, <1>6, <1>7, <1>8 DEF Next

(* The kernel implements the promise, its termination aside: it makes      *)
(* calls one by one within the budget, and none once it has returned.      *)
THEOREM PromiseKept ==
  Spec => Promise!Init /\ [][Promise!Next]_(Promise!runVars)
<1> QED
  BY PromiseInit, PromiseNext, BudgetInit, BudgetNext, PTL DEF Spec

-----------------------------------------------------------------------------
(* The best program is never lost *)

(* A best is never better than the top of its population, nor a population *)
(* than what was found; some population holds the best found; and between  *)
(* steps every island knows its best.                                      *)
BestInv ==
  /\ \A i \in Islands : Value(best[i]) <= pop[i][1] /\ pop[i][1] <= found
  /\ \E i \in Islands : pop[i][1] = found
  /\ pc # "evaluate" => \A i \in Islands : Value(best[i]) = pop[i][1]

ElitistInv == TypeInv /\ BestInv

LEMMA TopType ==
  ASSUME NEW p \in [Islands -> Populations], NEW i \in Islands
  PROVE  p[i][1] \in Fitness /\ p[i][1] \in Nat
BY ConfigFacts DEF Populations, Fitness

LEMMA ValueType ==
  ASSUME NEW b \in Fitness \cup {NoBest}
  PROVE  Value(b) \in Fitness /\ Value(b) \in Nat
BY ConfigFacts DEF Value, Fitness

(* New populations that keep the best found have the best found on top.    *)
LEMMA FoundOnTop ==
  ASSUME NEW p \in [Islands -> Populations], found \in Fitness,
         NEW j \in Islands, p[j][1] >= found
  PROVE  \E i \in Islands : p[i][1] = Found(p)
<1>1. Found(p) \in Int /\ found \in Int /\ p[j][1] \in Int
  BY FoundType, TopType, ConfigFacts DEF Fitness
<1>2. Found(p) >= p[j][1] /\ Found(p) >= found
  BY FoundType
<1>3. CASE Found(p) = found
  <2>1. p[j][1] = Found(p)
    BY <1>1, <1>2, <1>3
  <2> QED
    BY <2>1
<1>4. CASE \E i \in Islands : Found(p) = p[i][1]
  BY <1>4
<1> QED
  BY <1>3, <1>4, FoundType

(* A reset spares an island that is as good as any.                        *)
LEMMA CulledSpares ==
  ASSUME TypeOK, NIslands >= 2, NEW C, Culled(C), NEW i \in Islands
  PROVE  \E j \in Islands \ C : Value(best[i]) <= Value(best[j])
<1>1. NIslands \in Nat
  BY ConfigFacts
<1>2. Cardinality(Islands) = NIslands
  <2>1. NIslands - 1 \in Int /\ 0 \in Int /\ 0 <= NIslands - 1
    BY <1>1
  <2>2. Cardinality(0..(NIslands - 1)) = (NIslands - 1) - 0 + 1
    BY <2>1, FS_Interval
  <2> QED
    BY <1>1, <2>2 DEF Islands
<1>3. NCulled < NIslands
  <2>1. (NIslands * 2) \div 5 \in Int /\ (NIslands * 2) \div 5 < NIslands
    BY <1>1
  <2>2. 1 \in Int
    OBVIOUS
  <2>3. NCulled = 1 \/ NCulled = (NIslands * 2) \div 5
    BY <2>1, <2>2, MaxOfTwo DEF NCulled
  <2> QED
    BY <1>1, <2>1, <2>3
<1>4. C # Islands
  BY <1>1, <1>2, <1>3 DEF Culled
<1>5. PICK k \in Islands : k \notin C
  BY <1>4 DEF Culled
<1>6. \A j \in Islands : Value(best[j]) \in Nat
  BY ValueType DEF TypeOK
<1>7. CASE i \in C
  <2>1. Weaker(i, k)
    BY <1>5, <1>7 DEF Culled
  <2> QED
    BY <1>5, <1>6, <2>1 DEF Weaker
<1>8. CASE i \notin C
  BY <1>6, <1>8
<1> QED
  BY <1>7, <1>8

LEMMA ElitistInit == Init => ElitistInv
<1> SUFFICES ASSUME Init PROVE BestInv
  BY TypeInit DEF ElitistInv
<1>1. TypeOK
  BY TypeInit DEF TypeInv
<1>2. \A i \in Islands : pop[i][1] \in Nat
  BY <1>1, TopType DEF TypeOK
<1>3. \A i \in Islands : Value(best[i]) = pop[i][1]
  BY <1>2 DEF Init, Value, NoBest
<1>4. best \in [Islands -> Fitness \cup {NoBest}] /\ found = GlobalBest(best)
  BY <1>1 DEF TypeOK, Init
<1>5. /\ \E i \in Islands : found = Value(best[i])
      /\ \A i \in Islands : found >= Value(best[i])
      /\ found \in Nat
  BY <1>4, GlobalBestType, ConfigFacts DEF Fitness
<1> QED
  BY <1>2, <1>3, <1>5 DEF BestInv

LEMMA ElitistNext ==
  ASSUME NIslands >= 2, Pop >= 2
  PROVE  ElitistInv /\ [Next]_vars => ElitistInv'
<1> SUFFICES ASSUME ElitistInv, [Next]_vars PROVE BestInv'
  BY TypeNext DEF ElitistInv
<1> USE DEF BestInv, poolVars, searchVars, runVars
<1>t. TypeOK /\ TypeOK'
  BY TypeNext DEF ElitistInv, TypeInv
<1>b. BestInv
  BY DEF ElitistInv
<1>n. /\ \A i \in Islands : pop[i][1] \in Nat /\ Value(best[i]) \in Nat
      /\ \A i \in Islands : pop'[i][1] \in Nat /\ Value(best'[i]) \in Nat
      /\ found \in Nat /\ found' \in Nat
  BY <1>t, TopType, ValueType, ConfigFacts DEF TypeOK, Fitness
<1>1. CASE Cap
  BY <1>1, <1>b DEF Cap
<1>2. CASE Halt
  BY <1>2, <1>b DEF Halt
<1>3. CASE BeginWave
  BY <1>3, <1>b DEF BeginWave
<1>4. ASSUME NEW w \in Workers, TakeTask(w) PROVE BestInv'
  BY <1>4, <1>b DEF TakeTask
<1>5. ASSUME NEW w \in Workers, Call(w) PROVE BestInv'
  BY <1>5, <1>b DEF Call
<1>6. ASSUME NEW w \in Workers, Answer(w) PROVE BestInv'
  BY <1>6, <1>b DEF Answer
<1>7. CASE WaveAnswered
  BY <1>7, <1>b DEF WaveAnswered
<1>8. ASSUME NEW f \in Fitness, EvaluateCandidate(f) PROVE BestInv'
  <2>1. \A i \in Islands : pop'[i][1] >= pop[i][1]
    <3>1. \A i \in Islands : Insert(pop[i], f)[1] >= pop[i][1]
      BY <1>t, TopKept DEF TypeOK
    <3> QED
      BY <1>8, <1>t, <1>n, <3>1 DEF EvaluateCandidate, TypeOK
  <2>2. pop' \in [Islands -> Populations] /\ found' = Found(pop')
    BY <1>8, <1>t DEF EvaluateCandidate, TypeOK
  <2>3. \A i \in Islands : found' >= pop'[i][1]
    BY <1>t, <2>2, FoundType DEF TypeOK
  <2>4. \E i \in Islands : pop'[i][1] = found'
    <3>1. PICK j \in Islands : pop[j][1] = found
      BY <1>b
    <3>2. pop'[j][1] >= found
      BY <2>1, <3>1
    <3> QED
      BY <1>t, <2>2, <3>2, FoundOnTop DEF TypeOK
  <2>5. best' = best /\ pc' = "evaluate"
    BY <1>8 DEF EvaluateCandidate
  <2>6. \A i \in Islands : Value(best'[i]) <= pop'[i][1] /\ pop'[i][1] <= found'
    BY <1>b, <1>n, <2>1, <2>3, <2>5
  <2> QED
    BY <2>4, <2>5, <2>6
<1>9. CASE CandidateFails
  BY <1>9, <1>b DEF CandidateFails
<1>10. CASE FinishStep
  <2>1. PICK g \in MigrantFitness : pop' = Migrated(g)
    BY <1>10 DEF FinishStep
  <2>2. \A i \in Islands : pop'[i][1] >= pop[i][1]
    <3>1. \A i \in Islands : g[i] \in Fitness /\ g[i] \in Nat
      BY ConfigFacts DEF MigrantFitness, Fitness
    <3>2. \A i \in Islands : Inject(pop[i], g[i])[1] >= pop[i][1]
      BY <1>t, <3>1, TopKept DEF TypeOK
    <3> QED
      BY <1>n, <2>1, <3>2 DEF Migrated
  <2>3. pop' \in [Islands -> Populations] /\ found' = Found(pop')
    BY <1>10, <1>t DEF FinishStep, TypeOK
  <2>4. \A i \in Islands : found' >= pop'[i][1]
    BY <1>t, <2>3, FoundType DEF TypeOK
  <2>5. \E i \in Islands : pop'[i][1] = found'
    <3>1. PICK j \in Islands : pop[j][1] = found
      BY <1>b
    <3>2. pop'[j][1] >= found
      BY <2>2, <3>1
    <3> QED
      BY <1>t, <2>3, <3>2, FoundOnTop DEF TypeOK
  <2>6. \A i \in Islands : Value(best'[i]) = pop'[i][1]
    <3> SUFFICES ASSUME NEW i \in Islands PROVE Value(best'[i]) = pop'[i][1]
      OBVIOUS
    <3>1. best'[i] = IF pop'[i][1] > 0 THEN pop'[i][1] ELSE best[i]
      BY <1>10 DEF FinishStep, Evaluated
    <3>2. CASE pop'[i][1] > 0
      BY <1>n, <3>1, <3>2 DEF Value, NoBest
    <3>3. CASE ~ (pop'[i][1] > 0)
      <4>1. pop'[i][1] = 0 /\ best'[i] = best[i]
        BY <1>n, <3>1, <3>3
      <4>2. Value(best[i]) <= pop[i][1] /\ pop[i][1] <= pop'[i][1]
        BY <1>b, <1>n, <2>2
      <4> QED
        BY <1>n, <4>1, <4>2
    <3> QED
      BY <3>2, <3>3
  <2> QED
    BY <1>n, <2>4, <2>5, <2>6
<1>11. CASE Improvement
  BY <1>11, <1>b DEF Improvement
<1>12. CASE Stagnation
  BY <1>12, <1>b DEF Stagnation
<1>13. CASE PlateauReset
  <2>1. PICK C \in SUBSET Islands : Culled(C) /\ \E p \in Seedings : Reset(C, p)
    BY <1>13 DEF PlateauReset
  <2>2. PICK p \in Seedings : Reset(C, p)
    BY <2>1
  <2>3. pc = "judge" /\ p \in [Islands -> Populations]
    BY <1>13, SeedingType DEF PlateauReset
  <2>4. /\ pop' \in [Islands -> Populations] /\ found' = Found(pop')
        /\ \A i \in Islands \ C : pop'[i] = pop[i] /\ best'[i] = best[i]
        /\ \A i \in C : pop'[i] = p[i] /\ best'[i] = Evaluated(p[i], NoBest)
    BY <1>t, <2>2 DEF Reset, TypeOK
  <2>5. \A i \in Islands : found' >= pop'[i][1]
    BY <1>t, <2>4, FoundType DEF TypeOK
  <2>6. \E i \in Islands : pop'[i][1] = found'
    <3>1. PICK i \in Islands : pop[i][1] = found
      BY <1>b
    <3>2. PICK j \in Islands \ C : Value(best[i]) <= Value(best[j])
      BY <1>t, <2>1, CulledSpares
    <3>3. Value(best[i]) = found /\ Value(best[j]) = pop[j][1]
      BY <1>b, <2>3, <3>1
    <3>4. pop'[j][1] >= found
      BY <1>n, <2>4, <3>2, <3>3
    <3> QED
      BY <1>t, <2>4, <3>4, FoundOnTop DEF TypeOK
  <2>7. \A i \in Islands : Value(best'[i]) = pop'[i][1]
    <3> SUFFICES ASSUME NEW i \in Islands PROVE Value(best'[i]) = pop'[i][1]
      OBVIOUS
    <3>1. CASE i \in C
      <4>1. best'[i] = IF pop'[i][1] > 0 THEN pop'[i][1] ELSE NoBest
        BY <2>4, <3>1 DEF Evaluated
      <4> QED
        BY <1>n, <4>1 DEF Value, NoBest
    <3>2. CASE i \notin C
      BY <1>b, <2>3, <2>4, <3>2
    <3> QED
      BY <3>1, <3>2
  <2> QED
    BY <1>n, <2>5, <2>6, <2>7
<1>14. CASE UNCHANGED vars
  BY <1>14, <1>b DEF vars
<1> QED
  BY <1>1, <1>2, <1>3, <1>4, <1>5, <1>6, <1>7, <1>8, <1>9, <1>10, <1>11,
     <1>12, <1>13, <1>14 DEF Next

LEMMA ElitistBest == ElitistInv => BestRetained
<1> SUFFICES ASSUME ElitistInv, pc # "evaluate" PROVE GlobalBest(best) = found
  BY DEF BestRetained
<1>1. TypeOK /\ BestInv
  BY DEF ElitistInv, TypeInv
<1>2. best \in [Islands -> Fitness \cup {NoBest}] /\ found \in Nat
  BY <1>1, ConfigFacts DEF TypeOK, Fitness
<1>3. /\ \E i \in Islands : Value(best[i]) = found
      /\ \A i \in Islands : Value(best[i]) <= found
  BY <1>1 DEF BestInv
<1>4. /\ GlobalBest(best) \in Nat
      /\ \E i \in Islands : GlobalBest(best) = Value(best[i])
      /\ \A i \in Islands : GlobalBest(best) >= Value(best[i])
  BY <1>2, GlobalBestType, ConfigFacts DEF Fitness
<1> QED
  BY <1>2, <1>3, <1>4

LEMMA ElitistBestNext == ElitistInv' => BestRetained'
BY ElitistBest, PTL

(* With two islands of two programs or more the search is elitist: however *)
(* candidates are inserted, programs migrate and islands are reset, the    *)
(* global best between steps is the best fitness ever found.               *)
THEOREM BestNeverLost ==
  ASSUME NIslands >= 2, Pop >= 2
  PROVE  Spec => []BestRetained
<1>1. ElitistInv /\ [Next]_vars => ElitistInv'
  BY ElitistNext
<1> QED
  BY <1>1, ElitistInit, ElitistBest, PTL DEF Spec

-----------------------------------------------------------------------------
(* Announcements and artifacts *)

(* Nothing is announced or saved that was not found, and after a step the  *)
(* best found has been announced.                                          *)
RecordInv ==
  /\ watermark <= found /\ saved <= found
  /\ pc = "judge" => watermark = found

PublishedInv == ElitistInv /\ RecordInv

LEMMA FoundGrows ==
  TypeInv /\ [Next]_vars => found' = found \/ found' >= found
<1> SUFFICES ASSUME TypeInv, [Next]_vars PROVE found' = found \/ found' >= found
  OBVIOUS
<1>1. TypeOK /\ TypeOK'
  BY TypeNext DEF TypeInv
<1>2. CASE found' = Found(pop')
  <2>1. found \in Fitness /\ pop' \in [Islands -> Populations]
    BY <1>1 DEF TypeOK
  <2>2. Found(pop') >= found
    BY <2>1, FoundType
  <2> QED
    BY <1>2, <2>2
<1>3. CASE ~ (found' = Found(pop'))
  BY <1>3 DEF Next, vars, poolVars, searchVars, Cap, Halt, BeginWave, TakeTask,
     Call, Answer, WaveAnswered, EvaluateCandidate, CandidateFails, FinishStep,
     Improvement, Stagnation, PlateauReset, Reset
<1> QED
  BY <1>2, <1>3

LEMMA PublishedInit == Init => PublishedInv
<1> SUFFICES ASSUME Init PROVE RecordInv
  BY ElitistInit DEF PublishedInv
<1>1. found \in Nat /\ watermark = found /\ saved = found /\ pc = "check"
  BY TypeInit, ConfigFacts DEF Init, TypeInv, TypeOK, Fitness
<1> QED
  BY <1>1 DEF RecordInv

LEMMA SavedGrows ==
  PublishedInv /\ [Next]_vars => saved' = saved \/ (saved' = found /\ found' = found)
<1> SUFFICES ASSUME PublishedInv, [Next]_vars
             PROVE  saved' = saved \/ (saved' = found /\ found' = found)
  OBVIOUS
<1>1. CASE Improvement
  <2> DEFINE S == {pop[i][1] : i \in Islands}
  <2>1. /\ \A i \in Islands : pop[i][1] \in Nat /\ pop[i][1] <= found
        /\ found \in Nat /\ \E i \in Islands : pop[i][1] = found
    BY TopType, ConfigFacts DEF PublishedInv, ElitistInv, TypeInv, TypeOK,
       BestInv, Fitness
  <2>2. S \subseteq Int /\ found \in S /\ \A y \in S : found >= y
    BY <2>1
  <2>3. Max(S) = found
    <3> HIDE DEF S
    <3> QED
      BY <2>2, MaxIs
  <2> QED
    BY <1>1, <2>3 DEF Improvement, SaveBest, searchVars
<1>2. CASE ~ Improvement
  BY <1>2 DEF Next, vars, runVars, Cap, Halt, BeginWave, TakeTask, Call,
     Answer, WaveAnswered, EvaluateCandidate, CandidateFails, FinishStep,
     Stagnation, PlateauReset
<1> QED
  BY <1>1, <1>2

LEMMA PublishedNext ==
  ASSUME NIslands >= 2, Pop >= 2
  PROVE  PublishedInv /\ [Next]_vars => PublishedInv'
<1> SUFFICES ASSUME PublishedInv, [Next]_vars PROVE RecordInv'
  BY ElitistNext DEF PublishedInv
<1>1. ElitistInv /\ ElitistInv'
  BY ElitistNext DEF PublishedInv
<1>2. /\ watermark \in Nat /\ saved \in Nat /\ found \in Nat
      /\ watermark' \in Nat /\ saved' \in Nat /\ found' \in Nat
  BY <1>1, ConfigFacts DEF ElitistInv, TypeInv, TypeOK, Fitness
<1>3. found <= found'
  BY <1>1, <1>2, FoundGrows DEF ElitistInv
<1>4. saved' <= found'
  BY <1>2, <1>3, SavedGrows DEF PublishedInv, RecordInv
<1>5. CASE FinishStep
  <2>1. pc' = "judge"
    BY <1>5 DEF FinishStep
  <2>2. GlobalBest(best') = found'
    BY <1>1, <2>1, ElitistBestNext DEF BestRetained
  <2>3. CASE \A i \in Islands : best'[i] = NoBest
    <3>1. GlobalBest(best') = 0
      <4>1. \A i \in Islands : Value(best'[i]) = 0
        BY <2>3 DEF Value
      <4>2. best' \in [Islands -> Fitness \cup {NoBest}]
        BY <1>1 DEF ElitistInv, TypeInv, TypeOK
      <4> QED
        BY <4>1, <4>2, GlobalBestType
    <3>2. watermark' = watermark
      BY <1>5, <2>3 DEF FinishStep, Report
    <3> QED
      BY <1>2, <1>3, <1>4, <2>2, <3>1, <3>2 DEF RecordInv, PublishedInv
  <2>4. CASE ~ \A i \in Islands : best'[i] = NoBest
    <3>1. watermark' = Max({watermark, GlobalBest(best')})
      BY <1>5, <2>4 DEF FinishStep, Report
    <3>2. watermark <= found'
      BY <1>2, <1>3 DEF RecordInv, PublishedInv
    <3>3. Max({watermark, found'}) = found'
      BY <1>2, <3>2, MaxIs
    <3> QED
      BY <1>2, <1>4, <2>2, <3>1, <3>3 DEF RecordInv
  <2> QED
    BY <2>3, <2>4
<1>6. CASE ~ FinishStep
  <2>1. watermark' = watermark /\ (pc' = "judge" => pc = "judge" /\ found' = found)
    BY <1>6 DEF Next, vars, poolVars, searchVars, Cap, Halt, BeginWave, TakeTask,
       Call, Answer, WaveAnswered, EvaluateCandidate, CandidateFails,
       Improvement, Stagnation, PlateauReset, Reset
  <2> QED
    BY <1>2, <1>3, <1>4, <2>1 DEF RecordInv, PublishedInv
<1> QED
  BY <1>5, <1>6

(* With two islands of two programs or more, best_fitness_improved has     *)
(* told of the best fitness ever found by the end of every step.           *)
THEOREM DiscoveriesAnnounced ==
  ASSUME NIslands >= 2, Pop >= 2
  PROVE  Spec => []Announced
<1>1. PublishedInv /\ [Next]_vars => PublishedInv'
  BY PublishedNext
<1>2. PublishedInv => Announced
  BY DEF PublishedInv, RecordInv, Announced
<1> QED
  BY <1>1, <1>2, PublishedInit, PTL DEF Spec

(* ... and an artifact is never followed by one of a worse program.        *)
THEOREM ArtifactsImprove ==
  ASSUME NIslands >= 2, Pop >= 2
  PROVE  Spec => ArtifactsAreNewBests
<1>1. PublishedInv /\ [Next]_vars => PublishedInv'
  BY PublishedNext
<1>2. PublishedInv /\ [Next]_vars => [saved' >= saved]_vars
  <2> SUFFICES ASSUME PublishedInv, [Next]_vars PROVE saved' >= saved
    OBVIOUS
  <2>1. saved \in Nat /\ found \in Nat /\ saved <= found
    BY ConfigFacts DEF PublishedInv, RecordInv, ElitistInv, TypeInv, TypeOK,
       Fitness
  <2> QED
    BY <2>1, SavedGrows
<1> QED
  BY <1>1, <1>2, PublishedInit, PTL DEF Spec, ArtifactsAreNewBests
-----------------------------------------------------------------------------
(* Plateau hints.  Since the last hint, or since the last improvement if   *)
(* that is later, as many generations were judged as the plateau count     *)
(* says, up to the midpoint.                                               *)

Judged == IF pc = "judge" THEN generation - 1 ELSE generation

HintInv ==
  /\ pc = "judge" => generation > 0
  /\ hintCalls * Midpoint + (IF plateau < Midpoint THEN plateau ELSE 0) <= Judged

PacedInv == TypeInv /\ HintInv

LEMMA MidpointType == Midpoint \in Int
BY ConfigAssumption DEF Midpoint, ValidConfig, NoLimit

LEMMA HintTypes ==
  ASSUME TypeInv
  PROVE  /\ hintCalls \in Nat /\ plateau \in Nat /\ generation \in Nat
         /\ hintCalls * Midpoint \in Int
         /\ (hintCalls + 1) * Midpoint = hintCalls * Midpoint + Midpoint
<1>1. hintCalls \in Nat /\ plateau \in Nat /\ generation \in Nat
  BY ConfigAssumption DEF TypeInv, TypeOK, ValidConfig
<1>2. \A h \in Nat, m \in Int : h * m \in Int /\ (h + 1) * m = h * m + m
  OBVIOUS
<1> QED
  BY <1>1, <1>2, MidpointType

LEMMA PacedInit == Init => PacedInv
<1> SUFFICES ASSUME Init PROVE HintInv
  BY TypeInit DEF PacedInv
<1>1. \A m \in Int : 0 * m = 0
  OBVIOUS
<1> QED
  BY <1>1, MidpointType DEF Init, HintInv, Judged

LEMMA PacedNext == PacedInv /\ [Next]_vars => PacedInv'
<1> SUFFICES ASSUME PacedInv, [Next]_vars PROVE HintInv'
  BY TypeNext DEF PacedInv
<1> DEFINE spacing == hintCalls * Midpoint
<1>a. /\ hintCalls \in Nat /\ plateau \in Nat /\ generation \in Nat
      /\ spacing \in Int /\ Midpoint \in Int
      /\ (hintCalls + 1) * Midpoint = spacing + Midpoint
  BY HintTypes, MidpointType DEF PacedInv
<1>b. /\ pc = "judge" => generation > 0
      /\ spacing + (IF plateau < Midpoint THEN plateau ELSE 0) <= Judged
  BY DEF PacedInv, HintInv
<1>1. ASSUME UNCHANGED <<generation, plateau, hintCalls>>,
             pc' = pc \/ (pc # "judge" /\ pc' # "judge")
      PROVE  HintInv'
  <2>1. Midpoint' = Midpoint /\ Judged' = Judged
    BY <1>1 DEF Midpoint, Judged
  <2> QED
    BY <1>1, <1>b, <2>1 DEF HintInv
<1>2. CASE \/ Cap \/ Halt \/ BeginWave \/ WaveAnswered \/ CandidateFails
           \/ \E w \in Workers : TakeTask(w) \/ Call(w) \/ Answer(w)
           \/ \E f \in Fitness : EvaluateCandidate(f)
  BY <1>1, <1>2 DEF Cap, Halt, BeginWave, WaveAnswered, CandidateFails, TakeTask,
     Call, Answer, EvaluateCandidate, searchVars, runVars
<1>3. CASE FinishStep
  <2>1. /\ pc' = "judge" /\ generation' = generation + 1 /\ Judged = generation
        /\ plateau' = plateau /\ hintCalls' = hintCalls
    BY <1>3 DEF FinishStep, runVars, Judged
  <2> QED
    BY <1>a, <1>b, <2>1 DEF HintInv, Judged, Midpoint
<1>4. ASSUME pc = "judge", pc' = "check", generation' = generation,
             hintCalls' = hintCalls,
             plateau' = 0 \/ (plateau' = plateau + 1 /\ plateau + 1 # Midpoint)
      PROVE  HintInv'
  <2>1. Judged = generation - 1 /\ Judged' = generation /\ Midpoint' = Midpoint
    BY <1>4 DEF Judged, Midpoint
  <2>2. spacing + (IF plateau' < Midpoint THEN plateau' ELSE 0) <= generation
    BY <1>4, <1>a, <1>b, <2>1
  <2> QED
    BY <1>4, <2>1, <2>2 DEF HintInv
<1>5. CASE Improvement
  BY <1>4, <1>5 DEF Improvement, searchVars
<1>6. CASE Stagnation
  BY <1>4, <1>6 DEF Stagnation, AtMidpoint, searchVars
<1>7. CASE PlateauReset
  <2>1. /\ pc = "judge" /\ pc' = "check" /\ generation' = generation
        /\ plateau' = plateau + 1 /\ plateau + 1 = Midpoint
        /\ hintCalls' = hintCalls + 1 \/ hintCalls' = hintCalls
    BY <1>7 DEF PlateauReset, AtMidpoint, Reset, AskForHint
  <2>2. Judged = generation - 1 /\ Judged' = generation /\ Midpoint' = Midpoint
    BY <2>1 DEF Judged, Midpoint
  <2>3. hintCalls' * Midpoint <= generation
    BY <1>a, <1>b, <2>1, <2>2
  <2> QED
    BY <1>a, <2>1, <2>2, <2>3 DEF HintInv
<1>8. CASE UNCHANGED vars
  BY <1>1, <1>8 DEF vars, searchVars, runVars
<1> QED
  BY <1>2, <1>3, <1>5, <1>6, <1>7, <1>8 DEF Next

(* All the calls for a hint so far, which no budget counts, are no more    *)
(* than the generations so far divided by half the plateau budget.         *)
THEOREM HintCallsAreFew == Spec => []HintsArePaced
<1>1. PacedInv => HintsArePaced
  <2> SUFFICES ASSUME PacedInv PROVE hintCalls * Midpoint <= generation
    BY DEF HintsArePaced
  <2>1. /\ hintCalls * Midpoint + (IF plateau < Midpoint THEN plateau ELSE 0) <= Judged
        /\ Judged <= generation
    BY HintTypes DEF PacedInv, HintInv, Judged
  <2> QED
    BY <2>1, HintTypes, MidpointType DEF PacedInv, Judged
<1> QED
  BY <1>1, PacedInit, PacedNext, PTL DEF Spec
=============================================================================
