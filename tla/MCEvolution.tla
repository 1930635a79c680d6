------------------------------ MODULE MCEvolution ------------------------------
(***************************************************************************)
(* What surrounds the improvement loop, one machine in each behaviour: the *)
(* sessions and their replay, the cycle of a population, a round of        *)
(* curveballs, the reports that are made of the events, the events of a    *)
(* kernel, the TSP kernel, the memory of the racing kernel, the scores of  *)
(* a harness, the domains of a cycle, or the sweep for a convergence       *)
(* detector.  They share no state; the variables with the same name belong *)
(* to the machine that runs.                                               *)
(***************************************************************************)
EXTENDS Integers, Sequences, FiniteSets, TLC

CONSTANTS
    SessionIds, Lineages, MaxIter, Cases, Foreign, Improvers, Edits,     \* sessions
    Outlet, Library, Overrides, MaxRuns, None,
    N, Corpus, Ratio, Weight, Histories, MaxCycles,                        \* population
    Sizes, Targets, VerdictKinds, MaxRounds,                             \* rounds
    Daemon, Others, Piped, Advocates, AuditPiped, Window, MaxAsides,     \* reports
    IterationResults, AuditClaims,
    KernelGenerations, KernelWave, KernelIslands,                        \* events
    SampleN, MinInterval, GaugeEvery,
    Islands, Pop, Seeds, PerIsland, Generations, MaxRequests, Target,    \* TSP
    PlateauGens, MaxRatio, Instances,
    Tracks, Synthetic, Programs, Lap, Style, Episodes, ScanCount, TopK,         \* memory
    MaxEpisodes, MaxRestarts, MaxCrashes, Garbage,
    Whole, RunResults, Adaptive, WallTime, Floor, ScoreWindow,           \* scores
    ScoreRuns,
    Environments, CaseScores, Teams, DomainCycles,                       \* domains
    Grid, NoisyScores, MaxIterations, Trajectories,                      \* sweep
    s1, s2, c1, c2, c3, f1

VARIABLES
    machine, file, pc, cases, reports, told, stage, history,
    run, outlet, lost, ran, judged, marred,
    cycle, prior, balls, advocates, context, shown, winner, adjusted,
    size, target, verdicts, counts, traps, solver,
    work, stats, now, audit, digests,
    kernel, muted, gens, tally, since, sampled, logged, live,
    phase, seed, pops, tops, wave, gen, requests, stale, before, hinted, mark,
    resets, found, result,
    stream, runs, ref, pool, todo, torn, memory, written, crashes,
    step, weights, reason, best, reverts, trail,
    registry, loaded, given, per, ranked, chosen, cyclesRun,
    points, ended, results, optimum
-----------------------------------------------------------------------------
(* The values of the constants that are no sets of model values            *)

TheLineages == (s1 :> 2) @@ (s2 :> 1)
TheCases == <<c1>>
TheForeign == (s1 :> {}) @@ (s2 :> {f1})
TheOutlet == (s1 :> "file") @@ (s2 :> "pipe")
TheEdits == {[prompt |-> "p", tools |-> None, protocol |-> None, context |-> None,
              budget |-> ("tokens" :> <<1>>)]}
TheOverrides == {<<[field |-> "budget", part |-> "tokens", value |-> <<4>>],
                   [field |-> "new", part |-> None, value |-> 1]>>}

TheCorpus == <<c1, c2, c3>>
TheHistories ==
    {<<>>,
     <<[score |-> 60, fields |-> {"prompt"}, verdicts |-> ("OK" :> 2) @@ ("WA" :> 1)],
       [score |-> 30, fields |-> {"budget"},
        verdicts |-> ("OK" :> 1) @@ ("WA" :> 1) @@ ("TLE" :> 1)]>>,
     <<[score |-> 98, fields |-> {"tools"}, verdicts |-> ("OK" :> 2) @@ ("CE" :> 1)]>>}

TheTargets == {<<>>, <<"off_by_one">>, <<"off_by_one", None, "missing_modulo">>}

(* Two results of an iteration: worse, with a confirmed prediction, or     *)
(* better, with a refuted one.                                             *)
TheOutcomes ==
    {[score |-> 40, verdict |-> "WA", divergent |-> FALSE, predicts |-> 90,
      result |-> "confirmed", live |-> FALSE, changed |-> TRUE],
     [score |-> 80, verdict |-> "OK", divergent |-> TRUE, predicts |-> 90,
      result |-> "refuted", live |-> TRUE, changed |-> FALSE]}

TheClaims == <<"predictions_verified">>

(* The episodes on the stream: of the deployed brain on either track or on *)
(* another one, and those that do not count.                               *)
Episode(pilot, completed, lap, track, id, made) ==
    [pilot |-> pilot, completed |-> completed, lap |-> lap, track |-> track,
     id |-> id, seed |-> made]

TheEpisodes ==
    {Episode("ai_brain", TRUE, 6, "t1", "t1", "t1"),
     Episode("ai_brain", TRUE, 7, "t2", "x", "t2"),
     Episode("ai_brain", TRUE, 4, "t3", "t3", "t3"),
     Episode("ai_brain", TRUE, 0, "t2", "t2", None),
     Episode("ai_brain", FALSE, 3, "t1", "t1", "t1"),
     Episode("human", TRUE, 5, "t2", "t2", "t2")}

TheSynthetic == [t \in {"t1", "t2"} |-> 8]
TheLaps == ("p" :> 11) @@ ("q" :> 12)
TheStyles == ("p" :> 40) @@ ("q" :> 50)

(* Nothing passes at a high cost, a little does at the same cost, nothing  *)
(* does and it takes long, or there was no program.                        *)
TheResults == {[passed |-> 0, cost |-> 4, latency |-> 1],
               [passed |-> 1, cost |-> 4, latency |-> 1],
               [passed |-> 0, cost |-> 4, latency |-> 2], None}

(* Nothing set; only the optional domains and no weight above 0; none.     *)
TheEnvironments ==
    {[enabled |-> None, overrides |-> <<>>],
     [enabled |-> {"multifile", "shader"},
      overrides |-> <<[name |-> "multifile", weight |-> 0],
                      [name |-> "shader", weight |-> -2]>>],
     [enabled |-> {}, overrides |-> <<>>]}

TheGrid == <<[threshold |-> 2, window |-> 2], [threshold |-> 2, window |-> 3],
             [threshold |-> 3, window |-> 3]>>

Session ==
    INSTANCE SessionReplay WITH Sessions <- SessionIds, Verdicts <- VerdictKinds
Population == INSTANCE PopulationCycle
Round == INSTANCE AdversarialRound WITH Verdicts <- VerdictKinds
Reports ==
    INSTANCE EventReports WITH Outcomes <- IterationResults, Claims <- AuditClaims
Snapshots ==
    INSTANCE KernelEvents WITH
        Generations <- KernelGenerations, Wave <- KernelWave, Islands <- KernelIslands
Tsp == INSTANCE TspKernel
Memory == INSTANCE RunMemory WITH MaxRuns <- MaxRestarts
Keeping ==
    INSTANCE ScoreKeeping WITH
        Results <- RunResults, Window <- ScoreWindow, MaxRuns <- ScoreRuns
Domains ==
    INSTANCE DomainScores WITH
        Scores <- CaseScores, Advocates <- Teams, MaxCycles <- DomainCycles
Sweep == INSTANCE ConvergenceSweep WITH Scores <- NoisyScores

ASSUME EvolutionAssumption ==
    /\ Session!ValidReplay /\ Population!ValidPopulation /\ Round!ValidRound
    /\ Reports!ValidReports /\ Snapshots!ValidEvents /\ Tsp!ValidTsp /\ Memory!ValidMemory
    /\ Keeping!ValidScores /\ Domains!ValidDomains /\ Sweep!ValidSweep
-----------------------------------------------------------------------------
sessionOnly == <<run, outlet, lost, ran, judged, marred>>

populationOnly ==
    <<cycle, prior, balls, advocates, context, shown, winner, adjusted>>

roundOnly == <<size, target, verdicts, counts, traps, solver>>

reportOnly == <<work, stats, now, audit, digests>>

snapshotOnly == <<kernel, muted, gens, tally, since, sampled, logged, live>>

tspOnly ==
    <<phase, seed, pops, tops, wave, gen, requests, stale, before, hinted,
      mark, resets, found, result>>

memoryOnly == <<stream, runs, ref, pool, todo, torn, memory, written, crashes>>

scoreOnly == <<step, weights, reason, best, reverts, trail>>

domainOnly == <<registry, loaded, given, per, ranked, chosen, cyclesRun>>

sweepOnly == <<points, ended, results, optimum>>

NoSession ==
    /\ run = None /\ outlet = None /\ lost = None /\ ran = None
    /\ judged = None /\ marred = None

NoPopulation ==
    /\ cycle = None /\ prior = None /\ balls = None /\ advocates = None
    /\ context = None /\ shown = None /\ winner = None /\ adjusted = None

NoRound ==
    /\ size = None /\ target = None /\ verdicts = None /\ counts = None
    /\ traps = None /\ solver = None

NoReport ==
    /\ work = None /\ stats = None /\ now = None /\ audit = None
    /\ digests = None

NoSnapshot ==
    /\ kernel = None /\ muted = None /\ gens = None /\ tally = None
    /\ since = None /\ sampled = None /\ logged = None /\ live = None

NoTsp ==
    /\ phase = None /\ seed = None /\ pops = None /\ tops = None
    /\ wave = None /\ gen = None /\ requests = None /\ stale = None
    /\ before = None /\ hinted = None /\ mark = None /\ resets = None
    /\ found = None /\ result = None

NoMemory ==
    /\ stream = None /\ runs = None /\ ref = None /\ pool = None
    /\ todo = None /\ torn = None /\ memory = None /\ written = None
    /\ crashes = None

NoScore ==
    /\ step = None /\ weights = None /\ reason = None /\ best = None
    /\ reverts = None /\ trail = None

NoDomain ==
    /\ registry = None /\ loaded = None /\ given = None /\ per = None
    /\ ranked = None /\ chosen = None /\ cyclesRun = None

NoSweep ==
    /\ points = None /\ ended = None /\ results = None /\ optimum = None

Init ==
    \/ /\ machine = "session" /\ Session!Init /\ NoPopulation /\ NoRound
       /\ NoReport /\ NoSnapshot /\ NoTsp /\ NoMemory /\ NoScore /\ NoDomain
       /\ NoSweep /\ pc = None /\ cases = None /\ reports = None /\ told = None
       /\ stage = None /\ history = None
    \/ /\ machine = "population" /\ Population!Init /\ NoSession /\ NoRound
       /\ NoReport /\ NoSnapshot /\ NoTsp /\ NoMemory /\ NoScore /\ NoDomain
       /\ NoSweep /\ file = None /\ reports = None /\ told = None
       /\ stage = None /\ history = None
    \/ /\ machine = "round" /\ Round!Init /\ NoSession /\ NoPopulation
       /\ NoReport /\ NoSnapshot /\ NoTsp /\ NoMemory /\ NoScore /\ NoDomain
       /\ NoSweep /\ file = None /\ told = None /\ stage = None
       /\ history = None
    \/ /\ machine = "report" /\ Reports!Init /\ NoSession /\ NoPopulation
       /\ NoRound /\ NoSnapshot /\ NoTsp /\ NoMemory /\ NoScore /\ NoDomain
       /\ NoSweep /\ pc = None /\ cases = None /\ stage = None
       /\ history = None
    \/ /\ machine = "snapshot" /\ Snapshots!Init /\ NoSession /\ NoPopulation
       /\ NoRound /\ NoReport /\ NoTsp /\ NoMemory /\ NoScore /\ NoDomain
       /\ NoSweep /\ file = None /\ pc = None /\ cases = None /\ reports = None
       /\ history = None
    \/ /\ machine = "tsp" /\ Tsp!Init /\ NoSession /\ NoPopulation /\ NoRound
       /\ NoReport /\ NoSnapshot /\ NoMemory /\ NoScore /\ NoDomain /\ NoSweep
       /\ file = None /\ pc = None /\ cases = None /\ reports = None
       /\ told = None /\ stage = None
    \/ /\ machine = "memory" /\ Memory!Init /\ NoSession /\ NoPopulation
       /\ NoRound /\ NoReport /\ NoSnapshot /\ NoTsp /\ NoScore /\ NoDomain
       /\ NoSweep /\ pc = None /\ cases = None /\ reports = None /\ told = None
       /\ history = None
    \/ /\ machine = "score" /\ Keeping!Init /\ NoSession /\ NoPopulation
       /\ NoRound /\ NoReport /\ NoSnapshot /\ NoTsp /\ NoMemory /\ NoDomain
       /\ NoSweep /\ file = None /\ pc = None /\ cases = None /\ reports = None
       /\ told = None /\ stage = None
    \/ /\ machine = "domain" /\ Domains!Init /\ NoSession /\ NoPopulation
       /\ NoRound /\ NoReport /\ NoSnapshot /\ NoTsp /\ NoMemory /\ NoScore
       /\ NoSweep /\ file = None /\ pc = None /\ cases = None /\ reports = None
       /\ told = None /\ history = None
    \/ /\ machine = "sweep" /\ Sweep!Init /\ NoSession /\ NoPopulation
       /\ NoRound /\ NoReport /\ NoSnapshot /\ NoTsp /\ NoMemory /\ NoScore
       /\ NoDomain /\ file = None /\ pc = None /\ cases = None
       /\ reports = None /\ told = None /\ stage = None /\ history = None

BesideSession ==
    <<machine, pc, cases, reports, told, stage, history, populationOnly,
      roundOnly, reportOnly, snapshotOnly, tspOnly, memoryOnly, scoreOnly,
      domainOnly, sweepOnly>>

SessionNext == machine = "session" /\ Session!Next /\ UNCHANGED BesideSession

BesidePopulation ==
    <<machine, file, reports, told, stage, history, sessionOnly, roundOnly,
      reportOnly, snapshotOnly, tspOnly, memoryOnly, scoreOnly, domainOnly,
      sweepOnly>>

PopulationNext == machine = "population" /\ Population!Next /\ UNCHANGED BesidePopulation

BesideRound ==
    <<machine, file, told, stage, history, sessionOnly, populationOnly,
      reportOnly, snapshotOnly, tspOnly, memoryOnly, scoreOnly, domainOnly,
      sweepOnly>>

RoundNext == machine = "round" /\ Round!Next /\ UNCHANGED BesideRound

BesideReport ==
    <<machine, pc, cases, stage, history, sessionOnly, populationOnly,
      roundOnly, snapshotOnly, tspOnly, memoryOnly, scoreOnly, domainOnly,
      sweepOnly>>

ReportNext == machine = "report" /\ Reports!Next /\ UNCHANGED BesideReport

BesideSnapshot ==
    <<machine, file, pc, cases, reports, history, sessionOnly, populationOnly,
      roundOnly, reportOnly, tspOnly, memoryOnly, scoreOnly, domainOnly,
      sweepOnly>>

SnapshotNext == machine = "snapshot" /\ Snapshots!Next /\ UNCHANGED BesideSnapshot

BesideTsp ==
    <<machine, file, pc, cases, reports, told, stage, sessionOnly,
      populationOnly, roundOnly, reportOnly, snapshotOnly, memoryOnly,
      scoreOnly, domainOnly, sweepOnly>>

TspNext == machine = "tsp" /\ Tsp!Next /\ UNCHANGED BesideTsp

BesideMemory ==
    <<machine, pc, cases, reports, told, history, sessionOnly, populationOnly,
      roundOnly, reportOnly, snapshotOnly, tspOnly, scoreOnly, domainOnly,
      sweepOnly>>

MemoryNext == machine = "memory" /\ Memory!Next /\ UNCHANGED BesideMemory

BesideScore ==
    <<machine, file, pc, cases, reports, told, stage, sessionOnly,
      populationOnly, roundOnly, reportOnly, snapshotOnly, tspOnly,
      memoryOnly, domainOnly, sweepOnly>>

ScoreNext == machine = "score" /\ Keeping!Next /\ UNCHANGED BesideScore

BesideDomain ==
    <<machine, file, pc, cases, reports, told, history, sessionOnly,
      populationOnly, roundOnly, reportOnly, snapshotOnly, tspOnly,
      memoryOnly, scoreOnly, sweepOnly>>

DomainNext == machine = "domain" /\ Domains!Next /\ UNCHANGED BesideDomain

BesideSweep ==
    <<machine, file, pc, cases, reports, told, stage, history, sessionOnly,
      populationOnly, roundOnly, reportOnly, snapshotOnly, tspOnly,
      memoryOnly, scoreOnly, domainOnly>>

SweepNext == machine = "sweep" /\ Sweep!Next /\ UNCHANGED BesideSweep

Next ==
    \/ SessionNext \/ PopulationNext \/ RoundNext \/ ReportNext
    \/ SnapshotNext \/ TspNext \/ MemoryNext \/ ScoreNext \/ DomainNext
    \/ SweepNext

vars ==
    <<machine, file, pc, cases, reports, told, stage, history, sessionOnly,
      populationOnly, roundOnly, reportOnly, snapshotOnly, tspOnly,
      memoryOnly, scoreOnly, domainOnly, sweepOnly>>

Spec == Init /\ [][Next]_vars
-----------------------------------------------------------------------------
(* The harness of an iteration is rebuilt as it was, and the verdicts      *)
(* shown for it are those it gave (rsi/replay.py).                         *)
ReplaySound ==
    machine = "session" => Session!ReplayFaithful /\ Session!VerdictsAttributed

(* The traps of a cycle are as many as asked for, and aimed at what failed *)
(* before (evaluation/assembly.py, rsi/adversarial.py); and an advocate    *)
(* sees the edits of its siblings of this cycle (rsi/population.py).       *)
PopulationSound ==
    machine = "population" => Population!MixSound /\ Population!SiblingsShown

(* A round gives the evaluator back and reports each of its cases once     *)
(* (rsi/adversarial.py).                                                   *)
RoundSound == machine = "round" => Round!SolverReturned /\ Round!RoundAccounted

(* The digest does not raise unless sessions shared an id, and tells of a  *)
(* session the regression, the flips and the divergences that won that it  *)
(* had, but no refuted prediction, however confident                       *)
(* (daemons/continuous.py); the report of a cycle that had the file to     *)
(* itself is of that cycle (evaluation/distillation.py); and what an idle  *)
(* auditor counts as seen, its last pass has read (audit/claims_audit.py). *)
ReportsSound ==
    machine = "report" =>
        Reports!SurprisesSound /\ Reports!ReportSound /\ Reports!NothingUnaudited

(* The snapshots of a kernel account for all of its events, and its knobs  *)
(* thin the live bus and not the log (kernels/base.py).                    *)
EventsSound == machine = "snapshot" => Snapshots!EventsSound

(* What the TSP kernel returns is the best it has measured, its history is *)
(* that of its generations, and its calls are within its budget            *)
(* (tsp_kernel/tsp_kernel.py).                                             *)
TspSound == machine = "tsp" => Tsp!TspSound

(* The bars and the prior that the racing kernel takes from earlier runs   *)
(* (racing_kernel/loop_feedback.py, consolidated_prior.py).                *)
MemorySound == machine = "memory" => Memory!MemorySound

(* The figures by which a harness is kept or promoted: no better one is    *)
(* passed over, the weights follow the scores as they say, an aggregate is *)
(* a mean of the domains that count, and the sweep tells the truth of the  *)
(* detectors that it tried (evaluator/engine.py, evaluation/registry.py,   *)
(* rsi/population.py, rsi/simulation.py).                                  *)
FiguresSound ==
    /\ machine = "score" => Keeping!ScoresSound
    /\ machine = "domain" => Domains!DomainsSound
    /\ machine = "sweep" => Sweep!SweepSound

(* "cost/time are normalized such that 1.0 = best = cheapest/fastest"      *)
(* (evaluator/engine.py:1183): of two runs that pass as much at the same   *)
(* cost and are weighed alike, the faster one is worth no less.            *)
FasterIsNotWorse == machine = "score" => Keeping!FasterIsNotWorse
================================================================================
