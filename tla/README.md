# TLA+ models of nervous-autobench

This directory specifies the parts of nervous-autobench whose correctness
depends on order, sharing, budgets and failures: the greenhouse scheduler, the
FunSearch island kernel it runs, the recursive self-improvement (RSI) loop with
its prediction contract, the promotion of the canonical harness, and what these
stand on: the sandbox, the bus and its readers, the calls of models and of the
GPU, the evaluator, the corpus, and what is rebuilt, reported and published of
all of it. Paths below are relative to `src/`.

Contents: 1 the system, 2 the modules, 3 the properties and the runs, 4 the
proofs, 5 where code and documentation disagree, 6 what is not modelled, 7 the
plan.

To check: `tlc -config X.cfg M` for the run of `PROJECT.json` with module `M`
and configuration `X.cfg`; `tlapm M_proofs.tla` for the proofs.

---

## 1. The system

Autobench evaluates LLM-written programs and improves, over and over, the thing
that makes the LLM write them. Two loops carry its logic.

*Kernel side.* A systemd timer (or a person) starts `greenhouse cycle`. The
cycle picks a goal, runs a domain kernel with a request budget, and writes the
best programs as drops. The kernel evolves programs on islands with threads
that call an LLM.

*Harness side.* A daemon, or a population of advocates, runs sessions of the
RSI loop: evaluate the harness on benchmark cases, let an improver edit it,
hold the improver to its prediction, revert what got worse. A better harness is
promoted to the canonical one of the workspace.

### Components

| Component | State | Operations | Meets others through | Hard | Correct if |
|---|---|---|---|---|---|
| Greenhouse cycle (`greenhouse/cycle.py`, `ledger.py`, `export.py`, `goals.py`) | flock, request ledger, drops | start, lock, select, run, record, export, announce, finish | lock and files of a directory; events; `kernel.run()` | two invocations, kills, `now` read before the lock, late accounting | no window overspends; no goal overfilled; everything announced; every goal served |
| Island kernel (`kernels/base.py`) | populations, bests, plateaus, request counter | wave of LLM calls, evaluate, migrate, plateau, reset, hint, stop | its threads; the caller's budget | counter under threads, horizon per wave, stale bests around migration and reset | budget kept; best never lost; discoveries announced; returns |
| RSI loop (`rsi/loop.py`, `audit/ahe.py`) | harness, checkpoint, pending prediction, verifications | evaluate, refute live, verify, checkpoint, improve, judge | evaluator, improver, budget guard, both callers | predictions that are killed, clipped, late or missing; exceptions in the middle | checkpoint is true; no edits on a regression; killed tails not promotable |
| Canonical harness (`daemons/continuous.py`, `audit/invalidation.py`, selection of `rsi/population.py`) | `harness.json`, archive, ledger, scopes | session, promote, stage/confirm/reject, record, stop | files without a lock | in-place writes, crashes, several promoters, swallowed errors | nothing lost; swaps earned; ledger true |
| Population runner (`rsi/population.py`, `evaluation/assembly.py`, `diversity.py`, `registry.py`) | advocates and their results, a list of edits they share | mix traps in, run advocates, rank, aggregate domains, choose | RSI loop, promotion, environment | an advocate or a domain fails; a list is shared and reused | traps aimed at what failed; siblings of this cycle; losing a domain does not pay |
| Firecracker pool and sandbox (`engines/`) | available and acquired VMs, children, pipes | acquire, release, replace, shut down; compile, feed, poll, kill | evaluators, one process | leaks, pool at its limit, sick VMs, full pipes | VMs accounted for, one user each, no process left; execution ends |
| Signal bus and trigger daemon (`bus/signal_bus.py`, `daemons/trigger_daemon.py`) | debug file, offsets, runtime config | publish, poll; arrive, dispatch, run, report, command, crash, restart | one file that all append to | torn lines, an offset read early, restarts | each line dispatched, each request one report, no lost budget |
| Worker, improvers, models (`llm/`) | usage, baseline, votes; registry | post, retry, fall back, parse, vote; register, sweep, rank | all LLM users | answers of any shape, retries inside retries | posts bounded, majority kept, ranks agree with scores |
| Evaluator and judges (`evaluator/`, `llm/judge.py`) | results, votes, weights | attempt, run inputs, retry, vote; adapt weights | sandbox, judges in threads, RSI loop | late votes, a worker that raises; figures that feed on themselves | verdict, score and events agree; a better run is not passed over |
| Budget guards (`audit/budget_guard.py`) | cost, stamps, thresholds | check, record, halt | RSI loop, curriculum | check and record apart | overshoot bounded, warned first |
| GPU jobs (`bus/gpu_admission.py`, `gpu_publisher.py`, `racing_kernel/rollout_eval.py`) | slots, streams | ask, submit, poll, time out | an engine that may stop | stale heartbeat, late results | slots balanced, own result |
| Corpus (`evaluation/curriculum.py`) | shards and file of a day | generate, judge, write, roll up | several processes, no lock | overlapping saves, deaths between writes | rows accounted for, file repaired |
| Adversary, replay, simulation (`rsi/adversarial.py`, `replay.py`, `simulation.py`) | worker of the evaluator; sessions of a log; trajectories | round; rebuild; sweep | evaluator, debug file | raise in a round; ids that repeat | evaluator given back; rebuilt as it was |
| Reports (`daemons/continuous.py` digest, `evaluation/distillation.py`, `audit/claims_audit.py`) | the debug file, read again | digest, distil, audit, watch | writers that append meanwhile | events of several sessions, fields nested elsewhere | they tell what was |
| Kernels' surroundings (`kernels/base.py` events and prior, `kernels/bridge.py`, `eval.py`, `tsp_kernel/`, `racing_kernel/loop_feedback.py`) | snapshots; a shader file; prior and bars | emit, snapshot; splice, time; learn, save | live bus, engine, files | overlapping writes, old timings, torn lines | nothing uncounted; own timing; entries survive |
| Rename verifier (`audit/refactor_verifier.py`) | none | scope, drift, tests | external tools | a tool that is missing or fails | a verified rename is one |
| Publishers (`artifact_store.py`, `playground_push.py`, `publish_evolved_kernels.py`) | index, log, vault | record, push, publish | HTTP | lost answers, a raise in the middle | told is stored |
| Others | see `PROJECT.json` | | | | |

`PROJECT.json` lists every component with its files and how far it is
modelled, and under `hazards` the main hazards at their lines with the
properties that would catch them; section 5 adds lesser ones.

---

## 2. The modules

| Module | Role |
|---|---|
| `GreenhouseCycle` | the scheduler: processes, lock, ledger, drops, time |
| `IslandKernel`, `KernelRun` | `FunSearchKernel.run` with its threads; the abstract kernel that callers of `run()` rely on |
| `SelfImprovement` | `improve()` and what its two callers make of its return |
| `CanonicalHarness` | the promoters of one workspace |
| `FirecrackerPool`, `SandboxExecution` | the pools of microVMs of a process, and the executors and users that share them |
| `CaseEvaluation` | how an execution is judged; one run of the evaluator, with its judges in threads |
| `ScoreKeeping` | utility, adaptive weights, and the loop that keeps the best by them |
| `EventTail`, `TriggerDaemon` | two readers of the debug file: the polling subscriber, and the daemon that answers requests and commands |
| `WorkerCalls`, `ImproverCalls`, `ModelSweep` | the call of a worker; one improvement by an ensemble; the registry and ranking of models |
| `RateBudget`, `BudgetCalls` | the arithmetic of the sliding window; the composite guard and its callers |
| `GpuJobs` | admission gate, job, poll, and the engine |
| `Curriculum` | processes that synthesize the problems of a day |
| `PopulationCycle`, `DomainScores` | a population's cycles; the domains by which an advocate is promoted |
| `Curveballs`, `AdversarialRound` | one trap; a round of traps |
| `SessionReplay` | what sessions leave in the debug file, and the replay of it |
| `ConvergenceSweep` | the simulation that chose the thresholds of the loop |
| `EventReports` | digest, report and audit of the debug file |
| `KernelEvents`, `TspKernel`, `RunMemory` | events and snapshots of a kernel; the kernel with a `run` of its own; what passes from run to run |
| `ShaderHotSwap`, `ArtifactPublish` | shader functions timed in the engine; index, log and vault |
| `RenameVerifier` | `verify()` with its external tools |
| `MC*` | values of the constants for TLC |
| `*_proofs` | theorems, one module per component |

How they compose: `GreenhouseCycle` has the actions `Request` and `KernelEnds`
in place of a kernel; `KernelRun` states that contract on its own, and
`IslandKernel` is shown to implement it (`KeepsPromise`, `PromiseKept`).
`SelfImprovement` ends in what a session or an advocate concludes;
`CanonicalHarness` takes those conclusions (a score, an AHE outcome) as any
value and studies what the promoters do with the files. `PopulationCycle` takes
the history of an advocate as any of a set, `DomainScores` its scores.
`SandboxExecution` extends `FirecrackerPool`: the executors and the other users
of one process act on the same processes and sockets. `BudgetCalls` and `Curriculum` both
ask the guard of `RateBudget`; `PopulationCycle` and `AdversarialRound` both
take their traps from `Curveballs`.

`MCBus`, `MCCalls` and `MCEvolution` check several machines in one run. A
behaviour belongs to one of them, chosen in the initial state (`machine`); the
variables of the others stay `None`. The machines share no state, so this is
the union of their state spaces, and a property about one is an implication
from `machine`. Constants that the configuration does not set are bound by
`INSTANCE ... WITH`.

Operators named `Mutant...`, or introduced by a comment "Mutant:" or "A bug:",
are not part of a model. Each is a version of the definition after it with a
plausible bug, and is used to confirm that a property notices it.

### GreenhouseCycle

A process is one invocation at a time of `greenhouse cycle` or `dry-run`. Its
`pc` follows `run_cycle`: `Start` (reads `now`), `LockHeld` / `Acquire`, the
early returns `BadManifest`, `NoEligibleGoal`, `BudgetExhausted`, `NoFixture`,
then `BeginRun` / `DryRun`, `Request`, `KernelEnds` / `KernelRaises`,
`RecordSpend`, `ExportDrop` / `ExportFails`, `Announce`, `Complete`. `Kill` may
happen anywhere; the flock goes with the process and unrecorded spend is lost.

A unit of spend is a *ticket*: a ledger line of n requests is n tickets of one
age, so the sum of a window is a cardinality. Time is relative: `Tick` ages
every ticket and every reader's `now`, and a ticket that no window can reach is
free again. So the model needs no bound on the number of cycles. Each ticket
has two ages: the one the ledger has (the start of the cycle) and the real one.

`select_goal` is `Selected`, its key cross-multiplied to stay in the integers.
Broken manifests, kernels that raise, and failing exports are free choices.

### IslandKernel

A program is its fitness in units (greater than the 1e-6 that `run` uses to
compare). A population is a non-increasing function on slots, which is what
`step()` leaves; `Insert` and `Inject` are the sort and the replacement of the
worst as functions. `Call`/`Answer` split the counter's read and write;
`LockFree` is `_counter_lock`. `EvaluateCandidate` inserts as each future
completes, in any order; `FinishStep` is migration, then `evaluate_island`,
then the plateau counts; `Improvement`, `Stagnation`, `PlateauReset` are the
branches of `run()` after a step, with hint, reset and artifact. `Halt` names
the horizon that fired, in the code's order.

`MCIslandKernel` has two families of behaviours: a search with the constants of
the configuration, and a fleet whose islands specialise on instances of their
own, which uses up its generations before its budget.

### SelfImprovement

A harness is its version, scores are thousandths, a case ends OK or not, and a
prediction claims a change of the number of OK cases and of the score.
`RunAttempt` is one call of `_run_case`, with the interceptor that refutes a
prediction during the evaluation. `Checkpoint` is all of the code from the
result to the improver's call: verification, new best, revert. `Improve` offers
any prediction or none and clips infeasible ones; `Continue` / `Return` are the
convergence tests. `SessionEnds` and `AdvocateEnds` are the callers.

### CanonicalHarness

Daemons (`continuous run` and `once`) and operators
(`stage_promotion_from_population`) share files without a lock. `_promote` is
three actions, because a kill or another process may come between them:
`Archive`, `Open` (which empties `harness.json`: `Torn`) and `Write`. Each may
fail or be cut short; `_promote` swallows the exception and its callers go on.
`Tick` is the clock reaching the next second, which matters because archive
files are named by the second. Harnesses are numbered; an operator's call
carries a new one or one handed in before, since the same result may be staged,
then confirmed or rejected (as `tests/test_promotion.py:340` does).

### FirecrackerPool, SandboxExecution

A VM is the number its pool gave it. Socket paths are made of process id and
number, so VMs of two pools with equal numbers share them; `socket` says whose
process answers. `Created` tells the outcomes of a creation: fails early, the
process exits, the process runs but is in no list (`orphans`), or all is well.
`acquire` is `Pop` / `OnDemand` / `LastDitch` (past its deadline); `release` is
`Return` / `Replace`. An execution is a `pc` through the tier's choice,
compilation, `Acquire` and the call that fails there, then `Launch`, feeding
stdin, polling, killing and `communicate()`; a pipe holds `PipeSize` units and
the child's reads and writes are steps of their own (`ChildStep`). The job says
what a program does with its pipes.

### CaseEvaluation, ScoreKeeping

`Generate`, `RunInput`, `Report`, `TryAgain` are the attempts of a case;
`FanOut`, `Join`, `Count`, `Summarise` the pool of judges, who vote at any time:
the count for the consensus and the summary that is published are two reads. An
execution is a set of marks of its stderr, an exit and what became of its
output, from which `ExecutorVerdict` and `EmitVerdict` make a verdict.
`ScoreKeeping` runs the loop over results with their share of passes, cost and
time, in integers.

### EventTail, TriggerDaemon

The file is a sequence of pieces; an event of more than a buffer is two of
them, and another writer may come between. `Stat`, `ReadLine`, `EndOfFile` are
the subscriber's poll. The daemon's file is the script of arriving lines with
the daemon's own events among them; a cycle is its start, its events, the
distillation and the report; `Crash` and `Start` may come anywhere (`tail -n 0`).
A config that is there, or a debug file, may fail to be read: `Merge` then
starts from unset limits, and `ReadEvents` counts nothing.

### WorkerCalls, ImproverCalls, ModelSweep, BudgetCalls, GpuJobs

Each post is an action whose outcome is a choice; `ImproverCalls` walks the
nested fallbacks for a `TypeError` of the loop and of the ensemble, with the
retries of the wrapper inside. `Check` and `Record` of a guard, and the ask, the
publish and the record of a job, are apart as in the code. The engine takes
jobs, reports its depth, answers, or stops.

### Curriculum

A process is a scheduler (`RunOnce`) or `daily_synthesis` (`DailySynthesis`);
it opens, fills and closes its shard and writes the manifest, then empties the
file of the day, copies shard after shard and closes it, and may die between
any of these. Two cycles that start in one second have one
name.

### PopulationCycle, DomainScores, Curveballs, AdversarialRound

`Generate` and `Assemble` put traps in place of cases, aimed at what the last
cycle failed; `RunAdvocate` is one advocate with the context it was shown;
`Rank` computes both winners. `DomainScores` begins with the environment and the
files (absent, empty, torn, whole), and ends with the advocate chosen.

### SessionReplay, EventReports

`SessionReplay` is the publisher and the reader of one file: sessions with their
lineages interleave, and `HarnessAt` and the buckets are what the replay reads
out of it. `EventReports` has the fields of the events as functions, since the
reader that asks for a field that is nested elsewhere gets a default. This is
why `SurprisesSound` says of one of the four kinds of surprise, confident
predictions that were refuted, that the digest never tells of it: the
documentation promises it, and the code looks for it in the wrong place
(section 5).

### KernelEvents, TspKernel, RunMemory, ShaderHotSwap, ArtifactPublish, RenameVerifier, ConvergenceSweep

`KernelEvents` counts raw events against what the live bus and the snapshots
tell. `TspKernel` is `step` and `run` of its own class. An island has a best
program before anything is evaluated, and keeps it, at fitness 0, when all of
its baselines fail. `RunMemory` joins the episode stream and the prior file,
where a run may die inside a line. The score of a program is the sum of its
speed, which its lap and the bar give, and of `Style`: what smoothness, track
and rhythm are worth (0.60 of the fitness), which depends on its line alone and is a
constant of the program. So scores do not order laps; `Comparable` says that
they do between lines that are equally good, and by how much at most otherwise.
`ShaderHotSwap` splits the read, the truncation and the write of the one shader
file; `alone` and `heard` are history. `ArtifactPublish` has three tasks, each
with every point of failure; whether a program can be a shader (`cpp_to_glsl`),
whether it is a valid one, and whether the substitutions of
`publish_evolved_kernels` leave C in it are three facts of the program, since
none of the three checks looks at what the others do. `RenameVerifier` has the
tools and their failures as choices; a name is a symbol or is made of one
between underscores, since the fallback undoes the rename within names too and
the token-wise substitution for difftastic does not. `ConvergenceSweep` runs all detectors side by side on one series.

---

## 3. Properties and runs

Runs that pass:

| Run | Instance | Shows |
|---|---|---|
| `greenhouse_budget` | 2 processes, 4 tickets, window of 2 ticks, cap 3, real and dry, kills | `WindowBounded`, `RealSpendBounded` |
| `greenhouse_turns` | 2 processes, 2 goals wanting 1 and 2, fairness | `WantRespected`, `OutcomesTold` (one heartbeat per cycle, no drop unannounced), `EveryGoalGetsATurn` |
| `island_search` | 2 islands of 2, 2 threads, 6 generations, budget 11, all horizons; and a fleet that specialises | `RequestsWithinBudget`, `BestRetained`, `Announced`, `RunsAsPromised` (the refinement of `KernelRun`, and the pace of hints), `Terminates` |
| `improve_lineage` | 4 iterations, 2 attempts, sessions and advocates | `BestIsMeasured`, `EditsKnownGood`, `KilledTailIsRefused`, `Terminates` |
| `canonical_swaps` | 1 daemon, 1 operator, 3 harnesses, faults, crashes | `NothingLost`, `LedgerIsTrue`, `EarnedOnly` |
| `sandbox_pool` | 1 executor of either tier, 1 direct user, pools of 1, 4 kinds of program | `NothingLeaks`, `Returns` |
| `bus` | 4 events, one of two pieces and one scalar; 6 lines, 1 crash | `DispatchSound`, `Delivered`, `TriggerSound`, `EveryLineAnswered` |
| `calls` | ten machines | `ModelCallsSound`, `EvaluatorSound`, `GuardsSound`, `GpuSound`, `CurriculumSound`, `RenameSound`, `HotSwapSound`, `PublishSound`, `ModelsSound` |
| `evolution` | ten machines | `ReplaySound`, `PopulationSound`, `RoundSound`, `ReportsSound`, `EventsSound`, `TspSound`, `MemorySound`, `FiguresSound` |

A property named `...Sound` is a conjunction; the conjuncts, with their
comments, are at the end of the module they speak of. Where a module has a
`TypeOK` it is one of them, or an invariant of the theorems.

Runs in which TLC finds a documented claim violated are `improve_refuted`,
`canonical_twice` and `slower_scores_higher`; section 5 says what they show.

### Why these bounds are enough to be interesting

- *Greenhouse.* A cap of 3 with 2 per cycle is not a multiple, so an allowance
  is clamped by the window and not only by the cycle. With a window of 2 ticks
  and cycles of 1 tick, a cycle can straddle the edge of a window, and a second
  one can wait for the lock with an old `now`. Four tickets are one more than
  the cap: an overspend can happen.
- *Islands.* Two islands are the fewest for migration and reset. Two slots
  separate "the best" from "the worst, which is replaced". A budget of 11 is not
  a multiple of the wave of 2, so the check before a wave matters. Six
  generations contain migrations, a hint (at 2) and a reset (at 4), in all
  orders. The fleet scores migrants on other instances than they came from.
- *RSI.* Four iterations are enough for make, clip, miss and verify in a row,
  and for a regression after a revert. The scores lie within and on both sides
  of floor and threshold. Two attempts show the interceptor counting attempts.
- *Canonical.* Two promoters are enough for every clash of two; harnesses 0, 1
  and 2 are the default and one for each. In the population a killed and a
  partly confirmed advocate outscore the only confirmed one. `MaxLines` bounds
  the decisions in the ledger at one (two in `canonical_twice`): the decision
  that is checked. The theorems have no such bound.
- *Sandbox.* Two ids per pool of one: a VM and its replacement or the one past
  the deadline. A pipe of one unit and programs that read or write two fill it.
- *Bus.* Three kinds of line (in one piece, in two, not an object) and a fourth
  to come between. The script of the daemon has a request with cases, one
  without, three commands (a budget, a number of generations, a pause, so that
  each may lose the limit of another) and an event that only names a channel.
- *Calls.* Three improvers are the fewest with a majority and a minority; two
  calls of the worker at a distance within and beyond the debounce; two inputs
  and three judges (one dissents, one is late); two callers, a cap of 3 with a
  margin that rounds it; one slot of one island with two calls, two jobs and
  a foreign result, where a poll looks at one entry and one waiting job defers
  the next; a shader that matches and one that nearly does; two processes of the
  curriculum with two cycles, one crash, and a judge who may be asked once in a
  window; two kernels and three codes, one blank, in the shader. The shader
  file has its markers (`Shapes`); a file without them is reached by a writer
  that dies, and the curriculum's cap by the clock.
- *Evolution.* Two sessions, one with two lineages under one id, the other
  whose final harness is tried on another domain, with events that take the pipe or the file; three cases of which a ratio
  little above a third rounds up to two traps; a round of three or none; two advocates and a second writer for the
  reports; three generations of events, with a sample of 2 and gauges every 2;
  two islands of two in the TSP kernel, five generations, a plateau of four;
  two tracks, two programs, six episodes of which three count; seven runs of
  scores, two more than the window of the weights; environments that switch
  domains off or give them no weight or less; three detectors of which one is
  loosest.

`CHECK_DEADLOCK FALSE` is used where the program stops: a kernel run or a loop
that has returned, a session that has ended, a call that was made.

### Fairness

- `GreenhouseCycle!FairSpec`: time passes (`SF` of `Tick`); a cycle that can
  move does, since each step is bounded by `TimeoutStartSec` and the timer
  fires again (`WF` of `Step`). Strong fairness of `BeginRun`, of recording at
  least one program for a free slot, and of exporting a drop for a goal assumes
  that the manifest is not broken for ever and that a goal tried again and
  again has at some time a program that validates. Without them nothing is
  promised: a goal whose programs never validate keeps its turn.
- `IslandKernel!Fairness`, `SelfImprovement!Fairness`: one `WF` of `Next`. The
  interpreter runs on, subprocess and HTTP calls have timeouts
  (`llm_timeout`, worker and improver timeouts). Nothing is assumed of what a
  call returns, nor that it succeeds.
- `CanonicalHarness!Fairness`: a running daemon keeps running. It only serves
  to exclude a daemon that hangs in `canonical_twice`; no liveness is claimed.
- `SandboxExecution!Fairness`: the thread of an executor runs on, and so does
  the program it started, as far as its pipes let it. The user of a pool need
  not do anything, a VM may be sick for ever, and a program need not end.
- `MCBus!Spec`: the subscriber's loop and the handler of the daemon are threads
  that wait for nobody. Nobody has to publish, send or restart.

No fairness is assumed in `calls` and `evolution`, which have no liveness
property. A call of theirs ends because every step takes it further.

---

## 4. Proofs

All theorems are checked by TLAPS to the last leaf, for every value of the
constants that satisfies the named assumptions of the modules. These say what
the parsers and constructors of the code enforce (`_parse_budget`,
`_parse_goal`, `KernelConfig`, the arguments of `SelfImprovingHarness`) and that
the markers of the model are distinct from its numbers.

### GreenhouseCycle_proofs

`WindowBounded` is not inductive. What carries it is `IInv`:

- `LockInv`: a process past the lock owns it, and nobody else has spend or an
  allowance;
- `AllowanceInv`: the owner's allowance fits in what any window that holds its
  spend has left, counted when it read the ledger;
- `StampInv`: all spend of a run has the age of that run's `now`;
- `BudgetInv`: the bound for every window in `Nat`, not only the reachable ones.

The allowance was computed for the window that ends at `now`, while the
property is about all windows; `StampInv` puts the new spend at the end of
that window, and every entry a later-starting window could hold in addition is
younger than `now`, for which `AllowanceInv` accounts. `BudgetHolds` follows;
`MutualExclusion` is `LockInv`. `RealBudgetHolds` adds that the two ages of a
ticket differ by at most `MaxCycle`.

`NoGoalOverfilled` (`WantRespected`) has `WantInv`: who has a goal may still
fill only the room that is left of it. `CyclesReport` (`OutcomesTold`) has
`HeartbeatInv` (no heartbeat before the end of a cycle, one at its end) and
`AnnounceInv` (a drop that is not announced belongs to the process that is about
to). It assumes `Registered = Goals` and `Modes \subseteq {"real"}`, and needs
both: a domain without a kernel leaves without its heartbeat (section 5), and a
dry run that writes a drop again announces it again.

### IslandKernel_proofs

`CounterInv` (at most one thread is between read and write, with the value it
read still current) gives `CounterExact`; with the wave's calls bounded by the
room the horizon test left, `BudgetKept` and the safety part of the refinement,
`PromiseKept`: initial states to initial states and every step to a step of
`KernelRun` or a stutter. `BestInv` says that each island's best program is the
head of its population except while a step is in progress, that no head exceeds
`found` and that one equals it; insertion, truncation, injection and reset are
each a lemma. `HintCallsAreFew` (`HintsArePaced`) counts: the hints so far,
times the midpoint, and the running plateau fit in the generations judged
(`HintInv`); it bounds all hints together, not the distance between two. `BestNeverLost`, `DiscoveriesAnnounced` and `ArtifactsImprove`
assume two islands and two slots, and need it: see section 5.

### SelfImprovement_proofs

`LiveRefutationSound` is about `refute_live` alone: if each case is seen once
and the verdict occurred before, a refuted claim cannot come true, whatever
the remaining cases do. `BestIsKept` and `RegressionsAreReverted` share
`MeasureInv`, which ties the working harness to the version of the current
iteration in each phase; what is edited without being the best is the harness
of this iteration, whose score is therefore its own last one. `VerificationsAreDue` needs `PredictionInv`: a pending
prediction was made in the iteration before. `KilledTailsAreRefused` combines
it with the order of the verifications, which makes the comparison of an
iteration number with a list position err only on the safe side.

### CanonicalHarness_proofs

`SwapsAreEarned` has `EarnedInv`: who is in `_promote` has earned it, and the
steps of others leave its scores and call alone (`StepsAreLocal`).
`NothingEverLost` has `SwapInv`: without a clash at most one process is past
its archive step, and what it overwrites is archived, so that a torn file never
is the only copy. `AcceptedIsSwapped` has `LedgerInv` on top of it: an accepted
call that waits for its ledger line has swapped.

### SandboxExecution_proofs

`SandboxLeaksNothing`: all of `NothingLeaks`, for any number of executions,
pools, ids and kinds of programs. A VM's number is taken only if it is unknown
to the pool (`PoolsKept`), so a stack without duplicates stays one when VMs are
pushed, and what is popped is in no other set. While a pool warms it holds no
more VMs than it has attempted, which is where `PoolAccounted` starts; `acquire`
and `release` keep the sum, except past a deadline, where `overdue` grows with
it. The program of an execution has exited wherever its `pc` says so (`RunKept`).

### MCBus_proofs

The invariants are implications from `machine`, joined in `IInv`: each machine
keeps its own and leaves the others' premise false.

*Subscriber.* `TailInv` says where the poll stands in the file. What lies before
the offset, in one piece and behind a newline, has been dispatched
(`DispatchedBefore`). While it reads, an event that came after the size was read
(`late`) was dispatched by this poll at most, and lines ahead of the offset once
less than they may be (`Reading`); between polls, the same holds of what lies
behind the recorded size (`Sleeping`). `NothingMissedNothingThrice` is
`DispatchSound`, for any events and writers.

*Daemon.* `LineInHand` (the line that is handled is the one at the offset),
`ReportsBehind` (reports are about requests that lie behind), `Counting` (what
a cycle has counted are its own events, or nothing) and `Merging` (what is about
to be written keeps the limits that were read, if they could be) give
`RequestsAnsweredOnce`, for any script, crashes and restarts included.

### MCCalls_proofs

Each machine has its invariant, one section each. The constants the run fixes
(answers, replies, budgets, contents, retries) are free in the theorems, under
`CallsAssumption`: the conditions `Valid...` of the machines.

- `GateNeverLeaks`: the gate counts the callers between submission and release
  (`Balanced`); what a poll has passed is not its own unless others crowded it
  out of the part it scans, and what it found is (`Answered`).
- `SwapsAreAttributed` by `SwapInv`: a kernel that was alone since its write
  finds its own function in the file, and once the engine has read that, no
  newer timing is of another function: one that is `heard`, timed while the
  kernel waits, is its own; parts of the file outside of the function
  change only where writes overlapped or a writer died (`damaged`).
- `VerifiedIsRenamed` by `RenameInv`: from the second step on, no residue means
  none where the tool of the scope looks; from the third, no drift means that
  the rename undone, in names that are made of the new one as well, gives the
  old file.
- `OvershootIsBounded` by `BudgetInv`. The guard's stamps are pruned, what was
  really finished is not. `Follows` relates the two: of each moment within the
  window, they hold equally many. `Room` counts those who are calling with
  those who finished: whoever was let in found a place for himself, so at most
  the others came in addition. `Warned`: the stamps reach the cap only after
  each threshold has fired.
- `ModelsAreBounded` by `WorkerInv` (`Paid`: the posts are the attempts at this
  model and, at the second one, all the first may get) and `ImproverInv`
  (`Affordable`: the same along both fallbacks for a `TypeError`; `Agreed`: a
  vote has in each field what more than half of the answers say).
- `VerdictsAreReported` by `EvaluatorInv`: calls count attempts (`Counted`),
  what is announced are attempts that were made, each once and in order
  (`Attempted`, `InTurn`; one whose generation raises is not announced), the record of a case is what its last event said (`LastSaid`), and
  votes that were counted never change, so the later summary agrees with the
  consensus (`Ballot`, `Agrees`).
- `CurriculumKeepsItsRows` by `CurriculumInv`: the judge's stamps follow its
  calls (`Guarded`, by the lemma of the guards); a row that was parsed is kept
  or told (`Accounted`); of two saves that overlap, each knows (`Overlaps`); and
  a save that is alone has copied every shard that is not on its list
  (`Copied`). Deaths, failed writes and manifests of others leave all four.
- `WhatIsPushedIsThere` by `PublishInv`: what is left to publish is the rest of
  the list after the answers so far, the vault has exactly the posts of this task
  that were stored (`Stored`, since tasks are numbered), what is told of are the
  answered ones in their order (`PushesTold`), and an entry's id is within the
  index before anyone hears of it (`Indexed`). One more answer keeps all of it
  (`OneMore`), whichever program publishes.
- `ModelsAreRanked` by `ModelsInv`: an alias is only made of a name with a client
  and clients are never removed (`Registered`); a model stands in the results
  once (`Swept`); ranks are none while a sweep runs and else those of its results
  (`Standing`). `Sorted` says what a stable sort does to places, by counting, and
  `MedianRises` that scores which are better one by one have a better median.

### MCEvolution_proofs

The machines of `MCEvolution`, one section each, with an invariant each. The
constants the run fixes are free in the theorems, under `EvolutionAssumption`.

- `SnapshotsLoseNothing` by `EventsInv`: what was told of and what is tallied
  since is the log (`EventsAccounted`), and the sampling counter of a channel is
  its log (`sampled`). `_publish` then forwards as many of n more events as
  there are multiples of the rate among the next n numbers, and by
  `MultiplesAdd` these are the difference of two quotients, for every rate.
- `RoundsAreAccounted` by `RoundInv`: between two cases there is a verdict for
  each case before this one, and the counts and the traps are the tallies of
  the verdicts and of the aims so far (`TallyIsBag`, `CountedOnce`: one more
  element adds one to its own count and nothing to others). An evaluator that
  raises gives its cases back as well.
- `TheBestIsReturned` by `TspInv`. Populations are sorted (`Sorted`), which
  `Inserted` keeps and the trimming needs: the head stays. Some island has the
  best program ever measured at its head (`TspSearch`), and outside a generation
  the bests are the heads (`TopsAreHeads`). `BestIsKept` is the reason that a
  reset cannot lose it: of the islands that hold the best, the last one has all
  others before it in the order by which islands are culled, and fewer are
  culled than there are. With the stale bests of the middle of a generation
  this would be false. There is a best program from the start, and `TspTold`
  has an entry for each generation judged, whatever it found.
- `TrapsFollowFailures` by `PopulationInv`. Failure modes are ranked by how many
  modes are sooner, which is one after the other without a gap (`Ranks`), so
  `Mined` lists exactly the modes met (`ModesAre`). The traps go through that
  list turn by turn, and after any number of traps no mode is ahead of another by
  more than one (`TurnsAreEven`). Positions are distinct, so traps and curveballs
  are as many (`MixIsSound`). A list of the last edits of those before an
  advocate stays one when an advocate without a history joins (`EditsStay`) and
  grows by one otherwise (`EditsGrow`). It is assumed that a case of the corpus
  is no curveball and that `None` is no failure mode.
- `WhatIsLearntStays` by `MemoryInv`: every program in the pool has the score of
  its lap, of its style and of this run's bar, and the part of the lap falls
  with the lap (`ScoreFollowsLap`, integer division included), so that a slower
  program can lead by no more than its style; of the lines written, those
  that do not parse are at most one per crash and one more that a torn end will
  cost (`Cardinality(Parsed(file))`). What is loaded has each program once, in
  the order of the file (`PlacesCounted`, `LoadedTellsAll`).
- `FiguresAreHonest`, one invariant for each of three machines. Sums over a
  sequence are recursive functions; that these are what their steps say follows
  from `Inductive` (a set of numbers that has 0 and the successors of its
  members is all of them, which is the least counterexample said the other way)
  and `Iterated` (a function that is defined step by step exists).
  `ScoresInv`: scores are the utilities of their runs, the runs the checkpoint
  has seen are worth no more than the best, and `UtilityRises`: what is no worse
  in anything is worth no less under any of the weights that there are.
  `NoVarianceNoChange` is why only changes that are all the same have no spread,
  which `ReasonTells` needs: n times the sum of squares less the square of the
  sum grows with each number by squares, and is 0 only where all are equal.
  `DomainsInv`: all advocates of a cycle are measured in the same domains and
  weighed by the same registry, so two aggregates have the same denominator
  (`SumsExceed`), and each is a mean of its scores (`MeansAre`).
  `SweepInv`: the trajectories of all detectors with the same number are cuts of
  the same scores, each at its first flat point (`Cut`); a looser detector is
  flat wherever a stricter one is (`LooserCutsEarlier`), and a `Walk` in steps
  below the threshold stays as near as the threshold allows.
- `ReplayIsFaithful` by `ReplayInv`, which says of each session what the file
  must remember of it if none of its events is lost. `HarnessAt` reads the file
  event by event, and an event of another session, of another kind or behind the
  first iteration that is not earlier leaves what was read as it is (`Rebuilt`).
  So the invariant need not speak of the whole file: `Recalls` says that what is
  rebuilt for an iteration not yet begun is the harness the loop holds now, and
  that from the first completion of the iteration on it is closed (`over`), which
  keeps a second lineage, whose iterations have the same numbers, from being
  read into the first. The event an iteration leaves is written when it is over,
  with the harness already changed; that deltas tell all of that change is
  `Honest`, and it fails exactly where `marred` or `flips` says so. `Current`
  says that the last iteration event of a session in its cases is the one it is
  in, without which a verdict would be counted for another iteration;
  `Attributed` compares the last verdict in the file for a case with the last
  given, and `Scored` the score with the verdicts it counts. `Untouched` and the
  lemmas on `Grown` are the interleaving: what one session appends changes none
  of this for another, at whatever place the pipe of either breaks.

What the theorems of these two modules add to the runs is the number of callers,
retries, cases, judges, jobs, processes, islands, episodes and crashes, and the
order of the cap, the margin and the window, of which a run has one of each.

### Only model-checked

Liveness, which is out of the prover's reach: `EveryGoalGetsATurn`, `Returns`,
`Delivered`, `EveryLineAnswered`, both `Terminates`, and the liveness of
`KeepsPromise`. `FasterIsNotWorse` is a claim that does not hold.

`ReportsSound` leans on what selecting and sorting a sequence gives, about which
the prover has no facts; the reports would have to be said by counting or by
recursive functions first, as `ScoreKeeping!SumOf` and `SessionReplay!HarnessAt`
are.

---

## 5. Where code and documentation disagree

Shown by a run:

| Run | Claim | What the code does |
|---|---|---|
| `improve_refuted` | `ahe.py:376` refuted iff unachievable | attempts are counted as cases, and a verdict without prior occurrence has rate 0 |
| `canonical_twice` | `invalidation.py:123` a scope seen before is invalidated | scopes are only recorded if they are in the store, which nothing fills |
| `slower_scores_higher` | `engine.py:1183` cost and time are normalized such that 1.0 is the cheapest and fastest | `score_harness` turns the time round that `_run_case` has turned round already: the slower of two runs has the higher utility, and under the default weights a case without a program counts as perfectly fast |

Met while modelling, without a run of their own:

- *Greenhouse.* A goal in a valid domain without exporter never gets a drop,
  keeps the least key, and is chosen for ever, against `cycle.py:76`
  (`EveryGoalGetsATurn` is checked where every goal is exportable). A run's
  requests are stamped with the start of its cycle, so a real window can hold
  more than `ledger.py:60` promises (`RealSpendBounded` is what does hold). A
  kill before the ledger line loses the spend (`lost`). The domain `oasis` is
  valid but has no registered kernel: the exception leaves without the
  heartbeat of `cycle.py:8-9`.
- *Island kernel.* A culled island keeps its plateau count, and the global
  plateau resets specialised islands too, so an island need not get the full
  plateau budget of `base.py:559`. Hint calls are not counted, so real requests
  can exceed `max_requests` by the hints. With a single island a reset culls it,
  and with a single slot migration replaces a fresh best: the best program is
  lost. Specialised islands are ranked although their fitnesses are of
  different instances. Migration also runs at the generation of a reset, other
  than the comment at `base.py:488` suggests. An artifact is saved only for
  gains above `plateau_epsilon`, while `base.py:876` says it is for every new
  best. Events after the last snapshot are never summarised.
- *TSP kernel.* When every baseline fails, a program of fitness 0 is told of as
  the best. Its own `__init__` sets none of the fields of mute, sampling
  and snapshots, so these knobs do nothing. The plateau counts of its islands
  are never advanced; `migrate` is never called; with one island a reset throws
  the best away, and the completed event reports a worse one. A result file in a
  directory of the day is overwritten by the next run with as many generations.
- *RSI.* A session promotes the version written *after* the last evaluation,
  on the score of the version before it, against `continuous.py:4`.
  `_derive_ahe_outcome` compares an iteration with a list position, so a
  prediction that was killed before the last verified one can still make the
  outcome `refuted_live`, against `population.py:611`; the error is on the safe
  side. Predictions that claim no verdicts are never refuted live. An advocate
  whose `improve()` raised keeps its initial harness and is ranked by the best
  score of its history, and the winner's `final_harness` need not be the one of
  `best_iter`. Exceptions leave `improve()` without `rsi.completed`
  (`loop.py:259`). The plateau test of the first iteration compares with 0.0.
  `rsi/loop.py` imports `.failure_pattern` from `rsi/`, where it is not: the
  detection never runs. `improve_harness` divides by zero without cases.
- *Canonical harness.* `_promote` swallows exceptions, so a call whose swap
  failed is recorded as accepted and emits `bench_completed`, though the
  comment at `continuous.py:552` says that it is only emitted when the swap
  happened; the fallback to `staged` at 525 is unreachable
  (`test_forge_handshake.py` reaches it with a `_promote` that raises).
  Promoters that overlap can lose an update. A result that was rejected can be
  accepted by a later call: nothing reads the ledger. The daemon asks the rate
  budget but records nothing in it. `_last_canonical_score` is the score of the
  last session, promoted or not.
- *Sandbox.* The Firecracker path calls `fc_vm.run`, which `FirecrackerVM` does
  not have: every such execution falls back to the subprocess and leaves its VM
  acquired, and the next ones wait out the deadline and grow the pool past its
  size (`overdue`). A program that does not read its stdin, or that leaves a
  process behind with stdout open, stops the evaluator past every limit.
- *Bus and trigger daemon.* Lines that are appended while the file is read are
  dispatched twice; a line read while it is written is lost, and the one that
  tore it too. A request that comes while the daemon is down is never handled;
  only cycles that succeed count as handled runs. Any required domain that fails
  to load ends the cycles of every domain (`trigger_daemon.py:719`). The pause
  flag lives in the process and no cycle reads it. A config that cannot be read
  is taken for one without limits, and the next command, a pause too, writes
  that over it.
- *Model calls.* A `TypeError` from inside an improver repeats the paid call,
  and one from an unhashable budget repeats the whole ensemble. A text that
  cannot be parsed is reported as `fell_back_to_rule_based` although no rule is
  applied. The wrappers sleep after the last attempt as well. The delta of a
  vote may belong to none of the harnesses. `autobench.llm_improver`, which the
  Anthropic wrapper imports, is missing.
- *Guards and GPU.* `CompositeBudgetGuard.halt` checks again and may raise the
  other guard's exception. The last heartbeat of a dead engine keeps deferring
  jobs, since it has no age; a gate made for every call never applies its
  quota; the poll does not look once more at its deadline; a slot is freed on a
  timeout while the engine still has the job; `rollout_eval` returns 0.0 where
  its doc says (0, 1].
- *Evaluator and scores.* A case with no expected output passes when its
  program runs, where the multi-file documentation says "simply score 0".
  `budget_exhausted` holds exactly when no wall-time budget is set; `improving`
  needs exactly equal gains, and a first jump is always `plateau_detected`. The
  loop calls `run` without the iteration, so the events of adapted weights say 0.
- *Corpus.* The calls of the generator, and judge calls that failed, are not
  counted; a torn shard spoils the cache of the day; cycles that start in one
  second overwrite each other's shard; overlapping saves leave rows out of the
  file of the day until the next save; a hit on an empty cache returns nothing.
- *Population.* The trigger daemon passes no `prior_result`, so its traps are
  never aimed at what failed. A static trap for an unknown mode is one for
  integer overflow under the other label. The aggregate joins the primary score
  of the best iteration with the other domains' scores of the *final* harness.
  The weights of `_cross_domain_event` are zeros when no domain has a weight,
  though the aggregate is then a plain mean.
- *Replay.* Rule-based edits are not told in their delta (`loop.py:816`, `:844`,
  `:849`), so the replay rebuilds another harness without the warning that
  `replay.py:253` promises. Reverts of the checkpoint are ignored. Advocates
  share one session id, so iteration numbers repeat; events that went down the
  pipe are not in the file.
- *Reports.* All sessions of a daemon share one id, so the digest mixes them,
  and its sort raises a `TypeError` when two rows of one number have different
  verdicts (`continuous.py:1123`), although `continuous_README.md:59` has it
  printed and written. Confident wrong predictions are looked for on the wrong
  level of the event (`:1008`) and never found, against
  `continuous_README.md:37`; for the same reason a verified prediction stays
  unverified for the audit (`claims_audit.py:371`). The distillation of a cycle
  reads the whole file, other cycles included, although its docstring says that
  it filters by session. `_eval_aggregate_vs_best` always passes. The watch mode
  reads what it wrote and runs for ever when the pipe is off.
- *Rename verifier.* With the fallback, a name made of the old symbol may follow
  the rename or stay. `tokenize.TokenizeError` does not exist; an ast-grep that
  failed counts as no residue; the fallback counts a renamed keyword argument
  as drift and overlooks a residue that is only imported.
- *Shader and publishers.* A timing may be older than the splice, of another
  kernel's function, or of the whole frame. A writer that dies between the
  truncation and the write leaves a file without markers, into which nothing can
  be spliced until it is checked out again; overlapping writes leave a tail that
  later ones preserve. The index holds shaders that nothing has validated, and `publish_evolved_kernels`
  looks for what is left of C, not for arrays, which WebGL refuses. A
  POST whose answer is lost counts as an incompatible program; `top_n = 0`
  pushes one; an exception among the evolved kernels leaves the earlier ones
  posted, and the next run posts them again.
- *Simulation and models.* The sweep's best detector is always as good as the
  loosest; its mean trajectory averages only those that go on; the noise floor
  is of the last five points, even while the score rises. The default key of
  `top_k` is no field of a score, so it keeps the order of the sweep; an alias
  shadows an id that is registered later under its name.

---

## 6. What is not modelled

Numbers inside the domain kernels' oracles (fields, renders, spectra), prompts
and the wording of LLM answers, event payloads that nothing reads, command
lines, HTTP, image similarity and rendering: pure I/O or data that no property
distinguishes. Within the modelled components: the validators' reasons in
`export.py` and `goals.py`, exemplar sampling, the fingerprints of predictions,
the pacing times of the daemon and what `stats.jsonl` holds, the vsock protocol
of the microVMs (which no execution reaches), the Redis listener of the trigger
daemon, the transpiler of the shader bridge, `calibrate_ensemble_size` and the
compute shaders of the evaluator. The Zellij pipe, Redis, the engine, the vault
and the models are external: what they answer is a choice. `PROJECT.json` gives
the reason for each component.

The other domain kernels (`sdf_kernel`, `noise_kernel`, `terrain_kernel`, ...)
supply an oracle and prompts to `FunSearchKernel` and keep its control, which is
`IslandKernel`; a model of each would repeat it. The batch jobs of `evaluation/`
(the scraper, the noise floor) and the one-shot reports of `audit/` have neither
shared state nor order that could go wrong.

---

## 7. The plan

Done: the loops (`GreenhouseCycle`, `IslandKernel` with `KernelRun`,
`SelfImprovement`, `CanonicalHarness`), the sandbox, the bus, the calls and the
machines of `evolution` that count or search, with their proofs, and what else
surrounds the loops, model-checked.

Next, in order:

1. The proof of `ReportsSound`. What it takes from `SequencesExt` and `Folds` has
   to be said by counting first, as `RunMemory!Nth` and `PopulationCycle!Mined`
   do.
2. Liveness of `Curriculum` and `CaseEvaluation` under the fairness of their
   threads, which needs a run of their own.
3. Two executors in one process with pools of two, when the run may be longer.
