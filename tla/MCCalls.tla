-------------------------------- MODULE MCCalls -------------------------------
(***************************************************************************)
(* Calls of models, of the sandbox, of the GPU and of other tools, one     *)
(* machine in each behaviour: the worker, the improvers, the evaluator of  *)
(* the cases, the callers of a budget guard, the evaluations that wait for *)
(* the GPU, the curriculum, the check of a rename, the kernels that swap   *)
(* functions of one shader, the publishers of programs, or the models of a *)
(* benchmark.  They share no state; the variables with the same name       *)
(* belong to the machine that runs.                                        *)
(***************************************************************************)
EXTENDS Naturals, Sequences, FiniteSets

CONSTANTS
    None,
    MaxRetries, Rates, History, Debounce, MaxTime, MaxCalls,             \* worker
    Instances, Prompts, Protocols, Budgets, Unhashable, RuleBased, Strategies,
    MaxRequests, SafetyMargin, WindowSeconds, Callers, MaxCost, MaxWallTime,
    Cases, Executions, ShaderRuns, Protocol, Judges, Opinions,           \* evaluator
    Islands, IslandOf, Threshold, Quota, Scan, MaxJobs, Others,          \* GPU
    Procs, N, Raised, Garbled, MaxCycles, MaxCrashes, MaxSeconds, Generated,   \* curriculum
    JudgeReplies, JudgeRequests, JudgeMargin, JudgeWindow, MaxGenerated,
    Contents, Texts, Old, New, Broken, Missing,                          \* renames
    Kernels, Codes, Blank, Stub, Shapes, MaxScores,                      \* shader
    Programs, Evolved, TopN, Validator, NervousBin, MaxTasks,            \* publishers
    ModelNames, Clients, Provided, ModelScores, ModelProblems, ModelLists, \* models
    MaxOps, MaxSweeps

VARIABLES
    machine, clock, pc, attempt, posts, calls, results, stamps, made, score,
    crashes, todo,
    model, timeouts, result, lastUsage, told, tally, first, baseline,
    pressure, call,
    strategy, arm, tries, pairs, outcome,
    case, feedback, per, current, votes, joined, counted, usage, events,
    rateFired, cost, costFired, halted, caller, finished,
    shared, job, seen, inFlight, heartbeat, queue, minted,
    daily, proc, cycle, judged, shards, rollup, returned, cycles,
    check, was, now, wasText, nowText, compare, scopeTool, residual, drift,
    passed, verdict, blamed,
    shader, running, newest, step, code, text, alone, heard, damaged,
    task, next, list, entry, index, logged, sent, vault, pushed, answers,
    status, tasks,
    clients, order, aliases, group, asked, ranks, ops, sweeps
-----------------------------------------------------------------------------
(* Every evaluation is of the same island.                                 *)
TheIslandOf == [c \in Callers |-> CHOOSE i \in Islands : TRUE]

(* An answer with two problems, a row that is rejected and a blank one, or *)
(* nothing to parse; a judge that raises, agrees or refuses.               *)
TheAnswers ==
    {Raised, Garbled, <<"good", "missing_required_keys", "blank", "good">>}

Reply(matches, same) ==
    [solvable |-> TRUE, matches |-> matches, same |-> same, skillsValid |-> TRUE,
     disjoint |-> FALSE]

TheReplies == {Raised, Reply(TRUE, TRUE), Reply(FALSE, FALSE)}

(* A shader and a case with two inputs, a program that works, one that is  *)
(* wrong and one that the sandbox kills for its memory.                    *)
TheCases == <<[inputs |-> 0, glsl |-> TRUE, expects |-> FALSE],
              [inputs |-> 2, glsl |-> FALSE, expects |-> TRUE]>>

Done(ok, err, out) == [ok |-> ok, err |-> err, out |-> out, late |-> FALSE]

TheExecutions == {Done(TRUE, {}, "equal"), Done(TRUE, {}, "different"),
                  Done(FALSE, {"rss"}, "empty")}

TheShaderRuns == {[valid |-> TRUE, backend |-> TRUE, link |-> TRUE, late |-> FALSE,
                   reference |-> TRUE, ssim |-> s] : s \in {"match", "near"}}

(* What a Python file may hold.                                            *)
Symbol(name) == [of |-> name, whole |-> TRUE]
Compound(name) == [of |-> name, whole |-> FALSE]

TheContents ==
    [bound : {Symbol("old"), Symbol("new"), Symbol("other"), Compound("old"),
              Compound("new")},
     imported : {Symbol("old"), Symbol("new"), Compound("old")},
     keyword : {Symbol("old"), Symbol("new")}]

(* A program that can be published, one that the validator refuses, one of *)
(* another kernel, and one with static arrays, which no shader has: C is   *)
(* left in the second only.                                                *)
Program(kernel, compatible, valid, clean) ==
    [kernel |-> kernel, compatible |-> compatible, valid |-> valid, clean |-> clean]

ThePrograms ==
    [p \in {"a", "b", "c", "d"} |->
        CASE p = "a" -> Program("sdf", TRUE, TRUE, TRUE)
          [] p = "b" -> Program("sdf", TRUE, FALSE, FALSE)
          [] p = "c" -> Program("oasis", TRUE, TRUE, TRUE)
          [] p = "d" -> Program("sdf", FALSE, FALSE, TRUE)]

(* Result files that can all be published, and some of which one cannot.   *)
TheEvolved == {<<"a", "c", "d">>, <<"c", "b", "d">>}

(* A sweep of two models, not in the order in which they are registered.   *)
TheLists == {<<"n", "m">>}

Worker == INSTANCE WorkerCalls
Improver == INSTANCE ImproverCalls
Evaluator == INSTANCE CaseEvaluation
Budget == INSTANCE BudgetCalls
Jobs == INSTANCE GpuJobs
Curriculum ==
    INSTANCE Curriculum WITH
        MaxRequests <- JudgeRequests, SafetyMargin <- JudgeMargin,
        WindowSeconds <- JudgeWindow, MaxTime <- MaxSeconds, MaxAttempts <- MaxGenerated,
        Answers <- Generated, Replies <- JudgeReplies
Rename == INSTANCE RenameVerifier
HotSwap == INSTANCE ShaderHotSwap
Publish == INSTANCE ArtifactPublish
Models ==
    INSTANCE ModelSweep WITH
        Names <- ModelNames, Scores <- ModelScores, Problems <- ModelProblems,
        Lists <- ModelLists

ASSUME CallsAssumption ==
    /\ Worker!ValidWorker /\ Improver!ValidImprover /\ Evaluator!ValidEvaluation
    /\ Budget!ValidRate /\ Budget!ValidBudgetCalls /\ Jobs!ValidJobs
    /\ Curriculum!ValidRate /\ Curriculum!ValidCurriculum /\ Rename!ValidRename
    /\ HotSwap!ValidSwap /\ Publish!ValidPublish /\ Models!ValidModels
-----------------------------------------------------------------------------
workerOnly ==
    <<model, timeouts, result, lastUsage, told, tally, first, baseline,
      pressure, call>>

improverOnly == <<strategy, arm, tries, pairs, outcome>>

evaluatorOnly ==
    <<case, feedback, per, current, votes, joined, counted, usage, events>>

budgetOnly == <<rateFired, cost, costFired, halted, caller, finished>>

gpuOnly == <<shared, job, seen, inFlight, heartbeat, queue, minted>>

curriculumOnly ==
    <<daily, proc, cycle, judged, shards, rollup, returned, cycles>>

renameOnly ==
    <<check, was, now, wasText, nowText, compare, scopeTool, residual, drift,
      passed, verdict, blamed>>

shaderOnly ==
    <<shader, running, newest, step, code, text, alone, heard, damaged>>

publishOnly ==
    <<task, next, list, entry, index, logged, sent, vault, pushed, answers,
      status, tasks>>

modelsOnly == <<clients, order, aliases, group, asked, ranks, ops, sweeps>>

NoWorker ==
    /\ model = None /\ timeouts = None /\ result = None /\ lastUsage = None
    /\ told = None /\ tally = None /\ first = None /\ baseline = None
    /\ pressure = None /\ call = None

NoImprover ==
    /\ strategy = None /\ arm = None /\ tries = None /\ pairs = None
    /\ outcome = None

NoEvaluator ==
    /\ case = None /\ feedback = None /\ per = None /\ current = None
    /\ votes = None /\ joined = None /\ counted = None /\ usage = None
    /\ events = None

NoBudget ==
    /\ rateFired = None /\ cost = None /\ costFired = None /\ halted = None
    /\ caller = None /\ finished = None

NoGpu ==
    /\ shared = None /\ job = None /\ seen = None /\ inFlight = None
    /\ heartbeat = None /\ queue = None /\ minted = None

NoCurriculum ==
    /\ daily = None /\ proc = None /\ cycle = None /\ judged = None
    /\ shards = None /\ rollup = None /\ returned = None /\ cycles = None

NoRename ==
    /\ check = None /\ was = None /\ now = None /\ wasText = None
    /\ nowText = None /\ compare = None /\ scopeTool = None /\ residual = None
    /\ drift = None /\ passed = None /\ verdict = None /\ blamed = None

NoShader ==
    /\ shader = None /\ running = None /\ newest = None /\ step = None
    /\ code = None /\ text = None /\ alone = None /\ heard = None
    /\ damaged = None

NoPublish ==
    /\ task = None /\ next = None /\ list = None /\ entry = None
    /\ index = None /\ logged = None /\ sent = None /\ vault = None
    /\ pushed = None /\ answers = None /\ status = None /\ tasks = None

NoModels ==
    /\ clients = None /\ order = None /\ aliases = None /\ group = None
    /\ asked = None /\ ranks = None /\ ops = None /\ sweeps = None

Init ==
    \/ /\ machine = "worker" /\ Worker!Init /\ NoImprover /\ NoEvaluator
       /\ NoBudget /\ NoGpu /\ NoCurriculum /\ NoRename /\ NoShader
       /\ NoPublish /\ NoModels /\ calls = None /\ results = None
       /\ stamps = None /\ made = None /\ score = None /\ crashes = None
       /\ todo = None
    \/ /\ machine = "improver" /\ Improver!Init /\ NoWorker /\ NoEvaluator
       /\ NoBudget /\ NoGpu /\ NoCurriculum /\ NoRename /\ NoShader
       /\ NoPublish /\ NoModels /\ clock = None /\ results = None
       /\ stamps = None /\ made = None /\ score = None /\ crashes = None
       /\ todo = None
    \/ /\ machine = "evaluator" /\ Evaluator!Init /\ NoWorker /\ NoImprover
       /\ NoBudget /\ NoGpu /\ NoCurriculum /\ NoRename /\ NoShader
       /\ NoPublish /\ NoModels /\ clock = None /\ posts = None
       /\ stamps = None /\ made = None /\ score = None /\ crashes = None
       /\ todo = None
    \/ /\ machine = "budget" /\ Budget!Init /\ NoWorker /\ NoImprover
       /\ NoEvaluator /\ NoGpu /\ NoCurriculum /\ NoRename /\ NoShader
       /\ NoPublish /\ NoModels /\ pc = None /\ attempt = None /\ posts = None
       /\ calls = None /\ results = None /\ score = None /\ crashes = None
       /\ todo = None
    \/ /\ machine = "gpu" /\ Jobs!Init /\ NoWorker /\ NoImprover /\ NoEvaluator
       /\ NoBudget /\ NoCurriculum /\ NoRename /\ NoShader /\ NoPublish
       /\ NoModels /\ clock = None /\ attempt = None /\ posts = None
       /\ calls = None /\ stamps = None /\ made = None /\ crashes = None
       /\ todo = None
    \/ /\ machine = "curriculum" /\ Curriculum!Init /\ NoWorker /\ NoImprover
       /\ NoEvaluator /\ NoBudget /\ NoGpu /\ NoRename /\ NoShader /\ NoPublish
       /\ NoModels /\ pc = None /\ attempt = None /\ posts = None
       /\ calls = None /\ results = None /\ made = None /\ score = None
       /\ todo = None
    \/ /\ machine = "rename" /\ Rename!Init /\ NoWorker /\ NoImprover
       /\ NoEvaluator /\ NoBudget /\ NoGpu /\ NoCurriculum /\ NoShader
       /\ NoPublish /\ NoModels /\ clock = None /\ pc = None /\ attempt = None
       /\ posts = None /\ calls = None /\ results = None /\ stamps = None
       /\ made = None /\ score = None /\ crashes = None /\ todo = None
    \/ /\ machine = "shader" /\ HotSwap!Init /\ NoWorker /\ NoImprover
       /\ NoEvaluator /\ NoBudget /\ NoGpu /\ NoCurriculum /\ NoRename
       /\ NoPublish /\ NoModels /\ clock = None /\ pc = None /\ attempt = None
       /\ posts = None /\ calls = None /\ results = None /\ stamps = None
       /\ todo = None
    \/ /\ machine = "publish" /\ Publish!Init /\ NoWorker /\ NoImprover
       /\ NoEvaluator /\ NoBudget /\ NoGpu /\ NoCurriculum /\ NoRename
       /\ NoShader /\ NoModels /\ clock = None /\ pc = None /\ attempt = None
       /\ posts = None /\ calls = None /\ results = None /\ stamps = None
       /\ made = None /\ score = None /\ crashes = None
    \/ /\ machine = "models" /\ Models!Init /\ NoWorker /\ NoImprover
       /\ NoEvaluator /\ NoBudget /\ NoGpu /\ NoCurriculum /\ NoRename
       /\ NoShader /\ NoPublish /\ clock = None /\ pc = None /\ attempt = None
       /\ posts = None /\ calls = None /\ stamps = None /\ made = None
       /\ score = None /\ crashes = None

BesideWorker ==
    <<machine, calls, results, stamps, made, score, crashes, todo,
      improverOnly, evaluatorOnly, budgetOnly, gpuOnly, curriculumOnly,
      renameOnly, shaderOnly, publishOnly, modelsOnly>>

WorkerNext == machine = "worker" /\ Worker!Next /\ UNCHANGED BesideWorker

BesideImprover ==
    <<machine, clock, results, stamps, made, score, crashes, todo, workerOnly,
      evaluatorOnly, budgetOnly, gpuOnly, curriculumOnly, renameOnly,
      shaderOnly, publishOnly, modelsOnly>>

ImproverNext == machine = "improver" /\ Improver!Next /\ UNCHANGED BesideImprover

BesideEvaluator ==
    <<machine, clock, posts, stamps, made, score, crashes, todo, workerOnly,
      improverOnly, budgetOnly, gpuOnly, curriculumOnly, renameOnly,
      shaderOnly, publishOnly, modelsOnly>>

EvaluatorNext == machine = "evaluator" /\ Evaluator!Next /\ UNCHANGED BesideEvaluator

BesideBudget ==
    <<machine, pc, attempt, posts, calls, results, score, crashes, todo,
      workerOnly, improverOnly, evaluatorOnly, gpuOnly, curriculumOnly,
      renameOnly, shaderOnly, publishOnly, modelsOnly>>

BudgetNext == machine = "budget" /\ Budget!Next /\ UNCHANGED BesideBudget

BesideGpu ==
    <<machine, clock, attempt, posts, calls, stamps, made, crashes, todo,
      workerOnly, improverOnly, evaluatorOnly, budgetOnly, curriculumOnly,
      renameOnly, shaderOnly, publishOnly, modelsOnly>>

GpuNext == machine = "gpu" /\ Jobs!Next /\ UNCHANGED BesideGpu

BesideCurriculum ==
    <<machine, pc, attempt, posts, calls, results, made, score, todo,
      workerOnly, improverOnly, evaluatorOnly, budgetOnly, gpuOnly,
      renameOnly, shaderOnly, publishOnly, modelsOnly>>

CurriculumNext == machine = "curriculum" /\ Curriculum!Next /\ UNCHANGED BesideCurriculum

BesideRename ==
    <<machine, clock, pc, attempt, posts, calls, results, stamps, made, score,
      crashes, todo, workerOnly, improverOnly, evaluatorOnly, budgetOnly,
      gpuOnly, curriculumOnly, shaderOnly, publishOnly, modelsOnly>>

RenameNext == machine = "rename" /\ Rename!Next /\ UNCHANGED BesideRename

BesideShader ==
    <<machine, clock, pc, attempt, posts, calls, results, stamps, todo,
      workerOnly, improverOnly, evaluatorOnly, budgetOnly, gpuOnly,
      curriculumOnly, renameOnly, publishOnly, modelsOnly>>

ShaderNext == machine = "shader" /\ HotSwap!Next /\ UNCHANGED BesideShader

BesidePublish ==
    <<machine, clock, pc, attempt, posts, calls, results, stamps, made, score,
      crashes, workerOnly, improverOnly, evaluatorOnly, budgetOnly, gpuOnly,
      curriculumOnly, renameOnly, shaderOnly, modelsOnly>>

PublishNext == machine = "publish" /\ Publish!Next /\ UNCHANGED BesidePublish

BesideModels ==
    <<machine, clock, pc, attempt, posts, calls, stamps, made, score, crashes,
      workerOnly, improverOnly, evaluatorOnly, budgetOnly, gpuOnly,
      curriculumOnly, renameOnly, shaderOnly, publishOnly>>

ModelsNext == machine = "models" /\ Models!Next /\ UNCHANGED BesideModels

Next ==
    \/ WorkerNext \/ ImproverNext \/ EvaluatorNext \/ BudgetNext \/ GpuNext
    \/ CurriculumNext \/ RenameNext \/ ShaderNext \/ PublishNext \/ ModelsNext

vars ==
    <<machine, clock, pc, attempt, posts, calls, results, stamps, made, score,
      crashes, todo, workerOnly, improverOnly, evaluatorOnly, budgetOnly,
      gpuOnly, curriculumOnly, renameOnly, shaderOnly, publishOnly, modelsOnly>>

Spec == Init /\ [][Next]_vars
-----------------------------------------------------------------------------
(* A call of the worker, and an improvement, are paid with a bounded       *)
(* number of posts, whatever the models answer; the worker's pressure      *)
(* events keep their distance; and what the majority of the improvers      *)
(* agree on is what the loop gets (llm/worker.py, ensemble.py, minimax.py, *)
(* rsi/loop.py).                                                           *)
ModelCallsSound ==
    /\ machine = "worker" =>
        Worker!TypeOK /\ Worker!PostsBounded /\ Worker!PressurePaced
    /\ machine = "improver" =>
        Improver!TypeOK /\ Improver!PostsBounded /\ Improver!MajorityRules

(* A case passes if all of its inputs do; its events are in the order of   *)
(* its attempts, nothing follows a pass, and what is recorded is what the  *)
(* last one said, or that a program could not be generated; and what is    *)
(* published of a pool of judges agrees with itself although they vote     *)
(* while it is put together (evaluator/engine.py).                         *)
EvaluatorSound ==
    machine = "evaluator" =>
        /\ Evaluator!TypeOK /\ Evaluator!PassMeansAll
        /\ Evaluator!AttemptsReported /\ Evaluator!PoolAgrees

(* Callers that are let in together pass the rate cap together, but by no  *)
(* more than one call for each of the others; and nobody is refused before *)
(* the thresholds are announced (audit/budget_guard.py).                   *)
GuardsSound ==
    machine = "budget" =>
        Budget!TypeOK /\ Budget!OvershootBounded /\ Budget!RefusedAfterWarning

(* The slots of the admission gate are the calls that wait, and a call is  *)
(* scored by its own job's result, which it misses only when it comes too  *)
(* late or others crowd it out (bus/gpu_admission.py,                      *)
(* racing_kernel/rollout_eval.py).                                         *)
GpuSound ==
    machine = "gpu" => Jobs!TypeOK /\ Jobs!SlotsBalanced /\ Jobs!OwnResult

(* The judge is asked within its rate, every row of an answer that is not  *)
(* blank is kept for the save or its rejection is told, and a save that no *)
(* other one overlaps repairs the file of the day                          *)
(* (evaluation/curriculum.py).                                             *)
CurriculumSound ==
    machine = "curriculum" =>
        /\ Curriculum!TypeOK /\ Curriculum!JudgeBounded
        /\ Curriculum!RowsAccounted /\ Curriculum!SoleSaveRepairs

(* A verified rename renamed every definition and use, perhaps the names   *)
(* that are made of it, and nothing else (audit/refactor_verifier.py).     *)
RenameSound == machine = "rename" => Rename!RenameSound

(* A candidate is scored with its own timing when its kernel had the file  *)
(* to itself and the engine timed it while the kernel waited, and the rest *)
(* of the shader is as it was shipped unless writes overlapped or a writer *)
(* died (kernels/bridge.py, eval.py).                                      *)
HotSwapSound == machine = "shader" => HotSwap!HotSwapSound

(* What is in the index, the log and the vault is what was published       *)
(* (artifact_store.py, playground_push.py, publish_evolved_kernels.py).    *)
PublishSound == machine = "publish" => Publish!PublishSound

(* The registry finds what was registered last, and the table ranks by the *)
(* medians (llm/models.py).                                                *)
ModelsSound == machine = "models" => Models!ModelsSound
===============================================================================
