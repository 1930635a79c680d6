CONSTANTS
    None = None
    MaxRetries = 2
    Rates = {1, 4}
    History = 1
    Debounce = 2
    MaxTime = 5
    MaxCalls = 5
    Instances = 3
    Prompts = {a}
    Protocols = {None, iterative}
    Budgets = {nested}
    Unhashable = nested
    RuleBased = rules
    Strategies = {"vote", "parallel"}
    MaxRequests = 3
    SafetyMargin = 10
    WindowSeconds = 2
    Callers = {c1, c2}
    MaxCost = 3
    MaxWallTime = 4
    Protocol = "self_revision"
    Judges = {j1, j2, j3}
    Opinions = {"OK", "WA"}
    Islands = {i1}
    Threshold = 0
    Quota = 1
    Scan = 1
    MaxJobs = 2
    Others = 1
    MaxCrashes = 1
    Procs = {p1, p2}
    N = 4
    Raised = Raised
    Garbled = Garbled
    MaxCycles = 2
    MaxSeconds = 1
    MaxGenerated = 2
    JudgeRequests = 1
    JudgeMargin = 5
    JudgeWindow = 1
    Generated <- TheAnswers
    JudgeReplies <- TheReplies
    Broken = Broken
    Missing = Missing
    Cases <- TheCases
    Executions <- TheExecutions
    ShaderRuns <- TheShaderRuns
    IslandOf <- TheIslandOf
    Contents <- TheContents
    Texts = {"old", "new"}
    Old = "old"
    New = "new"
    Kernels = {"k1", "k2"}
    Codes = {"a", "b", "blank"}
    Blank = "blank"
    Stub = "stub"
    Shapes = {"entries"}
    MaxScores = 2
    Programs <- ThePrograms
    Evolved <- TheEvolved
    TopN = 1
    Validator = TRUE
    NervousBin = TRUE
    MaxTasks = 2
    ModelNames = {"m", "n"}
    Clients = {"a", "b"}
    Provided = {"a"}
    ModelScores = {4, 10}
    ModelProblems = 2
    ModelLists <- TheLists
    MaxOps = 3
    MaxSweeps = 1
SPECIFICATION Spec
INVARIANTS
    ModelCallsSound
    EvaluatorSound
    GuardsSound
    GpuSound
    CurriculumSound
    RenameSound
    HotSwapSound
    PublishSound
    ModelsSound
CHECK_DEADLOCK FALSE
