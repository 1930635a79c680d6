CONSTANTS
    s1 = s1
    s2 = s2
    c1 = c1
    c2 = c2
    c3 = c3
    f1 = f1
    SessionIds = {s1, s2}
    Lineages <- TheLineages
    MaxIter = 2
    Cases <- TheCases
    Foreign <- TheForeign
    Improvers = {"model"}
    Edits <- TheEdits
    Outlet <- TheOutlet
    Library = {c1}
    Overrides <- TheOverrides
    MaxRuns = 3
    None = None
    N = 3
    Corpus <- TheCorpus
    Ratio = 3334
    Weight = 10
    Histories <- TheHistories
    MaxCycles = 2
    Sizes = {0, 3}
    Targets <- TheTargets
    MaxRounds = 2
    Daemon = d1
    Others = {o}
    Piped = {}
    Advocates = {1, 2}
    AuditPiped = FALSE
    Window = 0
    MaxAsides = 1
    IterationResults <- TheOutcomes
    AuditClaims <- TheClaims
    Garbage = Garbage
    VerdictKinds = {"OK", "TLE"}
    KernelGenerations = 3
    KernelWave = 1
    KernelIslands = 2
    SampleN = 2
    MinInterval = 2
    GaugeEvery = 2
    Islands = {1, 2}
    Pop = 2
    Seeds = 3
    PerIsland = 1
    Generations = 5
    MaxRequests = 9
    Target = 4
    PlateauGens = 4
    MaxRatio = 2
    Instances = {"a", "b"}
    Tracks = {"t1", "t2"}
    Synthetic <- TheSynthetic
    Programs = {"p", "q"}
    Lap <- TheLaps
    Style <- TheStyles
    Episodes <- TheEpisodes
    ScanCount = 1
    TopK = 2
    MaxEpisodes = 2
    MaxRestarts = 2
    MaxCrashes = 1
    Whole = 4
    RunResults <- TheResults
    Adaptive = TRUE
    WallTime = TRUE
    Floor = 108
    ScoreWindow = 5
    ScoreRuns = 7
    Environments <- TheEnvironments
    CaseScores = {40, 90}
    Teams = 2
    DomainCycles = 1
    Grid <- TheGrid
    NoisyScores = {0, 1, 3}
    MaxIterations = 5
    Trajectories = 2
SPECIFICATION Spec
INVARIANTS
    ReplaySound
    PopulationSound
    RoundSound
    ReportsSound
    EventsSound
    TspSound
    MemorySound
    FiguresSound
CHECK_DEADLOCK FALSE
