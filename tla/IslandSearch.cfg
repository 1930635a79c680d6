\* Two islands of two programs, two threads, a wave of two calls, every horizon;
\* and a fleet that specialises, with the same constants but for its generations.
CONSTANTS
  NIslands = 2
  Pop = 2
  MaxFit = 3
  Seeds <- MCPoor
  Candidates = 1
  Workers = {w1, w2}
  Generations = 6
  MigrationInterval = 2
  Target = 3
  MaxRequests = 11
  WallClock = TRUE
  PlateauGens = 4
  PlateauEps = 0
  PlateauHint = TRUE
  Specialised = FALSE
SPECIFICATION MCSpec
INVARIANTS
    RequestsWithinBudget
    BestRetained
    Announced
PROPERTIES
    RunsAsPromised
    Terminates
CHECK_DEADLOCK FALSE
