\* Two invocations of either mode over two goals, kills allowed.
CONSTANTS
  Procs = {p1, p2}
  NoProc = NoProc
  Tickets = {t1, t2, t3, t4}
  Goals <- MCGoals
  NoGoal = 0
  Priority <- MCPriority
  Want <- MCWantOne
  Exportable = {1}
  Registered = {1}
  WindowMax = 3
  PerCycle = 2
  Window = 2
  MinCycle = 1
  Fixture = 1
  MaxCycle = 1
  Modes = {"real", "dry"}
  Kills = TRUE
SPECIFICATION Spec
SYMMETRY Symmetry
INVARIANTS
    WindowBounded
    RealSpendBounded
