\* Two real invocations without crashes, every goal exportable, under fairness.
CONSTANTS
  Procs = {p1, p2}
  NoProc = NoProc
  Tickets = {t1, t2}
  Goals <- MCGoals
  NoGoal = 0
  Priority <- MCPriority
  Want <- MCWantMore
  Exportable = {1, 2}
  Registered = {1, 2}
  WindowMax = 1
  PerCycle = 1
  Window = 2
  MinCycle = 1
  Fixture = 1
  MaxCycle = 1
  Modes = {"real"}
  Kills = FALSE
SPECIFICATION FairSpec
INVARIANTS
    WantRespected
    OutcomesTold
PROPERTY
    EveryGoalGetsATurn
