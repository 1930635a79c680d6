CONSTANTS
  d = d
  o = o
  Torn = Torn
  None = None
  Daemons = {d}
  Operators = {o}
  MaxHarness = 2
  MaxLines = 2
  Scores = {1}
  Cycles = {1}
  Populations <- MCPopulations
  Faults = FALSE
  Crashes = FALSE
SPECIFICATION FairSpec
PROPERTIES
    SecondDecisionInvalidates
