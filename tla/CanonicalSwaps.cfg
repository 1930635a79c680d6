CONSTANTS
  d = d
  o = o
  Torn = Torn
  None = None
  Daemons = {d}
  Operators = {o}
  MaxHarness = 2
  MaxLines = 1
  Scores = {1}
  Cycles = {1}
  Populations <- MCPopulations
  Faults = TRUE
  Crashes = TRUE
SPECIFICATION Spec
INVARIANTS
    NothingLost
    LedgerIsTrue
PROPERTIES
    EarnedOnly
