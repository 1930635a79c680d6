\* Sessions and advocates, scores on both sides of every threshold.
CONSTANTS
  MaxIterations = 4
  NCases = 1
  Attempts = 2
  Scores = {600, 620, 660}
  Floor = 27
  Threshold = 27
  Gains = {0}
  Callers = {"session", "advocate"}
SPECIFICATION FairSpec
INVARIANTS
    BestIsMeasured
    EditsKnownGood
    KilledTailIsRefused
PROPERTIES
    Terminates
CHECK_DEADLOCK FALSE
