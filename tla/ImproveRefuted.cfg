\* Live refutation when a rollout protocol retries cases.
CONSTANTS
  MaxIterations = 2
  NCases = 2
  Attempts = 2
  Scores = {600, 680}
  Floor = 27
  Threshold = 27
  Gains = {0, 100}
  Callers = {"advocate"}
SPECIFICATION Spec
INVARIANT
    RefutedWasUnachievable
CHECK_DEADLOCK FALSE
