CONSTANTS
    None = None
    Events = {a, b, c, d}
    Big = {b}
    Foreign = {}
    Scalars = {d}
    Script <- TheScript
    CycleEvents = 2
    MaxCrashes = 1
    MaxRuns = 1
SPECIFICATION Spec
INVARIANTS
    DispatchSound
PROPERTIES
    Delivered
    TriggerSound
    EveryLineAnswered
CHECK_DEADLOCK FALSE
