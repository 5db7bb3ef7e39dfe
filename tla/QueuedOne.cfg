\* One Runtime without observers: three callers, and room for two of three roots.
CONSTANTS
    Runtimes = {r1}
    Callers = {c1, c2, c3}
    States <- MCOneState
    Events <- MCEvents
    Initial = "A"
    Rows <- MCOneRow
    Observed = FALSE
    MaxRoots = 2
    MaxRunEvents = 2
    MaxFires = 3
    Openers = {c1, c2, c3}
    Joiners = {}
    Leavers = {c1, c2, c3}
    Cancellable = {1, 2, 3}
SPECIFICATION Spec
SYMMETRY Symmetry
INVARIANTS Serialized FirstInFirstOut OutstandingCounted AcceptedEventsRun
PROPERTIES SettledForGood
CHECK_DEADLOCK FALSE
