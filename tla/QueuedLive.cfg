\* Two Runtimes with observers, and a callback of one that may call the other,
\* whose callback may call the first again.
CONSTANTS
    c1 = c1
    c2 = c2
    c3 = c3
    Runtimes = {r1, r2}
    Callers = {c1, c2, c3}
    States <- MCStates
    Events <- MCEvents
    Initial = "A"
    Rows <- MCRows
    Observed = TRUE
    MaxRoots = 2
    MaxRunEvents = 1
    MaxFires = 3
    Openers = {c1, c2}
    Joiners = {c2, c3}
    Leavers = {}
    Cancellable = {2}
SPECIFICATION FairSpec
PROPERTIES EveryFireReturns
CHECK_DEADLOCK FALSE
