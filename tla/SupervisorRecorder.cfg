\* Logical and external rows with a Recorder: two callers and the timer of Start.
CONSTANTS
    timer = timer
    Timer = timer
    c1 = c1
    c2 = c2
    Callers = {c1, c2}
    States <- MCStates
    Events <- MCEvents
    RowIds <- MCRowIds
    Initial = "A"
    Rows <- MCRows
    Checks = 1
    Journal = FALSE
    Recorder = TRUE
    MaxUint64 = 4
    MaxIncarnation = 1
    Operators = {c1, c2}
    Trippers = {c1, c2}
    Decisions = {"retain", "adopt", "override"}
    RecordsEnd = TRUE
SPECIFICATION Spec
SYMMETRY CallerSymmetry
INVARIANTS TypeOK LiveCallbacksOwned
PROPERTIES FirstCauseKept NoCommitWhileFaulted
