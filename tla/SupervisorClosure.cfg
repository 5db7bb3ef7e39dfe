\* What the documentation says of a Journal closure that is skipped.
CONSTANTS
    timer = timer
    Timer = timer
    c1 = c1
    c2 = c2
    Callers = {c1, c2}
    States <- MCStates
    Events <- MCEvents
    RowIds <- MCRowIds
    Initial = "A"
    Rows <- MCRows
    Checks = 1
    Journal = TRUE
    Recorder = FALSE
    MaxUint64 = 4
    MaxIncarnation = 1
    Operators = {c1, c2}
    Trippers = {c1, c2}
    Decisions = {"retain", "adopt", "override"}
    RecordsEnd = FALSE
SPECIFICATION Spec
SYMMETRY CallerSymmetry
INVARIANTS SkippedClosureExposed
