\* Liveness: nothing that the application owns is obliged to return.  Two Changes in
\* turn, one caller that works with the Supervisor and one that trips it.
CONSTANTS
    timer = timer
    Timer = timer
    c1 = c1
    c2 = c2
    Callers = {c1, c2}
    States <- MCStates
    Events <- MCEvents
    RowIds <- MCRowIds
    Initial = "A"
    Rows <- MCReturnRows
    Checks = 1
    Journal = TRUE
    Recorder = FALSE
    MaxUint64 = 5
    MaxIncarnation = 1
    Operators = {c1}
    Trippers = {c2}
    Decisions = {"retain"}
    RecordsEnd = FALSE
SPECIFICATION HangingSpec
PROPERTIES EveryCallReturns PendingResolved OperationReleased
