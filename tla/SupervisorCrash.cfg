\* One external row, two lifetimes of the process: one caller that works with the
\* Supervisor through a verified Change, one that trips it.
CONSTANTS
    timer = timer
    Timer = timer
    c1 = c1
    c2 = c2
    Callers = {c1, c2}
    States <- MCStates
    Events <- MCEvents
    RowIds <- MCRowIds
    Initial = "A"
    Rows <- MCExternalRows
    Checks = 1
    Journal = TRUE
    Recorder = FALSE
    MaxUint64 = 4
    MaxIncarnation = 2
    Operators = {c1}
    Trippers = {c2}
    Decisions = {"retain", "adopt"}
    RecordsEnd = TRUE
SPECIFICATION Spec
INVARIANTS UnresolvedHeld UnresolvedDurable SnapshotsRestorable
PROPERTIES AdmissionQuiescent IssueAtMostOnce DiskMonotone
