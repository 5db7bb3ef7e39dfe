\* Three callers, a history of two, a ceiling within reach and one restart.
CONSTANTS
    Callers = {c1, c2, c3}
    Ceiling = 4
    Margin = 2
    MaxRecords = 2
    MaxRestarts = 1
    MaxDecisions = 6
SPECIFICATION Spec
SYMMETRY CallerSymmetry
INVARIANTS IdentitiesNeverReused HistoryKeepsNewest OutcomesAccounted
\* The bound on outcomes stops the system.
CHECK_DEADLOCK FALSE
