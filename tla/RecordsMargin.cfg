\* What the comment on recordSeqMargin says, with the margin of the code.
CONSTANTS
    Callers = {c1, c2}
    Ceiling = 17
    Margin = 16
    MaxRecords = 1
    MaxRestarts = 0
    MaxDecisions = 18
SPECIFICATION Spec
SYMMETRY CallerSymmetry
INVARIANTS AdmittedOutcomesNumbered
CHECK_DEADLOCK FALSE
