\* Two callers share an observed Instance.
CONSTANTS
    Invalid = {"nan"}
    Definitions <- MCDefinitions
    ExitActions <- MCExitActions
    EntryActions <- MCEntryActions
    Events = {"go", "stop", "nan"}
    Callers = {c1, c2}
    Attached <- MCPlain
    MaxSeq = 15
SPECIFICATION Spec
INVARIANTS ObservationsTrackLineage LifecycleIsWholeOrReported
PROPERTIES MovesAlongArrows
\* The bound on observations stops the system.
CHECK_DEADLOCK FALSE
