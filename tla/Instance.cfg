\* Two callers fire an Instance with a timed and contained observer, a nil and a
\* plain one, while a viewer asks what is permitted.  One event is not a valid key.
\* After the one observed commit the callers go on firing what does not move it.
CONSTANTS
    States = {"A", "B", "C"}
    Events = {"go", "tick", "nan"}
    Invalid = {"nan"}
    Table <- MCTable
    Initial = "A"
    Callers = {c1, c2}
    Viewers = {v1}
    Attached <- MCAttached
    MaxSeq = 2
SPECIFICATION LiveSpec
INVARIANTS ResultTellsTruth DeliveredInOrder PermittedOfOneState
PROPERTIES ImplementsRegister EveryObservationArrives
