\* Every table of up to three rows over two states and three events, one of which
\* is not a valid key; every hierarchy of four states with every choice of
\* initial children; charts with up to two edges of each kind between three names,
\* not all of them declared, and two hierarchies with up to two rows; strict
\* definitions of up to two rows, with a refusal added to each state.
CONSTANTS
    Invalid = {"nan"}
    TableStates = {"A", "B"}
    TableEvents = {"go", "stop", "nan"}
    MaxTable = 3
    Order <- MCOrder
    Declarations <- MCDeclarations
    Hierarchies <- MCHierarchies
    Edges <- MCEdges
    ChartRows <- MCChartRows
    MaxEdges = 2
    MaxChartRows = 2
    Beginnings <- MCBeginnings
    StrictRows <- MCStrictRows
    StrictEvents = {"x", "y"}
    MaxStrictRows = 2
    MaxRefusals = 1
SPECIFICATION Spec
INVARIANTS CompilesExactlyTheSound AnswersAgree LineageFollowsDeclarations EveryEventAnswered
\* A definition grows up to its bound.
CHECK_DEADLOCK FALSE
