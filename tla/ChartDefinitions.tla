-------------------------- MODULE ChartDefinitions ---------------------------
(***************************************************************************)
(* Definitions of statecharts, right and wrong, that grow by one edge or one *)
(* row at a time.  What Compile refuses, and what a compiled Chart answers,  *)
(* is compared with what the definition itself says.                        *)
(***************************************************************************)
EXTENDS Chart

CONSTANTS
    Declarations,   \* the definitions that grow by edges
    Hierarchies,    \* the definitions that grow by rows
    Edges,          \* the pairs of states that an edge may name
    ChartRows,      \* the rows that may be added
    MaxEdges,       \* bound: the edges of each kind in a definition
    MaxChartRows    \* bound: the rows of a definition

VARIABLES
    outline,        \* what Compile is given
    chart           \* what it returns; without transitions when it refuses

chartVars == << outline, chart >>

NoChart == [shape |-> << >>, transitions |-> << >>]

Compiled(d) == IF Problems(d) = {} THEN ChartOf(d) ELSE NoChart

ChartInit ==
    /\ outline \in Declarations \cup Hierarchies
    /\ chart = Compiled(outline)

AddSubstate(e) ==
    /\ outline.transitions = << >>
    /\ Len(outline.substates) < MaxEdges
    /\ outline' = [outline EXCEPT !.substates = Append(@, [child |-> e[1], parent |-> e[2]])]
    /\ chart' = Compiled(outline')

AddInitial(e) ==
    /\ outline.transitions = << >>
    /\ Len(outline.initials) < MaxEdges
    /\ outline' = [outline EXCEPT !.initials = Append(@, [parent |-> e[2], child |-> e[1]])]
    /\ chart' = Compiled(outline')

AddTransition(t) ==
    /\ Len(outline.transitions) < MaxChartRows
    /\ [outline EXCEPT !.transitions = << >>] \in Hierarchies
    /\ outline' = [outline EXCEPT !.transitions = Append(@, t)]
    /\ chart' = Compiled(outline')

ChartNext ==
    \/ \E e \in Edges : AddSubstate(e) \/ AddInitial(e)
    \/ \E t \in ChartRows : AddTransition(t)

ChartSpec == ChartInit /\ [][ChartNext]_chartVars

Accepted == Problems(outline) = {}

\* The rows of the outline.
Indices == DOMAIN outline.transitions

Sources == DOMAIN outline.states

-----------------------------------------------------------------------------
EdgeSet == {<< outline.substates[k].child, outline.substates[k].parent >> :
                k \in DOMAIN outline.substates}

(* Compile accepts the states and edges that make a forest and no others:    *)
(* every name declared once, one parent at most, nobody's ancestor itself,   *)
(* and one initial child at most, which is a child (statechart.go, Compile). *)
AcceptsForests ==
    Indices = {} =>
    LET names == ToSet(outline.states)
        parentOf == EdgeSet
        initialOf == {<< outline.initials[k].parent, outline.initials[k].child >> :
                         k \in DOMAIN outline.initials}
    IN  Accepted <=>
            /\ names \cap Invalid = {}
            /\ Cardinality(names) = Len(outline.states)
            /\ parentOf \subseteq names \X names
            /\ Cardinality({e[1] : e \in parentOf}) = Len(outline.substates)
            /\ ~\E S \in SUBSET names : S # {} /\ \A s \in S : \E t \in S : << s, t >> \in parentOf
            /\ \A e \in initialOf : << e[2], e[1] >> \in parentOf
            /\ Cardinality({e[1] : e \in initialOf}) = Len(outline.initials)

\* The candidate that selectTransition chooses.
Selection(source, event, passing) ==
    LET j == SelectTransition(chart, source, event, passing)
    IN  Candidates(chart, source, event)[j]

Selects(source, event, passing) == SelectTransition(chart, source, event, passing) # 0

Events == {outline.transitions[k].event : k \in Indices}

(* A definition is refused for a row exactly when the row cannot be the one  *)
(* selected at its own state, whatever the data, or names what is not a      *)
(* transition (statechart.go, Compile).                                    *)
RefusesUnselectableRows ==
    Problems([outline EXCEPT !.transitions = << >>]) = {} =>
    (Accepted <=>
        \A i \in Indices :
            LET t == outline.transitions[i]
                all == [ChartOf(outline) EXCEPT !.transitions = outline.transitions]
                source == IndexOf(outline.states, t.from)
            IN  /\ t.event \notin Invalid
                /\ {t.from, t.to} \subseteq ToSet(outline.states)
                /\ t.kind \in (IF t.from = t.to THEN {"internal", "reentry"} ELSE {"external"})
                /\ \E passing \in SUBSET Indices :
                      LET j == SelectTransition(all, source, t.event, passing)
                      IN  j # 0 /\ Candidates(all, source, t.event)[j].row = i)

(* The nearest state with a row that applies handles an event, the source    *)
(* before its ancestors, and by the first of its rows that applies; rows     *)
(* that decline hide nothing above them (statechart.go, selectTransition).   *)
NearestHandlerSelects ==
    Accepted =>
    \A source \in Sources, event \in Events, passing \in SUBSET Indices :
        LET applicable(h) == {i \in Indices :
                                /\ outline.transitions[i].from = outline.states[h]
                                /\ outline.transitions[i].event = event
                                /\ Applies(chart, i, passing)}
            handlers == {h \in Sources : /\ Status(chart.shape, source, h) # "inactive"
                                       /\ applicable(h) # {}}
        IN  IF handlers = {} THEN ~Selects(source, event, passing)
            ELSE LET s == Selection(source, event, passing)
                 IN  /\ Selects(source, event, passing)
                     /\ s.handler \in handlers
                     /\ \A h \in handlers : Status(chart.shape, s.handler, h) # "inactive"
                     /\ s.row \in applicable(s.handler)
                     /\ \A i \in applicable(s.handler) : s.row <= i

(* Permitted lists each event once, exactly those that some row accepts for  *)
(* the data, with the destination Fire would commit (statechart.go,         *)
(* Permitted).                                                             *)
PermittedIsSelection ==
    Accepted =>
    \A source \in Sources, passing \in SUBSET Indices :
        LET permitted == Permitted(chart, source, passing)
            accepted == {e \in Events : Selects(source, e, passing)}
        IN  /\ Len(permitted) = Cardinality(accepted)
            /\ ToSet(permitted) =
                {<< e, DestinationOf(chart, source, Selection(source, e, passing).row) >> :
                    e \in accepted}

(* The arrows of a source are the rows, with their handlers, that it can     *)
(* select for some data, each once (position.go, Arrows).                   *)
ArrowsAreSelectable ==
    Accepted =>
    \A source \in Sources :
        LET arrows == Arrows(chart, source)
        IN  /\ ToSet(arrows) =
                UNION {{Selection(source, e, passing) :
                           passing \in {P \in SUBSET Indices : Selects(source, e, P)}} :
                       e \in Events}
            /\ Len(arrows) = Cardinality(ToSet(arrows))
=============================================================================
