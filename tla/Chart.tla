-------------------------------- MODULE Chart --------------------------------
(***************************************************************************)
(* The statechart definition (statechart/statechart.go, position.go): what   *)
(* Compile refuses, and the questions a compiled Chart answers: which row    *)
(* handles an event, what is permitted, which arrows leave a state.          *)
(*                                                                         *)
(* A definition is a record of four sequences, as in the code; entry and     *)
(* exit actions are left to the module Statechart.  A row is named by its    *)
(* index among the transitions.  Data (T) is abstracted to the set of rows   *)
(* whose Guard returns nil for it.                                         *)
(***************************************************************************)
EXTENDS Shape

CONSTANT Invalid     \* the states and events that do not equal themselves (NaN)

\* What the parts of a definition are: finite lists.
IsList(s) == s \in Seq(ToSet(s))

Kinds == {"external", "internal", "reentry"}

\* The names that become keys of stateAt.
Declared(d) == ToSet(d.states) \ Invalid

StateProblems(d) ==
    {<< "states", i >> : i \in {k \in DOMAIN d.states :
        \/ d.states[k] \in Invalid
        \/ \E j \in 1 .. k - 1 : d.states[j] = d.states[k]}}

\* The edge makes a declared state its own parent; it is dropped.
OwnParent(d, e) == e.child = e.parent /\ e.child \in Declared(d)

\* An earlier edge, not dropped, has the child of edge k.
RepeatsChild(d, k) ==
    \E j \in 1 .. k - 1 :
        /\ d.substates[j].child = d.substates[k].child
        /\ ~OwnParent(d, d.substates[j])

\* Mutant of SecondParent: a second parent is not noticed.
LastParentWins(d, k) == FALSE

\* The edge is not dropped and gives its child a second parent.
SecondParent(d, k) == ~OwnParent(d, d.substates[k]) /\ RepeatsChild(d, k)

SubstateProblems(d) ==
    {<< "substates", i >> : i \in {k \in DOMAIN d.substates :
        \/ {d.substates[k].child, d.substates[k].parent} \ Declared(d) # {}
        \/ OwnParent(d, d.substates[k])
        \/ SecondParent(d, k)}}

\* parents: the first edge of every child, when it names declared states.
ParentsOf(d) ==
    LET edges == {d.substates[k] : k \in {i \in DOMAIN d.substates :
                    /\ ~OwnParent(d, d.substates[i])
                    /\ ~RepeatsChild(d, i)
                    /\ {d.substates[i].child, d.substates[i].parent} \subseteq Declared(d)}}
    IN  [s \in {e.child : e \in edges} |-> (CHOOSE e \in edges : e.child = s).parent]

\* order: the declared states, each at its first declaration.
OrderOf(d) ==
    LET kept == Positions([i \in DOMAIN d.states |-> << "states", i >> \notin StateProblems(d)])
    IN  [j \in DOMAIN kept |-> d.states[kept[j]]]

\* The initial child is an immediate child.
ImmediateChild(d, e) == e.child \in DOMAIN ParentsOf(d) /\ ParentsOf(d)[e.child] = e.parent

SecondInitial(d, k) == \E j \in 1 .. k - 1 : d.initials[j].parent = d.initials[k].parent

InitialProblems(d) ==
    {<< "initials", i >> : i \in {k \in DOMAIN d.initials :
        \/ {d.initials[k].child, d.initials[k].parent} \ Declared(d) # {}
        \/ SecondInitial(d, k)
        \/ ~ImmediateChild(d, d.initials[k])}}

\* initials.
InitialsOf(d) ==
    LET edges == ToSet(d.initials)
    IN  [s \in {e.parent : e \in edges} |-> (CHOOSE e \in edges : e.parent = s).child]

\* The row reaches the tables: its states are declared and its event is valid.
Registered(d, t) == {t.from, t.to} \subseteq Declared(d) /\ t.event \notin Invalid

\* What the rows of a state for an event share.
KeyOf(t) == << t.from, t.event >>

\* Mutant of DeadRow: a row with a Guard hides those that follow, too.
DeadAfterAnyRow(d, k) ==
    \E j \in 1 .. k - 1 : KeyOf(d.transitions[j]) = KeyOf(d.transitions[k])

\* An earlier row for the same state and event has no Guard.
DeadRow(d, k) ==
    /\ Registered(d, d.transitions[k])
    /\ \E j \in 1 .. k - 1 :
        /\ KeyOf(d.transitions[j]) = KeyOf(d.transitions[k])
        /\ Registered(d, d.transitions[j])
        /\ ~d.transitions[j].guarded

TransitionProblems(d) ==
    {<< "transitions", i >> : i \in {k \in DOMAIN d.transitions :
        LET t == d.transitions[k]
        IN  \/ ~Registered(d, t)
            \/ t.kind \notin Kinds
            \/ t.kind = "external" /\ t.from = t.to
            \/ t.kind \in {"internal", "reentry"} /\ t.from # t.to
            \/ DeadRow(d, k)}}

\* Compile returns a Chart when it has found no problem.
Problems(d) ==
    StateProblems(d) \cup SubstateProblems(d)
    \cup {<< "hierarchy", c >> : c \in HierarchyCycles(OrderOf(d), ParentsOf(d))}
    \cup InitialProblems(d) \cup TransitionProblems(d)

\* The Chart of a definition without problems.
ChartOf(d) ==
    [shape |-> CompileShape(d.states, ParentsOf(d), InitialsOf(d)),
     transitions |-> d.transitions]

-----------------------------------------------------------------------------
\* Chart.rows: the rows of a state for an event, in declaration order.
RowsAt(chart, s, event) ==
    Positions([k \in DOMAIN chart.transitions |->
        chart.transitions[k].from = s /\ chart.transitions[k].event = event])

\* Chart.events: the events of a state, in first-mention order.
EventsAt(chart, s) ==
    LET first(k) == /\ chart.transitions[k].from = s
                    /\ RowsAt(chart, s, chart.transitions[k].event)[1] = k
        rows == Positions([k \in DOMAIN chart.transitions |-> first(k)])
    IN  [j \in DOMAIN rows |-> chart.transitions[rows[j]].event]

\* Mutant of HandlersOf: the ancestors are asked first.
Outwards(shape, source) == Reverse(Path(shape, source))

\* The nodes whose rows may handle an event of the source, nearest first.
HandlersOf(shape, source) == Path(shape, source)

\* The rows selectTransition looks through, each with the node that handles it.
Candidates(chart, source, event) ==
    LET handlers == HandlersOf(chart.shape, source)
        at(h) == LET rows == RowsAt(chart, chart.shape.state[h], event)
                 IN  [j \in DOMAIN rows |-> [handler |-> h, row |-> rows[j]]]
    IN  FlattenSeq([j \in DOMAIN handlers |-> at(handlers[j])])

\* Info.Destination of a row: an internal one stays at the source.
DestinationOf(chart, source, row) ==
    IF chart.transitions[row].kind = "internal" THEN source
    ELSE chart.shape.destination[IndexOf(chart.shape.state, chart.transitions[row].to)]

Applies(chart, row, passing) == chart.transitions[row].guarded => row \in passing

\* selectTransition: the position of the first candidate that applies, or 0.
SelectTransition(chart, source, event, passing) ==
    LET candidates == Candidates(chart, source, event)
        applying == {j \in DOMAIN candidates : Applies(chart, candidates[j].row, passing)}
    IN  IF applying = {} THEN 0 ELSE Min(applying)

\* Mutant of EventsFrom: inherited events are left out.
EventsOfSource(chart, source) == EventsAt(chart, chart.shape.state[source])

\* The events of the source and its ancestors, each at its first mention.
EventsFrom(chart, source) ==
    LET handlers == HandlersOf(chart.shape, source)
        events == FlattenSeq([j \in DOMAIN handlers |->
                                EventsAt(chart, chart.shape.state[handlers[j]])])
        first(k) == \A i \in 1 .. k - 1 : events[i] # events[k]
        firsts == Positions([k \in DOMAIN events |-> first(k)])
    IN  [j \in DOMAIN firsts |-> events[firsts[j]]]

\* Instance.Permitted: the events that are accepted and where they lead.
Permitted(chart, source, passing) ==
    LET choice(event) ==
            LET candidates == Candidates(chart, source, event)
                j == SelectTransition(chart, source, event, passing)
            IN  IF j = 0 THEN << >>
                ELSE << << event, DestinationOf(chart, source, candidates[j].row) >> >>
        events == EventsFrom(chart, source)
    IN  FlattenSeq([j \in DOMAIN events |-> choice(events[j])])

\* Mutant of ArrowCount: rows behind one without a Guard are listed.
ArrowsPastUnguarded(chart, candidates) == Len(candidates)

\* arrowsForEvent ends with the first candidate that has no Guard.
ArrowCount(chart, candidates) ==
    LET ends == {j \in DOMAIN candidates : ~chart.transitions[candidates[j].row].guarded}
    IN  IF ends = {} THEN Len(candidates) ELSE Min(ends)

\* Chart.Arrows: the rows that some data lets the source select.
Arrows(chart, source) ==
    LET events == EventsFrom(chart, source)
        arrows(event) ==
            LET candidates == Candidates(chart, source, event)
            IN  SubSeq(candidates, 1, ArrowCount(chart, candidates))
    IN  FlattenSeq([j \in DOMAIN events |-> arrows(events[j])])
=============================================================================
