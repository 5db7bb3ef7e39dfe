---------------------------- MODULE MCDefinitions ----------------------------
(* Definitions to begin with, and what they grow by.                         *)
EXTENDS Definitions

\* Four states, declared in an order that their hierarchies need not have.
MCOrder == << "A", "B", "C", "D" >>

-----------------------------------------------------------------------------
(* Statecharts                                                             *)

MCOutline(states, substates, children) ==
    [states |-> states, substates |-> substates, initials |-> children,
     transitions |-> << >>]

MCEdge(child, parent) == [child |-> child, parent |-> parent]

\* Three states, two of them, one declared twice, one that is not a key.
MCDeclarations ==
    {MCOutline(states, << >>, << >>) :
        states \in {<< "A", "B", "C" >>, << "B", "A" >>, << "A", "B", "A" >>,
                    << "A", "nan", "B" >>}}

MCEdges == {"A", "B", "C"} \X {"A", "B", "C"}

\* A root with an initial child and another child; a chain declared from below.
MCHierarchies ==
    {MCOutline(<< "A", "B", "C" >>, << MCEdge("B", "A"), MCEdge("C", "A") >>,
                  << MCEdge("B", "A") >>),
     MCOutline(<< "C", "B", "A" >>, << MCEdge("C", "B"), MCEdge("B", "A") >>, << >>)}

MCAllKinds ==
    [from : {"A", "B", "C"}, event : {"go"}, to : {"A", "B", "C"},
     kind : {"external", "internal", "reentry"}, guarded : BOOLEAN]

MCWrongRow == [from |-> "A", event |-> "nan", to |-> "B", kind |-> "external", guarded |-> TRUE]

MCChartRows ==
    {t \in MCAllKinds : (t.kind = "external") <=> (t.from # t.to)} \cup {MCWrongRow}
    \cup [from : {"A", "C"}, event : {"stop"}, to : {"B", "D"}, kind : {"external", "other"},
          guarded : {FALSE}]

-----------------------------------------------------------------------------
(* Supervised Machines                                                     *)

MCState(name, terminal) == [name |-> name, terminal |-> terminal, refuse |-> << >>]

MCRow(from, event, to, guarded) ==
    [from |-> from, event |-> event, to |-> to, guarded |-> guarded, issue |-> FALSE,
     verify |-> FALSE, preconditions |-> << >>]

MCSections == {"preconditions", "invariants", "postconditions", "reconcile"}

MCStrict(states, events) ==
    [id |-> 1, initial |-> "a", states |-> states, events |-> events,
     transitions |-> << >>, checks |-> [s \in MCSections |-> << TRUE >>]]

\* Two states and two events; three states and one event, listed against the
\* direction of the rows.
MCSound ==
    {MCStrict(<< MCState("a", FALSE), MCState("b", TRUE) >>, << "x", "y" >>),
     MCStrict(<< MCState("a", FALSE), MCState("b", FALSE) >>, << "x" >>),
     MCStrict(<< MCState("c", TRUE), MCState("b", FALSE), MCState("a", FALSE) >>, << "x" >>)}

\* A definition that Compile accepts.
MCComplete ==
    [MCStrict(<< MCState("a", FALSE), MCState("b", TRUE) >>, << "x" >>)
        EXCEPT !.transitions = << [from |-> "a", event |-> "x", to |-> "b", id |-> 1,
                                   guarded |-> TRUE, issue |-> FALSE, verify |-> FALSE,
                                   preconditions |-> << >>] >>]

\* The same with one defect each.
MCDefects ==
    {[MCComplete EXCEPT !.id = 0],
     [MCComplete EXCEPT !.initial = "c"],
     [MCComplete EXCEPT !.states = Append(@, MCState("a", FALSE))],
     [MCComplete EXCEPT !.states = Append(@, MCState("nan", TRUE))],
     [MCComplete EXCEPT !.states[1].refuse = << "y" >>],
     [MCComplete EXCEPT !.states[2].refuse = << "x", "x" >>],
     [MCComplete EXCEPT !.events = << "x", "x" >>],
     [MCComplete EXCEPT !.events = << "y", "x" >>, !.states[1].refuse = << "y", "y" >>],
     [MCComplete EXCEPT !.checks["reconcile"] = << >>],
     [MCComplete EXCEPT !.checks["invariants"] = << TRUE, FALSE >>]}

MCBeginnings == MCSound \cup MCDefects \cup {MCComplete}

MCExternal == [MCRow("a", "x", "b", TRUE) EXCEPT !.issue = TRUE, !.verify = TRUE]

MCStrictRows ==
    {MCRow(p[1], "x", p[2], g) :
        p \in {<< "a", "b" >>, << "a", "c" >>, << "b", "c" >>, << "b", "a" >>}, g \in BOOLEAN}
    \cup {MCRow("a", "y", "b", FALSE), MCRow("c", "x", "a", TRUE)}
    \cup {MCExternal, [MCExternal EXCEPT !.verify = FALSE],
          [MCExternal EXCEPT !.preconditions = << TRUE, FALSE >>]}
==============================================================================
