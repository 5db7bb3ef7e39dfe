---------------------------- MODULE MCStatechart -----------------------------
(* A root "P" with an initial child "A" and another child "B" that has the     *)
(* initial child "C"; "Q" is a root of its own.  Rows are the candidates for   *)
(* two events: inherited, external to an ancestor, to a descendant and across  *)
(* roots, internal and reentrant ones.                                      *)
EXTENDS Statechart

MCEdge(child, parent) == [child |-> child, parent |-> parent]

MCRow(from, event, to, kind, guarded) ==
    [from |-> from, event |-> event, to |-> to, kind |-> kind, guarded |-> guarded]

MCDefinition(transitions) ==
    [states |-> << "C", "P", "A", "B", "Q" >>,
     substates |-> << MCEdge("A", "P"), MCEdge("B", "P"), MCEdge("C", "B") >>,
     initials |-> << MCEdge("A", "P"), MCEdge("C", "B") >>,
     transitions |-> transitions]

MCDefinitions ==
    {MCDefinition(<< MCRow("P", "go", "B", "external", TRUE),
                     MCRow("C", "go", "P", "external", TRUE),
                     MCRow("P", "go", "P", "reentry", FALSE),
                     MCRow("B", "stop", "Q", "external", FALSE),
                     MCRow("Q", "stop", "B", "external", TRUE),
                     MCRow("A", "stop", "A", "internal", FALSE) >>),
     MCDefinition(<< MCRow("B", "go", "C", "external", TRUE),
                     MCRow("B", "go", "B", "reentry", TRUE),
                     MCRow("P", "go", "A", "external", FALSE),
                     MCRow("A", "stop", "C", "external", FALSE),
                     MCRow("P", "stop", "P", "internal", FALSE),
                     MCRow("Q", "go", "P", "external", FALSE) >>)}

MCExitActions == [s \in {"P", "A", "B", "C", "Q"} |->
    CASE s = "C" -> << TRUE, FALSE, TRUE >> [] s = "A" -> << >> [] OTHER -> << TRUE >>]

MCEntryActions == [s \in {"P", "A", "B", "C", "Q"} |->
    CASE s = "C" -> << FALSE, TRUE >> [] s = "Q" -> << >> [] OTHER -> << TRUE >>]

MCPlain == << [nil |-> FALSE, timed |-> FALSE, contained |-> FALSE] >>
=============================================================================
