----------------------------- MODULE MCInstance -----------------------------
(* A Machine of three states: "A" has a guarded and an unguarded row for "go",  *)
(* "B" has a guarded row back and one that stays where it is, "C" leads back.  *)
EXTENDS Instance

MCRow(from, event, to, guarded) ==
    [from |-> from, event |-> event, to |-> to, guarded |-> guarded]

MCTable == << MCRow("A", "go", "C", TRUE), MCRow("A", "go", "B", FALSE),
              MCRow("B", "go", "A", TRUE), MCRow("B", "tick", "B", FALSE),
              MCRow("C", "tick", "A", FALSE) >>

MCObserver(timed, contained) == [nil |-> FALSE, timed |-> timed, contained |-> contained]

MCNil == [nil |-> TRUE, timed |-> FALSE, contained |-> FALSE]

MCAttached == << MCObserver(TRUE, TRUE), MCNil, MCObserver(FALSE, FALSE) >>
=============================================================================
