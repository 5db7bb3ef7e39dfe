---------------------------- MODULE MCSupervisor ----------------------------
(* A two-state Machine for TLC: from "A" a guarded logical row and an external *)
(* row with its own Precondition, from "B" a guarded external row back.        *)
EXTENDS Supervisor, TLC

MCStates == {"A", "B"}
MCEvents == {"go"}
MCRowIds == {"logical", "external", "back"}

MCRow(id, to, guarded, preconditions, external) ==
    [id |-> id, to |-> to, guarded |-> guarded,
     preconditions |-> preconditions, external |-> external]

MCRows ==
    [k \in MCStates \X MCEvents |->
        IF k[1] = "A" THEN << MCRow("logical", "B", TRUE, 0, FALSE),
                              MCRow("external", "B", FALSE, 1, TRUE) >>
                      ELSE << MCRow("back", "A", TRUE, 0, TRUE) >>]

\* The smallest Machine with external work.
MCExternalRows ==
    [k \in MCStates \X MCEvents |->
        IF k[1] = "A" THEN << MCRow("external", "B", FALSE, 0, TRUE) >>
                      ELSE << >>]

\* External work in both directions, with a Guard on the way back.
MCReturnRows ==
    [k \in MCStates \X MCEvents |->
        IF k[1] = "A" THEN << MCRow("external", "B", FALSE, 0, TRUE) >>
                      ELSE << MCRow("back", "A", TRUE, 0, TRUE) >>]

CallerSymmetry == Permutations(Callers)
=============================================================================
