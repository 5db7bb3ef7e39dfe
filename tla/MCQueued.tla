------------------------------ MODULE MCQueued ------------------------------
(* A Machine of two states for TLC: "go" moves between them, in "B" it may    *)
(* also stay.                                                               *)
EXTENDS Queued, TLC

MCStates == {"A", "B"}
MCEvents == {"go"}
MCRows == { << "A", "go", "B" >>, << "B", "go", "A" >>, << "B", "go", "B" >> }

\* One state and its loop, where the states do not matter.
MCOneState == {"A"}
MCOneRow == { << "A", "go", "A" >> }

Symmetry == Permutations(Callers) \cup Permutations(Runtimes)
=============================================================================
