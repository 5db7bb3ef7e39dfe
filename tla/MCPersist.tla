----------------------------- MODULE MCPersist ------------------------------
(* A ring of three states: a state comes back, a revision does not.  All       *)
(* callers work on the aggregate of the MemoryStore, one also on the other.   *)
EXTENDS Persist

CONSTANTS memory, adapter, both

MCStates == {"A", "B", "C"}
MCRows == { << "A", "B" >>, << "B", "C" >>, << "C", "A" >> }
MCKeysOf == [c \in Callers |-> IF c = both THEN Keys ELSE {memory}]
=============================================================================
