----------------------------- MODULE Versioned ------------------------------
(***************************************************************************)
(* What a versioned Store promises (persist.Store, persist.MemoryStore): the *)
(* state of an aggregate is a register that is only ever moved, in one step, *)
(* from the value it has along one row of the Machine.                      *)
(***************************************************************************)
CONSTANTS Keys, States, Rows, Initial

VARIABLE aggregate    \* [Keys -> States]

Init == aggregate = [k \in Keys |-> Initial]

Transition(k) ==
    \E t \in States :
        /\ << aggregate[k], t >> \in Rows
        /\ aggregate' = [aggregate EXCEPT ![k] = t]

Next == \E k \in Keys : Transition(k)

Spec == Init /\ [][Next]_aggregate
=============================================================================
