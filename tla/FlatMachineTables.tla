-------------------------- MODULE FlatMachineTables --------------------------
(***************************************************************************)
(* Every table of at most MaxRows rows, compiled row by row as the loop of   *)
(* Compile does, and the questions a compiled Machine answers compared with  *)
(* what the table itself says.                                             *)
(***************************************************************************)
EXTENDS FlatMachine, FiniteSets

CONSTANT MaxRows       \* bound: the rows of a table

VARIABLES
    table,     \* the rows read so far
    machine    \* what Compile has built of them

vars == << table, machine >>

Init == table = << >> /\ machine = EmptyMachine

\* Compile reads the next row.
CompileRow(t) ==
    /\ machine.rejected = 0
    /\ Len(table) < MaxRows
    /\ table' = Append(table, t)
    /\ machine' = AddRow(machine, Len(table) + 1, t)

Next == \E t \in Row : CompileRow(t)

Spec == Init /\ [][Next]_vars

Indices == 1 .. Len(table)

-----------------------------------------------------------------------------
\* The first row of the table for a state and an event that applies; 0 when
\* there is none.
FirstOfTable(from, event, passing) ==
    LET rows == {i \in Indices : /\ table[i].from = from
                                 /\ table[i].event = event
                                 /\ Applies(table, i, passing)}
    IN  IF rows = {} THEN 0 ELSE CHOOSE i \in rows : \A j \in rows : i <= j

(* Compile accepts a table exactly when its keys are valid and every row of  *)
(* it is selected for some data: a row is rejected when, and only when, it   *)
(* can never be reached (statemachine.go, Compile).                         *)
RejectsDeadRows ==
    (machine.rejected = 0) <=>
        /\ \A i \in Indices : ~InvalidKeys(table[i])
        /\ \A i \in Indices : \E passing \in SUBSET Indices :
               FirstOfTable(table[i].from, table[i].event, passing) = i

(* Next selects the first row of the table, in the table's order, that       *)
(* matches and applies; it refuses with the reasons of all matching rows     *)
(* otherwise (statemachine.go, Next and selectTransition).                  *)
NextSelectsFirst ==
    machine.rejected = 0 =>
    \A from \in States \ Invalid, event \in Events \ Invalid, passing \in SUBSET Indices :
        LET first == FirstOfTable(from, event, passing)
            next == NextState(table, machine, from, event, passing)
            declined == {i \in Indices : table[i].from = from /\ table[i].event = event}
        IN  IF first = 0
            THEN /\ next.state = from
                 /\ next.err = "notPermitted"
                 /\ ToSet(next.reasons) = declined
            ELSE next = [state |-> table[first].to, err |-> "none", reasons |-> << >>]

(* Permitted yields an event exactly when Next accepts it for the same data, *)
(* once, with the state Next reports (statemachine.go, Permitted).          *)
PermittedAgreesWithNext ==
    machine.rejected = 0 =>
    \A from \in States, passing \in SUBSET Indices :
        LET permitted == Permitted(table, machine, from, passing)
            accepted == {e \in Events :
                            NextState(table, machine, from, e, passing).err = "none"}
        IN  /\ {permitted[j][1] : j \in DOMAIN permitted} = accepted
            /\ Len(permitted) = Cardinality(accepted)
            /\ \A j \in DOMAIN permitted :
                   permitted[j][2]
                   = NextState(table, machine, from, permitted[j][1], passing).state
=============================================================================
