----------------------------- MODULE FlatMachine -----------------------------
(***************************************************************************)
(* The flat Machine (statemachine.go): Compile builds, one row of the table  *)
(* at a time, the group of rows of every state and event; Next and Permitted *)
(* select from those groups.                                               *)
(*                                                                         *)
(* A row is named by its index in the table.  Data (T) is abstracted to the  *)
(* set of rows whose Guard returns nil for it.                             *)
(***************************************************************************)
EXTENDS Integers, Sequences, SequencesExt

CONSTANTS
    States,
    Events,
    Invalid      \* the states and events that do not equal themselves (NaN)

Row == [from : States, event : Events, to : States, guarded : BOOLEAN]

Group == States \X Events

GroupOf(t) == << t.from, t.event >>

\* Compile before its loop.  rejected is the index of the row that ends it.
EmptyMachine ==
    [rows |-> [g \in Group |-> << >>], events |-> [s \in States |-> << >>],
     unguarded |-> {}, rejected |-> 0]

InvalidKeys(t) == {t.from, t.event, t.to} \cap Invalid # {}

\* Mutant of Unguarded: rows without a Guard are not remembered.
ForgetUnguarded(m, i, t) == m.unguarded

\* The groups that have a row without a Guard once row i = t has been added.
Unguarded(m, i, t) == IF t.guarded THEN m.unguarded ELSE m.unguarded \cup {GroupOf(t)}

\* Mutant of EventsWith: an event is appended with every row of it.
MentionEvent(m, t) == Append(m.events[t.from], t.event)

\* The events of the row's state: a new one is appended with its first row.
EventsWith(m, t) == IF m.rows[GroupOf(t)] = << >>
                    THEN Append(m.events[t.from], t.event)
                    ELSE m.events[t.from]

\* One iteration of the loop of Compile: row i of the table is t.
AddRow(m, i, t) ==
    IF \/ InvalidKeys(t)
       \/ GroupOf(t) \in m.unguarded
    THEN [m EXCEPT !.rejected = i]
    ELSE [m EXCEPT !.unguarded = Unguarded(m, i, t),
                   !.events[t.from] = EventsWith(m, t),
                   !.rows[GroupOf(t)] = Append(@, i)]

\* Compile stops at the row that it rejects.
ReadRow(m, i, t) == IF m.rejected # 0 THEN m ELSE AddRow(m, i, t)

Compile(table) ==
    LET after[i \in 0 .. Len(table)] ==
            IF i = 0 THEN EmptyMachine ELSE ReadRow(after[i - 1], i, table[i])
    IN  after[Len(table)]

\* Row i applies to the data for which the Guards of passing return nil.
Applies(table, i, passing) == table[i].guarded => i \in passing

\* Mutant of FirstThatApplies: the last row wins.
LastThatApplies(table, group, passing) ==
    LET applying == {j \in DOMAIN group : Applies(table, group[j], passing)}
    IN  IF applying = {} THEN 0 ELSE Max(applying)

\* selectTransition: the position in its group of the first row that applies, or
\* 0; the rows before it are the ones that gave a reason.
FirstThatApplies(table, group, passing) ==
    LET applying == {j \in DOMAIN group : Applies(table, group[j], passing)}
    IN  IF applying = {} THEN 0 ELSE Min(applying)

\* Machine.Next: the state it reports, and what its error wraps.
NextState(table, m, from, event, passing) ==
    LET group == m.rows[<< from, event >>]
        position == FirstThatApplies(table, group, passing)
    IN  CASE {from, event} \cap Invalid # {} ->
                 [state |-> from, err |-> "invalidKey", reasons |-> << >>]
          [] {from, event} \cap Invalid = {} /\ position = 0 ->
                 [state |-> from, err |-> "notPermitted", reasons |-> group]
          [] OTHER ->
                 [state |-> table[group[position]].to, err |-> "none", reasons |-> << >>]

\* Machine.Permitted ranged to its end for unchanged data: events with the
\* states they lead to.
Permitted(table, m, from, passing) ==
    LET choice(event) ==
            LET group == m.rows[<< from, event >>]
                position == FirstThatApplies(table, group, passing)
            IN  IF position = 0 THEN << >>
                ELSE << << event, table[group[position]].to >> >>
    IN  IF from \in Invalid THEN << >>
        ELSE FlattenSeq([j \in DOMAIN m.events[from] |-> choice(m.events[from][j])])
=============================================================================
