-------------------------- MODULE StrictDefinitions --------------------------
(***************************************************************************)
(* Definitions of supervised Machines, right and wrong, that grow by one     *)
(* refusal or one row at a time.  What Compile accepts is compared with what *)
(* the definition itself says.                                             *)
(***************************************************************************)
EXTENDS Definition, FiniteSetsExt

CONSTANTS
    Beginnings,    \* the definitions to begin with
    Rows,          \* the rows that may be added, without their IDs
    Events,        \* the events that may be refused
    MaxRows,       \* bound: the rows of a definition
    MaxRefusals    \* bound: the refusals of a state

VARIABLES
    definition,    \* what Compile is given
    problems       \* what it reports

vars == << definition, problems >>

Init ==
    /\ definition \in Beginnings
    /\ problems = Compile(definition)

AddRefusal(i, e) ==
    /\ Len(definition.states[i].refuse) < MaxRefusals
    /\ definition' = [definition EXCEPT !.states[i].refuse = Append(@, e)]
    /\ problems' = Compile(definition')

\* A row with an ID of its own, a blank one, or the one of the row before it.
AddTransition(t, id) ==
    /\ Len(definition.transitions) < MaxRows
    /\ definition' = [definition EXCEPT !.transitions =
                        Append(@, [from |-> t.from, event |-> t.event, to |-> t.to, id |-> id,
                                   guarded |-> t.guarded, issue |-> t.issue,
                                   verify |-> t.verify, preconditions |-> t.preconditions])]
    /\ problems' = Compile(definition')

Next ==
    \/ \E i \in DOMAIN definition.states, e \in Events : AddRefusal(i, e)
    \/ \E t \in Rows :
          LET n == Len(definition.transitions)
          IN  AddTransition(t, n + 1) \/ (t.issue /\ \E id \in {0, n} : AddTransition(t, id))

Spec == Init /\ [][Next]_vars

Accepted == problems = {}

Indices == DOMAIN definition.transitions

NameSet == {definition.states[i].name : i \in DOMAIN definition.states}

EventSet == {definition.events[i] : i \in DOMAIN definition.events}

-----------------------------------------------------------------------------
\* The rows of a state for an event, by index.
Answers(s, e) == {k \in Indices : /\ definition.transitions[k].from = s
                                  /\ definition.transitions[k].event = e}

RefusedAt(i) == {definition.states[i].refuse[j] : j \in DOMAIN definition.states[i].refuse}

(* Compile accepts the complete and unambiguous definitions and no others:   *)
(* at every state that is not terminal every event is either handled or      *)
(* refused, some event is handled, at a terminal state none is, every row    *)
(* can be selected for some data, and every state is in every set of states  *)
(* that holds the initial one and is closed under the rows (definition.go,   *)
(* Compile).                                                               *)
AcceptsCompleteDefinitions ==
    LET d == definition
        row(k) == d.transitions[k]
        closed == {S \in SUBSET NameSet : /\ d.initial \in S
                                          /\ \A k \in Indices : row(k).from \in S => row(k).to \in S}
    IN  Accepted <=>
        /\ d.id # 0
        /\ \A s \in Sections : Len(d.checks[s]) > 0 /\ \A k \in DOMAIN d.checks[s] : d.checks[s][k]
        /\ (NameSet \cup EventSet) \cap Invalid = {}
        /\ d.initial \in NameSet
        /\ EventSet # {} /\ Cardinality(EventSet) = Len(d.events)
        /\ Cardinality(NameSet) = Len(d.states)
        /\ \A i \in DOMAIN d.states :
              LET s == d.states[i]
              IN  /\ RefusedAt(i) \subseteq EventSet
                  /\ Cardinality(RefusedAt(i)) = Len(s.refuse)
                  /\ IF s.terminal THEN \A e \in EventSet : Answers(s.name, e) = {}
                     ELSE /\ \A e \in EventSet : (e \in RefusedAt(i)) <=> (Answers(s.name, e) = {})
                          /\ \E e \in EventSet : Answers(s.name, e) # {}
        /\ \A k \in Indices :
              /\ {row(k).from, row(k).to} \subseteq NameSet /\ row(k).event \in EventSet
              /\ row(k).id \notin {0} \cup {row(j).id : j \in Indices \ {k}}
              /\ row(k).issue = row(k).verify
              /\ \A j \in DOMAIN row(k).preconditions : row(k).preconditions[j]
              /\ \E passing \in SUBSET Indices :
                    k = Min({j \in Answers(row(k).from, row(k).event) :
                                ~row(j).guarded \/ j \in passing} \cup {Len(d.transitions) + 1})
        /\ \A S \in closed : S = NameSet

(* A compiled Machine has one answer to every declared event in every state: *)
(* it has rows for it or it refuses it, never both and never neither, and a  *)
(* terminal state refuses everything (definition.go, Compile and Refused).   *)
EveryEventAnswered ==
    Accepted =>
    \A s \in NameSet, e \in EventSet :
        Refused(definition, s, e) <=> RowsOf(definition, s, e) = << >>
=============================================================================
