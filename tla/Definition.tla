----------------------------- MODULE Definition ------------------------------
(***************************************************************************)
(* The strict Definition of a supervised Machine (supervised/definition.go): *)
(* what Compile refuses, and what the compiled Machine answers.  A state     *)
(* must handle or refuse every event, unless it is terminal.                *)
(*                                                                         *)
(* A definition is a record of sequences, as in the code.  Of a callback it  *)
(* has whether it is there (FALSE for a nil one), of an ID a number, 0 for   *)
(* the blank one.  Only key types without interfaces are considered.        *)
(***************************************************************************)
EXTENDS Integers, Sequences, SequencesExt

CONSTANT Invalid     \* the states and events that do not equal themselves (NaN)

\* The callbacks that a definition must have at least one of.
Sections == {"preconditions", "invariants", "postconditions", "reconcile"}

\* stateAt and eventAt.
Names(d) == {s.name : s \in ToSet(d.states)}

Declared(d) == ToSet(d.events)

\* The key values that Compile examines before it looks at anything else.
Keys(d) ==
    {d.initial} \cup Names(d) \cup Declared(d)
    \cup (UNION {ToSet(s.refuse) : s \in ToSet(d.states)})
    \cup (UNION {{t.from, t.event, t.to} : t \in ToSet(d.transitions)})

CallbackProblems(d) ==
    {<< s, 0 >> : s \in {x \in Sections : d.checks[x] = << >>}}
    \cup UNION {{<< s, i >> : i \in {k \in DOMAIN d.checks[s] : ~d.checks[s][k]}} : s \in Sections}

StateProblems(d) ==
    {<< "states", i >> : i \in {k \in DOMAIN d.states :
        \E j \in 1 .. k - 1 : d.states[j].name = d.states[k].name}}
    \cup {<< "no states", 0 >> : x \in {d.states} \cap {<< >>}}
    \cup {<< "initial", 0 >> : x \in {y \in {d.initial} : d.states # << >> /\ y \notin Names(d)}}

EventProblems(d) ==
    {<< "events", i >> : i \in {k \in DOMAIN d.events :
        \E j \in 1 .. k - 1 : d.events[j] = d.events[k]}}
    \cup {<< "no events", 0 >> : x \in {d.events} \cap {<< >>}}

\* The refusals of one state that repeat another or are of no declared event.
RefusalProblems(d) ==
    UNION {{<< "refuse", i, j >> : j \in {k \in DOMAIN d.states[i].refuse :
                \/ \E j \in 1 .. k - 1 : d.states[i].refuse[j] = d.states[i].refuse[k]
                \/ d.states[i].refuse[k] \notin Declared(d)}} :
           i \in DOMAIN d.states}

\* refused: of every state declared with the name, duplicates included.
RefusedKeys(d) ==
    UNION {{<< s.name, e >> : e \in ToSet(s.refuse) \cap Declared(d)} : s \in ToSet(d.states)}

\* stateIndex: the first declaration of a name counts.
IsTerminal(d, name) ==
    \E k \in DOMAIN d.states :
        /\ d.states[k].name = name /\ \A j \in 1 .. k - 1 : d.states[j].name # name
        /\ d.states[k].terminal

KeyOf(t) == << t.from, t.event >>

\* An earlier row with the same From and Event has no Guard.
Hidden(d, k) ==
    \E j \in 1 .. k - 1 :
        KeyOf(d.transitions[j]) = KeyOf(d.transitions[k]) /\ ~d.transitions[j].guarded

\* The states and the event of the row are declared.
Known(d, t) == {t.from, t.to} \subseteq Names(d) /\ t.event \in Declared(d)

TransitionProblems(d) ==
    {<< "transitions", i >> : i \in {k \in DOMAIN d.transitions :
        LET t == d.transitions[k]
        IN  \/ t.id = 0
            \/ \E j \in 1 .. k - 1 : d.transitions[j].id = t.id
            \/ ~Known(d, t)
            \/ t.issue # t.verify
            \/ FALSE \in ToSet(t.preconditions)
            \/ Hidden(d, k)
            \/ KeyOf(t) \in RefusedKeys(d)
            \/ IsTerminal(d, t.from)}}

\* rows: the rows of a state for an event, in declaration order.
RowsOf(d, s, e) ==
    FlattenSeq([k \in DOMAIN d.transitions |->
        LET t == d.transitions[k]
        IN  IF Known(d, t) /\ KeyOf(t) = << s, e >> THEN << t >> ELSE << >>])

Unanswered(d, s, e) == RowsOf(d, s, e) = << >> /\ << s, e >> \notin RefusedKeys(d)

\* A state that is not terminal answers every event and has a way out.
CoverageProblems(d) ==
    LET open == {s \in Names(d) : ~IsTerminal(d, s)}
    IN  {<< "coverage", x >> : x \in {y \in open \X Declared(d) : Unanswered(d, y[1], y[2])}}
        \cup {<< "way out", s >> : s \in {x \in open :
                    \A e \in Declared(d) : RowsOf(d, x, e) = << >>}}

\* One pass over the rows.
Grown(d, reachable) ==
    LET pass[k \in 0 .. Len(d.transitions)] ==
            IF k = 0 THEN reachable
            ELSE IF d.transitions[k].from \in pass[k - 1]
                 THEN pass[k - 1] \cup {d.transitions[k].to} ELSE pass[k - 1]
    IN  pass[Len(d.transitions)]

\* Mutant of Reachable: the rows are gone through once.
OnePass(d) == Grown(d, {d.initial})

\* The passes of Compile, as many as there are rows: that many at most add a state.
Reachable(d) ==
    LET after[n \in 0 .. Len(d.transitions)] ==
            IF n = 0 THEN {d.initial} ELSE Grown(d, after[n - 1])
    IN  after[Len(d.transitions)]

ReachabilityProblems(d) ==
    IF d.initial \notin Names(d) THEN {}
    ELSE {<< "unreachable", s >> : s \in Names(d) \ Reachable(d)}

\* Compile: what it reports; a Machine is returned when that is nothing.  An
\* invalid key is returned alone.
Compile(d) ==
    IF Keys(d) \cap Invalid # {} THEN {<< "invalid key", 0 >>}
    ELSE {<< "id", 0 >> : x \in {d.id} \cap {0}}
         \cup CallbackProblems(d) \cup StateProblems(d) \cup EventProblems(d)
         \cup RefusalProblems(d) \cup TransitionProblems(d)
         \cup CoverageProblems(d) \cup ReachabilityProblems(d)

\* Mutant of Refused: terminal states refuse only what they list.
RefusedIfListed(d, s, e) == s \in Names(d) /\ e \in Declared(d) /\ << s, e >> \in RefusedKeys(d)

\* Machine.Refused.
Refused(d, s, e) ==
    /\ s \in Names(d)
    /\ e \in Declared(d)
    /\ IsTerminal(d, s) \/ << s, e >> \in RefusedKeys(d)

\* Machine.External.
External(d) == \E k \in DOMAIN d.transitions : d.transitions[k].issue
=============================================================================
