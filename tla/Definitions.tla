----------------------------- MODULE Definitions -----------------------------
(***************************************************************************)
(* The three compilers of the repository, side by side: of a transition      *)
(* table (FlatMachineTables), of a statechart (ChartDefinitions, with the    *)
(* hierarchies of ShapeForests) and of a supervised Machine                  *)
(* (StrictDefinitions).  They share no state.  A behaviour asks one of them  *)
(* about a definition that grows; what the others would keep stays away.     *)
(***************************************************************************)
EXTENDS ShapeForests, ChartDefinitions

CONSTANTS
    TableStates, TableEvents, MaxTable,    \* of FlatMachineTables
    Beginnings, StrictRows, StrictEvents, MaxStrictRows, MaxRefusals

VARIABLES
    asked,              \* the compiler that is asked
    table, machine,     \* of FlatMachineTables
    strict, problems    \* of StrictDefinitions

flatVars == << table, machine >>
strictVars == << strict, problems >>
vars == << asked, flatVars, shapeVars, chartVars, strictVars >>

Flat == INSTANCE FlatMachineTables WITH
    States <- TableStates, Events <- TableEvents, MaxRows <- MaxTable

Strict == INSTANCE StrictDefinitions WITH
    Rows <- StrictRows, Events <- StrictEvents, MaxRows <- MaxStrictRows,
    definition <- strict

\* What a definition is given as: finite lists of records.
IsOutline(d) ==
    /\ d = [states |-> d.states, substates |-> d.substates, initials |-> d.initials,
            transitions |-> d.transitions]
    /\ IsList(d.states) /\ IsList(d.substates) /\ IsList(d.initials) /\ IsList(d.transitions)
    /\ \A k \in DOMAIN d.transitions : d.transitions[k].guarded \in BOOLEAN

IsStrict(d) ==
    /\ d = [id |-> d.id, initial |-> d.initial, states |-> d.states, events |-> d.events,
            transitions |-> d.transitions, checks |-> d.checks]
    /\ IsList(d.states) /\ IsList(d.events) /\ IsList(d.transitions)
    /\ \A k \in DOMAIN d.states :
          LET s == d.states[k]
          IN  /\ s = [name |-> s.name, terminal |-> s.terminal, refuse |-> s.refuse]
              /\ s.terminal \in BOOLEAN /\ IsList(s.refuse)
    /\ \A k \in DOMAIN d.transitions :
          LET t == d.transitions[k]
          IN  {t.guarded, t.issue, t.verify} \subseteq BOOLEAN /\ t.preconditions \in Seq(BOOLEAN)
    /\ \A x \in Strict!Sections : d.checks[x] \in Seq(BOOLEAN)

ASSUME OutlineAssumption ==
    /\ \A d \in Declarations \cup Hierarchies : IsOutline(d)
    /\ \A t \in ChartRows : t.guarded \in BOOLEAN

ASSUME StrictAssumption ==
    /\ \A d \in Beginnings : IsStrict(d)
    /\ \A t \in StrictRows :
          {t.guarded, t.issue, t.verify} \subseteq BOOLEAN /\ t.preconditions \in Seq(BOOLEAN)

\* The variables of a compiler that is not asked.
Away == << >>
FlatAway == table = Away /\ machine = Away
ShapesAway == /\ parents = Away /\ initials = Away /\ shape = Away
              /\ lineage = Away /\ active = Away
ChartsAway == outline = Away /\ chart = Away
StrictAway == strict = Away /\ problems = Away

Init ==
    \/ asked = "flat" /\ Flat!Init /\ ShapesAway /\ ChartsAway /\ StrictAway
    \/ asked = "shapes" /\ ForestInit /\ FlatAway /\ ChartsAway /\ StrictAway
    \/ asked = "charts" /\ ChartInit /\ FlatAway /\ ShapesAway /\ StrictAway
    \/ asked = "strict" /\ Strict!Init /\ FlatAway /\ ShapesAway /\ ChartsAway

Next ==
    /\ asked' = asked
    /\ \/ /\ asked = "flat" /\ Flat!Next
          /\ UNCHANGED << shapeVars, chartVars, strictVars >>
       \/ /\ asked = "shapes" /\ ForestNext
          /\ UNCHANGED << flatVars, chartVars, strictVars >>
       \/ /\ asked = "charts" /\ ChartNext
          /\ UNCHANGED << flatVars, shapeVars, strictVars >>
       \/ /\ asked = "strict" /\ Strict!Next
          /\ UNCHANGED << flatVars, shapeVars, chartVars >>

Spec == Init /\ [][Next]_vars

-----------------------------------------------------------------------------
(* Each Compile refuses the definitions that are unsound and no others: a    *)
(* table or a chart for a row that no data selects, a hierarchy for its      *)
(* cycles, a strict definition unless every event has one answer everywhere  *)
(* (statemachine.go, statechart.go and definition.go, Compile).             *)
CompilesExactlyTheSound ==
    /\ asked = "flat" => Flat!RejectsDeadRows
    /\ asked = "shapes" => CyclesAreReported
    /\ asked = "charts" => AcceptsForests /\ RefusesUnselectableRows
    /\ asked = "strict" => Strict!AcceptsCompleteDefinitions

(* What a compiled Machine or Chart says of an event is the same however it  *)
(* is asked: Next or Fire selects the first row of the nearest state that    *)
(* applies, Permitted lists exactly the events so selected and where they    *)
(* lead, and Arrows what some data selects (statemachine.go, Next and        *)
(* Permitted; statechart.go, selectTransition and Permitted; position.go,    *)
(* Arrows).                                                                *)
AnswersAgree ==
    /\ asked = "flat" => Flat!NextSelectsFirst /\ Flat!PermittedAgreesWithNext
    /\ asked = "charts" => /\ NearestHandlerSelects
                           /\ PermittedIsSelection
                           /\ ArrowsAreSelectable

(* The exits and entries of every transition take the active lineage to the  *)
(* lineage of its destination, as the declarations have them: by way of the  *)
(* lowest shared ancestor, through the whole initial chain, and Status and   *)
(* Path tell the same lineage (position.go, compileShape and paths).         *)
LineageFollowsDeclarations ==
    asked = "shapes" =>
        /\ LCAIsLowestShared
        /\ PathsChangeLineage
        /\ StatusIsAncestry
        /\ DestinationEndsChain

(* A compiled supervised Machine has one answer to every declared event in   *)
(* every state, rows or a refusal (definition.go, Compile and Refused).      *)
EveryEventAnswered == asked = "strict" => Strict!EveryEventAnswered
=============================================================================
