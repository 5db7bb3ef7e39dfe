----------------------------- MODULE Statechart ------------------------------
(***************************************************************************)
(* The statechart Instance (statechart/statechart.go, observe.go): a Chart   *)
(* with an active state.  Fire selects a row at the active state or nearest  *)
(* above it, runs exit actions, the effect and entry actions without the     *)
(* lock, commits the destination and numbers the observations under it, and  *)
(* delivers those.                                                         *)
(*                                                                         *)
(* A caller is any goroutine that fires the Instance; a Fire made by a       *)
(* callback of the Fire in progress behaves as one of another caller does.   *)
(* A Guard applies or declines as the data (T) of the moment has it.        *)
(***************************************************************************)
EXTENDS Chart, Observers

CONSTANTS
    Definitions,     \* definitions that Compile accepts
    ExitActions,     \* the exit actions of every state: FALSE for a nil one
    EntryActions,    \* its entry actions
    Events

ASSUME StatechartAssumption ==
    \A d \in Definitions :
        /\ IsList(d.states) /\ IsList(d.substates)
        /\ IsList(d.initials) /\ IsList(d.transitions)
        /\ Problems(d) = {}
        /\ \A s \in ToSet(d.states) : /\ ExitActions[s] \in Seq(BOOLEAN)
                                      /\ EntryActions[s] \in Seq(BOOLEAN)

VARIABLES
    chart,       \* Instance.chart, which never changes
    state,       \* Instance.state, as a node of the chart
    inFlight,    \* Instance.inFlight
    seq,         \* Instance.seq
    first,       \* history: the state of New
    calls        \* [Callers -> the call of Fire in progress]

instance == << chart, state, inFlight, seq, first >>
vars == << instance, calls, observing >>

NoError == [err |-> None, phase |-> None, node |-> 0, index |-> 0, completed |-> 0]

\* todo are the actions still to run, ran those that returned without error.
IdleCall == [pc |-> "idle", source |-> 0, event |-> None, at |-> 0, row |-> 0,
             exits |-> << >>, entries |-> << >>, todo |-> << >>, ran |-> << >>,
             error |-> NoError, result |-> 0]

\* New resolves the initial state to its destination.
Init ==
    /\ InitObserving
    /\ chart \in {ChartOf(d) : d \in Definitions}
    /\ \E i \in DOMAIN chart.shape.state : state = chart.shape.destination[i]
    /\ inFlight = FALSE
    /\ seq = 0
    /\ first = state
    /\ calls = [c \in Callers |-> IdleCall]

Set(c, call) == calls' = [calls EXCEPT ![c] = call]

Failing(call, err) == [call EXCEPT !.pc = "leaving", !.error.err = err, !.result = call.source]

-----------------------------------------------------------------------------
\* Mutant of Busy: the mark is not tested.
NeverInFlight == FALSE

\* The test with which Fire begins, made under the lock.
Busy == inFlight

\* Fire is refused: it returns the state of this moment and ErrInFlight.
Refuse(c) ==
    /\ calls[c].pc = "idle"
    /\ Busy
    /\ Set(c, [IdleCall EXCEPT !.pc = "refused", !.error.err = "inFlight", !.result = state])
    /\ UNCHANGED << instance, observing >>

ReturnRefused(c) ==
    /\ calls[c].pc = "refused"
    /\ Set(c, IdleCall)
    /\ UNCHANGED << instance, observing >>

\* Fire begins.  The bound on observations stops a Fire that could publish more.
Begin(c, e) ==
    /\ calls[c].pc = "idle"
    /\ ~Busy
    /\ seq + 2 * Len(chart.shape.state) <= MaxSeq
    /\ inFlight' = TRUE
    /\ Set(c, [IdleCall EXCEPT !.pc = "selecting", !.source = state, !.event = e, !.at = 1])
    /\ UNCHANGED << chart, state, seq, first, observing >>

\* The event is invalid, or no candidate is left.
NotSelected(c) ==
    LET call == calls[c]
    IN
    /\ call.pc = "selecting"
    /\ \/ /\ call.event \in Invalid
          /\ Set(c, Failing(call, "invalidKey"))
       \/ /\ call.event \notin Invalid
          /\ call.at > Len(Candidates(chart, call.source, call.event))
          /\ Set(c, Failing(call, "notPermitted"))
    /\ UNCHANGED << instance, observing >>

\* The actions of the states, in order, each with its index; nil ones are skipped.
Actions(phase, nodes, actions) ==
    LET of(i) == LET a == actions[chart.shape.state[i]]
                     run == Positions(a)
                 IN  [k \in DOMAIN run |-> [phase |-> phase, node |-> i, index |-> run[k]]]
    IN  FlattenSeq([j \in DOMAIN nodes |-> of(nodes[j])])

Effect == [phase |-> "effect", node |-> 0, index |-> 0]

\* Mutant of Lifecycle: the entry actions run before the effect.
EntriesBeforeEffect(exits, entries) == exits \o entries \o << Effect >>

\* Exits, then the effect, then entries.
Lifecycle(exits, entries) == exits \o << Effect >> \o entries

\* The call once candidate j has been selected for it.
Selected(call, j) ==
    LET row == Candidates(chart, call.source, call.event)[j].row
        t == chart.transitions[row]
        target == IndexOf(chart.shape.state, t.to)
        destination == DestinationOf(chart, call.source, row)
        paths == Paths(chart.shape, call.source, target, destination, t.kind = "reentry")
    IN  IF t.kind = "internal"
        THEN [call EXCEPT !.pc = "acting", !.row = row, !.todo = << Effect >>]
        ELSE [call EXCEPT !.pc = "acting", !.row = row,
                          !.exits = paths.exits, !.entries = paths.entries,
                          !.todo = Lifecycle(Actions("exit", paths.exits, ExitActions),
                                             Actions("entry", paths.entries, EntryActions))]

\* The Guard of the candidate declines, or panics; or its row is selected.
Select(c) ==
    LET call == calls[c]
        candidates == Candidates(chart, call.source, call.event)
    IN
    /\ call.pc = "selecting"
    /\ call.event \notin Invalid
    /\ call.at <= Len(candidates)
    /\ \/ /\ chart.transitions[candidates[call.at].row].guarded
          /\ \/ Set(c, [call EXCEPT !.at = @ + 1])
             \/ Set(c, Failing(call, "panic"))
       \/ Set(c, Selected(call, call.at))
    /\ UNCHANGED << instance, observing >>

\* The actions of the same phase that completed before the next one.
Completed(call) ==
    LET counted(action) == action.phase # "effect" /\ action.phase = Head(call.todo).phase
    IN  Len(Positions([j \in DOMAIN call.ran |-> counted(call.ran[j])]))

\* The next action succeeds, returns an error, or panics.
Act(c) ==
    LET call == calls[c]
        action == Head(call.todo)
    IN
    /\ call.pc = "acting"
    /\ call.todo # << >>
    /\ \/ Set(c, [call EXCEPT !.todo = Tail(@), !.ran = Append(@, action)])
       \/ Set(c, [Failing(call, "action") EXCEPT
                    !.error = [err |-> "action", phase |-> action.phase, node |-> action.node,
                               index |-> action.index, completed |-> Completed(call)]])
       \/ Set(c, Failing(call, "panic"))
    /\ UNCHANGED << instance, observing >>

\* An internal transition returns without a commit.
ReturnInternal(c) ==
    LET call == calls[c]
    IN
    /\ call.pc = "acting"
    /\ call.todo = << >>
    /\ chart.transitions[call.row].kind = "internal"
    /\ Set(c, [call EXCEPT !.pc = "leaving", !.result = call.source])
    /\ UNCHANGED << instance, observing >>

\* The observations of a commit: exits, then entries.
Batch(n, exits, entries) ==
    LET total == Len(exits) + Len(entries)
    IN  [j \in 1 .. total |->
            [seq |-> n + j, step |-> n + 1, run |-> n + 1, remaining |-> total - j,
             move |-> IF j <= Len(exits) THEN "exited" ELSE "entered",
             state |-> IF j <= Len(exits) THEN exits[j] ELSE entries[j - Len(exits)]]]

\* Mutant of Committed: the initial chain of the target is not followed.
CommittedTarget(call) ==
    IndexOf(chart.shape.state, chart.transitions[call.row].to)

\* The state that a call commits.
Committed(call) == DestinationOf(chart, call.source, call.row)

\* The locked section after the entry actions.
Commit(c) ==
    LET call == calls[c]
        batch == IF Observers = << >> THEN << >> ELSE Batch(seq, call.exits, call.entries)
    IN
    /\ call.pc = "acting"
    /\ call.todo = << >>
    /\ chart.transitions[call.row].kind # "internal"
    /\ state' = Committed(call)
    /\ seq' = seq + Len(batch)
    /\ published' = published \o batch
    /\ Set(c, [call EXCEPT !.pc = IF batch = << >> THEN "leaving" ELSE "delivering",
                           !.result = Committed(call)])
    /\ delivery' = [delivery EXCEPT ![c] = IF batch = << >> THEN @ ELSE Delivering(batch)]
    /\ UNCHANGED << chart, inFlight, first, callback >>

\* Deliver returns; the failures of the observers are the error.
Delivered(c) ==
    /\ calls[c].pc = "delivering"
    /\ delivery[c].phase = "done"
    /\ Set(c, [calls[c] EXCEPT !.pc = "leaving",
                   !.error.err = IF delivery[c].failures = {} THEN None ELSE "observer"])
    /\ UNCHANGED << instance, observing >>

\* The deferred function clears the mark, and Fire returns or panics on.
Leave(c) ==
    /\ calls[c].pc = "leaving"
    /\ inFlight' = FALSE
    /\ Set(c, IdleCall)
    /\ delivery' = [delivery EXCEPT ![c] = NoDelivery]
    /\ UNCHANGED << chart, state, seq, first, callback, published >>

Next ==
    \/ \E c \in Callers :
          \/ Refuse(c)
          \/ ReturnRefused(c)
          \/ \E e \in Events : Begin(c, e)
          \/ NotSelected(c)
          \/ Select(c)
          \/ Act(c)
          \/ ReturnInternal(c)
          \/ Commit(c)
          \/ Delivered(c)
          \/ Leave(c)
          \/ Deliver(c) /\ UNCHANGED << instance, calls >>
    \/ Callback /\ UNCHANGED << instance, calls >>

Spec == Init /\ [][Next]_vars

-----------------------------------------------------------------------------
\* The active states after the first n observations, innermost first, if every
\* exit is of the innermost state and every entry of a child of it.
Replay ==
    LET after[n \in 0 .. Len(published)] ==
            IF n = 0 THEN Path(chart.shape, first)
            ELSE LET active == after[n - 1]
                     o == published[n]
                 IN  CASE /\ o.move = "exited"
                          /\ active # << >>
                          /\ Head(active) = o.state -> Tail(active)
                       [] /\ o.move = "entered"
                          /\ chart.shape.parent[o.state]
                             = (IF active = << >> THEN 0 ELSE Head(active)) -> << o.state >> \o active
                       [] OTHER -> << 0 >>
    IN  after[Len(published)]

(* Whoever applies the observations one by one to the lineage of the first   *)
(* state has the lineage of the committed state: only the innermost active   *)
(* state is ever exited, only a child of it entered, over all commits        *)
(* (statechart.go, Fire; position.go, paths; observe.go).                   *)
ObservationsTrackLineage ==
    Observers # << >> => Replay = Path(chart.shape, state)

(* Before a Fire returns, the state has changed only if every exit action of *)
(* the lineage left, the effect, and every entry action of the lineage       *)
(* entered ran, in that order; a Fire that fails leaves its source and says  *)
(* which action failed and how many of the phase had completed               *)
(* (statechart.go, Fire and ActionError).                                   *)
LifecycleIsWholeOrReported ==
    \A c \in Callers :
        LET call == calls[c]
            error == call.error
            all == Actions("exit", call.exits, ExitActions) \o << Effect >>
                   \o Actions("entry", call.entries, EntryActions)
            before(action) == {j \in DOMAIN call.ran : call.ran[j].phase = action.phase}
        IN  /\ call.pc \in {"selecting", "acting"} => state = call.source
            /\ call.pc = "leaving" /\ error.err \in {None, "observer"} =>
                  /\ call.ran = all
                  /\ state = call.result
            /\ call.pc = "leaving" /\ error.err \notin {None, "observer"} => state = call.source
            /\ error.err = "action" =>
                  /\ [phase |-> error.phase, node |-> error.node, index |-> error.index]
                     = all[Len(call.ran) + 1]
                  /\ error.phase # "effect" => error.completed = Cardinality(before(error))

(* The active state moves in one step along an arrow that Chart.Arrows lists *)
(* for the state active at that moment: no Fire overwrites what another one  *)
(* committed, and the chart never changes (statechart.go, Fire; position.go, *)
(* Arrows).                                                                *)
MovesAlongArrows ==
    [][/\ chart' = chart
       /\ state' # state =>
             \E a \in ToSet(Arrows(chart, state)) : state' = DestinationOf(chart, state, a.row)]_vars
=============================================================================
