------------------------------ MODULE Instance ------------------------------
(***************************************************************************)
(* The flat Instance (instance.go): a Machine with a state of its own.  Fire *)
(* marks the Instance in flight, runs Guards and Do without the lock,        *)
(* commits and numbers the observations under it, delivers them, and clears  *)
(* the mark when it returns, fails or panics.  Permitted copies the state    *)
(* and runs its Guards while other goroutines fire.                         *)
(*                                                                         *)
(* A caller is any goroutine that fires the Instance.  A Fire made by a      *)
(* Guard, a Do or an awaited observer of the Fire in progress behaves as one *)
(* of another caller does: it is refused.  One made by an observer that was  *)
(* abandoned by its timeout is a caller like the others.  A Guard applies or *)
(* declines as the data (T) of the moment has it.                           *)
(***************************************************************************)
EXTENDS FlatMachine, Observers

CONSTANTS
    Viewers,     \* the goroutines that call Permitted
    Table,       \* the transition table
    Initial      \* the state given to New

Machine == Compile(Table)

ASSUME InstanceAssumption ==
    /\ Initial \in States
    /\ Table \in Seq(Row)
    /\ Machine.rejected = 0

VARIABLES
    state,       \* Instance.state
    inFlight,    \* Instance.inFlight
    seq,         \* Instance.seq
    calls,       \* [Callers -> the call of Fire in progress]
    views        \* [Viewers -> the call of Permitted in progress]

instance == << state, inFlight, seq >>
vars == << instance, calls, views, observing >>

IdleCall == [pc |-> "idle", from |-> None, event |-> None, at |-> 0,
             to |-> None, err |-> None, result |-> None]

IdleView == [pc |-> "idle", from |-> None, event |-> 0, at |-> 0, choices |-> << >>]

Init ==
    /\ InitObserving
    /\ state = Initial
    /\ inFlight = FALSE
    /\ seq = 0
    /\ calls = [c \in Callers |-> IdleCall]
    /\ views = [v \in Viewers |-> IdleView]

Set(c, call) == calls' = [calls EXCEPT ![c] = call]

\* The rows that selectTransition looks through for the call.
RowsFor(call) == Machine.rows[<< call.from, call.event >>]

-----------------------------------------------------------------------------
\* The test with which Fire begins, made under the lock.
Busy == inFlight

\* Fire is refused: it returns the state of this moment and ErrInFlight.
Refuse(c) ==
    /\ calls[c].pc = "idle"
    /\ Busy
    /\ Set(c, [IdleCall EXCEPT !.pc = "refused", !.err = "inFlight", !.result = state])
    /\ UNCHANGED << instance, views, observing >>

\* Mutant of MarkAfterRefusal: the deferred function is set up before the test.
MarkAfterRefusalCleared == FALSE

\* What the return of a refused call leaves of the mark: it was not its own.
MarkAfterRefusal == inFlight

ReturnRefused(c) ==
    /\ calls[c].pc = "refused"
    /\ inFlight' = MarkAfterRefusal
    /\ Set(c, IdleCall)
    /\ UNCHANGED << state, seq, views, observing >>

\* The bound on observations stops a Fire that would publish more.
WithinBound(e) ==
    \/ seq + 2 <= MaxSeq
    \/ \A i \in DOMAIN Table :
          Table[i].from = state /\ Table[i].event = e => Table[i].to = state

\* Fire begins.
Begin(c, e) ==
    /\ calls[c].pc = "idle"
    /\ ~Busy
    /\ WithinBound(e)
    /\ inFlight' = TRUE
    /\ Set(c, [IdleCall EXCEPT !.pc = "selecting", !.from = state, !.event = e,
                               !.at = 1])
    /\ UNCHANGED << state, seq, views, observing >>

\* selectTransition: the event is invalid, or no row is left.
NotSelected(c) ==
    LET call == calls[c]
    IN
    /\ call.pc = "selecting"
    /\ \/ call.event \in Invalid
       \/ call.at > Len(RowsFor(call))
    /\ Set(c, [call EXCEPT !.pc = "committing",
                           !.err = IF call.event \in Invalid THEN "invalidKey"
                                   ELSE "notPermitted"])
    /\ UNCHANGED << instance, views, observing >>

\* The Guard of the row declines, or panics; or the row is selected.
Select(c) ==
    LET call == calls[c]
        row == Table[RowsFor(call)[call.at]]
    IN
    /\ call.pc = "selecting"
    /\ call.event \notin Invalid
    /\ call.at <= Len(RowsFor(call))
    /\ \/ /\ row.guarded
          /\ Set(c, [call EXCEPT !.at = @ + 1])
       \/ /\ row.guarded
          /\ Set(c, [call EXCEPT !.pc = "leaving", !.err = "panic"])
       \/ Set(c, [call EXCEPT !.pc = "doing", !.to = row.to])
    /\ UNCHANGED << instance, views, observing >>

\* Do succeeds (as a nil Do does), returns an error, or panics.
Do(c) ==
    LET call == calls[c]
    IN
    /\ call.pc = "doing"
    /\ \/ Set(c, [call EXCEPT !.pc = "committing"])
       \/ Set(c, [call EXCEPT !.pc = "committing", !.err = "failed"])
       \/ Set(c, [call EXCEPT !.pc = "leaving", !.err = "panic"])
    /\ UNCHANGED << instance, views, observing >>

\* The observations of a commit: the source is exited, the destination entered.
Batch(n, from, to) ==
    << [seq |-> n + 1, step |-> n + 1, run |-> n + 1, remaining |-> 1,
        move |-> "exited", state |-> from],
       [seq |-> n + 2, step |-> n + 1, run |-> n + 1, remaining |-> 0,
        move |-> "entered", state |-> to] >>

\* The state that the locked section after Machine.fire leaves.
StateAfter(call) == IF call.err = None THEN call.to ELSE state

\* The observations that section numbers.
BatchOf(call) ==
    IF call.err = None /\ call.from # call.to /\ Observers # << >>
    THEN Batch(seq, call.from, call.to) ELSE << >>

\* The locked section after Machine.fire.  The call goes on to deliver what it
\* numbered, or straight to its return.
Commit(c) ==
    LET call == calls[c]
        batch == BatchOf(call)
    IN
    /\ call.pc = "committing"
    /\ state' = StateAfter(call)
    /\ seq' = seq + Len(batch)
    /\ published' = published \o batch
    /\ Set(c, [call EXCEPT !.pc = IF batch = << >> THEN "leaving" ELSE "delivering",
                           !.result = StateAfter(call)])
    /\ delivery' = [delivery EXCEPT ![c] = IF batch = << >> THEN @ ELSE Delivering(batch)]
    /\ UNCHANGED << inFlight, views, callback >>

\* Deliver returns; the failures of the observers join the error.
Delivered(c) ==
    /\ calls[c].pc = "delivering"
    /\ delivery[c].phase = "done"
    /\ Set(c, [calls[c] EXCEPT !.pc = "leaving",
                   !.err = IF delivery[c].failures = {} THEN None ELSE "observer"])
    /\ UNCHANGED << instance, views, observing >>

\* The deferred function clears the mark, and Fire returns or panics on.
Leave(c) ==
    /\ calls[c].pc = "leaving"
    /\ inFlight' = FALSE
    /\ Set(c, IdleCall)
    /\ delivery' = [delivery EXCEPT ![c] = NoDelivery]
    /\ UNCHANGED << state, seq, views, callback, published >>

-----------------------------------------------------------------------------
\* Mutant of Viewed: the state is read again for every row.
ViewedNow(view) == state

\* The state whose rows Permitted looks through.
Viewed(view) == view.from

\* Permitted copies the state.
View(v) ==
    /\ views[v].pc = "idle"
    /\ views' = [views EXCEPT ![v] = [IdleView EXCEPT !.pc = "viewing", !.from = state,
                                                      !.event = 1, !.at = 1]]
    /\ UNCHANGED << instance, calls, observing >>

\* Machine.Permitted goes through the events of the state and their rows: a
\* Guard declines, a row is taken, or the rows of the event are exhausted.
Consider(v) ==
    LET view == views[v]
        from == Viewed(view)
        event == Machine.events[from][view.event]
        rows == Machine.rows[<< from, event >>]
        row == Table[rows[view.at]]
        nextEvent == [view EXCEPT !.event = @ + 1, !.at = 1]
    IN
    /\ view.pc = "viewing"
    /\ view.event <= Len(Machine.events[from])
    /\ \/ /\ view.at <= Len(rows)
          /\ row.guarded
          /\ views' = [views EXCEPT ![v] = [view EXCEPT !.at = @ + 1]]
       \/ /\ view.at <= Len(rows)
          /\ views' = [views EXCEPT ![v] =
                [nextEvent EXCEPT !.choices = Append(@, << event, row.to >>)]]
       \/ /\ view.at > Len(rows)
          /\ views' = [views EXCEPT ![v] = nextEvent]
    /\ UNCHANGED << instance, calls, observing >>

\* Permitted returns the iterator over its copy.
ReturnView(v) ==
    /\ views[v].pc = "viewing"
    /\ views[v].event > Len(Machine.events[Viewed(views[v])])
    /\ views' = [views EXCEPT ![v] = IdleView]
    /\ UNCHANGED << instance, calls, observing >>

-----------------------------------------------------------------------------
\* The steps of a Fire that has begun, observers and its own callbacks included.
Run(c) ==
    \/ ReturnRefused(c)
    \/ NotSelected(c)
    \/ Select(c)
    \/ Do(c)
    \/ Commit(c)
    \/ Delivered(c)
    \/ Leave(c)

Next ==
    \/ \E c \in Callers :
          \/ Refuse(c)
          \/ \E e \in Events : Begin(c, e)
          \/ Run(c)
          \/ Deliver(c) /\ UNCHANGED << instance, calls, views >>
    \/ Callback /\ UNCHANGED << instance, calls, views >>
    \/ \E v \in Viewers : View(v) \/ Consider(v) \/ ReturnView(v)

Spec == Init /\ [][Next]_vars

\* Guards, Do, reporters and the observers without a timeout return; goroutines
\* are scheduled and timers fire.  A timed observer may never return.
Fairness ==
    /\ \A c \in Callers :
          /\ WF_vars(Run(c))
          /\ WF_vars(Deliver(c) /\ UNCHANGED << instance, calls, views >>)
    /\ \A o \in Observer, n \in Seqs :
          /\ WF_vars(CallbackBegins(o, n) /\ UNCHANGED << instance, calls, views >>)
          /\ ~Observers[o].timed =>
                WF_vars(CallbackEnds(o, n) /\ UNCHANGED << instance, calls, views >>)

LiveSpec == Spec /\ Fairness

-----------------------------------------------------------------------------
InFlight(c) == calls[c].pc \notin {"idle", "refused"}

(* At most one Fire runs, observers included, and the Instance is marked in  *)
(* flight exactly while one does: refusals, errors and panics neither clear  *)
(* the mark of another call nor leave their own behind (instance.go, Fire).  *)
SingleFlight ==
    /\ inFlight <=> \E c \in Callers : InFlight(c)
    /\ \A c, d \in Callers : InFlight(c) /\ InFlight(d) => c = d

(* What Fire returns is the state of the Instance when it returns, and it    *)
(* returns no error only if every observer that is not contained finished    *)
(* each observation of the commit (instance.go, Fire; observe.go).          *)
ResultTellsTruth ==
    \A c \in Callers :
        LET call == calls[c]
        IN  call.pc = "leaving" /\ call.err # "panic" =>
                /\ call.result = state
                /\ call.err = None =>
                      /\ state = call.to
                      /\ \A j \in DOMAIN delivery[c].batch, o \in Observer :
                            ~Observers[o].contained
                            => callback[<< o, delivery[c].batch[j].seq >>] = "ok"

(* Permitted describes one state, the one of its call, each event once, also *)
(* when a Fire commits between two of its Guards (instance.go, Permitted).   *)
PermittedOfOneState ==
    \A v \in Viewers :
        LET choices == views[v].choices
        IN  /\ \A j \in DOMAIN choices : \E i \in DOMAIN Table :
                  /\ Table[i].from = views[v].from
                  /\ << Table[i].event, Table[i].to >> = choices[j]
            /\ \A j, k \in DOMAIN choices : choices[j][1] = choices[k][1] => j = k

\* The Instance as a register that only rows of the Machine move.
Register == INSTANCE Versioned WITH
    Keys <- {"instance"},
    Rows <- {<< Table[i].from, Table[i].to >> : i \in DOMAIN Table},
    aggregate <- [k \in {"instance"} |-> state]

(* The state moves in one step along a row of the Machine that starts at the *)
(* state it has at that moment: no Fire overwrites what another one          *)
(* committed (instance.go, Fire).                                           *)
ImplementsRegister == Register!Spec

(* Every observation reaches every observer, whatever other observers do     *)
(* (internal/observer/delivery.go, Deliver).                               *)
EveryObservationArrives ==
    \A o \in Observer, n \in Seqs :
        n <= Len(published) ~> callback[<< o, n >>] \notin {None, "ready"}
=============================================================================
