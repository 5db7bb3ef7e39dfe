------------------------------ MODULE Persist -------------------------------
(***************************************************************************)
(* persist.Fire and persist.Step (persist/persist.go, apply) over two kinds *)
(* of Store: the MemoryStore (persist/memory.go), whose Update runs the      *)
(* transition step outside its lock and then commits on the revision it      *)
(* loaded, and a foreign Store, an adapter of the application that may break *)
(* the contract of Update in every way apply sets out to detect: calling the *)
(* step twice, at once or one after the other, not calling it, returning     *)
(* before it has ended, swallowing its error or its panic, reporting another *)
(* state.  A foreign Store calls no step after its Update has returned, as   *)
(* the contract has it.                                                    *)
(*                                                                         *)
(* Each caller performs one Fire or Step at a time.  The keys are valid and  *)
(* the store and the machine are not nil.  The step runs the Machine from    *)
(* the state it is given, on an Instance of its own: Rows is the relation of *)
(* from and to, and a step may also be refused, fail or panic.              *)
(***************************************************************************)
EXTENDS Integers, FiniteSets

CONSTANTS
    Callers,       \* the goroutines that call Fire or Step
    Keys,          \* the aggregates
    States,
    Initial,       \* the state every aggregate is created with
    Rows,          \* the set of <<from, to>> of the Machine, for any event
    Foreign,       \* the aggregates kept by a foreign Store, not the MemoryStore
    KeysOf,        \* bound: the aggregates each caller works on
    MaxRevision    \* bound: the number of commits of one aggregate

ASSUME PersistAssumption ==
    /\ Initial \in States
    /\ Rows \subseteq States \X States
    /\ Foreign \subseteq Keys
    /\ KeysOf \in [Callers -> SUBSET Keys]
    /\ MaxRevision \in Nat

VARIABLES
    entries,   \* [Keys -> Snapshot], MemoryStore.entries
    calls      \* [Callers -> the local state of apply and of Update]

vars == << entries, calls >>

None == "none"

\* The two invocations of the step an Update may make.
Invocations == {"first", "second"}

\* What an invocation of the step does, in the order it can do it.
StepPhases == {"unused", "running", "ok", "error", "stopped", "repeated"}

Idle == [pc |-> "idle", key |-> None, before |-> [state |-> None, revision |-> 0],
         cancelled |-> FALSE, started |-> FALSE, repeated |-> FALSE,
         completed |-> FALSE,
         step |-> [i \in Invocations |-> "unused"],
         to |-> None, failed |-> FALSE,
         state |-> None, err |-> None, confirmed |-> FALSE]

Errors == {None, "canceled", "refused", "conflict", "foreign", "panic",
           "repeated", "notCalled", "stepFailed", "incomplete", "mismatch"}

\* The local state of a call.
CallType ==
    [pc : {"idle", "updating", "stepping", "committing", "checking", "returned"},
     key : Keys \cup {None},
     before : [state : States \cup {None}, revision : 0 .. MaxRevision],
     cancelled : BOOLEAN, started : BOOLEAN, repeated : BOOLEAN,
     completed : BOOLEAN, step : [Invocations -> StepPhases],
     to : States \cup {None}, failed : BOOLEAN, state : States \cup {None},
     err : Errors, confirmed : BOOLEAN]

Contract == {"repeated", "notCalled", "stepFailed", "incomplete", "mismatch"}

Init ==
    /\ entries = [k \in Keys |-> [state |-> Initial, revision |-> 0]]
    /\ calls = [c \in Callers |-> Idle]

Set(c, call) == calls' = [calls EXCEPT ![c] = call]

\* Update returns state and err to apply.
Updated(call, s, err) ==
    [call EXCEPT !.pc = "checking", !.state = s, !.err = err]

-----------------------------------------------------------------------------
(* apply, up to store.Update                                               *)

Fire(c, k) ==
    /\ calls[c].pc \in {"idle", "returned"}
    /\ Set(c, [Idle EXCEPT !.pc = "updating", !.key = k])
    /\ UNCHANGED entries

\* The application cancels the context of a call.
Cancel(c) ==
    /\ calls[c].pc \notin {"idle", "returned"}
    /\ ~calls[c].cancelled
    /\ Set(c, [calls[c] EXCEPT !.cancelled = TRUE])
    /\ UNCHANGED entries

-----------------------------------------------------------------------------
(* The transition step that apply hands to the Store                       *)

ClaimsStepUntilDone(call) == ~call.completed

\* started.CompareAndSwap: whether an invocation is the one that runs.
ClaimsStep(call) == ~call.started

\* The step is called with the state from; only the first call goes on.
Invoked(call, i, from) ==
    IF ClaimsStep(call)
    THEN [call EXCEPT !.started = TRUE, !.step[i] = "running",
                      !.before.state = from, !.to = from]
    ELSE [call EXCEPT !.repeated = TRUE, !.step[i] = "repeated"]

\* The Machine accepts the event and Do succeeds.
StepSucceeds(call, i, t) ==
    [call EXCEPT !.step[i] = "ok", !.to = t, !.completed = TRUE]

\* The event is refused or Do fails; To is the state the step came from.
StepErrs(call, i) ==
    [call EXCEPT !.step[i] = "error", !.failed = TRUE, !.completed = TRUE]

\* The step panics or ends its goroutine: firstDone is closed, nothing else.
StepStops(call, i) == [call EXCEPT !.step[i] = "stopped"]

\* The ways a running invocation ends.
StepEnds(call, i) ==
    {StepSucceeds(call, i, t) : t \in {t \in States : << call.before.state, t >> \in Rows}}
        \cup {StepErrs(call, i), StepStops(call, i)}

EndStep(c) ==
    \E i \in Invocations :
        /\ calls[c].step[i] = "running"
        /\ \E call \in StepEnds(calls[c], i) : Set(c, call)
        /\ UNCHANGED entries

-----------------------------------------------------------------------------
(* MemoryStore.Update                                                      *)

\* Load: the cancelled call is refused, the other reads the snapshot and calls
\* the step with it.
Load(c) ==
    LET call == calls[c]
        snapshot == entries[call.key]
    IN
    /\ call.pc = "updating"
    /\ call.key \notin Foreign
    /\ IF call.cancelled
       THEN Set(c, Updated(call, None, "canceled"))
       ELSE Set(c, [Invoked([call EXCEPT !.before = snapshot], "first", snapshot.state)
                        EXCEPT !.pc = "stepping"])
    /\ UNCHANGED entries

\* The step failed, panicked, or the context was cancelled meanwhile.
StepReturns(c) ==
    LET call == calls[c]
    IN
    /\ call.pc = "stepping"
    /\ \/ /\ call.step["first"] = "error"
          /\ Set(c, Updated(call, call.before.state, "refused"))
       \/ /\ call.step["first"] = "stopped"
          /\ Set(c, [call EXCEPT !.pc = "returned", !.err = "panic"])
       \/ /\ call.step["first"] = "ok"
          /\ call.cancelled
          /\ Set(c, Updated(call, call.before.state, "canceled"))
       \/ /\ call.step["first"] = "ok"
          /\ ~call.cancelled
          /\ Set(c, [call EXCEPT !.pc = "committing"])
    /\ UNCHANGED entries

\* No test at all, and a test of the state instead of the revision.
RevisionUnchecked(call) == TRUE
StateUnchanged(call) == entries[call.key].state = call.before.state

\* Whether the conditional commit may go ahead, tested under the lock.
RevisionUnchanged(call) == entries[call.key].revision = call.before.revision

\* A commit that reports the state it found and forgets the conflict.
CommitSwallowed(c) ==
    LET call == calls[c]
    IN
    /\ call.pc = "committing"
    /\ RevisionUnchanged(call) => call.before.revision < MaxRevision
    /\ IF RevisionUnchanged(call)
       THEN /\ entries' = [entries EXCEPT ![call.key] =
                    [state |-> call.to, revision |-> call.before.revision + 1]]
            /\ Set(c, Updated(call, call.to, None))
       ELSE /\ UNCHANGED entries
            /\ Set(c, Updated(call, entries[call.key].state, None))

\* The conditional commit.
Commit(c) ==
    LET call == calls[c]
    IN
    /\ call.pc = "committing"
    /\ RevisionUnchanged(call) => call.before.revision < MaxRevision
    /\ IF RevisionUnchanged(call)
       THEN /\ entries' = [entries EXCEPT ![call.key] =
                    [state |-> call.to, revision |-> call.before.revision + 1]]
            /\ Set(c, Updated(call, call.to, None))
       ELSE /\ UNCHANGED entries
            /\ Set(c, Updated(call, entries[call.key].state, "conflict"))

-----------------------------------------------------------------------------
(* A foreign Store                                                         *)

\* The Store calls the step, with whatever state it loaded, in its own
\* goroutine or in another.
ForeignInvokes(c) ==
    LET call == calls[c]
    IN
    /\ call.pc = "updating"
    /\ call.key \in Foreign
    /\ \E i \in Invocations, from \in States :
        /\ call.step[i] = "unused"
        /\ i = "second" => call.step["first"] # "unused"
        /\ Set(c, Invoked(call, i, from))
    /\ UNCHANGED entries

\* The Store returns any state, None being one that does not equal itself, and
\* success or an error of its own.
ForeignReturns(c) ==
    /\ calls[c].pc = "updating"
    /\ calls[c].key \in Foreign
    /\ \E s \in States \cup {None}, err \in {None, "foreign"} :
        Set(c, Updated(calls[c], s, err))
    /\ UNCHANGED entries

\* The step stopped and the Store lets its panic or its end through.
ForeignPanics(c) ==
    /\ calls[c].pc = "updating"
    /\ calls[c].key \in Foreign
    /\ \E i \in Invocations : calls[c].step[i] = "stopped"
    /\ Set(c, [calls[c] EXCEPT !.pc = "returned", !.err = "panic"])
    /\ UNCHANGED entries

-----------------------------------------------------------------------------
(* apply, after store.Update                                               *)

\* A wait that only a step that returned ends.
FirstReturned(call) == call.started => call.completed

\* firstDone is closed when the claimed invocation ends, however it ends.
FirstDone(call) ==
    call.started => \E i \in Invocations : call.step[i] \in {"ok", "error", "stopped"}

\* The checks without the one of repetition.
VerdictUnrepeated(call) ==
    IF call.started /\ ~call.completed THEN "incomplete"
    ELSE IF call.err # None THEN call.err
    ELSE IF ~call.started THEN "notCalled"
    ELSE IF call.failed THEN "stepFailed"
    ELSE IF call.state # call.to THEN "mismatch"
    ELSE None

\* What apply reports, in the order it checks.
Verdict(call) ==
    IF call.started /\ ~call.completed THEN "incomplete"
    ELSE IF call.repeated THEN "repeated"
    ELSE IF call.err # None THEN call.err
    ELSE IF ~call.started THEN "notCalled"
    ELSE IF call.failed THEN "stepFailed"
    ELSE IF call.state # call.to THEN "mismatch"
    ELSE None

Return(c) ==
    LET call == calls[c]
    IN
    /\ call.pc = "checking"
    /\ FirstDone(call)
    /\ Set(c, [call EXCEPT !.pc = "returned", !.err = Verdict(call),
                           !.confirmed = (Verdict(call) = None)])
    /\ UNCHANGED entries

-----------------------------------------------------------------------------

StoreProceeds(c) ==
    \/ Load(c)
    \/ StepReturns(c)
    \/ Commit(c)
    \/ ForeignReturns(c)

Next ==
    \E c \in Callers :
        \/ \E k \in KeysOf[c] : Fire(c, k)
        \/ Cancel(c)
        \/ EndStep(c)
        \/ StoreProceeds(c)
        \/ ForeignInvokes(c)
        \/ ForeignPanics(c)
        \/ Return(c)

Spec == Init /\ [][Next]_vars

\* Updates and steps return; how often a step is called is the Store's choice.
FairSpec ==
    /\ Spec
    /\ \A c \in Callers : /\ WF_vars(EndStep(c))
                          /\ WF_vars(StoreProceeds(c))
                          /\ WF_vars(Return(c))

-----------------------------------------------------------------------------
(* Properties                                                              *)

\* The type of the state; the snapshot a running Update loaded is not newer than
\* the aggregate.
TypeOK ==
    /\ entries \in [Keys -> [state : States, revision : 0 .. MaxRevision]]
    /\ calls \in [Callers -> CallType]
    /\ \A c \in Callers :
        calls[c].pc \in {"stepping", "committing"}
        => calls[c].before.revision <= entries[calls[c].key].revision

\* The MemoryStore is a versioned register: each commit moves an aggregate along
\* a row of the Machine from the state it has at that moment, although the step
\* ran outside the lock on a state loaded earlier.  No update is lost.
Abstract == INSTANCE Versioned WITH aggregate <- [k \in Keys |-> entries[k].state]

ImplementsVersioned == Abstract!Spec

\* A revision stands for one commit: it grows by one with each and never comes
\* back, so a snapshot that was loaded can be told from every later one.
RevisionsAdvance ==
    [][\A k \in Keys :
        entries'[k] # entries[k]
        => entries'[k].revision = entries[k].revision + 1]_vars

\* Fire and Step of the MemoryStore never report a breach of the contract.
MemoryStoreKeepsContract ==
    \A c \in Callers :
        calls[c].pc = "returned" /\ calls[c].key \notin Foreign
        => calls[c].err \notin Contract

\* However the Store calls it, the transition step is executed at most once, and
\* a result that was returned is not written any more: no execution of the step
\* is left behind.
StepExecutedOnce ==
    \A c \in Callers :
        /\ Cardinality({i \in Invocations :
              calls[c].step[i] \notin {"unused", "repeated"}}) <= 1
        /\ calls[c].pc = "returned"
           => \A i \in Invocations : calls[c].step[i] # "running"

\* Success means that the Store called the step once, that it succeeded, and that
\* the Store reported the state it led to; every breach of that is an error.
SuccessConfirmed ==
    \A c \in Callers :
        /\ calls[c].pc = "returned"
        /\ calls[c].err = None \/ calls[c].confirmed
        => /\ \E i \in Invocations :
                /\ calls[c].step[i] = "ok"
                /\ \A j \in Invocations \ {i} : calls[c].step[j] = "unused"
           /\ calls[c].state = calls[c].to
           /\ calls[c].confirmed

\* Fire returns when the Store and the step do, also when the step panicked in a
\* goroutine of the Store, or outlives the Store's Update.  A commit that the
\* bound on revisions holds up is excepted.
EveryFireReturns ==
    \A c \in Callers :
        calls[c].pc = "updating" ~>
            \/ calls[c].pc = "returned"
            \/ /\ calls[c].pc = "committing"
               /\ entries[calls[c].key].revision = MaxRevision
=============================================================================
