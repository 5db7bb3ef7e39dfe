------------------------------- MODULE Queued -------------------------------
(***************************************************************************)
(* The queued Runtime (queued/queued.go, queued/observe.go): external Fire  *)
(* calls become roots of a FIFO queue, one drain goroutine executes a root  *)
(* at a time, and every root is a cascade: the root event followed by the   *)
(* follow-ups its callbacks Enqueue.  The state of each Runtime is kept by  *)
(* an Instance (instance.go) that only the drain goroutine fires.           *)
(*                                                                         *)
(* Callers are goroutines of the application.  A callback (a Guard, a Do or *)
(* an observer) is represented by its effect: it may hand its context to a  *)
(* caller, which later Fires or Enqueues with it, and it returns, fails,    *)
(* panics or ends its goroutine.  A caller that is "joined" is code the     *)
(* callback waits for, its own synchronous calls included; one that is not  *)
(* is a goroutine that outlives the callback.                              *)
(*                                                                         *)
(* Data (T), Permitted, the record LastPanic, the numbers of observations,  *)
(* and what a refused call returns are left out: no step of the Runtime     *)
(* reads them.  The rows of the Machine are a relation: which row of a      *)
(* state and an event a Guard lets through is the application's choice.     *)
(***************************************************************************)
EXTENDS Integers, Sequences, SequencesExt, FiniteSets

CONSTANTS
    Runtimes,      \* the queued Runtimes of the program
    Callers,       \* goroutines that call Fire and Enqueue
    States,
    Events,
    Initial,       \* the state every Runtime is built with
    Rows,          \* the set of <<from, event, to>> of the shared Machine
    Observed,      \* TRUE when the Runtimes have observers
    MaxRoots,      \* Limits.MaxRoots
    MaxRunEvents,  \* Limits.MaxRunEvents
    MaxFires,      \* bound: the number of roots admitted in a behaviour
    Openers,       \* bound: callers that Fire with a context of their own
    Joiners,       \* bound: callers that a callback hands its context and awaits
    Leavers,       \* bound: callers that it hands its context and leaves behind
    Cancellable    \* bound: roots whose context may be cancelled

ASSUME LimitsAssumption ==
    /\ MaxRoots \in Nat \ {0}
    /\ MaxRunEvents \in Nat \ {0}
    /\ MaxFires \in Nat
    /\ Initial \in States
    /\ Rows \subseteq States \X Events \X States
    /\ Observed \in BOOLEAN
    /\ Openers \cup Joiners \cup Leavers \subseteq Callers
    /\ Cancellable \subseteq 1 .. MaxFires

VARIABLES
    state,      \* [Runtimes -> States], Instance.state
    inFlight,   \* [Runtimes -> BOOLEAN], Instance.inFlight
    queue,      \* [Runtimes -> Seq(RootIds)], Runtime.roots
    running,    \* [Runtimes -> BOOLEAN], Runtime.running
    rootCount,  \* [Runtimes -> Int], Runtime.rootCount
    drains,     \* the drain goroutines, named by the root that started them
    root,       \* the roots, their cascades and the goroutines that run them
    admitted,   \* how many roots have been admitted
    calls       \* the callers

None == "none"

RootIds == 1 .. MaxFires

runtime == << queue, running, rootCount, drains >>
machine == << state, inFlight >>
vars == << machine, runtime, root, admitted, calls >>

NoRoot ==
    [phase |-> None, rt |-> None, event |-> None, above |-> {},
     cancelled |-> FALSE, active |-> FALSE, pending |-> << >>, accepted |-> 0,
     ran |-> 0, err |-> None]

NoDrain == [pc |-> None, req |-> 0]

IdleCaller == [pc |-> "idle", root |-> 0, ctx |-> 0, obs |-> FALSE,
               joined |-> FALSE]

\* A root is being executed from the moment the drain takes it until its
\* goroutine hands its outcome to the drain.
Executing(n) == root[n].phase \in {"begin", "callback", "observe", "next"}

\* The root has left the queue and its outcome has not been counted yet.
Unsettled(n) == \/ Executing(n)
                \/ /\ root[n].phase = "finished"
                   /\ \E d \in RootIds : drains[d] = [pc |-> "executing", req |-> n]

Init ==
    /\ state = [r \in Runtimes |-> Initial]
    /\ inFlight = [r \in Runtimes |-> FALSE]
    /\ queue = [r \in Runtimes |-> << >>]
    /\ running = [r \in Runtimes |-> FALSE]
    /\ rootCount = [r \in Runtimes |-> 0]
    /\ drains = [n \in RootIds |-> NoDrain]
    /\ root = [n \in RootIds |-> NoRoot]
    /\ admitted = 0
    /\ calls = [c \in Callers |-> IdleCaller]

-----------------------------------------------------------------------------
(* Contexts.  The context of a caller is 0 for one that carries no execution *)
(* and otherwise the root whose callback handed it out.                     *)

\* executionFrom(ctx) and execution.active.
InExecution(c) == calls[c].ctx # 0 /\ root[calls[c].ctx].active

\* The caller's own ctx.Err(): a context handed out by a callback is derived
\* from the context its root was fired with.
CallerCancelled(c) == calls[c].ctx # 0 /\ root[calls[c].ctx].cancelled

\* A call in progress uses the context of the root.
InUse(n) ==
    \E c \in Callers :
        LET m == calls[c].root
        IN  calls[c].ctx = n \/ m = n \/ (m # 0 /\ n \in root[m].above)

\* The application cancels the context of a root; the contexts derived from it
\* are cancelled with it.
Cancel(n) ==
    /\ n \in Cancellable
    /\ InUse(n)
    /\ ~root[n].cancelled
    /\ root' = [m \in RootIds |->
                    IF m = n \/ n \in root[m].above
                    THEN [root[m] EXCEPT !.cancelled = TRUE] ELSE root[m]]
    /\ UNCHANGED << machine, runtime, admitted, calls >>

\* A call ends, whatever it returns; its goroutine is done with its context.
Returned(c) == [calls EXCEPT ![c] = IdleCaller]

-----------------------------------------------------------------------------
(* Runtime.Fire                                                            *)

\* The limit test of Fire, made under Runtime.mu.
AtRootLimit(r) == rootCount[r] >= MaxRoots

StartsDrainWhenEmpty(r) == queue[r] = << >>

\* Whether this Fire has to start the drain goroutine.
StartsDrain(r) == ~running[r]

\* Fire is refused before a root exists.
RefuseReentrant(c) ==
    /\ calls[c].pc = "idle"
    /\ InExecution(c)
    /\ calls' = Returned(c)
    /\ UNCHANGED << machine, runtime, root, admitted >>

RefuseCancelled(c) ==
    /\ calls[c].pc = "idle"
    /\ ~InExecution(c)
    /\ CallerCancelled(c)
    /\ calls' = Returned(c)
    /\ UNCHANGED << machine, runtime, root, admitted >>

RefuseRootLimit(c, r) ==
    /\ calls[c].pc = "idle"
    /\ ~InExecution(c)
    /\ ~CallerCancelled(c)
    /\ AtRootLimit(r)
    /\ calls' = Returned(c)
    /\ UNCHANGED << machine, runtime, root, admitted >>

\* Mutant of NotReentrant: only an execution of the same Runtime is refused.
NotReentrantElsewhere(c, r) ==
    ~(InExecution(c) /\ root[calls[c].ctx].rt = r)

\* Whether the check for an execution in the caller's context lets Fire pass:
\* an active execution is refused whichever Runtime it belongs to.
NotReentrant(c, r) == ~InExecution(c)

\* Fire appends a root, and starts the drain goroutine if none is running.
Fire(c, r, e) ==
    LET n == admitted + 1
        ctx == calls[c].ctx
    IN
    /\ calls[c].pc = "idle"
    /\ admitted < MaxFires
    /\ ctx = 0 => c \in Openers
    /\ NotReentrant(c, r)
    /\ ~CallerCancelled(c)
    /\ ~AtRootLimit(r)
    /\ admitted' = n
    /\ root' = [root EXCEPT ![n] = [NoRoot EXCEPT
                    !.phase = "queued", !.rt = r, !.event = e,
                    !.above = IF ctx = 0 THEN {} ELSE {ctx} \cup root[ctx].above]]
    /\ queue' = [queue EXCEPT ![r] = Append(@, n)]
    /\ rootCount' = [rootCount EXCEPT ![r] = @ + 1]
    /\ running' = [running EXCEPT ![r] = TRUE]
    /\ drains' = IF StartsDrain(r)
                 THEN [drains EXCEPT ![n] = [pc |-> "top", req |-> 0]]
                 ELSE drains
    /\ calls' = [calls EXCEPT ![c].pc = "waiting", ![c].root = n]
    /\ UNCHANGED machine

\* The answer arrives on the root's done channel.  A panic of the callback is
\* raised again in the caller.  What remains of the root is what contexts that
\* its callbacks handed out refer to.
ReceiveOutcome(c) ==
    LET n == calls[c].root
    IN
    /\ calls[c].pc \in {"waiting", "held"}
    /\ root[n].phase = "answered"
    /\ root' = [root EXCEPT ![n] = [NoRoot EXCEPT !.phase = "returned",
                    !.rt = root[n].rt, !.active = root[n].active,
                    !.above = root[n].above, !.cancelled = root[n].cancelled]]
    /\ calls' = Returned(c)
    /\ UNCHANGED << machine, runtime, admitted >>

\* A removal that leaves the root in the queue.
RemoveRootLeft(c) ==
    LET n == calls[c].root
        r == root[n].rt
    IN
    /\ calls[c].pc = "waiting"
    /\ root[n].cancelled
    /\ n \in ToSet(queue[r])
    /\ rootCount' = [rootCount EXCEPT ![r] = @ - 1]
    /\ root' = [root EXCEPT ![n].phase = "removed"]
    /\ calls' = Returned(c)
    /\ UNCHANGED << machine, queue, running, drains, admitted >>

\* A removal that leaves the root counted.
RemoveRootCounted(c) ==
    LET n == calls[c].root
        r == root[n].rt
    IN
    /\ calls[c].pc = "waiting"
    /\ root[n].cancelled
    /\ \E i \in DOMAIN queue[r] :
          queue[r][i] = n /\ queue' = [queue EXCEPT ![r] = RemoveAt(@, i)]
    /\ root' = [root EXCEPT ![n].phase = "removed"]
    /\ calls' = Returned(c)
    /\ UNCHANGED << machine, rootCount, running, drains, admitted >>

\* Fire chooses the ctx.Done() case and its root has not been started: the root
\* is removed from the queue (removeRootLocked).
RemoveRoot(c) ==
    LET n == calls[c].root
        r == root[n].rt
    IN
    /\ calls[c].pc = "waiting"
    /\ root[n].cancelled
    /\ \E i \in DOMAIN queue[r] :
          queue[r][i] = n /\ queue' = [queue EXCEPT ![r] = RemoveAt(@, i)]
    /\ rootCount' = [rootCount EXCEPT ![r] = @ - 1]
    /\ root' = [root EXCEPT ![n].phase = "removed"]
    /\ calls' = Returned(c)
    /\ UNCHANGED << machine, running, drains, admitted >>

\* Fire chooses the ctx.Done() case too late: it waits for the answer.
HoldForOutcome(c) ==
    LET n == calls[c].root
    IN
    /\ calls[c].pc = "waiting"
    /\ root[n].cancelled
    /\ n \notin ToSet(queue[root[n].rt])
    /\ calls' = [calls EXCEPT ![c].pc = "held"]
    /\ UNCHANGED << machine, runtime, root, admitted >>

-----------------------------------------------------------------------------
(* Runtime.Enqueue and cascade.enqueue.  The test of activity is made twice, *)
(* the second time together with the append; activity never comes back, so   *)
(* the two tests are one step.                                              *)

\* What Enqueue with the caller's context returns; None when it is accepted.
EnqueueError(c, r) ==
    LET n == calls[c].ctx
    IN  IF ~InExecution(c) THEN "notRunning"
        ELSE IF root[n].rt # r THEN "wrongRuntime"
        ELSE IF calls[c].obs THEN "notRunning"
        ELSE IF root[n].accepted >= MaxRunEvents THEN "runLimit"
        ELSE None

Enqueue(c, r, e) ==
    LET err == EnqueueError(c, r)
    IN
    /\ calls[c].pc = "idle"
    /\ calls[c].ctx # 0
    /\ calls' = Returned(c)
    /\ root' = IF err # None THEN root
               ELSE [root EXCEPT ![calls[c].ctx].pending = Append(@, e),
                                 ![calls[c].ctx].accepted = @ + 1]
    /\ UNCHANGED << machine, runtime, admitted >>

-----------------------------------------------------------------------------
(* Runtime.drain                                                           *)

\* A drain that takes the newest root.
TakeRootNewest(d, r) ==
    LET n == Last(queue[r])
    IN
    /\ drains[d].pc = "top"
    /\ root[d].rt = r
    /\ queue[r] # << >>
    /\ queue' = [queue EXCEPT ![r] = Front(@)]
    /\ drains' = [drains EXCEPT ![d] = [pc |-> "executing", req |-> n]]
    /\ root' = [root EXCEPT ![n].phase = "begin", ![n].active = TRUE,
                            ![n].accepted = 1]
    /\ UNCHANGED << machine, running, rootCount, admitted, calls >>

\* The drain takes the oldest root; run starts its cascade.
TakeRoot(d, r) ==
    LET n == Head(queue[r])
    IN
    /\ drains[d].pc = "top"
    /\ root[d].rt = r
    /\ queue[r] # << >>
    /\ queue' = [queue EXCEPT ![r] = Tail(@)]
    /\ drains' = [drains EXCEPT ![d] = [pc |-> "executing", req |-> n]]
    /\ root' = [root EXCEPT ![n].phase = "begin", ![n].active = TRUE,
                            ![n].accepted = 1]
    /\ UNCHANGED << machine, running, rootCount, admitted, calls >>

\* The queue is empty: the drain goroutine ends.
ExitDrain(d, r) ==
    /\ drains[d].pc = "top"
    /\ root[d].rt = r
    /\ queue[r] = << >>
    /\ running' = [running EXCEPT ![r] = FALSE]
    /\ drains' = [drains EXCEPT ![d] = NoDrain]
    /\ UNCHANGED << machine, queue, rootCount, root, admitted, calls >>

\* execute has returned: the root no longer counts against MaxRoots.
SettleRoot(d, r) ==
    /\ drains[d].pc = "executing"
    /\ root[d].rt = r
    /\ root[drains[d].req].phase = "finished"
    /\ rootCount' = [rootCount EXCEPT ![r] = @ - 1]
    /\ drains' = [drains EXCEPT ![d].pc = "answering"]
    /\ UNCHANGED << machine, queue, running, root, admitted, calls >>

\* The outcome goes to the Fire that waits for it, and the drain loops.
AnswerRoot(d, r) ==
    /\ drains[d].pc = "answering"
    /\ root[d].rt = r
    /\ root' = [root EXCEPT ![drains[d].req].phase = "answered"]
    /\ drains' = [drains EXCEPT ![d] = [pc |-> "top", req |-> 0]]
    /\ UNCHANGED << machine, queue, running, rootCount, admitted, calls >>

-----------------------------------------------------------------------------
(* Runtime.run: the goroutine of one root.                                 *)

\* The cascade ends without a next event: cascade.abort, or the last next.
Finished(n, err) ==
    [root EXCEPT ![n].phase = "finished", ![n].active = FALSE,
                 ![n].pending = << >>, ![n].err = err]

\* A callback returns only when the code it waits for has.
Joined(n) == \A c \in Callers : ~(calls[c].joined /\ calls[c].ctx = n)

\* The context of the root, or that of a follow-up, which a callback may have
\* derived with a deadline of its own, is done before the event begins.
SkipCancelled(n) ==
    /\ root[n].phase = "begin"
    /\ root[n].cancelled \/ root[n].ran > 0
    /\ root' = Finished(n, "canceled")
    /\ UNCHANGED << machine, runtime, admitted, calls >>

\* Instance.Fire starts the Machine, whose Guards and Do run, unless it finds
\* another Fire in progress.
BeginEvent(n) ==
    LET r == root[n].rt
    IN
    /\ root[n].phase = "begin"
    /\ ~root[n].cancelled
    /\ inFlight' = [inFlight EXCEPT ![r] = TRUE]
    /\ root' = IF inFlight[r] THEN Finished(n, "inFlight")
               ELSE [root EXCEPT ![n].phase = "callback"]
    /\ UNCHANGED << state, runtime, admitted, calls >>

\* A callback, or an observer, hands its context to other code.
HandOver(c, n, joined) ==
    /\ c \in IF joined THEN Joiners ELSE Leavers
    /\ root[n].phase \in {"callback", "observe"}
    /\ calls[c].pc = "idle"
    /\ calls[c].ctx = 0
    /\ calls' = [calls EXCEPT ![c] = [IdleCaller EXCEPT
                    !.ctx = n, !.joined = joined,
                    !.obs = (root[n].phase = "observe")]]
    /\ UNCHANGED << machine, runtime, root, admitted >>

\* Do returned nil: the destination is published, the Instance is free, and a
\* change of state goes to the observers.
CommitEvent(n, t) ==
    LET r == root[n].rt
        observes == Observed /\ t # state[r]
    IN
    /\ root[n].phase = "callback"
    /\ Joined(n)
    /\ << state[r], root[n].event, t >> \in Rows
    /\ state' = [state EXCEPT ![r] = t]
    /\ inFlight' = [inFlight EXCEPT ![r] = FALSE]
    /\ root' = [root EXCEPT ![n].phase = IF observes THEN "observe" ELSE "next",
                            ![n].ran = @ + 1]
    /\ UNCHANGED << runtime, admitted, calls >>

\* The event is refused, or Do returns an error.
FailEvent(n) ==
    LET r == root[n].rt
    IN
    /\ root[n].phase = "callback"
    /\ Joined(n)
    /\ inFlight' = [inFlight EXCEPT ![r] = FALSE]
    /\ root' = Finished(n, "failed")
    /\ UNCHANGED << state, runtime, admitted, calls >>

\* A Guard or Do panics, or ends its goroutine: the deferred function of run
\* aborts the cascade and the drain goroutine survives.
StopEvent(n, panicked) ==
    LET r == root[n].rt
    IN
    /\ root[n].phase = "callback"
    /\ Joined(n)
    /\ inFlight' = [inFlight EXCEPT ![r] = FALSE]
    /\ root' = Finished(n, IF panicked THEN "panic" ELSE "stopped")
    /\ UNCHANGED << state, runtime, admitted, calls >>

\* The observers of a committed change have all returned.  Their failures are
\* joined to the error of the outcome and change nothing else.
DeliverObservations(n) ==
    /\ root[n].phase = "observe"
    /\ Joined(n)
    /\ root' = [root EXCEPT ![n].phase = "next"]
    /\ UNCHANGED << machine, runtime, admitted, calls >>

\* A cascade that stays active after its last event.
NextEventStaysActive(n) ==
    /\ root[n].phase = "next"
    /\ root' = IF root[n].pending = << >>
               THEN [Finished(n, None) EXCEPT ![n].active = TRUE]
               ELSE [root EXCEPT ![n].phase = "begin",
                                 ![n].event = Head(root[n].pending),
                                 ![n].pending = Tail(@)]
    /\ UNCHANGED << machine, runtime, admitted, calls >>

\* cascade.next: the next follow-up, or the end of the cascade.
NextEvent(n) ==
    /\ root[n].phase = "next"
    /\ root' = IF root[n].pending = << >>
               THEN Finished(n, None)
               ELSE [root EXCEPT ![n].phase = "begin",
                                 ![n].event = Head(root[n].pending),
                                 ![n].pending = Tail(@)]
    /\ UNCHANGED << machine, runtime, admitted, calls >>

-----------------------------------------------------------------------------

\* A caller that holds an execution context uses it.
UsesContext(c) ==
    /\ calls[c].ctx # 0
    /\ \/ RefuseReentrant(c)
       \/ RefuseCancelled(c)
       \/ \E r \in Runtimes :
            \/ RefuseRootLimit(c, r)
            \/ \E e \in Events : Fire(c, r, e) \/ Enqueue(c, r, e)

Calls ==
    \E c \in Callers :
        \/ RefuseReentrant(c)
        \/ RefuseCancelled(c)
        \/ ReceiveOutcome(c)
        \/ RemoveRoot(c)
        \/ HoldForOutcome(c)
        \/ \E r \in Runtimes :
             \/ RefuseRootLimit(c, r)
             \/ \E e \in Events : Fire(c, r, e) \/ Enqueue(c, r, e)

Drain(d) ==
    \E r \in Runtimes :
        TakeRoot(d, r) \/ ExitDrain(d, r) \/ SettleRoot(d, r) \/ AnswerRoot(d, r)

Run(n) ==
    \/ SkipCancelled(n)
    \/ BeginEvent(n)
    \/ NextEvent(n)

CallbackReturns(n) ==
    \/ \E t \in States : CommitEvent(n, t)
    \/ FailEvent(n)
    \/ \E panicked \in BOOLEAN : StopEvent(n, panicked)
    \/ DeliverObservations(n)

Next ==
    \/ Calls
    \/ \E n \in RootIds :
        \/ Drain(n)
        \/ Run(n)
        \/ CallbackReturns(n)
        \/ Cancel(n)
        \/ \E c \in Callers, joined \in BOOLEAN : HandOver(c, n, joined)

Spec == Init /\ [][Next]_vars

\* The Go scheduler runs every goroutine that can run.  A callback of the
\* application makes finitely many calls and returns unless it waits for one
\* that does not.  Nothing obliges a context to be cancelled.
Fairness ==
    /\ \A c \in Callers : /\ WF_vars(ReceiveOutcome(c))
                          /\ WF_vars(UsesContext(c))
    /\ \A n \in RootIds : /\ WF_vars(Drain(n))
                          /\ WF_vars(Run(n))
                          /\ WF_vars(CallbackReturns(n))
                          /\ <>[][\A c \in Callers : ~HandOver(c, n, TRUE)]_vars

FairSpec == Spec /\ Fairness

-----------------------------------------------------------------------------
(* Properties                                                              *)

\* At most one root of a Runtime is executed at a time and its Instance never
\* meets a Fire in progress, whatever interleaving of Fire with the end of a
\* drain goroutine: Fire starts a drain exactly when none is left.
Serialized ==
    /\ \A m, n \in RootIds :
        m # n /\ Executing(m) /\ Executing(n) => root[m].rt # root[n].rt
    /\ \A n \in RootIds :
        root[n].err # "inFlight"

\* External roots run in the order Fire admitted them: a root has been started
\* only if every earlier root of its Runtime was started or removed.
FirstInFirstOut ==
    \A m, n \in RootIds :
        /\ m < n
        /\ root[m].rt = root[n].rt
        /\ root[n].phase \notin {None, "queued", "removed"}
        => root[m].phase # "queued"

\* A root counts against MaxRoots from its admission until its outcome is ready
\* or it is removed, and never after its Fire has returned: a goroutine whose
\* Fire returned finds its place free.  The limit is never passed.
OutstandingCounted ==
    \A r \in Runtimes :
        /\ rootCount[r] <= MaxRoots
        /\ rootCount[r] = Cardinality({n \in RootIds :
            root[n].rt = r /\ (root[n].phase = "queued" \/ Unsettled(n))})

\* A follow-up that Enqueue accepted is run when its root ends without error:
\* no Enqueue slips in between the last event of a cascade and its end.
AcceptedEventsRun ==
    \A n \in RootIds :
        /\ root[n].phase \in {"finished", "answered"}
        /\ root[n].err = None
        => root[n].ran = root[n].accepted

\* A root whose Fire has returned, with its outcome or because it was cancelled
\* before it started, is never run, and its contexts never become active.
SettledForGood ==
    [][\A n \in RootIds :
        root[n].phase \in {"removed", "returned"}
        => root'[n].phase = root[n].phase /\ ~root'[n].active]_vars

\* Every Fire returns when callbacks do: no root is left in the queue without a
\* drain goroutine, no outcome is lost, and no callback waits for its own root
\* or, through another Runtime, for a root that waits for it.
EveryFireReturns ==
    \A c \in Callers : calls[c].pc # "idle" ~> calls[c].pc = "idle"
=============================================================================
