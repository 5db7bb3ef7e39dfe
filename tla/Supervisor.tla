----------------------------- MODULE Supervisor -----------------------------
(***************************************************************************)
(* supervised.Supervisor (src/supervised/execution.go and delivery.go): at *)
(* most one admitted Operation at a time, at most one Change awaiting      *)
(* verification, and the first Fault latched until an adjudication.        *)
(*                                                                         *)
(* One action is one critical section of s.mu together with the lock-free  *)
(* code that follows it up to the next one.  The interleaved actors are    *)
(* the goroutines that call the public API (Callers), the goroutine of an  *)
(* expired verification timer (Timer), the goroutines that run application *)
(* callbacks, Journal writes and Recorder deliveries, all of which outlive *)
(* a caller that stopped waiting for them, and the process crash.          *)
(*                                                                         *)
(* Left out: wording of errors, timestamps, panic stacks, the application  *)
(* data T, evidence text, and the history of Records (module Records).  Of *)
(* the Record sequence only its end is kept: whether nextRecord has reached *)
(* the margin below the ceiling, which stampLocked may do at every outcome. *)
(* A deadline is a flag that the environment raises.  A nil pointer is the *)
(* record No... of its type.                                               *)
(***************************************************************************)
EXTENDS Naturals, Sequences, FiniteSets

CONSTANTS
    Callers,        \* goroutines that call the public API
    Timer,          \* the goroutine of verificationExpired
    States, Events, RowIds, Initial,
    Rows,           \* compiled rows: Rows[<<s, e>>] in declaration order
    Checks,         \* callbacks in each required list of the Definition
    Journal,        \* Options.Journal is set (otherwise Options.Unjournaled)
    Recorder,       \* Options.Recorder is set
    MaxUint64,      \* math.MaxUint64, scaled down
    MaxIncarnation, \* bound on process lifetimes
    Operators,      \* bound: callers that start, issue, verify and adjudicate
    Trippers,       \* bound: callers that Trip or are refused
    Decisions,      \* bound: outcomes of adjudications
    RecordsEnd      \* bound: whether the Record sequence nears its ceiling

None == "none"
Procs == Callers \cup {Timer}

\* One compiledTransition; preconditions is the length of its own list.
Row == [id : RowIds, to : States, guarded : BOOLEAN,
        preconditions : Nat, external : BOOLEAN]

ASSUME ConstantsAssumption ==
    /\ IsFiniteSet(Callers) /\ Timer \notin Callers
    /\ Initial \in States
    /\ None \notin Events \cup RowIds
    /\ Rows \in [States \X Events -> Seq(Row)]
    /\ Checks \in Nat \ {0}
    /\ Journal \in BOOLEAN
    /\ Recorder \in BOOLEAN
    /\ MaxUint64 \in Nat \ {0}
    /\ MaxIncarnation \in Nat \ {0}
    /\ Operators \subseteq Callers /\ Trippers \subseteq Callers
    /\ Decisions \subseteq {"retain", "adopt", "override"}
    /\ RecordsEnd \in BOOLEAN

VARIABLES
    mode, state, revision, attempt, nextOperation,
    incarnation,     \* incarnationID, drawn fresh by every process lifetime
    restarts,        \* s.restarts
    recordsSpent,    \* s.nextRecord >= math.MaxUint64-recordSeqMargin
    pending,         \* s.pending
    fault,           \* s.fault
    operation,       \* s.operation
    reporting,       \* Trip and expiry publications in progress
    timers,          \* armed or dispatched timers <<attempt, timerVersion>>
    callbacks,       \* live goroutines of invoke
    journalRunning,  \* journalGate.busy, set and cleared with journalRunning
    recorderRunning, \* recorderGate.busy, likewise
    writers,         \* live Journal goroutines of deliverAdapter
    recorders,       \* live Recorder goroutines of deliverAdapter
    journalError,    \* s.journalError is not empty
    disk,            \* last Snapshot the Journal stored
    unresolved,      \* ghost: Attempts whose Issue ran and that nobody resolved
    everIssued,      \* ghost: sequence numbers of every Attempt whose Issue ran
    call             \* per goroutine: where its public call is, and its locals

vars == <<mode, state, revision, attempt, nextOperation, incarnation,
          restarts, recordsSpent, pending, fault, operation, reporting,
          timers, callbacks, journalRunning, recorderRunning, writers,
          recorders, journalError, disk, unresolved, everIssued, call>>

committed  == <<state, revision>>
identities == <<attempt, nextOperation, incarnation, restarts>>
counters  == <<attempt, nextOperation, incarnation, restarts, recordsSpent>>
delivery  == <<journalRunning, recorderRunning, writers, recorders>>
durable   == <<journalError, disk>>
ghosts    == <<unresolved, everIssued>>
execution == <<mode, committed, identities, pending, fault>>
core      == <<mode, committed, counters, pending, fault>>
rest      == <<reporting, timers, durable, ghosts>>
shared    == <<core, rest, operation, callbacks, delivery>>

-----------------------------------------------------------------------------
(* Records of the program. *)

Modes  == {"stopped", "ready", "executing", "awaiting", "faulted"}
Phases == {None, "start", "selection", "precondition", "guard", "invariant",
           "issue", "verify", "postcondition", "commit", "adjudicate"}
\* "callback" is a callback's error or the deadline of its Operation.
Causes == {None, "callback", "exhausted", "journal", "tripped", "expired",
           "restored"}

Change == [inc : 0..MaxIncarnation, seq : 0..MaxUint64, rev : 0..MaxUint64,
           from : States, event : Events \cup {None},
           row : RowIds \cup {None}, to : States]
NoChange == [inc |-> 0, seq |-> 0, rev |-> 0, from |-> Initial,
             event |-> None, row |-> None, to |-> Initial]
Identifier(change) == <<change.inc, change.seq>>

Pending == [live : BOOLEAN, change : Change, version : 0..MaxUint64,
            expired : BOOLEAN]
NoPending == [live |-> FALSE, change |-> NoChange, version |-> 0,
              expired |-> FALSE]

\* issued stands for a non-zero IssuedAt.
Fault == [latched : BOOLEAN, change : Change, state : States, cause : Causes,
          uncertain : BOOLEAN, issued : BOOLEAN]
NoFault == [latched |-> FALSE, change |-> NoChange, state |-> Initial,
            cause |-> None, uncertain |-> FALSE, issued |-> FALSE]

\* live counts op.callbacks; done is ctx.Done() closed.
Operation == [id : 0..MaxUint64, change : Change, issued : BOOLEAN,
              done : BOOLEAN, live : Nat, returned : BOOLEAN,
              revoked : BOOLEAN, abandoned : BOOLEAN]
NoOperation == [id |-> 0, change |-> NoChange, issued |-> FALSE,
                done |-> FALSE, live |-> 0,
                returned |-> FALSE, revoked |-> FALSE, abandoned |-> FALSE]

\* A durable Snapshot; pending is NoChange where Snapshot.Pending is nil, and
\* spent is what recordsSpent says of Snapshot.Records.
Snapshot == [saved : BOOLEAN, inc : 0..MaxIncarnation, restarts : 0..MaxUint64,
             spent : BOOLEAN, state : States,
             rev : 0..MaxUint64, attempt : 0..MaxUint64, indoubt : BOOLEAN,
             pending : Change, faulted : BOOLEAN, uncertain : BOOLEAN,
             cause : Causes]
NoSnapshot == [saved |-> FALSE, inc |-> 0, restarts |-> 0, spent |-> FALSE,
               state |-> Initial, rev |-> 0,
               attempt |-> 0, indoubt |-> FALSE, pending |-> NoChange,
               faulted |-> FALSE, uncertain |-> FALSE, cause |-> None]

Outcomes == {"ok", "err", "panic"}

\* Locals of a public call: pc, the entry point, the callback list it is in and
\* how many of it are left, the candidate row, the Change it works on, its
\* Operation (result.owner), what it releases on return, result.stamp.durable,
\* the answer on its done channel, and the cause it is about to latch.
Call == [pc : {"idle", "invoke", "wait", "prepare", "deliver", "prepared",
               "finish", "latch", "cancel", "close", "closing", "record",
               "recording", "return"},
         api : {None, "start", "issue", "verify", "adjudicate"},
         phase : Phases, left : Nat, row : Nat, change : Change,
         op : 0..MaxUint64, ends : {None, "operation", "reporting"},
         durable : BOOLEAN, done : Outcomes \cup {None}, cause : Causes,
         uncertain : BOOLEAN, commits : BOOLEAN]
IdleCall == [pc |-> "idle", api |-> None, phase |-> None, left |-> 0,
             row |-> 0, change |-> NoChange, op |-> 0, ends |-> None,
             durable |-> FALSE, done |-> None, cause |-> None,
             uncertain |-> FALSE, commits |-> FALSE]

Callback == [proc : Procs, op : 0..MaxUint64, phase : Phases,
             step : {"running", "late", "recording"}]
Writer   == [proc : Procs, op : 0..MaxUint64, prepares : BOOLEAN,
             step : {"new", "captured", "written"}, snapshot : Snapshot]
Reporter == [proc : Procs, op : 0..MaxUint64]

-----------------------------------------------------------------------------
(* Pure helpers of execution.go. *)

\* Mutant of Exhausted: the ceiling is tested one operation too late.
ExhaustedLate ==
    revision = MaxUint64 \/ nextOperation > MaxUint64 \/ recordsSpent

\* countersExhaustedLocked.
Exhausted ==
    revision = MaxUint64 \/ nextOperation >= MaxUint64 - 1 \/ recordsSpent

\* stampLocked: any outcome may be given the Record number that reaches the
\* margin.  Every critical section that stamps does so once, after its tests.
Stamps == recordsSpent' \in IF RecordsEnd THEN {recordsSpent, TRUE}
                                          ELSE {recordsSpent}

\* A test for the quiescence of the Supervisor that overlooks the Journal.
QuiescentUnlessWriting ==
    operation.id = 0 /\ ~recorderRunning /\ reporting = 0

\* The admission test shared by Start, Issue, Verify and Adjudicate.
Quiescent ==
    operation.id = 0 /\ ~recorderRunning /\ ~journalRunning /\ reporting = 0

Owns(op) == op # 0 /\ operation.id = op /\ ~operation.revoked

CurrentChange == [inc |-> incarnation, seq |-> attempt, rev |-> revision,
                  from |-> state, event |-> None, row |-> None, to |-> state]

\* Mutant of LatchedFault: a pending Change loses its IssuedAt.
LatchedFaultUnissued(change, cause, uncertain) ==
    [latched |-> TRUE, change |-> change, state |-> state,
     cause |-> cause, uncertain |-> uncertain,
     issued |-> /\ operation.id # 0
                /\ Identifier(operation.change) = Identifier(change)
                /\ operation.issued]

\* latchLocked: the Fault that a first cause creates.
LatchedFault(change, cause, uncertain) ==
    [latched |-> TRUE, change |-> change, state |-> state,
     cause |-> cause, uncertain |-> uncertain,
     issued |-> \/ /\ pending.live
                   /\ Identifier(pending.change) = Identifier(change)
                \/ /\ operation.id # 0
                   /\ Identifier(operation.change) = Identifier(change)
                   /\ operation.issued]

\* Mutant of SnapshotPending: the Change that a Fault is about is left out.
SnapshotPendingUnfaulted ==
    IF pending.live THEN pending.change ELSE NoChange

\* snapshotLocked.
SnapshotPending ==
    CASE pending.live -> pending.change
      [] ~pending.live /\ operation.id # 0 /\ mode = "executing"
            /\ operation.issued /\ operation.change.seq # 0 -> operation.change
      [] OTHER -> IF fault.latched /\ fault.issued
                    THEN [fault.change EXCEPT !.from = fault.state]
                    ELSE NoChange

SnapshotNow ==
    LET issuing == operation.id # 0 /\ mode = "executing" /\ operation.issued
    IN  [saved |-> TRUE, inc |-> incarnation, restarts |-> restarts,
         spent |-> recordsSpent, state |-> state, rev |-> revision, attempt |-> attempt,
         indoubt |-> pending.live \/ issuing \/ (fault.latched /\ fault.issued),
         pending |-> SnapshotPending, faulted |-> fault.latched,
         uncertain |-> IF fault.latched THEN fault.uncertain
                                        ELSE pending.live \/ issuing,
         cause |-> fault.cause]

\* Restoring s would run one of its three counters past its ceiling.
Ended(s) == s.rev = MaxUint64 \/ s.restarts = MaxUint64 \/ s.spent

\* The validation at the head of restoreSupervisor.
Restorable(s) ==
    /\ ~Ended(s)
    /\ s.indoubt <=> s.pending.seq # 0
    /\ s.indoubt =>
          /\ s.pending.seq <= s.attempt
          /\ s.pending.rev = s.rev
          /\ s.pending.from = s.state
          /\ s.pending.event \in Events
          /\ \E i \in DOMAIN Rows[<<s.state, s.pending.event>>] :
                LET row == Rows[<<s.state, s.pending.event>>][i]
                IN  /\ row.id = s.pending.row
                    /\ row.to = s.pending.to
                    /\ row.external

-----------------------------------------------------------------------------
(* How the locals of a call move between callbacks. *)

Enter(c, phase, n) == [c EXCEPT !.pc = "invoke", !.phase = phase, !.left = n,
                                !.done = None]
Fail(c, cause, uncertain) ==
    [c EXCEPT !.pc = "latch", !.cause = cause, !.uncertain = uncertain,
              !.done = None]

\* The uncertain argument of the latchResult calls after a callback.
Uncertain(c) == c.api \in {"start", "verify"} \/ c.phase = "issue"

Candidates(c) == Rows[<<c.change.from, c.change.event>>]

\* A row is selected: its own Preconditions, then the Invariants.
Selected(c) ==
    IF Candidates(c)[c.row].preconditions > 0
      THEN Enter(c, "precondition", Candidates(c)[c.row].preconditions)
      ELSE Enter(c, "invariant", Checks)

\* The row loop of issueDecision, from candidate i on.
Consider(c, i) ==
    IF i > Len(Candidates(c))
      THEN [c EXCEPT !.pc = "finish", !.phase = "selection", !.row = 0,
                     !.done = None, !.change.row = None,
                     !.change.to = c.change.from]
      ELSE LET d == [c EXCEPT !.row = i,
                              !.change.row = Candidates(c)[i].id,
                              !.change.to = Candidates(c)[i].to]
           IN  IF Candidates(c)[i].guarded THEN Enter(d, "guard", 1)
                                           ELSE Selected(d)

\* What follows the last callback of the list the call is in.
Advance(c) ==
    CASE c.phase = "precondition" /\ c.change.row = None -> Consider(c, 1)
      [] c.phase = "guard" -> Selected(c)
      [] c.phase = "precondition" /\ c.change.row # None ->
            Enter(c, "invariant", Checks)
      [] c.phase = "verify" -> Enter(c, "invariant", Checks)
      [] c.phase = "invariant" ->
            IF c.api = "issue" /\ Candidates(c)[c.row].external
              THEN [c EXCEPT !.pc = "prepare", !.done = None]
              ELSE Enter(c, "postcondition", Checks)
      [] c.phase = "postcondition" ->
            [c EXCEPT !.pc = "finish", !.phase = "commit", !.done = None]
      [] OTHER -> [c EXCEPT !.pc = "finish", !.done = None]

\* finalize: Journal closure if the outcome is durable truth, then the Record.
Published(op, ends, isDurable) ==
    [IdleCall EXCEPT !.pc = CASE isDurable /\ Journal -> "close"
                              [] ~(isDurable /\ Journal) /\ Recorder -> "record"
                              [] OTHER -> "return",
                     !.op = op, !.ends = ends, !.left = 1]
Publish(p, isDurable) ==
    call' = [call EXCEPT ![p] = Published(@.op, @.ends, isDurable)]

-----------------------------------------------------------------------------
(* Admission. *)

Idle(p) == p \in Callers /\ call[p].pc = "idle"

\* beginOperationLocked, and the locals of the call that owns the Operation.
Begin(p, locals, change, phase) ==
    /\ nextOperation' = nextOperation + 1
    /\ operation' = [NoOperation EXCEPT !.id = nextOperation + 1,
                                        !.change = change]
    /\ mode' = "executing"
    /\ call' = [call EXCEPT ![p] = [locals EXCEPT
                    !.op = nextOperation + 1, !.ends = "operation",
                    !.change = change, !.phase = phase]]
    /\ UNCHANGED <<rest, committed, delivery, incarnation, restarts,
                   recordsSpent, pending, fault, callbacks>>

Entry(api, n) == [IdleCall EXCEPT !.pc = "invoke", !.api = api, !.left = n]
\* An admitted call that finds a counter at its ceiling only latches.
Refused(api, uncertain) ==
    [IdleCall EXCEPT !.pc = "latch", !.api = api, !.cause = "exhausted",
                     !.uncertain = uncertain]

\* startDecision.
Start(p) ==
    /\ Idle(p) /\ mode = "stopped" /\ Quiescent
    /\ Begin(p, IF Exhausted THEN Refused("start", FALSE)
                             ELSE Entry("start", Checks), CurrentChange, "start")
    /\ UNCHANGED attempt

\* issueDecision up to its first callback.
Issue(p, event) ==
    /\ Idle(p) /\ mode = "ready" /\ Quiescent
    /\ ~Exhausted /\ attempt # MaxUint64
    /\ attempt' = attempt + 1
    /\ Begin(p, Entry("issue", Checks),
             [CurrentChange EXCEPT !.seq = attempt + 1, !.event = event],
             "precondition")

IssueExhausted(p, event) ==
    /\ Idle(p) /\ mode = "ready" /\ Quiescent
    /\ Exhausted \/ attempt = MaxUint64
    /\ Begin(p, Refused("issue", FALSE),
             [CurrentChange EXCEPT !.event = event], "selection")
    /\ UNCHANGED attempt

\* verifyDecision with the identifier of the pending Attempt, in time.  The
\* timer is stopped, which does not recall one that was dispatched.
Verify(p) ==
    /\ Idle(p) /\ mode = "awaiting" /\ Quiescent /\ pending.live
    /\ ~pending.expired
    /\ Begin(p, IF Exhausted THEN Refused("verify", TRUE)
                             ELSE Entry("verify", 1), pending.change, "verify")
    /\ UNCHANGED attempt

\* adjudicateDecision; Recover is the outcome "retain".
Adjudicate(p, outcome, target) ==
    /\ Idle(p) /\ mode = "faulted" /\ Quiescent /\ ~Exhausted
    /\ CASE outcome = "retain" -> target = state
         [] outcome = "adopt" -> /\ fault.change.row # None /\ fault.issued
                                 /\ target = fault.change.to
         [] outcome = "override" -> target \in States
    /\ Begin(p, [Entry("adjudicate", Checks)
                    EXCEPT !.commits = outcome # "retain"],
             IF outcome = "adopt" THEN fault.change
                                  ELSE [CurrentChange EXCEPT !.to = target],
             "adjudicate")
    /\ UNCHANGED attempt

\* Every public call that is declined without touching the execution: a nil
\* context, the wrong mode, ErrBusy, ErrCallbackRunning, an unknown event, a
\* stale Attempt, an invalid decision.  It still delivers its Record.
Refuse(p) ==
    /\ Idle(p)
    /\ call' = IF Recorder
                 THEN [call EXCEPT ![p] = Published(0, None, FALSE)] ELSE call
    /\ Stamps
    /\ UNCHANGED <<execution, rest, operation, callbacks, delivery>>

-----------------------------------------------------------------------------
(* Faults. *)

\* Mutant of LatchLocked: the last cause wins.
LatchLockedLast(change, cause, uncertain) ==
    /\ fault' = LatchedFault(change, cause, uncertain)
    /\ pending' = NoPending
    /\ mode' = "faulted"

\* latchLocked, for a cause that nobody owns or whose owner is not revoked.
LatchLocked(change, cause, uncertain) ==
    /\ fault' = IF fault.latched
                  THEN fault
                  ELSE LatchedFault(change, cause, uncertain)
    /\ pending' = NoPending
    /\ mode' = "faulted"

Revoked == IF operation.id = 0 THEN operation
                               ELSE [operation EXCEPT !.revoked = TRUE]

\* Trip and expireVerificationLocked: latch, and own the publication.
Report(p, change, cause) ==
    /\ LatchLocked(change, cause, TRUE)
    /\ operation' = Revoked
    /\ reporting' = reporting + 1
    /\ call' = [call EXCEPT ![p] =
                  [IdleCall EXCEPT !.pc = "cancel", !.op = operation.id,
                                   !.ends = "reporting",
                                   !.durable = ~fault.latched]]
    /\ Stamps
    /\ UNCHANGED <<committed, identities, delivery, durable, ghosts, callbacks>>

Trip(p) ==
    /\ Idle(p)
    /\ CASE mode = "executing" ->
              Report(p, operation.change, "tripped")
         [] mode = "awaiting" /\ pending.live ->
              Report(p, pending.change, "tripped")
         [] OTHER -> Report(p, CurrentChange, "tripped")
    /\ UNCHANGED timers

\* Verify finds the deadline of the pending Attempt passed.
VerifyExpired(p) ==
    /\ Idle(p) /\ mode = "awaiting" /\ Quiescent /\ pending.live
    /\ pending.expired
    /\ Report(p, pending.change, "expired")
    /\ UNCHANGED timers

\* Mutant of Matches: a timer that fires during a publication counts as stale.
MatchesWhenQuiescent(timer) ==
    /\ mode = "awaiting" /\ pending.live /\ Quiescent
    /\ timer = <<pending.change.seq, pending.version>>

Matches(timer) == /\ mode = "awaiting" /\ pending.live
                  /\ timer = <<pending.change.seq, pending.version>>

\* verificationExpired.  A timer of another Attempt does nothing, one that fires
\* early arms itself again.
TimerFires(timer) ==
    /\ call[Timer].pc = "idle" /\ timer \in timers
    /\ \/ /\ Matches(timer) /\ pending.expired
          /\ Report(Timer, pending.change, "expired")
       \/ /\ ~Matches(timer)
          /\ UNCHANGED <<core, delivery, durable, ghosts, operation, reporting,
                         callbacks, call>>
    /\ timers' = timers \ {timer}

\* The cancel function that latchLocked handed out runs after the unlock.
Cancel(p) ==
    /\ call[p].pc = "cancel"
    /\ operation' = IF operation.id # 0 /\ operation.id = call[p].op
                      THEN [operation EXCEPT !.done = TRUE] ELSE operation
    /\ Publish(p, call[p].durable)
    /\ UNCHANGED <<core, rest, delivery, callbacks>>

\* latchResult: the owner's cause becomes the first Fault unless it was revoked.
Latch(p) ==
    /\ call[p].pc = "latch" /\ call[p].api # "adjudicate"
    /\ LET c == call[p] IN
       IF Owns(c.op)
         THEN /\ LatchLocked(c.change, c.cause, c.uncertain)
              /\ operation' = [Revoked EXCEPT !.done = TRUE]
              /\ Publish(p, ~fault.latched)
         ELSE /\ Publish(p, FALSE)
              /\ UNCHANGED <<mode, pending, fault, operation>>
    /\ Stamps
    /\ UNCHANGED <<rest, committed, identities, delivery, callbacks>>

\* restoreFault: a failed adjudication leaves the Fault it found.
RestoreFault(p) ==
    /\ call[p].pc = "latch" /\ call[p].api = "adjudicate"
    /\ IF Owns(call[p].op)
         THEN /\ mode' = "faulted"
              /\ operation' = [Revoked EXCEPT !.done = TRUE]
         ELSE UNCHANGED <<mode, operation>>
    /\ Publish(p, FALSE)
    /\ Stamps
    /\ UNCHANGED <<rest, committed, identities, delivery, pending, fault,
                   callbacks>>

-----------------------------------------------------------------------------
(* Application callbacks: invoke. *)

\* An Operation that is not released once its public call has returned.
CallbackReturnedKept(op) ==
    IF op = 0 \/ operation.id # op THEN operation
    ELSE [operation EXCEPT !.live = @ - 1]

\* deliverAdapter and invoke count a goroutine against its Operation ...
Leased(op) == IF op # 0 /\ operation.id = op
                THEN [operation EXCEPT !.live = @ + 1] ELSE operation
\* ... and callbackReturnedLocked releases it, with the Operation if that is over.
CallbackReturned(op) ==
    IF op = 0 \/ operation.id # op THEN operation
    ELSE IF operation.returned /\ operation.live = 1 THEN NoOperation
    ELSE [operation EXCEPT !.live = @ - 1]

\* Mutant of MayRun: ownership is not looked at again under the lock.
MayRunStale(c) == operation.id = c.op

MayRun(c) == Owns(c.op) /\ mode = "executing"
CtxDone(c) == operation.id = c.op /\ operation.done

\* The Operation's deadline passes or the caller's context is cancelled.
ContextDone ==
    /\ operation.id # 0 /\ ~operation.done
    /\ \E p \in Callers :
          /\ call[p].op = operation.id
          /\ call[p].pc \in {"invoke", "wait", "prepare", "deliver",
                             "prepared", "finish"}
    /\ operation' = [operation EXCEPT !.done = TRUE]
    /\ UNCHANGED <<core, rest, delivery, callbacks, call>>

\* invoke starts the callback on a goroutine of its own.
Invoke(p) ==
    LET c == call[p] IN
    /\ c.pc = "invoke" /\ ~CtxDone(c) /\ MayRun(c)
    /\ operation' = [Leased(c.op) EXCEPT !.change = c.change]
    /\ callbacks' = callbacks \cup
          {[proc |-> p, op |-> c.op, phase |-> c.phase, step |-> "running"]}
    /\ call' = [call EXCEPT ![p].pc = "wait"]
    /\ IF c.phase = "issue"
         THEN /\ unresolved' = unresolved \cup {Identifier(c.change)}
              /\ everIssued' = everIssued \cup {c.change.seq}
         ELSE UNCHANGED ghosts
    /\ UNCHANGED <<core, delivery, durable, reporting, timers>>

InvokeRefused(p) ==
    LET c == call[p] IN
    /\ c.pc = "invoke" /\ (CtxDone(c) \/ ~MayRun(c))
    /\ call' = [call EXCEPT ![p] = Fail(c, "callback", Uncertain(c))]
    /\ UNCHANGED shared

\* invoke receives the callback's outcome.  A guard that completes with an error
\* (its own, or the deadline it met) declines its row; every other error faults.
Answered(c) ==
    LET ok == c.done = "ok" /\ ~CtxDone(c) IN
    CASE ok -> IF c.left > 1 THEN Enter(c, c.phase, c.left - 1) ELSE Advance(c)
      [] ~ok /\ c.phase = "guard" /\ c.done # "panic" -> Consider(c, c.row + 1)
      [] OTHER -> Fail(c, "callback", Uncertain(c))

Answer(p) ==
    /\ call[p].pc = "wait" /\ call[p].done # None
    /\ call' = [call EXCEPT ![p] = Answered(@)]
    /\ UNCHANGED shared

\* Mutant of Abandon: invoke only gives up on a callback that answered.
AbandonAnswered(p) ==
    LET c == call[p] IN
    /\ c.pc = "wait" /\ c.done # None /\ CtxDone(c)
    /\ operation' = [operation EXCEPT !.abandoned = TRUE]
    /\ call' = [call EXCEPT ![p] = Fail(c, "callback", Uncertain(c))]
    /\ UNCHANGED <<core, rest, delivery, callbacks>>

\* invoke stops waiting at the deadline; the callback keeps running.
Abandon(p) ==
    LET c == call[p] IN
    /\ c.pc = "wait" /\ c.done = None /\ CtxDone(c)
    /\ operation' = [operation EXCEPT !.abandoned = TRUE]
    /\ call' = [call EXCEPT ![p] = Fail(c, "callback", Uncertain(c))]
    /\ UNCHANGED <<core, rest, delivery, callbacks>>

\* The callback's goroutine releases the Operation and sends on done.
Release(g, outcome) ==
    /\ callbacks' = callbacks \ {g}
    /\ operation' = CallbackReturned(g.op)
    /\ call' = IF call[g.proc].pc = "wait" /\ call[g.proc].op = g.op
                 THEN [call EXCEPT ![g.proc].done = outcome] ELSE call

Moved(g, step) == (callbacks \ {g}) \cup {[g EXCEPT !.step = step]}

IsLate(g, outcome) ==
    outcome # "ok" /\ operation.id = g.op /\ operation.abandoned

\* A callback returns, fails or panics.  An abandoned one that fails first
\* records its secondary cause, and keeps its lease while it does.
CallbackReturn(g, outcome) ==
    /\ g.step = "running" /\ (outcome = "panic" => g.phase = "guard")
    /\ IF Recorder /\ IsLate(g, outcome)
         THEN callbacks' = Moved(g, "late") /\ UNCHANGED <<operation, call>>
         ELSE Release(g, outcome)
    /\ IF IsLate(g, outcome) THEN Stamps ELSE UNCHANGED recordsSpent
    /\ UNCHANGED <<execution, rest, delivery>>

LateRecord(g) ==
    /\ g.step = "late"
    /\ IF recorderRunning
         THEN Release(g, "err") /\ UNCHANGED delivery
         ELSE /\ callbacks' = Moved(g, "recording")
              /\ operation' = Leased(g.op)
              /\ recorderRunning' = TRUE
              /\ recorders' = recorders \cup {[proc |-> g.proc, op |-> g.op]}
              /\ UNCHANGED <<journalRunning, writers, call>>
    /\ UNCHANGED <<core, rest>>

LateReturn(g) ==
    /\ g.step = "recording"
    /\ Release(g, "err")
    /\ UNCHANGED <<core, rest, delivery>>

-----------------------------------------------------------------------------
(* Durable preparation of an external Issue: prepareIssue. *)

\* deliverAdapter takes the Journal gate and starts the writer.
StartWriter(p, op, prepares) ==
    /\ journalRunning' = TRUE
    /\ writers' = writers \cup {[proc |-> p, op |-> op, prepares |-> prepares,
                                 step |-> "new", snapshot |-> NoSnapshot]}
    /\ operation' = Leased(op)

Prepare(p) ==
    LET c == call[p] IN
    /\ c.pc = "prepare"
    /\ IF MayRun(c)
         THEN /\ operation' = [operation EXCEPT !.issued = TRUE,
                                               !.change = c.change]
              /\ call' = [call EXCEPT ![p] =
                            IF Journal THEN [c EXCEPT !.pc = "deliver"]
                                       ELSE Enter(c, "issue", 1)]
         ELSE /\ call' = [call EXCEPT ![p] =
                            Fail([c EXCEPT !.phase = "issue"], "journal", FALSE)]
              /\ UNCHANGED operation
    /\ UNCHANGED <<core, rest, delivery, callbacks>>

PrepareDeliver(p) ==
    LET c == call[p] IN
    /\ c.pc = "deliver" /\ ~CtxDone(c) /\ ~journalRunning
    /\ StartWriter(p, c.op, TRUE)
    /\ call' = [call EXCEPT ![p].pc = "prepared"]
    /\ UNCHANGED <<core, rest, callbacks, recorderRunning, recorders>>

\* The context is done or the gate is busy; or the writer failed, or the
\* deadline came before its answer: deliverAdapter gives the gate back before it
\* sends on done, so the writer may even have succeeded.
PrepareFailed(p) ==
    LET c == call[p] IN
    /\ \/ c.pc = "deliver" /\ (CtxDone(c) \/ journalRunning)
       \/ c.pc = "prepared" /\ (CtxDone(c) \/ c.done = "err")
    /\ call' = [call EXCEPT ![p] =
                  Fail([c EXCEPT !.phase = "issue"], "journal", FALSE)]
    /\ UNCHANGED shared

\* Mutant of Prepared: the Journal's answer is awaited but not looked at.
PreparedAnyway(p) ==
    LET c == call[p] IN
    /\ c.pc = "prepared" /\ c.done # None
    /\ call' = [call EXCEPT ![p] = Enter(c, "issue", 1)]
    /\ UNCHANGED shared

Prepared(p) ==
    LET c == call[p] IN
    /\ c.pc = "prepared" /\ c.done = "ok"
    /\ call' = [call EXCEPT ![p] = Enter(c, "issue", 1)]
    /\ UNCHANGED shared

-----------------------------------------------------------------------------
(* Outcomes. *)

\* The context test in front of finishReady, awaitVerification, commit and the
\* end of adjudicateDecision.
FinishLate(p) ==
    LET c == call[p] IN
    /\ c.pc = "finish" /\ CtxDone(c)
    /\ call' = [call EXCEPT ![p] = Fail(c, "callback", Uncertain(c))]
    /\ UNCHANGED shared

\* Each of the four finds its Operation revoked and reports the Fault.
FinishRevoked(p) ==
    LET c == call[p] IN
    /\ c.pc = "finish" /\ ~CtxDone(c) /\ ~MayRun(c)
    /\ Publish(p, FALSE)
    /\ Stamps
    /\ UNCHANGED <<execution, rest, operation, callbacks, delivery>>

Finishing(p, phases) ==
    LET c == call[p] IN
    c.pc = "finish" /\ c.phase \in phases /\ ~CtxDone(c) /\ MayRun(c)

FinishReady(p) ==
    /\ Finishing(p, {"start", "selection"})
    /\ mode' = "ready"
    /\ operation' = [operation EXCEPT !.done = TRUE]
    /\ Publish(p, TRUE)
    /\ Stamps
    /\ UNCHANGED <<rest, committed, identities, delivery, pending, fault,
                   callbacks>>

AwaitVerification(p) ==
    LET c == call[p] IN
    /\ Finishing(p, {"issue"})
    /\ pending' = [live |-> TRUE, change |-> c.change, version |-> c.op,
                   expired |-> FALSE]
    /\ mode' = "awaiting"
    /\ timers' = timers \cup {<<c.change.seq, c.op>>}
    /\ operation' = [operation EXCEPT !.done = TRUE]
    /\ Publish(p, FALSE)
    /\ Stamps
    /\ UNCHANGED <<committed, identities, delivery, durable, ghosts, fault,
                   reporting, callbacks>>

\* commit's own test for revision = MaxUint64 is dead code: admission refused it,
\* and TypeOK would fail here otherwise.
Commit(p) ==
    LET c == call[p] IN
    /\ Finishing(p, {"commit"})
    /\ state' = c.change.to
    /\ revision' = revision + 1
    /\ pending' = NoPending
    /\ mode' = "ready"
    /\ unresolved' = unresolved \ {Identifier(c.change)}
    /\ operation' = [operation EXCEPT !.done = TRUE]
    /\ Publish(p, TRUE)
    /\ Stamps
    /\ UNCHANGED <<identities, delivery, durable, fault, reporting, timers,
                   callbacks, everIssued>>

FinishAdjudication(p) ==
    LET c == call[p] IN
    /\ Finishing(p, {"adjudicate"}) /\ fault.latched
    /\ state' = IF c.commits THEN c.change.to ELSE state
    /\ revision' = IF c.commits THEN revision + 1 ELSE revision
    /\ fault' = NoFault
    /\ mode' = "ready"
    /\ unresolved' = unresolved \ {Identifier(fault.change)}
    /\ operation' = [operation EXCEPT !.done = TRUE]
    /\ Publish(p, TRUE)
    /\ Stamps
    /\ UNCHANGED <<identities, delivery, durable, pending, reporting, timers,
                   callbacks, everIssued>>

-----------------------------------------------------------------------------
(* Publication: closeJournal, recordResult and the deferred release. *)

\* closeJournal takes the gate, or finds it busy and fails.
Close(p) ==
    LET c == call[p] IN
    /\ c.pc = "close"
    /\ IF journalRunning
         THEN /\ call' = [call EXCEPT ![p].pc = "closing", ![p].done = "err"]
              /\ UNCHANGED <<delivery, operation>>
         ELSE /\ StartWriter(p, c.op, FALSE)
              /\ call' = [call EXCEPT ![p].pc = "closing"]
              /\ UNCHANGED <<recorderRunning, recorders>>
    /\ UNCHANGED <<core, rest, callbacks>>

ToRecord(c, n) == [c EXCEPT !.pc = IF Recorder THEN "record" ELSE "return",
                            !.left = n, !.done = None, !.durable = FALSE]

\* closeJournal learns the outcome of its write.  A failure, or RecorderTimeout
\* before the answer, is published with a Record of its own.
Closed(p) ==
    LET c == call[p] IN
    /\ c.pc = "closing" /\ c.done = "ok"
    /\ journalError' = FALSE
    /\ call' = [call EXCEPT ![p] = ToRecord(c, 1)]
    /\ UNCHANGED <<core, delivery, ghosts, operation, reporting, timers,
                   callbacks, disk>>

\* Mutant of CloseFailed: a timed-out closure gives the gate back while its
\* write is still under way.
CloseFailedReleases(p) ==
    LET c == call[p] IN
    /\ c.pc = "closing"
    /\ journalError' = TRUE
    /\ journalRunning' = FALSE
    /\ call' = [call EXCEPT ![p] = ToRecord(c, 2)]
    /\ Stamps
    /\ UNCHANGED <<execution, ghosts, operation, reporting, timers, callbacks,
                   recorderRunning, writers, recorders, disk>>

\* As in PrepareFailed, the timeout may win although the writer has ended.
CloseFailed(p) ==
    LET c == call[p] IN
    /\ c.pc = "closing"
    /\ journalError' = TRUE
    /\ call' = [call EXCEPT ![p] = ToRecord(c, 2)]
    /\ Stamps
    /\ UNCHANGED <<execution, delivery, ghosts, operation, reporting, timers,
                   callbacks, disk>>

Recorded(c) == IF c.left > 1 THEN [c EXCEPT !.pc = "record", !.left = @ - 1]
                             ELSE [c EXCEPT !.pc = "return"]

\* recordResult delivers one Record, or finds the Recorder busy and drops it.
Record(p) ==
    LET c == call[p] IN
    /\ c.pc = "record"
    /\ IF recorderRunning
         THEN /\ call' = [call EXCEPT ![p] = Recorded(c)]
              /\ UNCHANGED <<delivery, operation>>
         ELSE /\ recorderRunning' = TRUE
              /\ recorders' = recorders \cup {[proc |-> p, op |-> c.op]}
              /\ operation' = Leased(c.op)
              /\ call' = [call EXCEPT ![p].pc = "recording"]
              /\ UNCHANGED <<journalRunning, writers>>
    /\ UNCHANGED <<core, rest, callbacks>>

\* The Recorder answered or RecorderTimeout passed.
RecordDone(p) ==
    /\ call[p].pc = "recording"
    /\ call' = [call EXCEPT ![p] = Recorded(@)]
    /\ UNCHANGED shared

\* Mutant of OperationReturned: live callbacks are not waited for.
OperationReturnedEarly(op) == IF operation.id # op THEN operation ELSE NoOperation

\* operationReturned.
OperationReturned(op) ==
    IF operation.id # op THEN operation
    ELSE IF operation.live = 0 THEN NoOperation
    ELSE [operation EXCEPT !.returned = TRUE]

\* The public call returns: operationReturned or reportingReturned.
Return(p) ==
    LET c == call[p] IN
    /\ c.pc = "return"
    /\ operation' = IF c.ends = "operation" THEN OperationReturned(c.op)
                                            ELSE operation
    /\ reporting' = IF c.ends = "reporting" THEN reporting - 1 ELSE reporting
    /\ call' = [call EXCEPT ![p] = IdleCall]
    /\ UNCHANGED <<core, delivery, durable, ghosts, timers, callbacks>>

-----------------------------------------------------------------------------
(* Adapter goroutines. *)

Stepped(w, step, snapshot) ==
    (writers \ {w}) \cup {[w EXCEPT !.step = step, !.snapshot = snapshot]}

\* The closure that prepareIssue or closeJournal hands to deliverAdapter captures
\* the Snapshot under s.mu; a preparation first checks that it is still wanted.
Capture(w) ==
    /\ w.step = "new"
    /\ w.prepares => Owns(w.op) /\ mode = "executing"
    /\ writers' = Stepped(w, "captured", SnapshotNow)
    /\ UNCHANGED <<core, rest, operation, callbacks, journalRunning,
                   recorderRunning, recorders, call>>

\* The application's Journal makes the Snapshot durable.
Write(w) ==
    /\ w.step = "captured"
    /\ disk' = w.snapshot
    /\ writers' = Stepped(w, "written", w.snapshot)
    /\ UNCHANGED <<core, ghosts, operation, reporting, timers, callbacks,
                   journalRunning, recorderRunning, recorders, journalError,
                   call>>

\* The writer returns; it may fail before or after the write took effect.
WriterEnd(w, outcome) ==
    /\ outcome = "ok" => w.step = "written"
    /\ writers' = writers \ {w}
    /\ operation' = CallbackReturned(w.op)
    /\ journalRunning' = FALSE
    /\ call' = IF /\ call[w.proc].pc \in {"prepared", "closing"}
                  /\ call[w.proc].done = None
                 THEN [call EXCEPT ![w.proc].done = outcome] ELSE call
    /\ UNCHANGED <<core, rest, callbacks, recorderRunning, recorders>>

RecorderEnd(r) ==
    /\ recorders' = recorders \ {r}
    /\ operation' = CallbackReturned(r.op)
    /\ recorderRunning' = FALSE
    /\ UNCHANGED <<core, rest, callbacks, journalRunning, writers, call>>

-----------------------------------------------------------------------------
(* Time, crash and restart. *)

DeadlinePasses ==
    /\ pending.live /\ ~pending.expired
    /\ pending' = [pending EXCEPT !.expired = TRUE]
    /\ UNCHANGED <<rest, committed, counters, delivery, mode, fault, operation,
                   callbacks, call>>

\* Mutant of RestoredCounters: the Attempt sequence starts again.
RestoredCountersReset == [revision |-> disk.rev, attempt |-> 0]

RestoredCounters == [revision |-> disk.rev, attempt |-> disk.attempt]

\* The process dies and RestoreWithOptions (or New, when nothing was ever stored)
\* builds the next one from the durable Snapshot.  The Journal has no cross-process
\* fencing: that the dead process writes nothing any more is an assumption about
\* the application, and the writers end here.
CrashRestore ==
    LET held == disk.indoubt \/ disk.faulted IN
    /\ Journal /\ incarnation < MaxIncarnation
    /\ disk.saved => Restorable(disk)
    /\ mode' = IF held THEN "faulted" ELSE "stopped"
    /\ state' = disk.state
    /\ revision' = RestoredCounters.revision
    /\ attempt' = RestoredCounters.attempt
    /\ nextOperation' = 0
    /\ incarnation' = incarnation + 1
    /\ restarts' = IF disk.saved THEN disk.restarts + 1 ELSE 0
    /\ recordsSpent' = disk.spent
    /\ fault' = IF held
                  THEN [latched |-> TRUE, change |-> disk.pending,
                        state |-> disk.state,
                        cause |-> IF disk.cause = None THEN "restored"
                                                       ELSE disk.cause,
                        uncertain |-> disk.uncertain \/ disk.indoubt,
                        issued |-> disk.indoubt]
                  ELSE NoFault
    /\ pending' = NoPending
    /\ operation' = NoOperation
    /\ reporting' = 0
    /\ timers' = {} /\ callbacks' = {} /\ writers' = {} /\ recorders' = {}
    /\ journalRunning' = FALSE /\ recorderRunning' = FALSE
    /\ journalError' = FALSE
    /\ call' = [p \in Procs |-> IdleCall]
    /\ UNCHANGED <<ghosts, disk>>

-----------------------------------------------------------------------------
Init ==
    /\ mode = "stopped" /\ state = Initial
    /\ revision = 0 /\ attempt = 0 /\ nextOperation = 0 /\ incarnation = 1
    /\ restarts = 0 /\ recordsSpent = FALSE
    /\ pending = NoPending /\ fault = NoFault /\ operation = NoOperation
    /\ reporting = 0 /\ timers = {}
    /\ callbacks = {} /\ writers = {} /\ recorders = {}
    /\ journalRunning = FALSE /\ recorderRunning = FALSE
    /\ journalError = FALSE /\ disk = NoSnapshot
    /\ unresolved = {} /\ everIssued = {}
    /\ call = [p \in Procs |-> IdleCall]

\* A caller enters the public API.
Admit(p) ==
    \/ /\ p \in Operators
       /\ \/ Start(p)
          \/ \E e \in Events : Issue(p, e) \/ IssueExhausted(p, e)
          \/ Verify(p)
          \/ \E o \in Decisions, s \in States : Adjudicate(p, o, s)
          \/ VerifyExpired(p)
    \/ /\ p \in Trippers
       /\ Refuse(p) \/ Trip(p)

\* A call that was made moves on by itself.
Step(p) ==
    \/ Cancel(p) \/ Latch(p) \/ RestoreFault(p)
    \/ Invoke(p) \/ InvokeRefused(p) \/ Answer(p) \/ Abandon(p)
    \/ Prepare(p) \/ PrepareDeliver(p) \/ PrepareFailed(p) \/ Prepared(p)
    \/ FinishLate(p) \/ FinishRevoked(p) \/ FinishReady(p)
    \/ AwaitVerification(p) \/ Commit(p) \/ FinishAdjudication(p)
    \/ Close(p) \/ Closed(p) \/ CloseFailed(p)
    \/ Record(p) \/ RecordDone(p) \/ Return(p)

CallbackStep ==
    \E g \in callbacks : \/ \E o \in Outcomes : CallbackReturn(g, o)
                         \/ LateRecord(g) \/ LateReturn(g)
WriterStep ==
    \E w \in writers : \/ Capture(w) \/ Write(w)
                       \/ \E o \in {"ok", "err"} : WriterEnd(w, o)
RecorderStep == \E r \in recorders : RecorderEnd(r)
TimerStep == \E t \in timers : TimerFires(t)

Next ==
    \/ \E p \in Procs : Admit(p) \/ Step(p)
    \/ CallbackStep \/ WriterStep \/ RecorderStep
    \/ TimerStep \/ DeadlinePasses \/ ContextDone
    \/ CrashRestore

Spec == Init /\ [][Next]_vars

\* Fairness.  Goroutines are scheduled, and every wait of a public call ends by
\* itself: an Operation has a deadline, an adapter delivery has RecorderTimeout.
\* Callbacks, Journal and Recorder are the application's and may hang.
CallsProgress == /\ \A p \in Procs : WF_vars(Step(p))
                 /\ WF_vars(ContextDone)
ClockProgress == WF_vars(DeadlinePasses) /\ WF_vars(TimerStep)
HangingSpec == Spec /\ CallsProgress /\ ClockProgress

-----------------------------------------------------------------------------
(* Properties. *)

\* Every variable has its type.  The counters stay below their ceiling although
\* commit, awaitVerification and Adjudicate increment them without a test.
TypeOK ==
    /\ mode \in Modes /\ state \in States
    /\ revision \in 0..MaxUint64 /\ attempt \in 0..MaxUint64
    /\ nextOperation \in 0..MaxUint64 /\ incarnation \in 1..MaxIncarnation
    /\ restarts \in 0..MaxUint64 /\ recordsSpent \in BOOLEAN
    /\ pending \in Pending /\ fault \in Fault /\ operation \in Operation
    /\ reporting \in Nat
    /\ timers \subseteq (0..MaxUint64) \X (0..MaxUint64)
    /\ callbacks \subseteq Callback
    /\ writers \subseteq Writer /\ recorders \subseteq Reporter
    /\ journalRunning \in BOOLEAN /\ recorderRunning \in BOOLEAN
    /\ journalError \in BOOLEAN /\ disk \in Snapshot
    /\ unresolved \subseteq (0..MaxIncarnation) \X (0..MaxUint64)
    /\ everIssued \subseteq 0..MaxUint64
    /\ call \in [Procs -> Call]

\* An application callback, however late, runs only while its own Operation still
\* excludes every other one: a hung callback never overlaps a later Operation.
LiveCallbacksOwned ==
    /\ \A g \in callbacks : operation.id = g.op
    /\ Cardinality(callbacks) <= 1

\* An Operation is admitted only after every callback, Journal write and Recorder
\* delivery of the one before has ended and every publication is complete.
AdmissionQuiescent ==
    [][operation'.id \notin {0, operation.id} =>
          /\ callbacks = {} /\ writers = {} /\ recorders = {}
          /\ \A p \in Procs : call[p].ends = None]_vars

\* A Fault, once latched, keeps its first cause until an adjudication that still
\* owns its Operation clears it; no Trip, expiry or late failure rewrites it.
FirstCauseKept ==
    [][fault.latched /\ fault' # fault =>
          \/ incarnation' # incarnation
          \/ /\ fault' = NoFault /\ mode = "executing" /\ mode' = "ready"
             /\ ~operation.revoked]_vars

\* While a Fault is latched nothing commits, except the adjudication that
\* resolves it: a Verify or Issue that was tripped under way cannot.
NoCommitWhileFaulted ==
    [][fault.latched /\ incarnation' = incarnation
         /\ (state' # state \/ revision' # revision) =>
              /\ ~fault'.latched /\ revision' = revision + 1
              /\ mode = "executing" /\ ~operation.revoked]_vars

\* An external effect that was started and not yet resolved is never forgotten
\* in memory: it is pending, or its Issue is executing, or the latched Fault is
\* about exactly this Attempt, says Uncertain, and can be adopted.
UnresolvedHeld ==
    \A e \in unresolved :
        \/ pending.live /\ Identifier(pending.change) = e
        \/ /\ mode = "executing" /\ operation.issued
           /\ Identifier(operation.change) = e
        \/ /\ fault.latched /\ fault.issued /\ fault.uncertain
           /\ Identifier(fault.change) = e

\* The same on disk: before the Issue callback starts, and until the Attempt is
\* resolved, the durable Snapshot is in doubt about it, whatever write is late,
\* lost, failed or skipped.  A restart therefore always finds it.
UnresolvedDurable ==
    Journal => \A e \in unresolved :
                  disk.indoubt /\ Identifier(disk.pending) = e

\* No Attempt's Issue callback is started twice, in one process or after a
\* restart from the Journal.
IssueAtMostOnce ==
    [][\A g \in callbacks' \ callbacks :
          g.step = "running" /\ g.phase = "issue" =>
              call[g.proc].change.seq \notin everIssued]_vars

\* The durable Snapshot never goes back: a closure that timed out, or a write
\* that lands late, does not cover a newer one of the same process, and the
\* counters of a restored process go on above those of its Snapshot.  That no
\* write of a dead process lands after the restart is assumed (CrashRestore).
DiskMonotone ==
    [][disk'.rev >= disk.rev /\ disk'.attempt >= disk.attempt
         /\ disk'.inc >= disk.inc]_vars

\* Whatever the Journal or Snapshot() may be handed at any moment, and whatever
\* is on disk, restoreSupervisor accepts it, unless its revision, its restarts
\* or its Record numbers are at their end (ErrCounterExhausted).
SnapshotsRestorable ==
    \A s \in {SnapshotNow, disk} :
        s.saved /\ ~Ended(s) => Restorable(s)

\* A Fault whose Journal closure was skipped is visible in Status.JournalError:
\* with nobody publishing and no error shown, the disk knows of the Fault.
SkippedClosureExposed ==
    Journal /\ fault.latched /\ ~journalError /\ Quiescent
       /\ (\A p \in Procs : call[p].pc = "idle")
          => disk.faulted \/ disk.indoubt

\* Every public call returns, although callbacks and adapters may hang forever.
EveryCallReturns ==
    \A p \in Procs : call[p].pc # "idle" ~> call[p].pc = "idle"

\* A Change does not stay pending forever, even if nobody calls Verify.
PendingResolved == mode = "awaiting" ~> mode # "awaiting"

\* An Operation that holds the Supervisor forever does so because a goroutine of
\* the application never returns: late or not, what returns releases it.
OperationReleased ==
    \/ []<>(operation.id = 0)
    \/ <>[](callbacks # {} \/ writers # {} \/ recorders # {})

=============================================================================
