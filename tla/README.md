# Verification of statemachine

`statemachine` is a Go library of state machines.  The root package has an
immutable flat `Machine` and a single-flight `Instance`; `queued` runs events one
after another on a goroutine of its own; `persist` runs a Machine over stored
aggregates; `statechart` adds hierarchy; `supervised` is a long-running
Supervisor for external effects, with attempts, verification, faults, a Journal
and a Recorder.  This directory holds TLA+ modules that model the parts with
state that several goroutines, or a crash, can reach, TLC configurations that
check them on small instances, and TLAPS proofs, for every value of the constants,
of all safety properties and refinements that hold.

`PROJECT.json` maps every definition that models code to its lines, lists the
runs, the hazards of the code with the properties that cover them, and, for each
property, a *mutant*: the same definition with a plausible bug, under which TLC
finds the property violated.  Mutants stand in the modules beside the definition
they change ("Mutant of X"), and nothing uses them.

## 1. Inventory

Sources are under `src/`.

| component | state | operations | status |
|---|---|---|---|
| **Supervisor execution** `supervised/execution.go` | mode, state, revision, attempt and operation counters, pending Change, latched Fault, current Operation, number of reports in progress, last Journal error, verification timer | `New…`, `Restore…`, `Start`, `Issue`, `Verify`, `Trip`, `Recover`, `Adjudicate`, timer expiry, `Snapshot`, `Status` | partly: `Supervisor` |
| **Delivery** `supervised/delivery.go` | the Journal gate and the Recorder gate | `deliverAdapter`, `closeJournal`, `recordResult`, `finalize`, the release of an Operation by its last callback | modelled: `Supervisor` |
| **Lifecycle records** `supervised/record.go` | bounded history, record counter | stamp, append, `recordResult`, `Records`, the counter in Snapshots | modelled: `Records`; delivery in `Supervisor` |
| **Supervised definition** `supervised/definition.go` | none (immutable) | `Compile`, `Refused`, `External` | modelled: `Definition`; in `Supervisor` the constant `Rows` |
| **Results, clock, DOT, error text** `supervised/{result,clock,dot,error_text}.go` | none | – | the values only |
| **queued Runtime** `queued/queued.go`, `queued/observe.go` | queue of roots, `running`, `rootCount`, per-root outcome and cascade, `LastPanic` | `Fire`, `Enqueue`, drain, cancellation, `Permitted`, `Status` | partly: `Queued` |
| **flat Instance** `instance.go` | state, `inFlight`, observation counter | `Fire`, `Permitted`, observers | modelled: `Instance`; in `Queued` as a Runtime uses it |
| **persist** `persist/persist.go`, `persist/memory.go` | entries with revisions; the flags of one `apply` | `Fire`, `Step`, `MemoryStore.Load`, `Update`; any other `Store` | modelled: `Persist` |
| **flat Machine** `statemachine.go` | none (immutable) | `Compile`, `Next`, `Permitted`, selection | modelled: `FlatMachine` |
| **Observers** `observe.go`, `internal/observer` | callbacks in progress | `Deliver`, `Start`, `Timeout`, `Contained`, `Copy` | modelled: `Observers` |
| **statechart** `statechart/*.go` | active state, `inFlight`, observation counter | `Compile`, `New`, `Fire`, `Permitted`, `Position`, `Arrows`, `Destination` | modelled: `Shape`, `Chart`, `Statechart` |
| **key checks** `internal/keycheck` | none | reflection over Go values | left out |
| **contract tests** `persist/persisttest` | none | tests for adapters | left out |

### How the parts interact, and what is hard

*Supervisor.*  One mutex protects all state, but every application callback
(Precondition, Guard, Invariant, Issue, Verify, Postcondition), every Journal
write and every Recorder delivery runs on a goroutine of its own, outside the
mutex, under a deadline.  The public call waits for the answer **or** the
deadline; when the deadline wins the goroutine goes on by itself.  The state is
read under the lock, callbacks run without it, and the outcome is applied under
it again, so a Trip or an expiry of the verification timer may have come in
between.  An Operation therefore outlives its public call until its last
goroutine is back, and no other is admitted meanwhile.  The Journal receives a
preparation before Issue runs and a closure after an outcome; either may fail
before or after it took effect, and the process may die at any step.  *Correct*
means: callbacks of two Operations never overlap; nothing commits behind the
back of a Fault and the first Fault keeps its cause; an external effect that
started and was not resolved is in doubt, in memory and on disk, until somebody
resolves it; nothing is issued twice; every call returns although the
application hangs; and the Supervisor is free again when the application is.

*queued.*  Callers append roots under a mutex and wait on a channel; the first
one on an idle Runtime starts the drain goroutine, which exits when it finds the
queue empty.  Callbacks get a context that lets them, and goroutines they leave
behind, `Enqueue` follow-ups until the cascade ends, and that `Fire` recognises
and refuses.  Cancellation removes a root from the middle of the queue unless the
drain has it.  *Correct* means: one root at a time, in the order of admission;
an exact count of outstanding roots against `MaxRoots`; no accepted follow-up
lost; no root left without a drain; no callback waiting for itself.

*persist.*  `apply` hands a step to `Store.Update` and then cross-examines the
Store: was the step called, once, had it ended, did it succeed, did the Store
report the state it led to.  `MemoryStore.Update` loads under its lock, steps
without it, and commits under it if the revision is unchanged.  *Correct* means:
no lost update; the step runs at most once whatever the Store does; success
means exactly one successful step and its destination; `Fire` returns.

*Instance, observers.*  `Fire` marks the Instance in flight under a mutex, runs
Guards and `Do` without it, commits and numbers the observations under it, and
then waits, observer by observer, for callbacks on goroutines of their own; a
timed observer that outlives its timeout runs on beside later deliveries.  Any
step may fail or panic, and an observer fails after the commit.  *Correct*
means: one Fire at a time, and no refusal or panic that clears or leaves the
mark of another; observations that trace the state, in order and once; a result
that neither hides nor invents a commit; `Fire` returns; `Permitted` speaks of
one state.

*statechart.*  The same, over a hierarchy: a row may be inherited, paths of exits
and entries depend on source, target, kind and initial chains, and an action
that fails after others have run must leave the source committed and say how far
it came.  Selection, `Permitted` and `Arrows` are three walks up the ancestors,
each with code of its own.  *Correct* means: whoever applies the observations to
the first lineage has the present one; exits, effect and entries run whole or
nothing is committed; the three walks agree.

*Records.*  An outcome gets its number under the lock and is published later,
perhaps behind younger ones and into a full history; the counter ends, and after
a crash restarts from an old Snapshot.  *Correct* means: no identity twice, the
newest kept, nothing lost without being counted.

*Definitions.*  The three `Compile` functions refuse tables with code that reads
them once, in order.  *Correct* means: they accept exactly what the definition
itself says is complete, reachable and unambiguous.

## 2. Modules

| module | what it is |
|---|---|
| `Supervisor` | the Supervisor with its callers, timer, callback, Journal and Recorder goroutines, crash and restore |
| `MCSupervisor` | two small Machines and the symmetry of callers, for TLC |
| `SupervisorProofs` | who owns what; on top of it, what a call knows of Fault, pending Change and Operation; on top of that, what memory and Journal hold of an issued Attempt |
| `Queued`, `MCQueued` | queued Runtimes over Instances; a two-state Machine |
| `QueuedProofs` | the inductive invariant of the Runtimes and six theorems |
| `Versioned` | abstract: an aggregate is a register moved along rows, one step at a time |
| `Persist`, `MCPersist` | `apply` over the MemoryStore or a foreign Store; rings of two and three states |
| `PersistProofs` | the inductive invariant and seven theorems, among them that `Persist` implements `Versioned` |
| `FlatMachine` | the flat Machine: `Compile`, `Next`, `Permitted` as operators |
| `FlatMachineTables` | every small table, compiled row by row |
| `Observers` | delivery of observations: the goroutine of Fire and those of the callbacks; used by `Instance` and `Statechart` |
| `Instance`, `MCInstance` | the flat Instance over `FlatMachine` and `Observers`; implements `Versioned` |
| `InstanceProofs` | single flight, refinement of `Versioned`, delivery in order, results that tell the truth, `Permitted` of one state |
| `OperatorLemmas` | lemmas about the operators, for the proofs: induction and loops, lists, the hierarchy that `compileShape` makes, the rows of a chart |
| `Shape` | the hierarchy: cycles, depths, intervals, destinations, common ancestors, paths |
| `ShapeForests` | every hierarchy over some states, walked through |
| `Chart` | the statechart definition: what `Compile` refuses, selection, `Permitted`, `Arrows` |
| `ChartDefinitions` | chart definitions that grow by edges and rows |
| `Statechart`, `MCStatechart` | the statechart Instance over `Chart` and `Observers` |
| `StatechartProofs` | that `Compile` accepts only sound hierarchies, and three theorems of the Instance over them |
| `Records`, `MCRecords` | stamps, history, exhaustion and restoration of the Supervisor's Records |
| `RecordsProofs` | that identities are never reused, the newest are kept and no outcome is lost uncounted |
| `Definition` | the strict definition of a supervised Machine |
| `StrictDefinitions` | strict definitions that grow by rows and refusals |
| `Definitions`, `MCDefinitions` | composes the four: a behaviour puts one question to one of the compilers.  It extends `ShapeForests` and `ChartDefinitions`, and has `FlatMachineTables` and `StrictDefinitions` as instances `Flat` and `Strict` |
| `DefinitionsProofs` | that the compilers accept exactly the sound definitions, and that what they answer agrees |

### Supervisor

*State.*  `mode … fault, operation, reporting, journalError` are the fields of
the Go struct under their names.  `call[p]` is the stack of goroutine `p` inside
one public call: `pc` says between which two critical sections it is, `phase`
and `left` in which list of callbacks and how far.  `callbacks`, `writers`,
`recorders` are the live goroutines of `invoke`, of the Journal and of the
Recorder; `timers` the armed or dispatched timers; `disk` is the last Snapshot
the Journal stored.  `unresolved` and `everIssued` are ghosts.

*Actions.*  One action is one critical section of `s.mu` with the lock-free code
up to the next one.

| code | actions |
|---|---|
| `startDecision`, `issueDecision`, `verifyDecision`, `adjudicateDecision`, Recover | `Start`, `Issue`, `IssueExhausted`, `Verify`, `VerifyExpired`, `Adjudicate` (Recover is its outcome "retain"), `Refuse` |
| `invoke` | `Invoke`, `InvokeRefused`, `Answer`, `Abandon`; on the goroutine `CallbackReturn`, `LateRecord`, `LateReturn` |
| `prepareIssue`, `deliverAdapter` | `Prepare`, `PrepareDeliver`, `Prepared`, `PrepareFailed`; on the goroutine `Capture`, `Write`, `WriterEnd` |
| `finishReady`, `awaitVerification`, `commit`, end of adjudication | `FinishReady`, `AwaitVerification`, `Commit`, `FinishAdjudication`, `FinishLate`, `FinishRevoked` |
| `latchResult`, `latchLocked`, `restoreFault`, `Trip`, `verificationExpired` | `Latch`, `RestoreFault`, `Trip`, `TimerFires`, `Cancel` |
| `closeJournal`, `recordResult`, `finalize` and its deferred releases | `Close`, `Closed`, `CloseFailed`, `Record`, `RecordDone`, `Return`, `RecorderEnd` |
| deadlines, contexts | `DeadlinePasses`, `ContextDone` |
| `restoreSupervisor` after the process died | `CrashRestore` |

*Abstracted.*  Time is a flag that the environment raises.  A compiled row is a
record with its identity, target, guard and number of Preconditions; each
required list has `Checks` callbacks.  Counters end at `MaxUint64`, a small
number; the tests against it are those of the code.  Records are delivered but
not numbered here, which is the matter of `Records`: of their sequence only
`recordsSpent` is kept, whether `nextRecord` has reached the margin below its end,
and every critical section that stamps (`Stamps`) may take it there.  `Exhausted`
and `Ended` are the tests of three counters each that admission and
`restoreSupervisor` make.  The caller of Verify gives the pending identifier, since
any other only reaches `Refuse`.

*Assumed.*  `CrashRestore` ends the writers of the process that died: what the
application started there writes nothing after the restart.  The library leaves this
to the application, as the Journal has "no cross-process fencing"
(`record.go:128`), and no property or theorem here says anything about two
processes that write to one store.

*Bounds.*  `Operators`, `Trippers` and `Decisions` say which callers make which
calls and how adjudications end, `RecordsEnd` whether the Record sequence nears its
end.  The proofs hold for every choice of them.

### Queued

A root carries its phase, its Runtime, its context chain (`above`: the
executions its caller's context came from) and its cascade.  `Fire` has its
refusals (`RefuseReentrant`, `RefuseCancelled`, `RefuseRootLimit`);
`ReceiveOutcome` and `RemoveRoot` are the two arms of its `select`.  `TakeRoot`,
`SettleRoot`, `AnswerRoot`, `ExitDrain` are the loop of the drain goroutine.
`BeginEvent`, `CommitEvent`, `FailEvent`, `StopEvent`, `DeliverObservations`,
`NextEvent` are one event of a cascade: the Instance is taken, a callback runs,
and it returns, fails, panics or ends its goroutine.  `HandOver` gives the
callback's context to another goroutine, either one the callback waits for
(`joined`: its own synchronous calls are of that kind) or one it leaves behind.
`LastPanic`, `Permitted` and the numbers of observations are left out.  `Openers`,
`Joiners`, `Leavers` and `Cancellable` bound who fires with a context of its own,
which goroutines a callback waits for or leaves behind, and which contexts are
cancelled; the proofs hold for every choice.

### Persist

`calls[c]` is one `apply`: its atomics (`started`, `repeated`, `completed`), the
result of the step, and what the Store answered.  A `MemoryStore` call goes
`Load`, `StepReturns`, `Commit`; a foreign Store may invoke the step twice, one
after the other or at once (`ForeignInvokes`), swallow or let through a panic
(`ForeignPanics`) and return anything at any time (`ForeignReturns`).  `Foreign` is the set of
aggregates that live in such a Store, `KeysOf` bounds the aggregates a caller
works on.  `Return` is the wait for a step that has not ended, and the verdict.

### FlatMachine, Shape, Chart, Definition

These translate pure code, and are operators: a loop over a table is a recursive
function over its length, a map is a function or a set, data is the set of rows
whose Guard returns nil for it.  `Shape!Visited` and `CompileShape` are the two
passes of `compileShape` over its stack; `Walk` is the walk of
`hierarchyCycles`.  `Problems` of `Chart` and `Compile` of `Definition` return
the positions complained of, where the code joins errors.  The modules
`…Tables`, `…Forests`, `…Definitions` make state machines of them, whose state is
the input that has been read so far, or an active state that moves, and compare
each answer with a reference definition written from the declarations: sets of
rows instead of groups, ancestors as the closure of the parent relation instead
of intervals, reachability as the least closed set instead of passes.

### Instance, Statechart, Observers

`calls[c]` is one Fire: `pc` is the stretch between two critical sections, or the
application callback it is in (`selecting`: a Guard, `doing` or `acting`: an
effect or a lifecycle action, `delivering`: observers).  `Begin` and `Refuse` are
the two ends of the first critical section, `Commit` is the second, `Leave` the
deferred one.  `delivery[c]` is the position in the two loops of `Deliver`, and
`callback[o, n]` the goroutine that calls observer `o` with observation `n`:
`StartCallback`, `CallbackBegins`, `CallbackEnds`, and, on the side of Fire,
`Collect` or `Expire`; `ReportEnds` is the report of a contained observer.  In
`Statechart` `todo` lists the actions of the transition still to run, with the
effect between exits and entries; `published` is a history.

### Records

`todo` of a call are the stamps it has taken and not yet published; 0 is a stamp
taken at the ceiling.  `DecideAtOnce` stands for every outcome that is stamped
without an admitted operation: a refusal, a Trip, an expiry, a late cause.
`CloseJournal` writes the counter of the moment of the write, or fails and
stamps an outcome of its own.

## 3. Runs

Every property of a passing run has a mutant that violates it, under the run's
own configuration.

| run | instance | states | question and answer |
|---|---|---|---|
| `recorder` | 2 callers, timer, a logical row before an external one and an external row back, Recorder; counters up to 4, the Record sequence may reach its margin at any outcome | 1.2 M | Whatever Trip, the timer, late callbacks and late deliveries do: no callback outlives the ownership of its Operation (`LiveCallbacksOwned`), the first Fault keeps its cause (`FirstCauseKept`) and nothing commits behind it (`NoCommitWhileFaulted`); no counter passes its end (`TypeOK`).  Holds. |
| `crash` | a caller that operates, one that trips or is refused, timer, one external row, Journal, 2 process lifetimes; counters up to 4, the Record sequence as above | 0.9 M | A crash at any step, one restart: an issued and undecided Change is in doubt in memory (`UnresolvedHeld`) and on disk (`UnresolvedDurable`); Restore accepts every Snapshot none of whose three counters is at its end (`SnapshotsRestorable`); no Attempt is issued twice, across the restart too (`IssueAtMostOnce`); within a process no late write replaces a newer Snapshot (`DiskMonotone`); no Operation is admitted over the work of another, late writes included (`AdmissionQuiescent`).  Holds. |
| `hanging` | a caller that operates, one that trips or is refused, timer, external rows there and back, the one back guarded, Journal; counters up to 5; nothing the application owns is fair | 0.1 M | `EveryCallReturns`; `PendingResolved`: a pending Change is decided or expires, even if no one calls Verify; `OperationReleased`: an Operation is released again and again unless a callback never returns.  Holds. |
| `closure` | 2 callers, timer, Journal | – | The documented promise that a skipped closure is exposed.  **Violated**, see section 6. |
| `queued` | 1 Runtime, 3 callers, 2 roots outstanding, 3 admitted, 2 events to a cascade | 2.2 M | `Serialized`, `FirstInFirstOut`, `OutstandingCounted`, `AcceptedEventsRun`, `SettledForGood`.  Hold. |
| `queued_live` | 2 Runtimes with observers, 3 callers, 3 roots of one event; one context that may be cancelled | 0.1 M | `EveryFireReturns`: no lost wake-up, no callback waiting for itself, directly or by way of the other Runtime.  Holds. |
| `persist` | 2 callers on an aggregate of a MemoryStore whose states recur, one of them also on one of a foreign Store; 3 commits | 0.2 M | `ImplementsVersioned`, `RevisionsAdvance`; `apply` never accuses the MemoryStore (`MemoryStoreKeepsContract`); against the foreign Store `StepExecutedOnce`, `SuccessConfirmed` and, under fairness, `EveryFireReturns`.  Hold. |
| `instance` | 2 callers, 1 viewer; a timed contained, a nil and a plain observer; one observed commit; an invalid event | 0.1 M | `ResultTellsTruth`, `DeliveredInOrder`, `PermittedOfOneState`, refinement of `Versioned` (`ImplementsRegister`), and `EveryObservationArrives` though the timed observer may hang.  Hold. |
| `statechart` | 2 callers, two charts of 5 states in 2 trees, 15 observations | 0.4 M | `ObservationsTrackLineage`, `LifecycleIsWholeOrReported`, `MovesAlongArrows`.  Hold. |
| `records` | 3 callers, ceiling 4, margin 2, history of 2, 6 outcomes, 1 restart | 0.3 M | `IdentitiesNeverReused`, `HistoryKeepsNewest`, `OutcomesAccounted`.  Hold. |
| `record_margin` | 2 callers, the margin of the code | – | What the comment on the margin promises.  **Violated**, see section 6. |
| `definitions` | every table of up to 3 rows; every hierarchy over 4 states with every choice of initial children; charts of up to 3 states and 2 edges of each kind, and 2 rows of every kind over two hierarchies; strict definitions of up to 2 rows and one refusal to a state, and with one defect each | 0.06 M | `CompilesExactlyTheSound`: nothing unsound is accepted and nothing sound refused; `AnswersAgree`: Next, Fire, Permitted and Arrows tell the same; `LineageFollowsDeclarations`; `EveryEventAnswered`.  Hold. |

### Bounds, and why they are enough

- **Callers.**  The Supervisor admits one Operation, so a second caller is the
  one that Trips, is refused, or is admitted too early; the timer is a third
  actor.  Two callers that may make every call are in `recorder` and `closure`; in
  `crash` and `hanging` one starts, issues, verifies and adjudicates and the other
  trips or is refused, since only one Operation is admitted at a time.  In `queued`
  three callers are what it takes to have a root running, one
  waiting and one refused at the limit, or two waiting, of which the one in the
  middle of the queue is cancelled and removed.  In `queued_live` three callers and three
  roots are what a circle through another Runtime takes: a caller fires the first
  Runtime, its callback fires the second, and that one's callback the first.  In `persist` three commits of one caller
  bring a state back under the other, which loaded it before them.
- **`MaxUint64`** 4 or 5: the code refuses work when a counter is one or two
  below its end, so a small end makes every refusal happen.  Every Operation takes a
  number, up to `MaxUint64 - 1`.  Four leave a lifetime Start, Issue and
  Verify, so a Change is verified and committed, or decided by adjudication, before
  the numbers end; in `recorder` a logical row may commit before the external one.
  Five let `hanging` have a second Change pending after the first was verified, with
  the timer of the first still to fire.  Every property of `recorder` and `crash` is also
  proved for every end, so what the bound cuts off is covered; the restart
  counter, which two lifetimes do not bring to its end, is covered by the proof alone.
- **`Checks`** 1: the callbacks of a list differ in nothing, and `Preconditions`
  of a row and of the Machine make one list follow another.
- **`MaxIncarnation`** 2 in `crash`, 1 elsewhere: one crash at every step, and a
  whole life after it.  A later crash starts from a Snapshot of the same kind.
- **`MaxFires`, `MaxRunEvents`, `MaxRevision`** cap roots, cascades and commits.

- **Instances.**  Two callers are one in flight and one that is refused, or
  begins when the other leaves.  In `instance` one commit is observed, and the
  callers go on firing after it what is refused or stays where it is; the two
  observations of that commit let a callback that timed out overlap a later
  delivery.  Fifteen observations in `statechart` are several transitions across
  both trees.
- **Tables and hierarchies.**  Three rows of one state and event have a dead row
  behind a guarded one and a row between.  Four states hold a chain of four, two
  trees, and every branching with an initial chain of up to three steps; rows of a
  chart over three states are inherited over two levels.  Two rows listed against
  their direction need a second pass of the search for reachable states.
- **Records.**  A history of two has an oldest and a newest, so a late record can
  fall before, between or behind; three callers publish in any order; ceiling 4
  with margin 2 is reached both by admitted and by refused work.

Deadlock is checked in all Supervisor runs and in `instance`.  It is not in
`queued`, `queued_live`, `persist`, `statechart`, `records` and `record_margin`:
with all callers idle and the bound on fires, commits, observations or outcomes
reached, those systems really have nothing to do.  Nor is it in `definitions`,
where the state is an input that grows up to a bound.

### Fairness

- *Supervisor, `HangingSpec`.*  Weak fairness of each step of a public call
  (goroutines are scheduled; every wait has an Operation deadline or
  `RecorderTimeout`), of the deadline of an Operation (`ContextDone`: every
  Operation context is made with a timeout), and of the verification timer.
  Nothing is assumed of callbacks or Journal: checks, Guards, Issue, Verify and
  Journal writes may hang in `hanging`.  It has no Recorder; a Recorder that hangs is
  in `recorder`, for safety.
  So `OperationReleased` cannot promise release outright: it says that an
  Operation is released again and again, or some callback, write or delivery is
  running for ever.  "The callback retains its lease until it actually ends"
  (`docs/adr/0005-stable-supervisor-identity-and-delivery.md:7`).
- *Queued.*  Weak fairness of drain, cascade and the waiting side of `Fire`, and of
  the return of a callback that waits for nothing; and a callback makes finitely many
  calls: from some moment on it hands its context to no one it waits for.  Nobody
  is obliged to cancel a context.
- *Persist.*  Weak fairness of the end of a step, of the Store's progress and of
  the return.
- *Instance, `LiveSpec`.*  Weak fairness of each step of a Fire that has begun
  (Guards, `Do` and reports return, as `instance.go` has no bound on them), of
  the timer of a timed observer, of the start of every callback's goroutine, and
  of the return of observers **without** a timeout.  A timed one may hang for
  ever: "the timeout only bounds the caller's wait" (`observe.go:116`).

## 4. Proofs

Each theorem is proved from the named assumptions of its component alone: finite
sets of callers and goroutines where their number is counted, well-typed rows,
positive limits.  None bounds the number of callers, states, rows, callbacks or
crashes.  Every invariant, every action property and every refinement that a
passing run checks is also a theorem; only liveness is not.

### Supervisor: three layers

`SupervisorProofs` (`ConstantsAssumption`):

| theorem | |
|---|---|
| `Inductive` | `Spec => []IInv` |
| `TypeCorrect` | `TypeOK`; with it, that no counter passes its end although `commit`, `awaitVerification` and adjudication increment without a test |
| `CallbacksOwned` | `LiveCallbacksOwned` |
| `AdmittedQuiescent` | `AdmissionQuiescent` |

`LiveCallbacksOwned` is not inductive: that a callback's Operation is still there
depends on the count `op.callbacks` being right, which depends on who holds a
lease.  `IInv` says, besides the types: what a call at each `pc` may look like
(`CallShapes`); that at most one call owns the Operation, and only while it has
not returned (`OwnerInv`); that a gate is busy exactly while its one goroutine
lives (`GateInv`); that the one live callback belongs to the Operation, and its
caller waits for it, has given it up or was revoked (`CallbackInv`); that
`live` equals the number of goroutines that hold a lease (`LeaseInv`); that
`reporting` equals the number of calls that report (`ReportingInv`); and that a
running call has room in the counters it will increment (`CounterInv`).  Nearly
every action changes only the locals of its own call; `LocalStep`,
`GoroutineStep`, `PublishStep` and `BeginStep` state once what such steps
preserve, and each action's lemma cites one of them.

The second layer adds `FaultInv`, what the *deciding* call (the one whose
outcome is open and whose Operation was not revoked) knows:

| theorem | |
|---|---|
| `FaultInductive` | `Spec => [](IInv /\ FaultInv)` |
| `FirstCause` | `FirstCauseKept` |
| `FaultStopsCommits` | `NoCommitWhileFaulted` |

The code tests `operation.revoked` and the identity of the Operation before it
commits, not the Fault.  That this is enough is the invariant: the mode is
executing exactly while some call decides (`ModeInv`), it decides under a latched
Fault only if it is an adjudication and over a pending Change only if it is a
Verify (`Decides`), and the state, revision and attempt it was admitted with are
still the present ones (`Current`).

The third adds `DurableInv`, `IssuedInv` and `StoredInv`, what
memory and Journal hold of an Attempt whose Issue may have run:

| theorem | |
|---|---|
| `DurableInductive` | `Spec => [](IInv /\ FaultInv /\ DurableInv)` |
| `NeverForgotten` | `UnresolvedHeld` |
| `FoundByRestart` | `UnresolvedDurable` |
| `StartedOnce` | `IssueAtMostOnce` |
| `DiskAdvances` | `DiskMonotone`, within a process and over a restart; that no write of a dead process lands later is assumed |
| `RestoreInductive`, `AlwaysRestorable` | `SnapshotsRestorable`: short of `ErrCounterExhausted`, for Revision, Restarts or Records |

An unresolved Attempt is the pending Change, the Change of an uncertain Fault, or
the one a call is deciding (`HeldInv`).  The disk, *and the Snapshot of a write
under way*, are in doubt about it (`AboutInv`): a late write may replace the disk
at any time while the process lives.  A call enters the Issue
callback only when nothing is left to write and the disk has its preparation
(`PreparingInv`), so no older Snapshot can come after it; and no sequence number
beyond the disk's was ever issued (`EverInv`), which is what keeps a restored
Supervisor from issuing one again.  `StoredInv` says that what is stored passes
every test of `restoreSupervisor` but those of its counters (`Ended`), because what is in doubt was issued from the
committed state by an external row of it (`IssuedInv`).

### Queued

`QueuedProofs` (`LimitsAssumption`):

| theorem | |
|---|---|
| `QueuedInductive` | `Spec => []QueuedInv` |
| `RootsSerialized` | `Serialized` |
| `AdmissionOrder` | `FirstInFirstOut` |
| `RootsCounted` | `OutstandingCounted` |
| `FollowUpsRun` | `AcceptedEventsRun` |
| `NothingAfterReturn` | `SettledForGood` |
| `NoCircularWait` | no code that a callback waits for waits in Fire itself, on whatever Runtime |

Everything rests on the handing over of a Runtime between drain goroutines:
`running` is true exactly while there is one, and there is never a second
(`DrainInv`), although `Fire` starts a new one the moment the last has looked at an
empty queue.  A root is in execution or finished only in the hands of a drain of
its own Runtime (`ServiceInv`), so two of a Runtime never are.  `rootCount` is the
cardinality of the set of roots that are queued or held (`CountInv`), changed by
one element wherever the code counts.  A queue holds the queued roots of its
Runtime in order of admission, whatever cancellation removes from its middle
(`QueueInv`), and the ledger of a cascade is that what was accepted has run, runs
or is pending (`CascadeInv`).

### Persist

`PersistProofs` (`PersistAssumption`):

| theorem | |
|---|---|
| `PersistInductive`, `PersistTypeCorrect` | `PInv`, `TypeOK` |
| `MemoryStoreImplements` | `ImplementsVersioned`: refinement of `Versioned` |
| `RevisionsOnlyAdvance` | `RevisionsAdvance` |
| `StepOnce` | `StepExecutedOnce` |
| `SuccessMeansOneStep` | `SuccessConfirmed` |
| `MemoryStoreNotAccused` | `MemoryStoreKeepsContract` |

`PInv` has per call: what the flags of `apply` say of the invocations
(`FlagsInv`), how far each may be (`PhaseInv`), and that the snapshot of a running
Update is the aggregate's state as long as the revision has not moved
(`SnapshotInv`), which is why testing the revision at commit is enough although
states recur.  For the last theorem `MemoryInv` says what is true of calls on the
MemoryStore alone: the step was invoked once, and what `Update` returns is what it
led to, so none of the accusations of `apply` can fit.

### Instance and its observers

`InstanceProofs` (`InstanceAssumption`, `ObserversAssumption`):

| theorem | |
|---|---|
| `InstanceInductive`, `FireIsSingleFlight` | `IInv`, `SingleFlight` |
| `InstanceImplements` | `ImplementsRegister`: refinement of `Versioned` |
| `PermittedTruthful` | `PermittedOfOneState` |
| `ObservationsInOrder` | `DeliveredInOrder` |
| `ResultTruthful` | `ResultTellsTruth` |

A Fire that has not committed works from the state the Instance *still* has,
towards the end of a row that begins there (`FromPresent`): Guards and `Do` run
without the lock, and it is `SingleFlight` that keeps the state under them.  That
the rows `Compile` groups under a state and an event are rows of that state and
event, and that no event is twice in the list of a state, is `CompiledGroups`, by
induction over the table.  `DInv` relates the position of the delivery (observation
and observer) to the callbacks: before it all are settled, behind it none was
offered, at it at most the one in progress (`Positioned`); with no delivery under
way every published observation is settled (`AllSettled`), which is what the next
Fire starts from; and a Fire begins only with room for the numbers it may give
(`Room`).  A timed callback may be abandoned and end at any later time, and the
invariant says nothing of it but that it was offered.

### Induction over data

The induction theorems of the TLAPS library take a predicate for a parameter, which
the provers cannot instantiate.  `OperatorLemmas` has them with a *set* in its
place, derived from the well-foundedness of finite sets: `InductOn` (a set with 0,
and with n + 1 if it has n, has every number) and `Iterates`: for a function that
takes the values of a loop from each iteration to the next, there is the sequence of
those values, up to any bound.  Every loop over a table, a list or a stack is proved
about with these two: the recursive function of the model has values (`Iterates`), and
what holds of them does so for each index (`InductOn`).  On them rest the lemmas
about flattened, filtered and repeated lists, the walks of `hierarchyCycles`, and the
two passes of `compileShape`, which several components use:

| theorem | |
|---|---|
| `CyclesAreAll` | `hierarchyCycles` reports the cycles, each as its set, and no other set; a set without a way out holds one of them |
| `CyclesAreFound` | a hierarchy in which `hierarchyCycles` finds nothing has no cycle |
| `AcceptedSound` | the Chart of an accepted definition is sound (`ChartSound`) |

A walk of `hierarchyCycles` stops at what an earlier walk has done; that it misses
no cycle is `WalkInv`: its path climbs from its beginning without a repetition, so
it ends within as many steps as there are states, and then no set of states that
keeps all its parents (`Unfounded`) has a state on it, unless it holds the cycle that
was found.  Without a cycle the parents are a `Forest`.  The first loop of
`compileShape` has on its stack exactly the nodes whose parent was visited and which
were not (`VisitInv`); in a forest the stack is not empty before every node was
visited (`VisitGoesOn`), which gives the depths.  The second goes backwards over the
preorder and keeps every destination at or below its state (`LeadsDown`).

### Records

`RecordsProofs` (`RecordsAssumption`):

| theorem | |
|---|---|
| `RecordsInductive`, `HistoryInductive` | `RInv`, `RInv /\ HInv` |
| `IdentitiesUnique` | `IdentitiesNeverReused` |
| `HistoryIsNewest` | `HistoryKeepsNewest` |
| `OutcomesAreAccounted` | `OutcomesAccounted` |

By itself the first is not inductive: the next
number is larger than the earlier ones only because the counter covers every
number its incarnation gave and stays at the ceiling once it has refused one
(`CounterCovers`).  A restart may go back to an older counter, but under an
identity that has no outcome yet.  For the other two, the numbers that wait with
some call are of this incarnation, given to one outcome each and not published
(`Pending`), so that what is published is never in the history already: the test
for a duplicate in `appendRecordLocked` never fires, and the three ways a record
can go (in, in for the oldest, straight out) each add one to the history or to the
count.  `OlderFacts` and `InsertedFacts` say of the binary search and of the
insertion what a sorted history needs.

### Statechart

`StatechartProofs` (`StatechartAssumption`, which says that `Compile` found no
problem in the definitions, and that their four parts are lists):

| theorem | |
|---|---|
| `SInvHolds` | `Spec => []SInv` |
| `ObservationsAreTracked` | `ObservationsTrackLineage` |
| `LifecycleHolds` | `LifecycleIsWholeOrReported` |
| `StateMovesAlongArrows` | `MovesAlongArrows` |

That an accepted definition has a sound Chart is `AcceptedSound`, above.  From there
the argument has two parts.

The first is what the paths are: `Up` climbs one level at a time, two climbs from
one level meet (`CommonAncestorIsAbove`), exits end and entries begin below the
same node, so a batch of observations leads from the lineage of the source to the
one of the destination (`BatchTracked`).

The second is `SInv` itself.  For every call it says what was selected and which
candidates were passed over by a Guard (`Chosen`, `PassedOver`), that the paths are
those of the row (`Routed`), that what ran and what is still to run make up the
lifecycle, and that a failure is reported where it happened (`Reported`); at most
one call is in flight, and its source is still the state; and the observations
lead from the first state to the present one, one per step (`Tracked`).  That a row
that was selected is among `Arrows` follows from `PassedOver`: every candidate
before it has a Guard, and `arrowsForEvent` ends only with one that has none.

### Definitions

`DefinitionsProofs` (`OrderAssumption`: the states of a hierarchy are listed once
each; `OutlineAssumption`, `StrictAssumption`: definitions are made of finite lists,
flags are Booleans.  That they are otherwise well-formed is *not* assumed: what
`Compile` must refuse is part of the theorems):

| theorem | |
|---|---|
| `CompilesSound` | `CompilesExactlyTheSound` |
| `AnswersAlwaysAgree` | `AnswersAgree` |
| `LineagesFollow` | `LineageFollowsDeclarations` |
| `EventsAreAnswered` | `EveryEventAnswered` |
| `PassesAreEnough` | the passes of the strict `Compile` over its rows give the smallest set that has the initial state and is closed under the rows |

The invariants are simple, since the state is an input that grows: `StrictInv` and
`ChartsInv` say that the definition is made of lists and that what was compiled is
`Compile` of it; `ShapesInv` that the hierarchy is the compiled one and the active node
one of its nodes.  Only `FlatInv` is an induction over rows: the groups built so far
list the rows of each state and event in order, `unguarded` has the groups that have
a row without a Guard, and the events of a state are listed once (`FlatBuilt`), or
the row last read was the one to refuse (`FlatRefused`).  The work is in what the
compilers compute:

- *First match.*  A row of a table, a chart or a strict definition is dead exactly when
  an earlier row of its group has no Guard: otherwise the data that only this row's
  Guard accepts select it (`FlatRejects`, `UnselectableRefused`,
  `SelectedUnlessHidden`).  In a chart "earlier" is `LooksFirst`: a handler nearer
  to the source, then an earlier row.  Fire, `Permitted` and `Arrows` are related to
  it one by one (`SelectionFacts`, `PermittedSelects`, `ArrowsSelect`).
- *Hierarchies.*  The reference has ancestors as a closure of the parent relation; a
  lineage is a climb.  `LineagesAgree` relates the two, and the intervals of
  `compileShape` to both: the nodes under a node are exactly those whose place in the
  preorder lies between its own and its last.  `CyclesReported` turns `CyclesAreAll`
  into the ancestors of the states that are their own ancestors.
- *Reachability.*  A pass that adds nothing leaves a closed set; one that adds
  something adds one state at least, and every state but the initial one is the target
  of a row, so as many passes as there are rows are enough.
- *Declared once.*  The code counts, or looks into a map of what it has seen;
  the reference compares the cardinality of a set of names with the length of the
  list.  `CountList` relates the two.

### Only model-checked

- All liveness (`EveryCallReturns`, `PendingResolved`, `OperationReleased`,
  `EveryFireReturns` of `queued` and of `persist`, `EveryObservationArrives`): TLAPS
  proves none under fairness.
- The two findings are runs that end in a counterexample.

## 5. What is not modelled

- Error text, DOT, panic stacks, timestamps, application data.
- Key types that contain interfaces: `keycheck` is reflection over Go values.
  The models have a set of values that do not equal themselves.
- The grouping of `Observers(...)`: its members are called in the same order as
  if they were attached one by one; the error it builds of theirs is left out.
- `LastPanic` and the observation numbers of a queued Runtime.
- `persisttest` is a test suite.
- Read-only calls that copy a field under the lock (`Snapshot`, `Status`,
  `Records`, `State`) and iterators over compiled, immutable data.
- Which problems of an unsound strict definition `Compile` names: it returns an
  invalid key alone (`definition.go:190` to `209`), also after it has recorded a
  blank ID; the model does the same, and only whether it accepts is a property.

## 6. Findings

### A skipped closure that is not exposed

`supervised/record.go:124` promises that a failed or skipped Journal closure "is
exposed through Status.JournalError and RecordJournalError".  The code assigns
`s.journalError` in the order closures *end*.  Run `closure` shows: Start hands
its closure to a slow Journal; Trip latches a Fault, its own closure finds the
gate busy and is skipped, which sets `journalError`; then the older closure ends
well and clears it.  At rest the Supervisor is faulted, the disk says it is not,
and `Status.JournalError` is empty; only the Record of the history tells.  The
durability of unresolved effects does not suffer (`UnresolvedDurable`): they were
prepared before.

### Refused calls exhaust the record counter under an admitted operation

`supervised/execution.go:17` says of the margin of 16 that "the few unconditional
stamps an in-flight operation, Trip, expiry, or journal-closure failure can
still produce never exhaust the counter".  Every refused call and every repeated
Trip takes a stamp too (`execution.go:484`, `568`, `975`), without bound.  Run
`record_margin`, with the margin of the code: an operation is admitted one below
the margin, another goroutine is refused seventeen times while it runs, and the
outcome of the operation is stamped exhausted, which `recordResult` drops.
`docs/assurance/known-limitations.md:16` describes the loss at the ceiling; that
it can meet an operation that was admitted is what the margin was to prevent.

## 7. Plan

Done: every component of the inventory that has behaviour, and the proofs above.
What would come next:

1. `SupervisedContract`: an abstract Attempt (idle, issued, decided, in doubt) that
   `Supervisor` implements.  `DurableInv` has the refinement mapping.
2. `Queued` over `Observers`: the numbers of observations, which in a Runtime run
   through a whole cascade, and `LastPanic`.

## 8. Running

    tlc -workers 2 -config SupervisorRecorder.cfg MCSupervisor
    tlc -workers 2 -config SupervisorCrash.cfg MCSupervisor
    tlc -workers 2 -config SupervisorHanging.cfg MCSupervisor
    tlc -workers 2 -config SupervisorClosure.cfg MCSupervisor
    tlc -workers 2 -config QueuedOne.cfg MCQueued
    tlc -workers 2 -config QueuedLive.cfg MCQueued
    tlc -workers 2 -config Persist.cfg MCPersist
    tlc -workers 2 -config Instance.cfg MCInstance
    tlc -workers 2 -config Statechart.cfg MCStatechart
    tlc -workers 2 -config Records.cfg MCRecords
    tlc -workers 2 -config RecordsMargin.cfg MCRecords
    tlc -workers 2 -config Definitions.cfg MCDefinitions

    tlapm OperatorLemmas.tla
    for m in Supervisor Queued Persist Instance Records Statechart Definitions
    do tlapm ${m}Proofs.tla; done
