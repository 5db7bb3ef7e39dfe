-------------------------- MODULE SupervisorProofs --------------------------
(***************************************************************************)
(* TLAPS proofs about module Supervisor, for every number of callers, every *)
(* compiled Machine and every value of the counters' ceiling.               *)
(*                                                                         *)
(* Three layers.  First who owns the Supervisor, the Recorder and the        *)
(* publication.  Then what the call that owns the Supervisor knows of the    *)
(* Fault, of the pending Change and of its own Operation, and what follows   *)
(* for the Fault: its first cause stays, and nothing commits behind it.      *)
(* Last what memory and the Journal hold of an Attempt whose Issue was       *)
(* started: it is never forgotten, never started twice, and found by every   *)
(* restart.                                                                *)
(***************************************************************************)
EXTENDS Supervisor, FiniteSetTheorems, TLAPS

Running == {"invoke", "wait", "prepare", "deliver", "prepared", "finish"}

\* Locals of a call: which calls own an Operation or a publication, and what a
\* call still selecting its row knows about it.
CallShape(c) ==
    /\ c.pc \in Running \cup {"latch"} => c.ends = "operation"
    /\ c.pc = "cancel" => c.ends = "reporting"
    /\ c.pc = "idle" => c = IdleCall
    /\ c.pc = "invoke" => c.done = None
    /\ c.pc \in Running /\ c.phase \in {"precondition", "guard"} =>
          /\ c.change.event \in Events
          /\ c.phase = "guard" => c.row \in DOMAIN Candidates(c)

CallShapes == \A p \in Procs : CallShape(call[p])

\* s.operation outlives the public call that owns it, and there is one such call.
OwnerInv ==
    /\ operation.id <= nextOperation
    /\ \A p \in Procs : call[p].ends = "operation" =>
          operation.id # 0 /\ call[p].op = operation.id /\ ~operation.returned
    /\ \A p, q \in Procs :
          call[p].ends = "operation" /\ call[q].ends = "operation" => p = q

\* A gate is busy exactly while its one goroutine lives.
GateInv ==
    /\ journalRunning <=> writers # {}
    /\ recorderRunning <=> recorders # {}
    /\ \A v, w \in writers : v = w
    /\ \A q, r \in recorders : q = r

\* The one live application callback belongs to s.operation, and the call that
\* invoked it waits for it or has given it up.
CallbackInv ==
    /\ \A f, g \in callbacks : f = g
    /\ \A g \in callbacks :
          /\ operation.id # 0 /\ g.op = operation.id
          /\ ~operation.revoked =>
                /\ call[g.proc].ends = "operation"
                /\ \/ call[g.proc].pc = "wait" /\ call[g.proc].done = None
                   \/ call[g.proc].pc = "latch"

One(b) == IF b THEN 1 ELSE 0

\* op.callbacks counts what it should.
LeaseInv ==
    /\ operation.id = 0 => operation = NoOperation
    /\ operation.live = IF operation.id = 0 THEN 0 ELSE
          One(callbacks # {})
          + One(\E w \in writers : w.op = operation.id)
          + One(\E r \in recorders : r.op = operation.id)

Reporters == {p \in Procs : call[p].ends = "reporting"}
ReportingInv == reporting = Cardinality(Reporters)

\* The last Operation of a process can only fault, and a call that may commit
\* has room for it.
CounterInv ==
    /\ nextOperation = MaxUint64 => mode \in {"executing", "faulted"}
    /\ \A p \in Procs : call[p].pc \in Running =>
          revision < MaxUint64 /\ nextOperation < MaxUint64

IInv == /\ TypeOK /\ CallShapes /\ OwnerInv /\ GateInv /\ CallbackInv
        /\ LeaseInv /\ ReportingInv /\ CounterInv

-----------------------------------------------------------------------------
(* Locals. *)

\* A call built by the helpers of the model is well formed.
LEMMA EnterGood ==
    ASSUME NEW c \in Call, NEW phase \in Phases, NEW n \in Nat
    PROVE  /\ Enter(c, phase, n) \in Call
           /\ Enter(c, phase, n).pc = "invoke"
           /\ Enter(c, phase, n).phase = phase
           /\ Enter(c, phase, n).done = None
           /\ Enter(c, phase, n).row = c.row
           /\ Enter(c, phase, n).change = c.change
           /\ Enter(c, phase, n).ends = c.ends
           /\ Enter(c, phase, n).op = c.op
BY DEF Enter, Call

\* A call that fails has its type and its shape.
LEMMA FailGood ==
    ASSUME NEW c \in Call, NEW cause \in Causes, NEW u \in BOOLEAN
    PROVE  /\ Fail(c, cause, u) \in Call
           /\ Fail(c, cause, u).pc = "latch"
           /\ Fail(c, cause, u).ends = c.ends
           /\ Fail(c, cause, u).op = c.op
BY ZenonT(90) DEF Fail, Call

\* A goroutine outside the public API has its type and its shape.
LEMMA IdleGood == IdleCall \in Call /\ CallShape(IdleCall)
BY ConstantsAssumption
   DEF IdleCall, Call, Phases, Causes, Change, NoChange, CallShape, Running, None

\* A call that starts to publish has its type, and only publication left.
LEMMA PublishedGood ==
    ASSUME NEW op \in 0..MaxUint64, NEW ends \in {None, "operation", "reporting"},
           NEW b \in BOOLEAN
    PROVE  /\ Published(op, ends, b) \in Call
           /\ Published(op, ends, b).pc \in {"close", "record", "return"}
           /\ Published(op, ends, b).ends = ends
           /\ Published(op, ends, b).op = op
BY ZenonT(90), IdleGood, ConstantsAssumption DEF Published, Call, IdleCall

\* The same for a publication that takes its Operation from a typed call.
LEMMA PublishedFrom ==
    ASSUME NEW c \in Call, NEW b \in BOOLEAN
    PROVE  /\ Published(c.op, c.ends, b) \in Call
           /\ CallShape(Published(c.op, c.ends, b))
           /\ Published(c.op, c.ends, b).pc \in {"close", "record", "return"}
           /\ Published(c.op, c.ends, b).ends = c.ends
           /\ Published(c.op, c.ends, b).op = c.op
<1> DEFINE op == c.op
           ends == c.ends
           d == Published(op, ends, b)
<1>1. op \in 0..MaxUint64 /\ ends \in {None, "operation", "reporting"}
  BY DEF Call
<1> HIDE DEF op, ends
<1>2. /\ d \in Call /\ d.pc \in {"close", "record", "return"}
      /\ d.ends = ends /\ d.op = op
  BY <1>1, PublishedGood
<1> HIDE DEF d
<1>3. CallShape(d)
  BY <1>2 DEF CallShape, Running
<1> QED
  BY <1>2, <1>3 DEF d, op, ends

\* What holds of the locals after any step that stays inside the decision.
Continues(c, d) ==
    /\ d \in Call /\ CallShape(d)
    /\ d.pc \in (Running \cup {"latch"}) \ {"wait"}
    /\ d.ends = c.ends /\ d.op = c.op

\* Entering a list of callbacks continues the call under its Operation.
LEMMA EnterContinues ==
    ASSUME NEW c \in Call, c.ends = "operation", NEW phase \in Phases,
           NEW n \in Nat,
           phase \in {"precondition", "guard"} => c.change.event \in Events,
           phase = "guard" => c.row \in DOMAIN Candidates(c)
    PROVE  Continues(c, Enter(c, phase, n))
<1> DEFINE d == Enter(c, phase, n)
<1>1. /\ d \in Call /\ d.pc = "invoke" /\ d.phase = phase /\ d.row = c.row
      /\ d.done = None
      /\ d.change = c.change /\ d.ends = c.ends /\ d.op = c.op
  BY EnterGood
<1> HIDE DEF d
<1>2. CallShape(d)
  BY <1>1 DEF CallShape, Running, Candidates
<1> QED
  BY <1>1, <1>2 DEF Continues, Running, d

\* A selected row leads to its Preconditions or to the Invariants.
LEMMA SelectedGood ==
    ASSUME NEW c \in Call, c.ends = "operation", c.change.event \in Events,
           c.row \in DOMAIN Candidates(c)
    PROVE  Continues(c, Selected(c))
<1>1. Candidates(c) \in Seq(Row)
  BY ConstantsAssumption DEF Candidates, Call, Change
<1>2. Candidates(c)[c.row] \in Row
  BY <1>1
<1>3. Checks \in Nat /\ "precondition" \in Phases /\ "invariant" \in Phases
  BY ConstantsAssumption DEF Phases
<1>4. Candidates(c)[c.row].preconditions \in Nat
  BY <1>2 DEF Row
<1>5. CASE Candidates(c)[c.row].preconditions > 0
  BY <1>3, <1>4, <1>5, EnterContinues DEF Selected
<1>6. CASE ~(Candidates(c)[c.row].preconditions > 0)
  BY <1>3, <1>6, EnterContinues DEF Selected
<1> QED
  BY <1>5, <1>6

\* A callback that fails leads to the latch, still under the same Operation.
LEMMA FailContinues ==
    ASSUME NEW c \in Call, c.ends = "operation", NEW cause \in Causes,
           NEW u \in BOOLEAN
    PROVE  Continues(c, Fail(c, cause, u))
<1> DEFINE d == Fail(c, cause, u)
<1>1. d \in Call /\ d.pc = "latch" /\ d.ends = c.ends /\ d.op = c.op
  BY FailGood
<1> HIDE DEF d
<1> QED
  BY <1>1 DEF Continues, CallShape, Running, d

\* The row loop ends in a callback list or in a refused selection.
LEMMA ConsiderGood ==
    ASSUME NEW c \in Call, c.ends = "operation", c.change.event \in Events,
           NEW i \in Nat \ {0}
    PROVE  Continues(c, Consider(c, i))
<1>1. Candidates(c) \in Seq(Row)
  BY ConstantsAssumption DEF Candidates, Call, Change
<1>2. CASE i > Len(Candidates(c))
  <2> DEFINE d == [c EXCEPT !.pc = "finish", !.phase = "selection", !.row = 0,
                            !.done = None, !.change.row = None,
                            !.change.to = c.change.from]
  <2>1. d \in Call /\ d.pc = "finish" /\ d.phase = "selection"
        /\ d.ends = c.ends /\ d.op = c.op
    BY ZenonT(90) DEF Call, Change, Phases
  <2>2. Consider(c, i) = d
    BY <1>2 DEF Consider
  <2> HIDE DEF d
  <2>3. Continues(c, d)
    BY <2>1 DEF Continues, CallShape, Running
  <2> QED
    BY <2>2, <2>3
<1>3. CASE ~(i > Len(Candidates(c)))
  <2> DEFINE d == [c EXCEPT !.row = i, !.change.row = Candidates(c)[i].id,
                            !.change.to = Candidates(c)[i].to]
  <2>1. i \in DOMAIN Candidates(c)
    BY <1>1, <1>3
  <2>2. Candidates(c)[i] \in Row
    BY <1>1, <2>1
  <2>3. Candidates(c)[i].id \in RowIds /\ Candidates(c)[i].to \in States
    BY <2>2 DEF Row
  <2>4. /\ d \in Call /\ d.row = i /\ d.ends = c.ends /\ d.op = c.op
        /\ d.change.event = c.change.event /\ d.change.from = c.change.from
    BY <2>3 DEF Call, Change
  <2>5. Consider(c, i) = IF Candidates(c)[i].guarded THEN Enter(d, "guard", 1)
                                                     ELSE Selected(d)
    BY SMTT(60), <1>3 DEF Consider
  <2>6. Candidates(d) = Candidates(c)
    BY <2>4 DEF Candidates
  <2> HIDE DEF d
  <2>7. Continues(d, Enter(d, "guard", 1))
    BY <2>1, <2>4, <2>6, EnterContinues DEF Phases
  <2>8. Continues(d, Selected(d))
    BY <2>1, <2>4, <2>6, SelectedGood
  <2>9. Continues(d, Consider(c, i))
    BY <2>5, <2>7, <2>8
  <2> QED
    BY <2>4, <2>9 DEF Continues
<1> QED
  BY <1>2, <1>3

\* The end of a callback list leads to another list, to the preparation or to an outcome.
LEMMA AdvanceGood ==
    ASSUME NEW c \in Call, CallShape(c), c.pc = "wait"
    PROVE  Continues(c, Advance(c))
<1>1. /\ c.ends = "operation"
      /\ c.phase \in {"precondition", "guard"} => c.change.event \in Events
      /\ c.phase = "guard" => c.row \in DOMAIN Candidates(c)
  BY DEF CallShape, Running
<1>2. Checks \in Nat /\ "invariant" \in Phases /\ "postcondition" \in Phases
  BY ConstantsAssumption DEF Phases
<1>3. ASSUME NEW d \in {[c EXCEPT !.pc = "prepare", !.done = None],
                        [c EXCEPT !.pc = "finish", !.phase = "commit", !.done = None],
                        [c EXCEPT !.pc = "finish", !.done = None]}
      PROVE  Continues(c, d)
  <2>1. /\ d \in Call /\ d.pc \in {"prepare", "finish"}
        /\ d.phase \in {c.phase, "commit"} /\ d.row = c.row
        /\ d.change = c.change /\ d.ends = c.ends /\ d.op = c.op
    BY ZenonT(90), <1>3 DEF Call, Phases
  <2>2. CallShape(d)
    BY <1>1, <2>1 DEF CallShape, Running, Candidates
  <2> QED
    BY <2>1, <2>2 DEF Continues, Running
<1>4. Continues(c, Enter(c, "invariant", Checks))
  BY <1>1, <1>2, EnterContinues
<1>5. Continues(c, Enter(c, "postcondition", Checks))
  BY <1>1, <1>2, EnterContinues
<1>6. c.phase = "guard" => Continues(c, Selected(c))
  BY <1>1, SelectedGood
<1>7. c.phase = "precondition" => Continues(c, Consider(c, 1))
  BY <1>1, ConsiderGood
<1> QED
  BY <1>3, <1>4, <1>5, <1>6, <1>7 DEF Advance

\* The answer of a callback continues the call that invoked it.
LEMMA AnsweredGood ==
    ASSUME NEW c \in Call, CallShape(c), c.pc = "wait"
    PROVE  Continues(c, Answered(c))
<1>1. /\ c.ends = "operation"
      /\ c.phase \in {"precondition", "guard"} => c.change.event \in Events
      /\ c.phase = "guard" => c.row \in DOMAIN Candidates(c)
  BY DEF CallShape, Running
<1>2. c.left > 1 => Continues(c, Enter(c, c.phase, c.left - 1))
  <2>1. c.left > 1 => c.left - 1 \in Nat /\ c.phase \in Phases
    BY DEF Call
  <2> QED
    BY <1>1, <2>1, EnterContinues
<1>3. Continues(c, Advance(c))
  BY AdvanceGood
<1>4. c.phase = "guard" => Continues(c, Consider(c, c.row + 1))
  <2>1. c.row + 1 \in Nat \ {0}
    BY DEF Call
  <2> QED
    BY <1>1, <2>1, ConsiderGood
<1>5. Continues(c, Fail(c, "callback", Uncertain(c)))
  <2>1. "callback" \in Causes /\ Uncertain(c) \in BOOLEAN
    BY DEF Causes, Uncertain
  <2> QED
    BY <1>1, <2>1, FailContinues
<1> QED
  BY <1>2, <1>3, <1>4, <1>5 DEF Answered

-----------------------------------------------------------------------------
(* Steps of one call that start and end no goroutine. *)

\* A Record number more leaves a Boolean: at the margin, or not.
LEMMA StampsGood ==
    ASSUME TypeOK, Stamps PROVE recordsSpent' \in BOOLEAN
BY DEF TypeOK, Stamps

\* What an update of one call does to the others: nothing.
LEMMA CallUpdated ==
    ASSUME call \in [Procs -> Call], NEW p \in Procs, NEW d,
           call' = [call EXCEPT ![p] = d]
    PROVE  /\ call'[p] = d
           /\ \A q \in Procs \ {p} : call'[q] = call[q]
           /\ d \in Call => call' \in [Procs -> Call]
OBVIOUS

\* Every part of the invariant but TypeOK, for such a step.
LEMMA CallStep ==
    ASSUME IInv, TypeOK', NEW p \in Procs, NEW d \in Call, CallShape(d),
           call' = [call EXCEPT ![p] = d],
           d.ends = call[p].ends, d.op = call[p].op,
           d.pc \in Running => call[p].pc \in Running,
           UNCHANGED <<nextOperation, reporting, callbacks, delivery>>,
           operation'.id = operation.id, operation'.live = operation.live,
           operation'.returned = operation.returned,
           operation.id = 0 => operation' = operation,
           operation.revoked => operation'.revoked,
           \A g \in callbacks : g.proc = p /\ ~operation'.revoked => d.pc = "latch",
           revision' = revision \/ (d.pc \notin Running /\ call[p].pc \in Running),
           \/ mode' = mode \/ mode' = "faulted"
           \/ nextOperation < MaxUint64
    PROVE  IInv'
<1> USE DEF IInv
<1>0. TypeOK /\ call \in [Procs -> Call]
  BY DEF TypeOK
<1>1. /\ call'[p] = d
      /\ \A q \in Procs \ {p} : call'[q] = call[q]
  BY <1>0, CallUpdated
<1>2. CallShapes'
  <2>1. \A q \in Procs : CallShape(call'[q])
    BY <1>1 DEF CallShapes
  <2> QED
    BY <2>1 DEF CallShapes, CallShape, Candidates
<1>3. \A q \in Procs : /\ call'[q].ends = call[q].ends
                        /\ call'[q].op = call[q].op
  BY <1>1
<1>4. OwnerInv'
  BY <1>3 DEF OwnerInv
<1>5. GateInv'
  BY DEF GateInv, delivery
<1>6. CallbackInv'
  <2>1. ASSUME NEW g \in callbacks', ~operation'.revoked
        PROVE  /\ call'[g.proc].ends = "operation"
               /\ \/ call'[g.proc].pc = "wait" /\ call'[g.proc].done = None
                  \/ call'[g.proc].pc = "latch"
    <3>1. g \in callbacks /\ g.proc \in Procs
      BY <1>0 DEF TypeOK, Callback
    <3>2. ~operation.revoked
      BY <1>0, <2>1 DEF TypeOK, Operation
    <3>3. /\ call[g.proc].ends = "operation"
          /\ \/ call[g.proc].pc = "wait" /\ call[g.proc].done = None
             \/ call[g.proc].pc = "latch"
      BY <3>1, <3>2 DEF CallbackInv
    <3> QED
      BY <1>1, <1>3, <2>1, <3>1, <3>3
  <2> QED
    BY <2>1 DEF CallbackInv
<1>7. LeaseInv'
  BY <1>0 DEF LeaseInv, delivery, One
<1>8. ReportingInv'
  <2>1. Reporters' = Reporters
    BY <1>3 DEF Reporters
  <2> QED
    BY <2>1 DEF ReportingInv
<1>9. CounterInv'
  <2>1. nextOperation' = MaxUint64 => mode' \in {"executing", "faulted"}
    BY <1>0, ConstantsAssumption DEF CounterInv, TypeOK
  <2>2. ASSUME NEW q \in Procs, call'[q].pc \in Running
        PROVE  revision' < MaxUint64 /\ nextOperation' < MaxUint64
    <3>1. CASE revision' = revision
      BY <1>1, <2>2, <3>1 DEF CounterInv
    <3>2. CASE d.pc \notin Running /\ call[p].pc \in Running
      <4>1. q # p /\ call[q].pc \in Running
        BY <1>1, <2>2, <3>2
      <4>2. call[q].ends = "operation" /\ call[p].ends = "operation"
        BY <3>2, <4>1 DEF CallShapes, CallShape
      <4> QED
        BY <4>1, <4>2 DEF OwnerInv
    <3> QED
      BY <3>1, <3>2
  <2> QED
    BY <2>1, <2>2 DEF CounterInv
<1> QED
  BY <1>2, <1>4, <1>5, <1>6, <1>7, <1>8, <1>9

\* A step that touches nothing but the locals of p, and may stamp an outcome.
LEMMA OutcomeStep ==
    ASSUME IInv, NEW p \in Procs, NEW d \in Call, CallShape(d),
           call' = [call EXCEPT ![p] = d],
           UNCHANGED <<execution, rest, operation, callbacks, delivery>>,
           recordsSpent' \in BOOLEAN,
           d.ends = call[p].ends, d.op = call[p].op,
           d.pc \in Running => call[p].pc \in Running,
           call[p].pc # "latch", call[p].pc = "wait" => call[p].done # None
    PROVE  IInv'
<1>1. TypeOK /\ call \in [Procs -> Call]
  BY DEF IInv, TypeOK
<1>2. UNCHANGED <<mode, state, revision, attempt, nextOperation, incarnation,
                  restarts, pending, fault, operation, reporting, timers,
                  callbacks, journalRunning, recorderRunning, writers, recorders,
                  journalError, disk, unresolved, everIssued>>
  BY DEF execution, rest, committed, identities, delivery, durable, ghosts
<1>3. call' \in [Procs -> Call]
  BY <1>1, CallUpdated
<1>4. TypeOK'
  BY <1>1, <1>2, <1>3 DEF TypeOK
<1>5. ASSUME NEW g \in callbacks, g.proc = p, ~operation'.revoked
      PROVE  FALSE
  BY <1>2, <1>5 DEF IInv, CallbackInv
<1>6. UNCHANGED <<nextOperation, reporting, callbacks, delivery>>
  BY <1>2 DEF delivery
<1>7. /\ operation'.id = operation.id /\ operation'.live = operation.live
      /\ operation'.returned = operation.returned
      /\ operation.id = 0 => operation' = operation
      /\ operation.revoked => operation'.revoked
      /\ \A g \in callbacks : g.proc = p /\ ~operation'.revoked => d.pc = "latch"
      /\ revision' = revision \/ (d.pc \notin Running /\ call[p].pc \in Running)
      /\ mode' = mode \/ mode' = "faulted" \/ nextOperation < MaxUint64
  BY <1>2, <1>5
<1> QED
  BY <1>4, <1>6, <1>7, CallStep

\* A step that touches nothing but the locals of p.
LEMMA LocalStep ==
    ASSUME IInv, NEW p \in Procs, NEW d \in Call, CallShape(d),
           call' = [call EXCEPT ![p] = d], UNCHANGED shared,
           d.ends = call[p].ends, d.op = call[p].op,
           d.pc \in Running => call[p].pc \in Running,
           call[p].pc # "latch", call[p].pc = "wait" => call[p].done # None
    PROVE  IInv'
<1>1. UNCHANGED <<execution, rest, operation, callbacks, delivery>>
  BY DEF shared, core, execution, counters, identities
<1>2. recordsSpent' \in BOOLEAN
  BY DEF shared, core, counters, IInv, TypeOK
<1> QED
  BY <1>1, <1>2, OutcomeStep

\* InvokeRefused preserves the invariant.
LEMMA InvokeRefusedInv ==
    ASSUME IInv, NEW p \in Procs, InvokeRefused(p) PROVE IInv'
<1> DEFINE c == call[p]
           d == Fail(c, "callback", Uncertain(c))
<1>1. c \in Call /\ CallShape(c)
  BY DEF IInv, TypeOK, CallShapes
<1>2. c.pc = "invoke" /\ c.ends = "operation"
  BY <1>1 DEF InvokeRefused, CallShape, Running
<1>3. "callback" \in Causes /\ Uncertain(c) \in BOOLEAN
  BY DEF Causes, Uncertain
<1>4. Continues(c, d)
  BY <1>1, <1>2, <1>3, FailContinues
<1>5. call' = [call EXCEPT ![p] = d] /\ UNCHANGED shared
  BY DEF InvokeRefused
<1> HIDE DEF c, d
<1> QED
  BY <1>2, <1>4, <1>5, LocalStep DEF Continues, Running, c

\* FinishLate preserves the invariant.
LEMMA FinishLateInv ==
    ASSUME IInv, NEW p \in Procs, FinishLate(p) PROVE IInv'
<1> DEFINE c == call[p]
           d == Fail(c, "callback", Uncertain(c))
<1>1. c \in Call /\ CallShape(c)
  BY DEF IInv, TypeOK, CallShapes
<1>2. c.pc = "finish" /\ c.ends = "operation"
  BY <1>1 DEF FinishLate, CallShape, Running
<1>3. "callback" \in Causes /\ Uncertain(c) \in BOOLEAN
  BY DEF Causes, Uncertain
<1>4. Continues(c, d)
  BY <1>1, <1>2, <1>3, FailContinues
<1>5. call' = [call EXCEPT ![p] = d] /\ UNCHANGED shared
  BY DEF FinishLate
<1> HIDE DEF c, d
<1> QED
  BY <1>2, <1>4, <1>5, LocalStep DEF Continues, Running, c

\* PrepareFailed preserves the invariant.
LEMMA PrepareFailedInv ==
    ASSUME IInv, NEW p \in Procs, PrepareFailed(p) PROVE IInv'
<1> DEFINE c == call[p]
           i == [c EXCEPT !.phase = "issue"]
           d == Fail(i, "journal", FALSE)
<1>1. c \in Call /\ CallShape(c)
  BY DEF IInv, TypeOK, CallShapes
<1>2. c.pc \in {"deliver", "prepared"} /\ c.ends = "operation"
  BY <1>1 DEF PrepareFailed, CallShape, Running
<1>3. i \in Call /\ i.ends = "operation" /\ i.op = c.op
  BY <1>1, <1>2 DEF Call, Phases
<1>4. Continues(i, d)
  BY <1>3, FailContinues DEF Causes
<1>5. call' = [call EXCEPT ![p] = d] /\ UNCHANGED shared
  BY DEF PrepareFailed
<1> HIDE DEF c, d, i
<1> QED
  BY <1>2, <1>3, <1>4, <1>5, LocalStep DEF Continues, Running, c

\* Prepared preserves the invariant.
LEMMA PreparedInv ==
    ASSUME IInv, NEW p \in Procs, Prepared(p) PROVE IInv'
<1> DEFINE c == call[p]
           d == Enter(c, "issue", 1)
<1>1. c \in Call /\ CallShape(c)
  BY DEF IInv, TypeOK, CallShapes
<1>2. c.pc = "prepared" /\ c.ends = "operation"
  BY <1>1 DEF Prepared, CallShape, Running
<1>3. Continues(c, d)
  BY <1>1, <1>2, EnterContinues DEF Phases
<1>4. call' = [call EXCEPT ![p] = d] /\ UNCHANGED shared
  BY DEF Prepared
<1> HIDE DEF c, d
<1> QED
  BY <1>2, <1>3, <1>4, LocalStep DEF Continues, Running, c

\* Answer preserves the invariant.
LEMMA AnswerInv ==
    ASSUME IInv, NEW p \in Procs, Answer(p) PROVE IInv'
<1> DEFINE c == call[p]
           d == Answered(c)
<1>1. c \in Call /\ CallShape(c)
  BY DEF IInv, TypeOK, CallShapes
<1>2. c.pc = "wait" /\ c.done # None
  BY DEF Answer
<1>3. Continues(c, d)
  BY <1>1, <1>2, AnsweredGood
<1>4. call' = [call EXCEPT ![p] = d] /\ UNCHANGED shared
  BY DEF Answer
<1> HIDE DEF c, d
<1> QED
  BY <1>2, <1>3, <1>4, LocalStep DEF Continues, Running, c

\* FinishRevoked preserves the invariant.
LEMMA FinishRevokedInv ==
    ASSUME IInv, NEW p \in Procs, FinishRevoked(p) PROVE IInv'
<1> DEFINE c == call[p]
           d == Published(c.op, c.ends, FALSE)
<1>1. c \in Call /\ c.pc = "finish"
  BY DEF IInv, TypeOK, FinishRevoked
<1>2. /\ d \in Call /\ d.pc \in {"close", "record", "return"}
      /\ d.ends = c.ends /\ d.op = c.op
  BY <1>1, PublishedFrom
<1>3. /\ call' = [call EXCEPT ![p] = d]
      /\ UNCHANGED <<execution, rest, operation, callbacks, delivery>>
      /\ recordsSpent' \in BOOLEAN
  BY StampsGood DEF FinishRevoked, Publish, IInv
<1> HIDE DEF c, d
<1>4. CallShape(d)
  BY <1>2 DEF CallShape, Running
<1> QED
  BY <1>1, <1>2, <1>3, <1>4, OutcomeStep DEF Running, c

\* Refuse preserves the invariant.
LEMMA RefuseInv ==
    ASSUME IInv, NEW p \in Procs, Refuse(p) PROVE IInv'
<1> DEFINE c == call[p]
           d == Published(0, None, FALSE)
<1>1. TypeOK /\ c \in Call /\ c.pc = "idle" /\ c = IdleCall /\ CallShape(c)
  BY DEF IInv, TypeOK, Refuse, Idle, CallShapes, CallShape
<1>0. 0 \in 0..MaxUint64
  BY ConstantsAssumption
<1>2. /\ d \in Call /\ d.pc \in {"close", "record", "return"}
      /\ d.ends = None /\ d.op = 0
  BY ZenonT(90), <1>0, PublishedGood
<1>3. /\ call' = IF Recorder THEN [call EXCEPT ![p] = d] ELSE call
      /\ UNCHANGED <<execution, rest, operation, callbacks, delivery>>
      /\ recordsSpent' \in BOOLEAN
  BY <1>1, StampsGood DEF Refuse
<1>4. c.ends = None /\ c.op = 0
  BY <1>1 DEF IdleCall
<1> HIDE DEF d
<1>5. CallShape(d)
  BY <1>2 DEF CallShape, Running
<1>6. CASE Recorder
  BY <1>1, <1>2, <1>3, <1>4, <1>5, <1>6, OutcomeStep DEF Running
<1>7. CASE ~Recorder
  <2>1. call' = [call EXCEPT ![p] = c]
    BY <1>1, <1>3, <1>7 DEF TypeOK
  <2> QED
    BY <1>1, <1>3, <2>1, OutcomeStep DEF Running
<1> QED
  BY <1>6, <1>7

\* A Record that is out of the way leads to the next one or to the return.
LEMMA RecordedGood ==
    ASSUME NEW c \in Call
    PROVE  /\ Recorded(c) \in Call /\ Recorded(c).pc \in {"record", "return"}
           /\ Recorded(c).ends = c.ends /\ Recorded(c).op = c.op
<1>1. CASE c.left > 1
  <2>1. c.left - 1 \in Nat
    BY <1>1 DEF Call
  <2> QED
    BY ZenonT(90), <1>1, <2>1 DEF Recorded, Call
<1>2. CASE ~(c.left > 1)
  BY <1>2 DEF Recorded, Call
<1> QED
  BY <1>1, <1>2

\* RecordDone preserves the invariant.
LEMMA RecordDoneInv ==
    ASSUME IInv, NEW p \in Procs, RecordDone(p) PROVE IInv'
<1> DEFINE c == call[p]
           d == Recorded(c)
<1>1. c \in Call /\ c.pc = "recording"
  BY DEF IInv, TypeOK, RecordDone
<1>2. /\ d \in Call /\ d.pc \in {"record", "return"}
      /\ d.ends = c.ends /\ d.op = c.op
  BY <1>1, RecordedGood
<1>3. call' = [call EXCEPT ![p] = d] /\ UNCHANGED shared
  BY DEF RecordDone
<1> HIDE DEF c, d
<1>4. CallShape(d)
  BY <1>2 DEF CallShape, Running
<1> QED
  BY <1>1, <1>2, <1>3, <1>4, LocalStep DEF Running, c

-----------------------------------------------------------------------------
(* Steps of one call that change the execution. *)

\* currentChangeLocked is typed.
LEMMA CurrentChangeGood ==
    ASSUME TypeOK PROVE CurrentChange \in Change
BY ConstantsAssumption DEF TypeOK, CurrentChange, Change, None

\* A Fault that is latched over a typed Change is typed.
LEMMA LatchedFaultGood ==
    ASSUME TypeOK, NEW change \in Change, NEW cause \in Causes,
           NEW u \in BOOLEAN
    PROVE  LatchedFault(change, cause, u) \in Fault
<1> DEFINE i == \/ /\ pending.live
                   /\ Identifier(pending.change) = Identifier(change)
                \/ /\ operation.id # 0
                   /\ Identifier(operation.change) = Identifier(change)
                   /\ operation.issued
<1>1. i \in BOOLEAN
  BY DEF TypeOK, Pending, Operation
<1> HIDE DEF i
<1>2. LatchedFault(change, cause, u) =
        [latched |-> TRUE, change |-> change, state |-> state,
         cause |-> cause, uncertain |-> u, issued |-> i]
  BY DEF LatchedFault, i
<1> QED
  BY <1>1, <1>2 DEF Fault, TypeOK

\* The records that stand for nil pointers are typed.
LEMMA NoValuesGood ==
    NoChange \in Change /\ NoPending \in Pending /\ NoFault \in Fault
    /\ NoOperation \in Operation /\ NoSnapshot \in Snapshot
<1>1. NoChange \in Change
  BY ConstantsAssumption DEF NoChange, Change, None
<1>2. NoPending \in Pending
  BY <1>1, ConstantsAssumption DEF NoPending, Pending
<1>3. NoFault \in Fault
  BY <1>1, ConstantsAssumption DEF NoFault, Fault, Causes
<1>4. NoOperation \in Operation
  BY <1>1, ConstantsAssumption DEF NoOperation, Operation
<1>5. NoSnapshot \in Snapshot
  BY <1>1, ConstantsAssumption DEF NoSnapshot, Snapshot, Causes
<1> QED
  BY <1>1, <1>2, <1>3, <1>4, <1>5

\* Steps that revoke or end the context of s.operation keep what it counts.
Ends(o) ==
    /\ o \in Operation
    /\ o.id = operation.id /\ o.live = operation.live
    /\ o.returned = operation.returned
    /\ operation.id = 0 => o = operation
    /\ operation.revoked => o.revoked

\* Revocation and cancellation keep the type, the number and the count of an Operation.
LEMMA EndsGood ==
    ASSUME operation \in Operation
    PROVE  /\ Ends(operation) /\ Ends(Revoked)
           /\ operation.id # 0 =>
                 /\ Ends([operation EXCEPT !.done = TRUE])
                 /\ Ends([operation EXCEPT !.abandoned = TRUE])
                 /\ Ends([Revoked EXCEPT !.done = TRUE])
                 /\ [Revoked EXCEPT !.done = TRUE].revoked
<1>1. Ends(operation)
  BY DEF Ends
<1>2. Ends(Revoked)
  BY DEF Ends, Revoked, Operation
<1>3. operation.id # 0 => Ends([operation EXCEPT !.done = TRUE])
  BY DEF Ends, Operation
<1>4. operation.id # 0 => Ends([operation EXCEPT !.abandoned = TRUE])
  BY DEF Ends, Operation
<1>5. operation.id # 0 =>
         /\ Ends([Revoked EXCEPT !.done = TRUE])
         /\ [Revoked EXCEPT !.done = TRUE].revoked
  BY DEF Ends, Operation, Revoked
<1> QED
  BY <1>1, <1>2, <1>3, <1>4, <1>5

\* CallStep for the steps that publish the outcome of the call of p.
LEMMA PublishStep ==
    ASSUME IInv, NEW p \in Procs, NEW b \in BOOLEAN, Publish(p, b), TypeOK',
           UNCHANGED <<nextOperation, reporting, callbacks, delivery>>,
           Ends(operation'),
           \A g \in callbacks : g.proc = p => operation'.revoked,
           revision' = revision \/ call[p].pc \in Running,
           mode' = mode \/ mode' = "faulted" \/ nextOperation < MaxUint64
    PROVE  IInv'
<1> DEFINE c == call[p]
           d == Published(c.op, c.ends, b)
<1>1. c \in Call
  BY DEF IInv, TypeOK
<1>2. /\ d \in Call /\ d.pc \in {"close", "record", "return"} /\ CallShape(d)
      /\ d.ends = c.ends /\ d.op = c.op
  BY <1>1, PublishedFrom
<1>3. call' = [call EXCEPT ![p] = d]
  BY DEF Publish
<1> HIDE DEF d
<1>4. d.pc \notin Running
  BY <1>2 DEF Running
<1>5. /\ operation'.id = operation.id /\ operation'.live = operation.live
      /\ operation'.returned = operation.returned
      /\ operation.id = 0 => operation' = operation
      /\ operation.revoked => operation'.revoked
      /\ \A g \in callbacks : g.proc = p /\ ~operation'.revoked => d.pc = "latch"
      /\ revision' = revision \/ (d.pc \notin Running /\ call[p].pc \in Running)
      /\ mode' = mode \/ mode' = "faulted" \/ nextOperation < MaxUint64
  BY <1>4 DEF Ends
<1> QED
  BY <1>2, <1>3, <1>4, <1>5, CallStep DEF c

\* Publish keeps the type of the calls.
LEMMA PublishTyped ==
    ASSUME call \in [Procs -> Call], NEW p \in Procs, NEW b \in BOOLEAN,
           Publish(p, b)
    PROVE  call' \in [Procs -> Call]
<1>1. Published(call[p].op, call[p].ends, b) \in Call
  BY PublishedFrom
<1> QED
  BY <1>1 DEF Publish

\* A live callback that is still wanted keeps its call waiting, or latching.
LEMMA NoCallback ==
    ASSUME IInv, NEW p \in Procs, call[p].pc # "latch",
           call[p].pc = "wait" => call[p].done # None
    PROVE  \A g \in callbacks : g.proc = p => operation.revoked
BY DEF IInv, CallbackInv

\* Cancel preserves the invariant.
LEMMA CancelInv ==
    ASSUME IInv, NEW p \in Procs, Cancel(p) PROVE IInv'
<1>1. TypeOK /\ call[p] \in Call /\ call[p].pc = "cancel"
  BY DEF IInv, TypeOK, Cancel
<1>2. operation \in Operation /\ call[p].durable \in BOOLEAN
  BY <1>1 DEF TypeOK, Call
<1>3. Ends(operation')
  BY <1>2, EndsGood DEF Cancel
<1>4. UNCHANGED <<mode, state, revision, attempt, nextOperation, incarnation,
                  restarts, recordsSpent, pending, fault,
                  reporting, timers, journalError, disk,
                  unresolved, everIssued, delivery, callbacks>>
  BY DEF Cancel, core, rest, committed, counters, durable, ghosts
<1>5. Publish(p, call[p].durable)
  BY DEF Cancel
<1>6. call' \in [Procs -> Call]
  BY <1>1, <1>2, <1>5, PublishTyped DEF TypeOK
<1>7. TypeOK'
  BY <1>1, <1>3, <1>4, <1>6 DEF TypeOK, Ends, delivery
<1>8. \A g \in callbacks : g.proc = p => operation'.revoked
  BY <1>1, <1>3, NoCallback DEF Ends
<1> QED
  BY <1>2, <1>3, <1>4, <1>5, <1>7, <1>8, PublishStep

\* Latch preserves the invariant.
LEMMA LatchInv ==
    ASSUME IInv, NEW p \in Procs, Latch(p) PROVE IInv'
<1> DEFINE c == call[p]
<1>1. TypeOK /\ c \in Call /\ c.pc = "latch" /\ CallShape(c)
  BY DEF IInv, TypeOK, Latch, CallShapes
<1>2. operation \in Operation /\ fault.latched \in BOOLEAN /\ fault \in Fault
  BY <1>1 DEF TypeOK, Fault
<1>3. operation.id # 0 /\ c.op = operation.id
  BY <1>1 DEF IInv, OwnerInv, CallShape
<1>4. UNCHANGED <<state, revision, attempt, nextOperation, incarnation,
                  restarts, reporting, timers, journalError, disk,
                  unresolved, everIssued, delivery, callbacks>>
      /\ recordsSpent' \in BOOLEAN
  BY <1>1, StampsGood DEF Latch, rest, committed, identities, durable, ghosts
<1>5. CASE Owns(c.op)
  <2>1. /\ LatchLocked(c.change, c.cause, c.uncertain)
        /\ operation' = [Revoked EXCEPT !.done = TRUE]
        /\ Publish(p, ~fault.latched)
    BY <1>5 DEF Latch
  <2>2. Ends(operation') /\ operation'.revoked
    BY <1>2, <1>3, <2>1, EndsGood
  <2>3. c.change \in Change /\ c.cause \in Causes /\ c.uncertain \in BOOLEAN
    BY <1>1 DEF Call
  <2>4. fault' \in Fault /\ pending' \in Pending /\ mode' = "faulted"
    BY <1>1, <1>2, <2>1, <2>3, LatchedFaultGood, NoValuesGood DEF LatchLocked
  <2>5. call' \in [Procs -> Call]
    BY <1>1, <1>2, <2>1, PublishTyped DEF TypeOK
  <2>6. TypeOK'
    BY <1>1, <1>4, <2>2, <2>4, <2>5 DEF TypeOK, Ends, delivery, Modes
  <2> QED
    BY <1>2, <1>4, <2>1, <2>2, <2>4, <2>6, PublishStep
<1>6. CASE ~Owns(c.op)
  <2>1. Publish(p, FALSE) /\ UNCHANGED <<mode, pending, fault, operation>>
    BY <1>6 DEF Latch
  <2>2. Ends(operation') /\ operation'.revoked
    BY <1>2, <1>3, <1>6, <2>1, EndsGood DEF Owns
  <2>3. call' \in [Procs -> Call]
    BY <1>1, <1>2, <2>1, PublishTyped DEF TypeOK
  <2>4. TypeOK'
    BY <1>1, <1>4, <2>1, <2>3 DEF TypeOK, delivery
  <2> QED
    BY <1>4, <2>1, <2>2, <2>4, PublishStep
<1> QED
  BY <1>5, <1>6

\* RestoreFault preserves the invariant.
LEMMA RestoreFaultInv ==
    ASSUME IInv, NEW p \in Procs, RestoreFault(p) PROVE IInv'
<1> DEFINE c == call[p]
<1>1. TypeOK /\ c \in Call /\ c.pc = "latch" /\ CallShape(c)
  BY DEF IInv, TypeOK, RestoreFault, CallShapes
<1>2. operation \in Operation
  BY <1>1 DEF TypeOK
<1>3. operation.id # 0 /\ c.op = operation.id
  BY <1>1 DEF IInv, OwnerInv, CallShape
<1>4. UNCHANGED <<state, revision, attempt, nextOperation, incarnation, restarts, pending,
                  fault, reporting, timers, journalError, disk,
                  unresolved, everIssued, delivery, callbacks>>
      /\ recordsSpent' \in BOOLEAN
  BY <1>1, StampsGood DEF RestoreFault, rest, committed, identities, durable, ghosts
<1>5. Publish(p, FALSE)
  BY DEF RestoreFault
<1>6. Ends(operation') /\ operation'.revoked /\ mode' \in {mode, "faulted"}
  <2>1. CASE Owns(c.op)
    BY <1>2, <1>3, <2>1, EndsGood DEF RestoreFault
  <2>2. CASE ~Owns(c.op)
    BY <1>2, <1>3, <2>2, EndsGood DEF RestoreFault, Owns
  <2> QED
    BY <2>1, <2>2
<1>7. call' \in [Procs -> Call]
  BY <1>1, <1>5, PublishTyped DEF TypeOK
<1>8. TypeOK'
  BY <1>1, <1>4, <1>6, <1>7 DEF TypeOK, Ends, delivery, Modes
<1> QED
  BY <1>4, <1>5, <1>6, <1>8, PublishStep

\* The four ways to finish an Operation start from the same facts.
LEMMA FinishFacts ==
    ASSUME IInv, NEW p \in Procs, call[p].pc = "finish", MayRun(call[p]),
           operation' = [operation EXCEPT !.done = TRUE]
    PROVE  /\ Ends(operation') /\ operation' \in Operation
           /\ revision < MaxUint64 /\ nextOperation < MaxUint64
           /\ call[p].pc \in Running
           /\ \A g \in callbacks : g.proc = p => operation'.revoked
<1>1. TypeOK /\ operation \in Operation /\ operation.id # 0
  BY DEF IInv, TypeOK, MayRun, Owns
<1>2. Ends(operation') /\ operation' \in Operation
  BY <1>1, EndsGood DEF Ends
<1>3. \A g \in callbacks : g.proc = p => operation'.revoked
  BY <1>2, NoCallback DEF Ends
<1>4. call[p].pc \in Running
  BY DEF Running
<1> QED
  BY <1>2, <1>3, <1>4 DEF IInv, CounterInv

\* FinishReady preserves the invariant.
LEMMA FinishReadyInv ==
    ASSUME IInv, NEW p \in Procs, FinishReady(p) PROVE IInv'
<1>1. TypeOK /\ call[p].pc = "finish" /\ MayRun(call[p]) /\ Publish(p, TRUE)
      /\ operation' = [operation EXCEPT !.done = TRUE] /\ mode' = "ready"
  BY DEF IInv, FinishReady, Finishing
<1>2. UNCHANGED <<state, revision, attempt, nextOperation, incarnation, restarts, pending,
                  fault, reporting, timers, journalError, disk,
                  unresolved, everIssued, delivery, callbacks>>
      /\ recordsSpent' \in BOOLEAN
  BY <1>1, StampsGood DEF FinishReady, rest, committed, identities, durable, ghosts
<1>3. /\ Ends(operation') /\ operation' \in Operation
      /\ nextOperation < MaxUint64
      /\ \A g \in callbacks : g.proc = p => operation'.revoked
  BY <1>1, FinishFacts
<1>4. call' \in [Procs -> Call]
  BY <1>1, PublishTyped DEF TypeOK
<1>5. TypeOK'
  BY <1>1, <1>2, <1>3, <1>4 DEF TypeOK, delivery, Modes
<1> QED
  BY <1>1, <1>2, <1>3, <1>5, PublishStep

\* AwaitVerification preserves the invariant.
LEMMA AwaitVerificationInv ==
    ASSUME IInv, NEW p \in Procs, AwaitVerification(p) PROVE IInv'
<1> DEFINE c == call[p]
<1>1. /\ TypeOK /\ c.pc = "finish" /\ MayRun(c) /\ Publish(p, FALSE)
      /\ operation' = [operation EXCEPT !.done = TRUE] /\ mode' = "awaiting"
  BY DEF IInv, AwaitVerification, Finishing
<1>2. UNCHANGED <<state, revision, attempt, nextOperation, incarnation,
                  restarts, fault, reporting, journalError, disk,
                  unresolved, everIssued, delivery, callbacks>>
      /\ recordsSpent' \in BOOLEAN
  BY <1>1, StampsGood DEF AwaitVerification, committed, identities, durable, ghosts
<1>3. /\ Ends(operation') /\ operation' \in Operation
      /\ nextOperation < MaxUint64
      /\ \A g \in callbacks : g.proc = p => operation'.revoked
  BY <1>1, FinishFacts
<1>4. call' \in [Procs -> Call]
  BY <1>1, PublishTyped DEF TypeOK
<1>5. c.change \in Change /\ c.op \in 0..MaxUint64
  BY <1>1 DEF TypeOK, Call
<1>6. pending' \in Pending
  BY <1>5 DEF AwaitVerification, Pending
<1>7. timers' \subseteq (0..MaxUint64) \X (0..MaxUint64)
  BY <1>1, <1>5 DEF AwaitVerification, TypeOK, Change
<1>8. TypeOK'
  BY <1>1, <1>2, <1>3, <1>4, <1>6, <1>7 DEF TypeOK, delivery, Modes
<1> QED
  BY <1>1, <1>2, <1>3, <1>8, PublishStep

\* Commit preserves the invariant.
LEMMA CommitInv ==
    ASSUME IInv, NEW p \in Procs, Commit(p) PROVE IInv'
<1> DEFINE c == call[p]
<1>1. /\ TypeOK /\ c.pc = "finish" /\ MayRun(c) /\ Publish(p, TRUE)
      /\ operation' = [operation EXCEPT !.done = TRUE] /\ mode' = "ready"
      /\ revision' = revision + 1 /\ pending' = NoPending
  BY DEF IInv, Commit, Finishing
<1>2. UNCHANGED <<attempt, nextOperation, incarnation, restarts, timers,
                  fault, reporting, journalError, disk,
                  everIssued, delivery, callbacks>>
      /\ recordsSpent' \in BOOLEAN
  BY <1>1, StampsGood DEF Commit, identities, durable
<1>3. /\ Ends(operation') /\ operation' \in Operation
      /\ revision < MaxUint64 /\ nextOperation < MaxUint64 /\ c.pc \in Running
      /\ \A g \in callbacks : g.proc = p => operation'.revoked
  BY <1>1, FinishFacts
<1>4. call' \in [Procs -> Call]
  BY <1>1, PublishTyped DEF TypeOK
<1>5. state' \in States
  BY <1>1 DEF TypeOK, Call, Change, Commit
<1>6. revision' \in 0..MaxUint64
  BY <1>1, <1>3, ConstantsAssumption DEF TypeOK
<1>7. unresolved' \subseteq (0..MaxIncarnation) \X (0..MaxUint64)
  BY <1>1 DEF TypeOK, Commit
<1>8. TypeOK'
  BY <1>1, <1>2, <1>3, <1>4, <1>5, <1>6, <1>7, NoValuesGood
     DEF TypeOK, delivery, Modes
<1> QED
  BY <1>1, <1>2, <1>3, <1>8, PublishStep

\* FinishAdjudication preserves the invariant.
LEMMA FinishAdjudicationInv ==
    ASSUME IInv, NEW p \in Procs, FinishAdjudication(p) PROVE IInv'
<1> DEFINE c == call[p]
<1>1. /\ TypeOK /\ c.pc = "finish" /\ MayRun(c) /\ Publish(p, TRUE)
      /\ operation' = [operation EXCEPT !.done = TRUE] /\ mode' = "ready"
      /\ revision' \in {revision, revision + 1} /\ fault' = NoFault
  BY DEF IInv, FinishAdjudication, Finishing
<1>2. UNCHANGED <<attempt, nextOperation, incarnation, restarts, timers,
                  pending, reporting, journalError, disk,
                  everIssued, delivery, callbacks>>
      /\ recordsSpent' \in BOOLEAN
  BY <1>1, StampsGood DEF FinishAdjudication, identities, durable
<1>3. /\ Ends(operation') /\ operation' \in Operation
      /\ revision < MaxUint64 /\ nextOperation < MaxUint64 /\ c.pc \in Running
      /\ \A g \in callbacks : g.proc = p => operation'.revoked
  BY <1>1, FinishFacts
<1>4. call' \in [Procs -> Call]
  BY <1>1, PublishTyped DEF TypeOK
<1>5. state' \in States
  BY <1>1 DEF TypeOK, Call, Change, FinishAdjudication
<1>6. revision' \in 0..MaxUint64
  BY <1>1, <1>3, ConstantsAssumption DEF TypeOK
<1>7. unresolved' \subseteq (0..MaxIncarnation) \X (0..MaxUint64)
  BY <1>1 DEF TypeOK, FinishAdjudication
<1>8. TypeOK'
  BY <1>1, <1>2, <1>3, <1>4, <1>5, <1>6, <1>7, NoValuesGood
     DEF TypeOK, delivery, Modes
<1> QED
  BY <1>1, <1>2, <1>3, <1>8, PublishStep

\* Abandon preserves the invariant.
LEMMA AbandonInv ==
    ASSUME IInv, NEW p \in Procs, Abandon(p) PROVE IInv'
<1> DEFINE c == call[p]
           d == Fail(c, "callback", Uncertain(c))
<1>1. TypeOK /\ c \in Call /\ CallShape(c) /\ c.pc = "wait"
  BY DEF IInv, TypeOK, CallShapes, Abandon
<1>2. c.ends = "operation"
  BY <1>1 DEF CallShape, Running
<1>3. operation.id # 0 /\ operation \in Operation
  BY <1>1, <1>2 DEF IInv, OwnerInv, TypeOK
<1>4. Ends(operation')
  BY <1>3, EndsGood DEF Abandon
<1>5. UNCHANGED <<mode, state, revision, attempt, nextOperation, incarnation,
                  restarts, recordsSpent, pending, fault,
                  reporting, timers, journalError, disk,
                  unresolved, everIssued, delivery, callbacks>>
  BY DEF Abandon, core, rest, committed, counters, durable, ghosts
<1>6. "callback" \in Causes /\ Uncertain(c) \in BOOLEAN
  BY DEF Causes, Uncertain
<1>7. /\ d \in Call /\ CallShape(d) /\ d.pc = "latch"
      /\ d.ends = c.ends /\ d.op = c.op
  BY <1>1, <1>2, <1>6, FailContinues, FailGood DEF Continues
<1>8. call' = [call EXCEPT ![p] = d]
  BY DEF Abandon
<1> HIDE DEF d
<1>9. call' \in [Procs -> Call]
  BY <1>1, <1>7, <1>8 DEF TypeOK
<1>10. TypeOK'
  BY <1>1, <1>4, <1>5, <1>9 DEF TypeOK, Ends, delivery
<1>11. d.pc \notin Running
  BY <1>7 DEF Running
<1>12. /\ operation'.id = operation.id /\ operation'.live = operation.live
       /\ operation'.returned = operation.returned
       /\ operation.id = 0 => operation' = operation
       /\ operation.revoked => operation'.revoked
       /\ \A g \in callbacks : g.proc = p /\ ~operation'.revoked => d.pc = "latch"
       /\ revision' = revision \/ (d.pc \notin Running /\ call[p].pc \in Running)
       /\ mode' = mode \/ mode' = "faulted" \/ nextOperation < MaxUint64
  BY <1>4, <1>5, <1>7 DEF Ends
<1> QED
  BY <1>5, <1>7, <1>8, <1>10, <1>11, <1>12, CallStep DEF c

\* Prepare preserves the invariant.
LEMMA PrepareInv ==
    ASSUME IInv, NEW p \in Procs, Prepare(p) PROVE IInv'
<1> DEFINE c == call[p]
           i == [c EXCEPT !.phase = "issue"]
<1>1. TypeOK /\ c \in Call /\ CallShape(c) /\ c.pc = "prepare"
  BY DEF IInv, TypeOK, CallShapes, Prepare
<1>2. c.ends = "operation" /\ c.pc \in Running
  BY <1>1 DEF CallShape, Running
<1>3. operation.id # 0 /\ operation \in Operation
  BY <1>1, <1>2 DEF IInv, OwnerInv, TypeOK
<1>4. Ends(operation')
  <2>1. c.change \in Change
    BY <1>1 DEF Call
  <2> QED
    BY ZenonT(90), <1>3, <2>1 DEF Prepare, Ends, Operation
<1>5. UNCHANGED <<mode, state, revision, attempt, nextOperation, incarnation,
                  restarts, recordsSpent, pending, fault,
                  reporting, timers, journalError, disk,
                  unresolved, everIssued, delivery, callbacks>>
  BY DEF Prepare, core, rest, committed, counters, durable, ghosts
<1>6. PICK d : /\ d \in {[c EXCEPT !.pc = "deliver"], Enter(c, "issue", 1),
                         Fail(i, "journal", FALSE)}
               /\ call' = [call EXCEPT ![p] = d]
  BY DEF Prepare
<1>7. i \in Call /\ i.ends = "operation" /\ i.op = c.op
  BY <1>1, <1>2 DEF Call, Phases
<1>8. Continues(c, d)
  <2>1. Continues(c, Enter(c, "issue", 1))
    BY <1>1, <1>2, EnterContinues DEF Phases
  <2>2. Continues(c, Fail(i, "journal", FALSE))
    <3> HIDE DEF i
    <3>1. Continues(i, Fail(i, "journal", FALSE))
      BY <1>7, FailContinues DEF Causes
    <3> QED
      BY <1>2, <1>7, <3>1 DEF Continues
  <2>3. Continues(c, [c EXCEPT !.pc = "deliver"])
    <3> DEFINE e == [c EXCEPT !.pc = "deliver"]
    <3>1. /\ e \in Call /\ e.pc = "deliver" /\ e.phase = c.phase /\ e.row = c.row
          /\ e.change = c.change /\ e.ends = c.ends /\ e.op = c.op
      BY <1>1 DEF Call
    <3> HIDE DEF e
    <3>2. CallShape(e)
      BY <1>1, <1>2, <3>1 DEF CallShape, Running, Candidates
    <3>3. Continues(c, e)
      BY <3>1, <3>2 DEF Continues, Running
    <3> QED
      BY <3>3 DEF e
  <2> QED
    BY <1>6, <2>1, <2>2, <2>3
<1>9. d \in Call /\ CallShape(d) /\ d.ends = c.ends /\ d.op = c.op
  BY <1>8 DEF Continues
<1>10. call' \in [Procs -> Call]
  BY <1>1, <1>6, <1>9 DEF TypeOK
<1>11. TypeOK'
  BY <1>1, <1>4, <1>5, <1>10 DEF TypeOK, Ends, delivery
<1>12. \A g \in callbacks : g.proc = p => operation.revoked
  BY <1>1, NoCallback
<1>13. /\ operation'.id = operation.id /\ operation'.live = operation.live
       /\ operation'.returned = operation.returned
       /\ operation.id = 0 => operation' = operation
       /\ operation.revoked => operation'.revoked
       /\ \A g \in callbacks : g.proc = p /\ ~operation'.revoked => d.pc = "latch"
       /\ revision' = revision \/ (d.pc \notin Running /\ call[p].pc \in Running)
       /\ mode' = mode \/ mode' = "faulted" \/ nextOperation < MaxUint64
  BY <1>4, <1>5, <1>12 DEF Ends
<1> HIDE DEF i
<1> QED
  BY <1>2, <1>5, <1>6, <1>9, <1>11, <1>13, CallStep DEF c

\* A closure that ended leads to its Records or to the return.
LEMMA ToRecordGood ==
    ASSUME NEW c \in Call, NEW n \in Nat
    PROVE  /\ ToRecord(c, n) \in Call /\ CallShape(ToRecord(c, n))
           /\ ToRecord(c, n).pc \in {"record", "return"}
           /\ ToRecord(c, n).ends = c.ends /\ ToRecord(c, n).op = c.op
<1> DEFINE d == ToRecord(c, n)
<1>1. /\ d \in Call /\ d.pc \in {"record", "return"}
      /\ d.ends = c.ends /\ d.op = c.op
  BY ZenonT(90) DEF ToRecord, Call
<1> HIDE DEF d
<1>2. CallShape(d)
  BY <1>1 DEF CallShape, Running
<1> QED
  BY <1>1, <1>2 DEF d

\* Closed and CloseFailed, the two ends of closeJournal, preserve the invariant.
LEMMA ClosedInv ==
    ASSUME IInv, NEW p \in Procs, Closed(p) \/ CloseFailed(p) PROVE IInv'
<1> DEFINE c == call[p]
<1>1. TypeOK /\ c \in Call /\ c.pc = "closing"
  BY DEF IInv, TypeOK, Closed, CloseFailed
<1>2. UNCHANGED <<mode, state, revision, attempt, nextOperation, incarnation,
                  restarts, pending, fault, operation, reporting, timers, disk,
                  unresolved, everIssued, delivery, callbacks>>
      /\ journalError' \in BOOLEAN
  BY DEF Closed, CloseFailed, execution, core, committed, identities, counters,
         ghosts
<1>11. recordsSpent' \in BOOLEAN
  <2>1. Closed(p) => recordsSpent' = recordsSpent
    BY DEF Closed, core, counters
  <2>2. CloseFailed(p) => Stamps
    BY DEF CloseFailed
  <2> QED
    BY <1>1, <2>1, <2>2, StampsGood DEF TypeOK
<1>3. PICK n \in {1, 2} : call' = [call EXCEPT ![p] = ToRecord(c, n)]
  BY DEF Closed, CloseFailed
<1> DEFINE d == ToRecord(c, n)
<1>4. /\ d \in Call /\ CallShape(d) /\ d.pc \in {"record", "return"}
      /\ d.ends = c.ends /\ d.op = c.op
  BY <1>1, ToRecordGood
<1>5. call' = [call EXCEPT ![p] = d]
  BY <1>3
<1> HIDE DEF d
<1>6. call' \in [Procs -> Call]
  BY <1>1, <1>4, <1>5 DEF TypeOK
<1>7. TypeOK'
  BY <1>1, <1>2, <1>6, <1>11 DEF TypeOK, delivery
<1>8. d.pc \notin Running
  BY <1>4 DEF Running
<1>9. \A g \in callbacks : g.proc = p => operation.revoked
  BY <1>1, NoCallback
<1>10. /\ operation'.id = operation.id /\ operation'.live = operation.live
       /\ operation'.returned = operation.returned
       /\ operation.id = 0 => operation' = operation
       /\ operation.revoked => operation'.revoked
       /\ \A g \in callbacks : g.proc = p /\ ~operation'.revoked => d.pc = "latch"
       /\ revision' = revision \/ (d.pc \notin Running /\ call[p].pc \in Running)
       /\ mode' = mode \/ mode' = "faulted" \/ nextOperation < MaxUint64
  BY <1>2, <1>9
<1> QED
  BY <1>2, <1>4, <1>5, <1>7, <1>8, <1>10, CallStep DEF c

-----------------------------------------------------------------------------
(* Steps that start or end a goroutine. *)

\* They leave the counters alone and at most release an Operation whose public
\* call has returned.
LEMMA GoroutineStep ==
    ASSUME IInv, TypeOK', NEW p \in Procs, NEW d \in Call, CallShape(d),
           call' = [call EXCEPT ![p] = d],
           d.ends = call[p].ends, d.op = call[p].op,
           d.pc \in Running => call[p].pc \in Running,
           UNCHANGED <<nextOperation, reporting, revision, mode>>,
           \/ /\ operation'.id = operation.id
              /\ operation'.returned = operation.returned
           \/ operation.returned /\ operation'.id = 0,
           GateInv', CallbackInv', LeaseInv'
    PROVE  IInv'
<1> USE DEF IInv
<1>0. TypeOK /\ call \in [Procs -> Call]
  BY DEF TypeOK
<1>1. /\ call'[p] = d
      /\ \A q \in Procs \ {p} : call'[q] = call[q]
  BY <1>0, CallUpdated
<1>2. CallShapes'
  <2>1. \A q \in Procs : CallShape(call'[q])
    BY <1>1 DEF CallShapes
  <2> QED
    BY <2>1 DEF CallShapes, CallShape, Candidates
<1>3. \A q \in Procs : /\ call'[q].ends = call[q].ends
                        /\ call'[q].op = call[q].op
  BY <1>1
<1>4. OwnerInv'
  <2>1. operation'.id <= nextOperation'
    BY <1>0 DEF OwnerInv, TypeOK
  <2> QED
    BY <1>3, <2>1 DEF OwnerInv
<1>5. ReportingInv'
  <2>1. Reporters' = Reporters
    BY <1>3 DEF Reporters
  <2> QED
    BY <2>1 DEF ReportingInv
<1>6. CounterInv'
  BY <1>1 DEF CounterInv
<1> QED
  BY <1>2, <1>4, <1>5, <1>6

\* The same for a step that leaves every call alone.
LEMMA SilentStep ==
    ASSUME IInv, TypeOK', call' = call,
           UNCHANGED <<nextOperation, reporting, revision, mode>>,
           \/ /\ operation'.id = operation.id
              /\ operation'.returned = operation.returned
           \/ operation.returned /\ operation'.id = 0,
           GateInv', CallbackInv', LeaseInv'
    PROVE  IInv'
<1> DEFINE d == call[Timer]
<1>1. Timer \in Procs
  BY DEF Procs
<1>2. d \in Call /\ CallShape(d)
  BY <1>1 DEF IInv, TypeOK, CallShapes
<1>3. call' = [call EXCEPT ![Timer] = d]
  BY DEF IInv, TypeOK
<1> QED
  BY <1>1, <1>2, <1>3, GoroutineStep

\* A leased Operation is typed, and counts one goroutine more if it is the current one.
LEMMA LeasedGood ==
    ASSUME operation \in Operation, NEW op \in 0..MaxUint64
    PROVE  /\ Leased(op) \in Operation
           /\ Leased(op).id = operation.id
           /\ Leased(op).returned = operation.returned
           /\ Leased(op).revoked = operation.revoked
           /\ operation.id = 0 => Leased(op) = operation
           /\ Leased(op).live = IF op # 0 /\ operation.id = op
                                  THEN operation.live + 1 ELSE operation.live
BY SMTT(60), ConstantsAssumption DEF Leased, Operation

\* The return of a counted goroutine takes it off the count, or ends the Operation.
LEMMA CallbackReturnedGood ==
    ASSUME operation \in Operation, NEW op \in 0..MaxUint64,
           op # 0 /\ operation.id = op => operation.live > 0
    PROVE  LET R == CallbackReturned(op) IN
           /\ R \in Operation
           /\ IF op = 0 \/ operation.id # op THEN R = operation
              ELSE IF operation.returned /\ operation.live = 1
                THEN R = NoOperation
                ELSE /\ R.id = operation.id /\ R.live = operation.live - 1
                     /\ R.returned = operation.returned
                     /\ R.revoked = operation.revoked
<1> DEFINE R == CallbackReturned(op)
<1>1. CASE op = 0 \/ operation.id # op
  BY <1>1 DEF CallbackReturned
<1>2. CASE ~(op = 0 \/ operation.id # op) /\ operation.returned /\ operation.live = 1
  BY <1>2, NoValuesGood DEF CallbackReturned
<1>3. CASE ~(op = 0 \/ operation.id # op) /\ ~(operation.returned /\ operation.live = 1)
  <2>1. R = [operation EXCEPT !.live = @ - 1]
    BY <1>3 DEF CallbackReturned
  <2>2. operation.live \in Nat /\ operation.live - 1 \in Nat
    BY <1>3 DEF Operation
  <2>3. /\ R \in Operation
        /\ R.id = operation.id /\ R.live = operation.live - 1
        /\ R.returned = operation.returned
        /\ R.revoked = operation.revoked
    BY <2>1, <2>2 DEF Operation
  <2> QED
    BY <1>3, <2>3
<1> QED
  BY <1>1, <1>2, <1>3

\* The live callback is untouched by what goes on beside it.
LEMMA CallbackKept ==
    ASSUME IInv, callbacks' = callbacks,
           \/ callbacks = {}
           \/ operation'.id = operation.id /\ operation'.revoked = operation.revoked,
           \A q \in Procs : call[q].pc \in {"wait", "latch"} => call'[q] = call[q]
    PROVE  CallbackInv'
<1>1. CASE callbacks = {}
  BY <1>1 DEF CallbackInv
<1>2. CASE operation'.id = operation.id /\ operation'.revoked = operation.revoked
  <2>1. ASSUME NEW g \in callbacks PROVE g.proc \in Procs
    BY DEF IInv, TypeOK, Callback
  <2> QED
    BY <1>2, <2>1 DEF IInv, CallbackInv
<1> QED
  BY <1>1, <1>2

\* ContextDone preserves the invariant.
LEMMA ContextDoneInv ==
    ASSUME IInv, ContextDone PROVE IInv'
<1>1. TypeOK /\ operation \in Operation /\ operation.id # 0
  BY DEF IInv, TypeOK, ContextDone
<1>2. UNCHANGED <<mode, state, revision, attempt, nextOperation, incarnation,
                  restarts, recordsSpent, pending, fault,
                  reporting, timers, callbacks,
                  journalRunning, recorderRunning, writers, recorders,
                  journalError, disk, unresolved, everIssued, call>>
  BY DEF ContextDone, core, rest, committed, counters, delivery, durable, ghosts
<1>3. Ends(operation') /\ operation'.revoked = operation.revoked
  BY <1>1, EndsGood DEF ContextDone, Operation
<1>4. TypeOK'
  BY <1>1, <1>2, <1>3 DEF TypeOK, Ends
<1>5. GateInv'
  BY <1>2 DEF IInv, GateInv
<1>6. CallbackInv'
  BY <1>2, <1>3, CallbackKept DEF Ends
<1>7. LeaseInv'
  BY <1>1, <1>2, <1>3 DEF IInv, LeaseInv, Ends, One
<1> QED
  BY <1>2, <1>3, <1>4, <1>5, <1>6, <1>7, SilentStep DEF Ends

\* DeadlinePasses preserves the invariant.
LEMMA DeadlinePassesInv ==
    ASSUME IInv, DeadlinePasses PROVE IInv'
<1>1. TypeOK
  BY DEF IInv
<1>2. UNCHANGED <<mode, state, revision, attempt, nextOperation, incarnation,
                  restarts, recordsSpent, fault, operation, reporting, timers, callbacks,
                  journalRunning, recorderRunning, writers, recorders,
                  journalError, disk, unresolved, everIssued, call>>
  BY DEF DeadlinePasses, rest, committed, counters, delivery, durable, ghosts
<1>3. pending' \in Pending
  BY <1>1 DEF TypeOK, DeadlinePasses, Pending
<1>4. TypeOK'
  BY <1>1, <1>2, <1>3 DEF TypeOK
<1>5. GateInv'
  BY <1>2 DEF IInv, GateInv
<1>6. CallbackInv'
  BY <1>2, CallbackKept
<1>7. LeaseInv'
  BY <1>2 DEF IInv, LeaseInv, One
<1> QED
  BY <1>2, <1>4, <1>5, <1>6, <1>7, SilentStep

\* An Operation that may run its next callback has none running.
LEMMA InvokeInv ==
    ASSUME IInv, NEW p \in Procs, Invoke(p) PROVE IInv'
<1> DEFINE c == call[p]
           g == [proc |-> p, op |-> c.op, phase |-> c.phase, step |-> "running"]
           d == [c EXCEPT !.pc = "wait"]
           L == Leased(c.op)
<1>1. TypeOK /\ c \in Call /\ CallShape(c) /\ c.pc = "invoke" /\ MayRun(c)
  BY DEF IInv, TypeOK, CallShapes, Invoke
<1>2. /\ c.ends = "operation" /\ c.op \in 0..MaxUint64 /\ c.phase \in Phases
      /\ c.change \in Change
  BY <1>1 DEF CallShape, Running, Call
<1>3. /\ c.op = operation.id /\ operation.id # 0 /\ ~operation.revoked
      /\ operation \in Operation
  BY <1>1 DEF MayRun, Owns, TypeOK
<1>4. callbacks = {}
  <2>1. SUFFICES ASSUME NEW h \in callbacks PROVE FALSE
    OBVIOUS
  <2>2. /\ h.proc \in Procs /\ call[h.proc].ends = "operation"
        /\ call[h.proc].pc \in {"wait", "latch"}
    BY <1>1, <1>3 DEF IInv, CallbackInv, TypeOK, Callback
  <2>3. h.proc = p
    BY <1>2, <2>2 DEF IInv, OwnerInv
  <2> QED
    BY <1>1, <2>2, <2>3
<1>5. callbacks' = {g} /\ g \in Callback
  BY <1>2, <1>4 DEF Invoke, Callback
<1>6. UNCHANGED <<mode, state, revision, attempt, nextOperation, incarnation,
                  restarts, recordsSpent, pending, fault, reporting, timers,
                  journalRunning, recorderRunning, writers, recorders,
                  journalError, disk>>
  BY DEF Invoke, core, committed, counters, delivery, durable
<1>7. /\ operation' \in Operation /\ operation'.id = operation.id
      /\ operation'.returned = operation.returned
      /\ operation'.revoked = operation.revoked
      /\ operation'.live = operation.live + 1
  <2>1. /\ L \in Operation /\ L.id = operation.id
        /\ L.returned = operation.returned /\ L.revoked = operation.revoked
        /\ L.live = operation.live + 1
    BY <1>2, <1>3, LeasedGood
  <2>2. operation' = [L EXCEPT !.change = c.change]
    BY DEF Invoke
  <2> HIDE DEF L
  <2> QED
    BY <1>2, <2>1, <2>2 DEF Operation
<1>8. /\ d \in Call /\ d.pc = "wait" /\ d.ends = c.ends /\ d.op = c.op
      /\ d.phase = c.phase /\ d.row = c.row /\ d.change = c.change
      /\ d.done = c.done
  BY <1>1 DEF Call
<1>9. call' = [call EXCEPT ![p] = d]
  BY DEF Invoke
<1>10. /\ unresolved' \subseteq (0..MaxIncarnation) \X (0..MaxUint64)
       /\ everIssued' \subseteq 0..MaxUint64
  <2>1. c.change.inc \in 0..MaxIncarnation /\ c.change.seq \in 0..MaxUint64
    BY <1>2 DEF Change
  <2>2. Identifier(c.change) \in (0..MaxIncarnation) \X (0..MaxUint64)
    BY <2>1 DEF Identifier
  <2> QED
    BY <1>1, <2>1, <2>2 DEF Invoke, TypeOK, ghosts
<1> HIDE DEF d
<1>11. call' \in [Procs -> Call] /\ call'[p] = d
  BY <1>1, <1>8, <1>9 DEF TypeOK
<1>12. TypeOK'
  BY <1>1, <1>5, <1>6, <1>7, <1>10, <1>11 DEF TypeOK
<1>13. CallShape(d)
  BY <1>1, <1>2, <1>8 DEF CallShape, Running, Candidates
<1>14. GateInv'
  BY <1>6 DEF IInv, GateInv
<1>15. CallbackInv'
  <2>1. d.done = None
    BY <1>1, <1>8 DEF IInv, CallShapes, CallShape
  <2> QED
    BY <1>2, <1>3, <1>5, <1>7, <1>8, <1>11, <2>1 DEF CallbackInv
<1>16. LeaseInv'
  <2>1. callbacks' # {}
    BY <1>5
  <2> HIDE DEF g
  <2> QED
    BY <1>3, <1>4, <1>6, <1>7, <2>1 DEF IInv, LeaseInv, One, Operation
<1>17. c.pc \in Running
  BY <1>1 DEF Running
<1> QED
  BY <1>6, <1>7, <1>8, <1>9, <1>12, <1>13, <1>14, <1>15, <1>16, <1>17,
     GoroutineStep DEF c

\* There is one live callback, of s.operation, which counts it.
LEMMA CallbackFacts ==
    ASSUME IInv, NEW g \in callbacks
    PROVE  /\ callbacks = {g} /\ g \in Callback /\ g.proc \in Procs
           /\ g.op \in 0..MaxUint64 /\ g.op = operation.id /\ operation.id # 0
           /\ operation \in Operation /\ operation.live > 0
<1>1. callbacks = {g} /\ g \in Callback /\ g.op = operation.id /\ operation.id # 0
  BY DEF IInv, TypeOK, CallbackInv
<1>2. operation \in Operation /\ operation.live > 0
  BY <1>1 DEF IInv, TypeOK, LeaseInv, One
<1> QED
  BY <1>1, <1>2 DEF Callback

\* Release, the common end of every application callback, preserves the invariant.
LEMMA ReleaseInv ==
    ASSUME IInv, NEW g \in callbacks, NEW outcome \in Outcomes,
           Release(g, outcome), UNCHANGED <<execution, rest, delivery>>,
           recordsSpent' \in BOOLEAN
    PROVE  IInv'
<1> DEFINE p == g.proc
           c == call[p]
           e == [c EXCEPT !.done = outcome]
           d == IF c.pc = "wait" /\ c.op = g.op THEN e ELSE c
           R == CallbackReturned(g.op)
<1>1. /\ TypeOK /\ callbacks = {g} /\ p \in Procs /\ g.op \in 0..MaxUint64
      /\ g.op = operation.id /\ operation.id # 0
      /\ operation \in Operation /\ operation.live > 0
  BY CallbackFacts DEF IInv
<1>2. c \in Call /\ CallShape(c) /\ call \in [Procs -> Call]
  BY <1>1 DEF IInv, TypeOK, CallShapes
<1>3. UNCHANGED <<mode, state, revision, attempt, nextOperation, incarnation,
                  restarts, pending, fault, reporting, timers,
                  journalRunning, recorderRunning, writers, recorders,
                  journalError, disk, unresolved, everIssued>>
  BY DEF execution, rest, committed, identities, delivery, durable, ghosts
<1>4. call' = [call EXCEPT ![p] = d]
  BY <1>2 DEF Release
<1>5. d \in Call /\ d.ends = c.ends /\ d.op = c.op /\ d.pc = c.pc
  BY <1>2 DEF Call
<1>6. CallShape(d)
  <2>1. CASE d = c
    BY <1>2, <2>1
  <2>2. CASE d = e /\ c.pc = "wait"
    <3>1. /\ e.pc = "wait" /\ e.ends = c.ends /\ e.phase = c.phase
          /\ e.row = c.row /\ e.change = c.change
      BY <1>2, <2>2 DEF Call
    <3> HIDE DEF d, e
    <3> QED
      BY <1>2, <2>2, <3>1 DEF CallShape, Running, Candidates
  <2> QED
    BY <2>1, <2>2
<1> HIDE DEF d
<1>7. call' \in [Procs -> Call]
  BY <1>1, <1>2, <1>4, <1>5
<1>8. operation' = R /\ callbacks' = {}
  BY <1>1 DEF Release
<1>9. /\ R \in Operation
      /\ IF operation.returned /\ operation.live = 1 THEN R = NoOperation
         ELSE /\ R.id = operation.id /\ R.live = operation.live - 1
              /\ R.returned = operation.returned
  BY <1>1, CallbackReturnedGood
<1> HIDE DEF R
<1>10. TypeOK'
  BY <1>1, <1>3, <1>7, <1>8, <1>9 DEF TypeOK
<1>11. GateInv' /\ CallbackInv'
  BY <1>3, <1>8 DEF IInv, GateInv, CallbackInv
<1>12. \/ operation'.id = operation.id /\ operation'.returned = operation.returned
       \/ operation.returned /\ operation'.id = 0
  BY <1>8, <1>9 DEF NoOperation
<1>13. LeaseInv'
  <2>1. CASE R = NoOperation
    BY <1>8, <2>1 DEF LeaseInv, NoOperation
  <2>2. CASE R.id = operation.id /\ R.live = operation.live - 1
    <3>1. callbacks # {}
      BY <1>1
    <3>2. operation.live = 1 + One(\E w \in writers : w.op = operation.id)
                             + One(\E r \in recorders : r.op = operation.id)
      BY <1>1, <3>1 DEF IInv, LeaseInv, One
    <3> QED
      BY <1>1, <1>3, <1>8, <2>2, <3>2 DEF LeaseInv, One
  <2> QED
    BY <1>9, <2>1, <2>2
<1> HIDE DEF p
<1> QED
  BY <1>1, <1>3, <1>4, <1>5, <1>6, <1>10, <1>11, <1>12, <1>13, GoroutineStep DEF c

\* A callback that moves on remains the one live callback.
LEMMA MovedGood ==
    ASSUME IInv, NEW g \in callbacks, NEW step \in {"late", "recording"},
           callbacks' = Moved(g, step), call' = call,
           operation'.id = operation.id, operation'.revoked = operation.revoked
    PROVE  /\ callbacks' \subseteq Callback /\ callbacks' # {}
           /\ CallbackInv'
<1> DEFINE h == [g EXCEPT !.step = step]
<1>1. callbacks = {g} /\ g \in Callback
  BY CallbackFacts
<1>2. h \in Callback /\ h.proc = g.proc /\ h.op = g.op
  BY <1>1 DEF Callback
<1>3. callbacks' = {h}
  BY <1>1 DEF Moved
<1> HIDE DEF h
<1>4. CallbackInv'
  BY <1>2, <1>3 DEF IInv, CallbackInv
<1> QED
  BY <1>2, <1>3, <1>4

\* CallbackReturn preserves the invariant.
LEMMA CallbackReturnInv ==
    ASSUME IInv, NEW g \in callbacks, NEW outcome \in Outcomes,
           CallbackReturn(g, outcome)
    PROVE  IInv'
<1>1. /\ UNCHANGED <<execution, rest, delivery>>
      /\ recordsSpent' \in BOOLEAN
  BY StampsGood DEF CallbackReturn, IInv, TypeOK
<1>2. CASE Release(g, outcome)
  BY <1>1, <1>2, ReleaseInv
<1>3. CASE callbacks' = Moved(g, "late") /\ UNCHANGED <<operation, call>>
  <2>1. UNCHANGED <<mode, state, revision, attempt, nextOperation, incarnation,
                    restarts, pending, fault, reporting, timers,
                    journalRunning, recorderRunning, writers, recorders,
                    journalError, disk, unresolved, everIssued>>
    BY <1>1 DEF execution, rest, committed, identities, delivery, durable, ghosts
  <2>2. callbacks' \subseteq Callback /\ callbacks' # {} /\ CallbackInv'
    BY <1>3, MovedGood
  <2>3. callbacks # {} /\ TypeOK
    BY DEF IInv
  <2>4. TypeOK'
    BY <1>1, <1>3, <2>1, <2>2, <2>3 DEF TypeOK
  <2>5. GateInv' /\ LeaseInv'
    BY <1>3, <2>1, <2>2, <2>3 DEF IInv, GateInv, LeaseInv, One
  <2> QED
    BY <1>3, <2>1, <2>2, <2>4, <2>5, SilentStep
<1> QED
  BY <1>2, <1>3 DEF CallbackReturn

\* LateReturn preserves the invariant.
LEMMA LateReturnInv ==
    ASSUME IInv, NEW g \in callbacks, LateReturn(g) PROVE IInv'
<1>1. UNCHANGED <<execution, rest, delivery>> /\ recordsSpent' \in BOOLEAN
  BY DEF LateReturn, core, execution, counters, identities, IInv, TypeOK
<1> QED
  BY <1>1, ReleaseInv DEF LateReturn, Outcomes

\* LateRecord preserves the invariant.
LEMMA LateRecordInv ==
    ASSUME IInv, NEW g \in callbacks, LateRecord(g) PROVE IInv'
<1>1. UNCHANGED <<core, rest>>
  BY DEF LateRecord
<1>2. CASE recorderRunning
  <2>1. UNCHANGED <<execution, rest>> /\ recordsSpent' \in BOOLEAN
    BY <1>1 DEF core, execution, counters, identities, IInv, TypeOK
  <2> QED
    BY <1>2, <2>1, ReleaseInv DEF LateRecord, Outcomes
<1>3. CASE ~recorderRunning
  <2> DEFINE r == [proc |-> g.proc, op |-> g.op]
             L == Leased(g.op)
  <2>1. /\ TypeOK /\ g.proc \in Procs /\ g.op \in 0..MaxUint64
        /\ g.op = operation.id /\ operation.id # 0 /\ operation \in Operation
        /\ callbacks # {}
    BY CallbackFacts DEF IInv
  <2>2. /\ callbacks' = Moved(g, "recording") /\ operation' = L
        /\ recorderRunning' = TRUE /\ recorders' = recorders \cup {r}
        /\ UNCHANGED <<journalRunning, writers, call>>
    BY <1>3 DEF LateRecord
  <2>3. UNCHANGED <<mode, state, revision, attempt, nextOperation, incarnation,
                    restarts, recordsSpent, pending, fault, reporting, timers,
                    journalError, disk, unresolved, everIssued>>
    BY <1>1 DEF core, rest, committed, counters, durable, ghosts
  <2>4. /\ L \in Operation /\ L.id = operation.id
        /\ L.returned = operation.returned /\ L.revoked = operation.revoked
        /\ L.live = operation.live + 1
    BY <2>1, LeasedGood
  <2>5. recorders = {}
    BY <1>3 DEF IInv, GateInv
  <2>6. recorders' = {r} /\ r \in Reporter /\ r.op = operation.id
    BY <2>1, <2>2, <2>5 DEF Reporter
  <2> HIDE DEF L, r
  <2>7. callbacks' \subseteq Callback /\ callbacks' # {} /\ CallbackInv'
    BY <2>2, <2>4, MovedGood
  <2>8. TypeOK'
    BY <2>1, <2>2, <2>3, <2>4, <2>6, <2>7 DEF TypeOK
  <2>9. GateInv'
    BY <2>2, <2>6 DEF IInv, GateInv
  <2>10. LeaseInv'
    BY <2>1, <2>2, <2>4, <2>5, <2>6, <2>7 DEF IInv, LeaseInv, One, Operation
  <2> QED
    BY <2>2, <2>3, <2>4, <2>7, <2>8, <2>9, <2>10, SilentStep
<1> QED
  BY <1>2, <1>3

\* Taking the free Journal gate.
LEMMA StartWriterFacts ==
    ASSUME IInv, NEW p \in Procs, NEW op \in 0..MaxUint64, NEW b \in BOOLEAN,
           ~journalRunning, StartWriter(p, op, b),
           UNCHANGED <<callbacks, recorders, recorderRunning>>
    PROVE  /\ writers' \subseteq Writer /\ journalRunning' = TRUE
           /\ operation' \in Operation /\ operation'.id = operation.id
           /\ operation'.returned = operation.returned
           /\ operation'.revoked = operation.revoked
           /\ GateInv' /\ LeaseInv'
<1> DEFINE w == [proc |-> p, op |-> op, prepares |-> b, step |-> "new",
                 snapshot |-> NoSnapshot]
           L == Leased(op)
<1>1. operation \in Operation
  BY DEF IInv, TypeOK
<1>2. writers = {}
  BY DEF IInv, GateInv
<1>3. writers' = {w} /\ w \in Writer /\ w.op = op
  BY <1>2, NoValuesGood DEF StartWriter, Writer
<1>4. /\ L \in Operation /\ L.id = operation.id
      /\ L.returned = operation.returned /\ L.revoked = operation.revoked
      /\ operation.id = 0 => L = operation
      /\ L.live = IF op # 0 /\ operation.id = op
                    THEN operation.live + 1 ELSE operation.live
  BY <1>1, LeasedGood
<1>5. operation' = L /\ journalRunning' = TRUE
  BY DEF StartWriter
<1> HIDE DEF w, L
<1>6. GateInv'
  BY <1>3, <1>5 DEF IInv, GateInv
<1>7. LeaseInv'
  BY <1>1, <1>2, <1>3, <1>4, <1>5 DEF IInv, LeaseInv, One, Operation
<1> QED
  BY <1>3, <1>4, <1>5, <1>6, <1>7

\* PrepareDeliver preserves the invariant.
LEMMA PrepareDeliverInv ==
    ASSUME IInv, NEW p \in Procs, PrepareDeliver(p) PROVE IInv'
<1> DEFINE c == call[p]
           d == [c EXCEPT !.pc = "prepared"]
<1>1. TypeOK /\ c \in Call /\ CallShape(c) /\ c.pc = "deliver"
  BY DEF IInv, TypeOK, CallShapes, PrepareDeliver
<1>2. c.op \in 0..MaxUint64
  BY <1>1 DEF Call
<1>3. UNCHANGED <<mode, state, revision, attempt, nextOperation, incarnation,
                  restarts, recordsSpent, pending, fault,
                  reporting, timers, callbacks,
                  recorderRunning, recorders,
                  journalError, disk, unresolved, everIssued>>
  BY DEF PrepareDeliver, core, rest, committed, counters, durable, ghosts
<1>4. ~journalRunning /\ StartWriter(p, c.op, TRUE)
  BY DEF PrepareDeliver
<1>5. /\ writers' \subseteq Writer /\ journalRunning' = TRUE
      /\ operation' \in Operation /\ operation'.id = operation.id
      /\ operation'.returned = operation.returned
      /\ operation'.revoked = operation.revoked
      /\ GateInv' /\ LeaseInv'
  BY <1>2, <1>3, <1>4, StartWriterFacts
<1>6. /\ d \in Call /\ d.pc = "prepared" /\ d.ends = c.ends /\ d.op = c.op
      /\ d.phase = c.phase /\ d.row = c.row /\ d.change = c.change
  BY <1>1 DEF Call
<1>7. call' = [call EXCEPT ![p] = d]
  BY DEF PrepareDeliver
<1> HIDE DEF d
<1>8. CallShape(d)
  BY <1>1, <1>6 DEF CallShape, Running, Candidates
<1>9. /\ call' \in [Procs -> Call]
      /\ \A q \in Procs \ {p} : call'[q] = call[q]
  BY <1>1, <1>6, <1>7, CallUpdated DEF TypeOK
<1>10. TypeOK'
  BY <1>1, <1>3, <1>5, <1>9 DEF TypeOK
<1>11. CallbackInv'
  BY <1>1, <1>3, <1>5, <1>9, CallbackKept
<1>12. c.pc \in Running
  BY <1>1 DEF Running
<1> QED
  BY <1>3, <1>5, <1>6, <1>7, <1>8, <1>10, <1>11, <1>12, GoroutineStep DEF c

\* Close preserves the invariant.
LEMMA CloseInv ==
    ASSUME IInv, NEW p \in Procs, Close(p) PROVE IInv'
<1> DEFINE c == call[p]
           d == [c EXCEPT !.pc = "closing"]
           e == [c EXCEPT !.pc = "closing", !.done = "err"]
<1>1. TypeOK /\ c \in Call /\ c.pc = "close" /\ call \in [Procs -> Call]
  BY DEF IInv, TypeOK, Close
<1>2. c.op \in 0..MaxUint64
  BY <1>1 DEF Call
<1>3. d \in Call /\ d.pc = "closing" /\ d.ends = c.ends /\ d.op = c.op
  BY <1>1 DEF Call
<1>4. e \in Call /\ e.pc = "closing" /\ e.ends = c.ends /\ e.op = c.op
  BY <1>1 DEF Call, Outcomes
<1>5. CASE journalRunning
  <2>1. call' = [call EXCEPT ![p] = e] /\ UNCHANGED shared
    BY <1>1, <1>5 DEF Close, shared
  <2> HIDE DEF e
  <2>2. CallShape(e)
    BY <1>4 DEF CallShape, Running
  <2> QED
    BY <1>1, <1>4, <2>1, <2>2, LocalStep DEF Running, c
<1>6. CASE ~journalRunning
  <2>1. call' = [call EXCEPT ![p] = d] /\ StartWriter(p, c.op, FALSE)
    BY <1>6 DEF Close
  <2>2. UNCHANGED <<mode, state, revision, attempt, nextOperation, incarnation,
                    restarts, recordsSpent, pending, fault,
                    reporting, timers, callbacks,
                    recorderRunning, recorders,
                    journalError, disk, unresolved, everIssued>>
    BY <1>6 DEF Close, core, rest, committed, counters, durable, ghosts
  <2>3. /\ writers' \subseteq Writer /\ journalRunning' = TRUE
        /\ operation' \in Operation /\ operation'.id = operation.id
        /\ operation'.returned = operation.returned
        /\ operation'.revoked = operation.revoked
        /\ GateInv' /\ LeaseInv'
    BY <1>2, <1>6, <2>1, <2>2, StartWriterFacts
  <2> HIDE DEF d
  <2>4. CallShape(d)
    BY <1>3 DEF CallShape, Running
  <2>5. /\ call' \in [Procs -> Call]
        /\ \A q \in Procs \ {p} : call'[q] = call[q]
    BY <1>1, <1>3, <2>1, CallUpdated
  <2>6. TypeOK'
    BY <1>1, <2>2, <2>3, <2>5 DEF TypeOK
  <2>7. CallbackInv'
    BY <1>1, <2>2, <2>3, <2>5, CallbackKept
  <2>8. d.pc \notin Running
    BY <1>3 DEF Running
  <2> QED
    BY <1>3, <2>1, <2>2, <2>3, <2>4, <2>6, <2>7, <2>8, GoroutineStep DEF c
<1> QED
  BY <1>5, <1>6

\* Record preserves the invariant.
LEMMA RecordInv ==
    ASSUME IInv, NEW p \in Procs, Record(p) PROVE IInv'
<1> DEFINE c == call[p]
           d == [c EXCEPT !.pc = "recording"]
           e == Recorded(c)
           r == [proc |-> p, op |-> c.op]
           L == Leased(c.op)
<1>1. TypeOK /\ c \in Call /\ c.pc = "record" /\ call \in [Procs -> Call]
  BY DEF IInv, TypeOK, Record
<1>2. c.op \in 0..MaxUint64 /\ operation \in Operation
  BY <1>1 DEF Call, TypeOK
<1>3. CASE recorderRunning
  <2>1. call' = [call EXCEPT ![p] = e] /\ UNCHANGED shared
    BY <1>3 DEF Record, shared
  <2>2. /\ e \in Call /\ e.pc \in {"record", "return"}
        /\ e.ends = c.ends /\ e.op = c.op
    BY <1>1, RecordedGood
  <2> HIDE DEF e
  <2>3. CallShape(e)
    BY <2>2 DEF CallShape, Running
  <2> QED
    BY <1>1, <2>1, <2>2, <2>3, LocalStep DEF Running, c
<1>4. CASE ~recorderRunning
  <2>1. /\ call' = [call EXCEPT ![p] = d] /\ operation' = L
        /\ recorderRunning' = TRUE /\ recorders' = recorders \cup {r}
    BY <1>4 DEF Record
  <2>2. UNCHANGED <<mode, state, revision, attempt, nextOperation, incarnation,
                    restarts, recordsSpent, pending, fault,
                    reporting, timers, callbacks,
                    journalRunning, writers,
                    journalError, disk, unresolved, everIssued>>
    BY <1>4 DEF Record, core, rest, committed, counters, durable, ghosts
  <2>3. d \in Call /\ d.pc = "recording" /\ d.ends = c.ends /\ d.op = c.op
    BY <1>1 DEF Call
  <2>4. recorders = {}
    BY <1>4 DEF IInv, GateInv
  <2>5. recorders' = {r} /\ r \in Reporter /\ r.op = c.op
    BY <1>2, <2>1, <2>4 DEF Reporter
  <2>6. /\ L \in Operation /\ L.id = operation.id
        /\ L.returned = operation.returned /\ L.revoked = operation.revoked
        /\ operation.id = 0 => L = operation
        /\ L.live = IF c.op # 0 /\ operation.id = c.op
                      THEN operation.live + 1 ELSE operation.live
    BY <1>2, LeasedGood
  <2> HIDE DEF d, r, L
  <2>7. CallShape(d)
    BY <2>3 DEF CallShape, Running
  <2>8. /\ call' \in [Procs -> Call]
        /\ \A q \in Procs \ {p} : call'[q] = call[q]
    BY <1>1, <2>1, <2>3, CallUpdated
  <2>9. TypeOK'
    BY <1>1, <2>1, <2>2, <2>5, <2>6, <2>8 DEF TypeOK
  <2>10. CallbackInv'
    BY <1>1, <2>1, <2>2, <2>6, <2>8, CallbackKept
  <2>11. GateInv'
    BY <2>1, <2>2, <2>5 DEF IInv, GateInv
  <2>12. LeaseInv'
    BY <1>2, <2>1, <2>2, <2>4, <2>5, <2>6 DEF IInv, LeaseInv, One, Operation
  <2>13. d.pc \notin Running
    BY <2>3 DEF Running
  <2> QED
    BY <2>1, <2>2, <2>3, <2>6, <2>7, <2>9, <2>10, <2>11, <2>12, <2>13,
       GoroutineStep DEF c
<1> QED
  BY <1>3, <1>4

\* snapshotLocked is typed.
LEMMA SnapshotNowGood ==
    ASSUME TypeOK PROVE SnapshotNow \in Snapshot
<1>1. SnapshotPending \in Change
  <2>1. pending.change \in Change /\ operation.change \in Change
        /\ fault.change \in Change /\ fault.state \in States
        /\ pending.live \in BOOLEAN
    BY DEF TypeOK, Pending, Operation, Fault
  <2>2. [fault.change EXCEPT !.from = fault.state] \in Change
    BY <2>1 DEF Change
  <2> QED
    BY <2>1, <2>2, NoValuesGood DEF SnapshotPending
<1>2. /\ pending.live \in BOOLEAN /\ operation.issued \in BOOLEAN
      /\ fault.latched \in BOOLEAN /\ fault.issued \in BOOLEAN
      /\ fault.uncertain \in BOOLEAN /\ fault.cause \in Causes
  BY DEF TypeOK, Pending, Operation, Fault
<1> DEFINE issuing == operation.id # 0 /\ mode = "executing" /\ operation.issued
           a == pending.live \/ issuing \/ (fault.latched /\ fault.issued)
           u == IF fault.latched THEN fault.uncertain
                                 ELSE pending.live \/ issuing
           s == SnapshotPending
<1>3. a \in BOOLEAN /\ u \in BOOLEAN
  BY <1>2
<1>4. SnapshotNow =
        [saved |-> TRUE, inc |-> incarnation, restarts |-> restarts,
         spent |-> recordsSpent, state |-> state, rev |-> revision, attempt |-> attempt, indoubt |-> a,
         pending |-> s, faulted |-> fault.latched, uncertain |-> u,
         cause |-> fault.cause]
  BY DEF SnapshotNow
<1>5. s \in Change /\ incarnation \in 0..MaxIncarnation
  BY <1>1, ConstantsAssumption DEF TypeOK
<1> HIDE DEF issuing, a, u, s
<1> QED
  BY <1>2, <1>3, <1>4, <1>5 DEF Snapshot, TypeOK

\* There is one Journal goroutine.
LEMMA WriterFacts ==
    ASSUME IInv, NEW w \in writers
    PROVE  /\ writers = {w} /\ w \in Writer /\ w.proc \in Procs
           /\ w.op \in 0..MaxUint64 /\ journalRunning
           /\ operation \in Operation
           /\ w.op # 0 /\ operation.id = w.op => operation.live > 0
<1>1. writers = {w} /\ w \in Writer /\ journalRunning
  BY DEF IInv, TypeOK, GateInv
<1>2. operation \in Operation
  BY DEF IInv, TypeOK
<1>3. w.op # 0 /\ operation.id = w.op => operation.live > 0
  BY <1>1 DEF IInv, LeaseInv, One
<1> QED
  BY <1>1, <1>2, <1>3 DEF Writer

\* A writer that moves on without ending preserves the invariant.
LEMMA SteppedInv ==
    ASSUME IInv, NEW w \in writers, NEW step \in {"captured", "written"},
           NEW s \in Snapshot, writers' = Stepped(w, step, s),
           disk' \in Snapshot,
           UNCHANGED <<core, ghosts, operation, reporting, timers, callbacks,
                       journalRunning, recorderRunning, recorders, journalError,
                       call>>
    PROVE  IInv'
<1> DEFINE v == [w EXCEPT !.step = step, !.snapshot = s]
<1>1. writers = {w} /\ w \in Writer /\ TypeOK /\ journalRunning
  BY WriterFacts DEF IInv
<1>2. v \in Writer /\ v.op = w.op
  BY <1>1 DEF Writer
<1>3. writers' = {v}
  BY <1>1 DEF Stepped
<1> HIDE DEF v
<1>4. UNCHANGED <<mode, state, revision, attempt, nextOperation, incarnation,
                  restarts, recordsSpent, pending, fault,
                  unresolved, everIssued>>
  BY DEF core, committed, counters, ghosts
<1>5. TypeOK'
  BY <1>1, <1>2, <1>3, <1>4 DEF TypeOK
<1>6. GateInv'
  BY <1>1, <1>3 DEF IInv, GateInv
<1>7. CallbackInv'
  BY CallbackKept
<1>8. LeaseInv'
  BY <1>1, <1>2, <1>3 DEF IInv, LeaseInv, One
<1> QED
  BY <1>4, <1>5, <1>6, <1>7, <1>8, SilentStep

\* Capture preserves the invariant.
LEMMA CaptureInv ==
    ASSUME IInv, NEW w \in writers, Capture(w) PROVE IInv'
<1>1. SnapshotNow \in Snapshot /\ disk \in Snapshot
  BY SnapshotNowGood DEF IInv, TypeOK
<1>2. disk' \in Snapshot /\ writers' = Stepped(w, "captured", SnapshotNow)
  BY <1>1 DEF Capture, rest, durable
<1>3. UNCHANGED <<core, ghosts, operation, reporting, timers, callbacks,
                  journalRunning, recorderRunning, recorders, journalError,
                  call>>
  BY DEF Capture, rest, durable
<1> QED
  BY <1>1, <1>2, <1>3, SteppedInv

\* Write preserves the invariant.
LEMMA WriteInv ==
    ASSUME IInv, NEW w \in writers, Write(w) PROVE IInv'
<1>1. w.snapshot \in Snapshot
  BY WriterFacts DEF Writer
<1>2. disk' \in Snapshot /\ writers' = Stepped(w, "written", w.snapshot)
  BY <1>1 DEF Write
<1>3. UNCHANGED <<core, ghosts, operation, reporting, timers, callbacks,
                  journalRunning, recorderRunning, recorders, journalError,
                  call>>
  BY DEF Write
<1> QED
  BY <1>1, <1>2, <1>3, SteppedInv

\* WriterEnd preserves the invariant.
LEMMA WriterEndInv ==
    ASSUME IInv, NEW w \in writers, NEW outcome \in {"ok", "err"},
           WriterEnd(w, outcome)
    PROVE  IInv'
<1> DEFINE p == w.proc
           c == call[p]
           e == [c EXCEPT !.done = outcome]
           d == IF c.pc \in {"prepared", "closing"} /\ c.done = None THEN e ELSE c
           R == CallbackReturned(w.op)
<1>1. /\ TypeOK /\ writers = {w} /\ p \in Procs /\ w.op \in 0..MaxUint64
      /\ operation \in Operation
      /\ w.op # 0 /\ operation.id = w.op => operation.live > 0
  BY WriterFacts DEF IInv
<1>2. c \in Call /\ CallShape(c) /\ call \in [Procs -> Call]
  BY <1>1 DEF IInv, TypeOK, CallShapes
<1>3. UNCHANGED <<mode, state, revision, attempt, nextOperation, incarnation,
                  restarts, recordsSpent, pending, fault,
                  reporting, timers, callbacks,
                  recorderRunning, recorders,
                  journalError, disk, unresolved, everIssued>>
  BY DEF WriterEnd, core, rest, committed, counters, durable, ghosts
<1>4. call' = [call EXCEPT ![p] = d]
  BY <1>2 DEF WriterEnd
<1>5. d \in Call /\ d.ends = c.ends /\ d.op = c.op /\ d.pc = c.pc
  <2>1. e \in Call /\ e.ends = c.ends /\ e.op = c.op /\ e.pc = c.pc
    BY <1>2 DEF Call, Outcomes
  <2>2. d = c \/ d = e
    OBVIOUS
  <2> HIDE DEF d, e
  <2> QED
    BY <1>2, <2>1, <2>2
<1>6. CallShape(d)
  <2>1. CASE d = c
    <3> HIDE DEF d, e
    <3> QED
      BY <1>2, <2>1
  <2>2. CASE d = e /\ c.pc \in {"prepared", "closing"}
    <3>1. /\ e.pc = c.pc /\ e.ends = c.ends /\ e.phase = c.phase
          /\ e.row = c.row /\ e.change = c.change
      BY <1>2 DEF Call
    <3> HIDE DEF d, e
    <3> QED
      BY <1>2, <2>2, <3>1 DEF CallShape, Running, Candidates
  <2> QED
    BY <2>1, <2>2
<1>7. c.pc \in {"wait", "latch"} => d = c
  OBVIOUS
<1> HIDE DEF d
<1>8. /\ call' \in [Procs -> Call] /\ call'[p] = d
      /\ \A q \in Procs \ {p} : call'[q] = call[q]
  BY <1>1, <1>2, <1>4, <1>5, CallUpdated
<1>9. operation' = R /\ writers' = {} /\ journalRunning' = FALSE
  BY <1>1 DEF WriterEnd
<1>10. /\ R \in Operation
       /\ IF w.op = 0 \/ operation.id # w.op THEN R = operation
          ELSE IF operation.returned /\ operation.live = 1 THEN R = NoOperation
          ELSE /\ R.id = operation.id /\ R.live = operation.live - 1
               /\ R.returned = operation.returned
               /\ R.revoked = operation.revoked
  BY <1>1, CallbackReturnedGood
<1> HIDE DEF R
<1>11. TypeOK'
  BY <1>1, <1>3, <1>8, <1>9, <1>10 DEF TypeOK
<1>12. GateInv'
  BY <1>3, <1>9 DEF IInv, GateInv
<1>13. \/ callbacks = {}
       \/ R.id = operation.id /\ R.revoked = operation.revoked
  <2>1. w.op # 0 /\ operation.id = w.op /\ operation.live = 1 => callbacks = {}
    BY <1>1 DEF IInv, LeaseInv, One
  <2> QED
    BY <1>10, <2>1
<1>14. CallbackInv'
  <2>1. \A q \in Procs : call[q].pc \in {"wait", "latch"} => call'[q] = call[q]
    BY <1>7, <1>8
  <2> QED
    BY <1>3, <1>9, <1>10, <1>13, <2>1, CallbackKept
<1>15. \/ operation'.id = operation.id /\ operation'.returned = operation.returned
       \/ operation.returned /\ operation'.id = 0
  BY <1>9, <1>10 DEF NoOperation
<1>16. LeaseInv'
  <2>1. CASE R = NoOperation
    BY <1>9, <2>1 DEF LeaseInv, NoOperation
  <2>2. CASE R = operation /\ (w.op = 0 \/ operation.id # w.op)
    BY <1>1, <1>3, <1>9, <2>2 DEF IInv, LeaseInv, One
  <2>3. CASE /\ w.op # 0 /\ operation.id = w.op
             /\ R.id = operation.id /\ R.live = operation.live - 1
    <3>1. operation.live = One(callbacks # {}) + 1
                           + One(\E r \in recorders : r.op = operation.id)
      BY <1>1, <2>3 DEF IInv, LeaseInv, One
    <3> QED
      BY <1>3, <1>9, <2>3, <3>1 DEF LeaseInv, One
  <2> QED
    BY <1>10, <2>1, <2>2, <2>3
<1> HIDE DEF p
<1> QED
  BY <1>1, <1>3, <1>4, <1>5, <1>6, <1>11, <1>12, <1>14, <1>15, <1>16,
     GoroutineStep DEF c

\* RecorderEnd preserves the invariant.
LEMMA RecorderEndInv ==
    ASSUME IInv, NEW r \in recorders, RecorderEnd(r) PROVE IInv'
<1> DEFINE R == CallbackReturned(r.op)
<1>1. /\ TypeOK /\ recorders = {r} /\ r.op \in 0..MaxUint64
      /\ operation \in Operation
  BY DEF IInv, GateInv, TypeOK, Reporter
<1>2. r.op # 0 /\ operation.id = r.op =>
         operation.live = One(callbacks # {})
                          + One(\E w \in writers : w.op = operation.id) + 1
  BY <1>1 DEF IInv, LeaseInv, One
<1>3. r.op # 0 /\ operation.id = r.op => operation.live > 0
  BY <1>2 DEF One
<1>4. UNCHANGED <<mode, state, revision, attempt, nextOperation, incarnation,
                  restarts, recordsSpent, pending, fault,
                  reporting, timers, callbacks, call,
                  journalRunning, writers,
                  journalError, disk, unresolved, everIssued>>
  BY DEF RecorderEnd, core, rest, committed, counters, durable, ghosts
<1>5. operation' = R /\ recorders' = {} /\ recorderRunning' = FALSE
  BY <1>1 DEF RecorderEnd
<1>6. /\ R \in Operation
      /\ IF r.op = 0 \/ operation.id # r.op THEN R = operation
         ELSE IF operation.returned /\ operation.live = 1 THEN R = NoOperation
         ELSE /\ R.id = operation.id /\ R.live = operation.live - 1
              /\ R.returned = operation.returned
              /\ R.revoked = operation.revoked
  BY <1>1, <1>3, CallbackReturnedGood
<1> HIDE DEF R
<1>7. TypeOK'
  BY <1>1, <1>4, <1>5, <1>6 DEF TypeOK
<1>8. GateInv'
  BY <1>4, <1>5 DEF IInv, GateInv
<1>9. \/ callbacks = {}
      \/ R.id = operation.id /\ R.revoked = operation.revoked
  <2>1. r.op # 0 /\ operation.id = r.op /\ operation.live = 1 => callbacks = {}
    BY <1>2 DEF One
  <2> QED
    BY <1>6, <2>1
<1>10. CallbackInv'
  BY <1>4, <1>5, <1>6, <1>9, CallbackKept
<1>11. \/ operation'.id = operation.id /\ operation'.returned = operation.returned
       \/ operation.returned /\ operation'.id = 0
  BY <1>5, <1>6 DEF NoOperation
<1>12. LeaseInv'
  <2>1. CASE R = NoOperation
    BY <1>5, <2>1 DEF LeaseInv, NoOperation
  <2>2. CASE R = operation /\ (r.op = 0 \/ operation.id # r.op)
    BY <1>1, <1>4, <1>5, <2>2 DEF IInv, LeaseInv, One
  <2>3. CASE /\ r.op # 0 /\ operation.id = r.op
             /\ R.id = operation.id /\ R.live = operation.live - 1
    BY <1>2, <1>4, <1>5, <2>3 DEF LeaseInv, One
  <2> QED
    BY <1>6, <2>1, <2>2, <2>3
<1> QED
  BY <1>4, <1>7, <1>8, <1>10, <1>11, <1>12, SilentStep

-----------------------------------------------------------------------------
(* Admission, reports and returns. *)

\* Nothing of an earlier Operation is left when the next one is admitted.
LEMMA QuiescentFacts ==
    ASSUME IInv, Quiescent
    PROVE  /\ operation.id = 0 /\ callbacks = {} /\ writers = {}
           /\ recorders = {} /\ ~journalRunning /\ ~recorderRunning
           /\ Reporters = {}
           /\ \A q \in Procs : call[q].ends # "operation"
           /\ \A q \in Procs : call[q].pc \notin Running
<1>1. operation.id = 0 /\ reporting = 0 /\ ~journalRunning /\ ~recorderRunning
  BY DEF Quiescent
<1>2. callbacks = {} /\ writers = {} /\ recorders = {}
  BY <1>1 DEF IInv, CallbackInv, GateInv
<1>3. \A q \in Procs : call[q].ends # "operation"
  BY <1>1 DEF IInv, OwnerInv
<1>4. \A q \in Procs : call[q].pc \notin Running
  BY <1>3 DEF IInv, CallShapes, CallShape
<1>5. Reporters = {}
  <2>1. IsFiniteSet(Procs)
    BY ConstantsAssumption, FS_AddElement DEF Procs
  <2>2. IsFiniteSet(Reporters)
    BY <2>1, FS_Subset DEF Reporters
  <2>3. Cardinality(Reporters) = 0
    BY <1>1 DEF IInv, ReportingInv
  <2> QED
    BY <2>2, <2>3, FS_EmptySet
<1> QED
  BY <1>1, <1>2, <1>3, <1>4, <1>5

\* beginOperationLocked, for locals that have the shape of an admitted call.
LEMMA BeginStep ==
    ASSUME IInv, NEW p \in Procs, call[p].pc = "idle", Quiescent,
           nextOperation < MaxUint64,
           NEW locals \in Call, locals.pc \in {"invoke", "latch"},
           locals.done = None, NEW change \in Change,
           NEW phase \in Phases \ {"guard"},
           locals.pc = "invoke" => /\ revision < MaxUint64
                                   /\ nextOperation + 1 < MaxUint64
                                   /\ phase = "precondition" => change.event \in Events,
           Begin(p, locals, change, phase), attempt' \in 0..MaxUint64
    PROVE  IInv'
<1> DEFINE n == nextOperation + 1
           d == [locals EXCEPT !.op = n, !.ends = "operation",
                               !.change = change, !.phase = phase]
           o == [NoOperation EXCEPT !.id = n, !.change = change]
<1>1. TypeOK /\ call \in [Procs -> Call]
  BY DEF IInv, TypeOK
<1>2. n \in 0..MaxUint64 /\ n # 0
  BY <1>1, ConstantsAssumption DEF TypeOK
<1>3. /\ nextOperation' = n /\ operation' = o /\ mode' = "executing"
      /\ call' = [call EXCEPT ![p] = d]
      /\ UNCHANGED <<state, revision, incarnation, restarts,
                     recordsSpent, pending, fault, reporting,
                     timers, callbacks, journalRunning, recorderRunning,
                     writers, recorders, journalError, disk, unresolved,
                     everIssued>>
  BY DEF Begin, rest, committed, delivery, durable, ghosts
<1>4. /\ callbacks = {} /\ writers = {} /\ recorders = {}
      /\ ~journalRunning /\ ~recorderRunning /\ Reporters = {}
      /\ \A q \in Procs : call[q].ends # "operation"
      /\ \A q \in Procs : call[q].pc \notin Running
  BY QuiescentFacts
<1>5. locals.pc = "invoke" => n < MaxUint64
  OBVIOUS
<1> HIDE DEF n
<1>6. o \in Operation /\ o.id = n /\ ~o.returned /\ o.live = 0
  BY <1>2, NoValuesGood DEF NoOperation, Operation
<1>7. /\ d \in Call /\ d.op = n /\ d.ends = "operation" /\ d.pc = locals.pc
      /\ d.phase = phase /\ d.change = change /\ d.done = None
  BY ZenonT(90), <1>2 DEF Call
<1> HIDE DEF d, o
<1>8. /\ call' \in [Procs -> Call] /\ call'[p] = d
      /\ \A q \in Procs \ {p} : call'[q] = call[q]
  BY <1>1, <1>3, <1>7, CallUpdated
<1>9. TypeOK'
  BY <1>1, <1>2, <1>3, <1>6, <1>8 DEF TypeOK, Modes
<1>10. CallShapes'
  <2>1. CallShape(d)
    BY <1>7 DEF CallShape, Running
  <2>2. \A q \in Procs : CallShape(call'[q])
    BY <1>8, <2>1 DEF IInv, CallShapes
  <2> QED
    BY <2>2 DEF CallShapes, CallShape, Candidates
<1>11. OwnerInv'
  BY <1>2, <1>3, <1>4, <1>6, <1>7, <1>8 DEF OwnerInv
<1>12. GateInv' /\ CallbackInv'
  BY <1>3, <1>4 DEF GateInv, CallbackInv
<1>13. LeaseInv'
  BY <1>2, <1>3, <1>4, <1>6 DEF LeaseInv, One
<1>14. ReportingInv'
  <2>1. Reporters' = Reporters
    BY <1>4, <1>7, <1>8 DEF Reporters
  <2> QED
    BY <1>3, <2>1 DEF IInv, ReportingInv
<1>15. CounterInv'
  <2>1. \A q \in Procs : call'[q].pc \in Running => q = p /\ locals.pc = "invoke"
    BY <1>4, <1>7, <1>8 DEF Running
  <2> QED
    BY <1>3, <1>5, <2>1 DEF CounterInv
<1> QED
  BY <1>9, <1>10, <1>11, <1>12, <1>13, <1>14, <1>15 DEF IInv

\* Below the ceiling an admitted call may run its callbacks, at the ceiling it
\* can only latch, and no mode that admits is left beyond it.
LEMMA Headroom ==
    ASSUME IInv
    PROVE  /\ ~Exhausted => revision < MaxUint64 /\ nextOperation + 1 < MaxUint64
                            /\ nextOperation < MaxUint64
           /\ mode \in {"stopped", "ready", "awaiting"} => nextOperation < MaxUint64
<1>1. /\ revision \in 0..MaxUint64 /\ nextOperation \in 0..MaxUint64
      /\ MaxUint64 \in Nat \ {0}
  BY ConstantsAssumption DEF IInv, TypeOK
<1>2. mode \in {"stopped", "ready", "awaiting"} => nextOperation # MaxUint64
  BY DEF IInv, CounterInv
<1> QED
  BY <1>1, <1>2 DEF Exhausted

\* The locals of an admitted call have their type.
LEMMA EntryGood ==
    ASSUME NEW api \in {"start", "issue", "verify", "adjudicate"},
           NEW n \in Nat
    PROVE  /\ Entry(api, n) \in Call /\ Entry(api, n).pc = "invoke"
           /\ Entry(api, n).done = None
BY ZenonT(90), IdleGood DEF Entry, Call, IdleCall

\* So have those of a call admitted at the end of a counter.
LEMMA RefusedGood ==
    ASSUME NEW api \in {"start", "issue", "verify", "adjudicate"},
           NEW u \in BOOLEAN
    PROVE  /\ Refused(api, u) \in Call /\ Refused(api, u).pc = "latch"
           /\ Refused(api, u).done = None
BY ZenonT(90), IdleGood DEF Refused, Call, IdleCall, Causes

\* The four admissions preserve the invariant: Quiescent makes the new owner the only one.
LEMMA AdmitInv ==
    ASSUME IInv, NEW p \in Procs,
           \/ Start(p) \/ Verify(p)
           \/ \E e \in Events : Issue(p, e) \/ IssueExhausted(p, e)
           \/ \E o \in Decisions, s \in States : Adjudicate(p, o, s)
    PROVE  IInv'
<1>1. TypeOK /\ CurrentChange \in Change /\ Checks \in Nat /\ 1 \in Nat
  BY CurrentChangeGood, ConstantsAssumption DEF IInv
<1>2. call[p].pc = "idle" /\ Quiescent
  BY DEF Start, Verify, Issue, IssueExhausted, Adjudicate, Idle
<1>3. attempt \in 0..MaxUint64 /\ pending.change \in Change /\ fault.change \in Change
  BY <1>1 DEF TypeOK, Pending, Fault
<1>4. CASE Start(p)
  <2> DEFINE l == IF Exhausted THEN Refused("start", FALSE)
                               ELSE Entry("start", Checks)
  <2>1. /\ l \in Call /\ l.pc = IF Exhausted THEN "latch" ELSE "invoke"
        /\ l.done = None
    BY <1>1, EntryGood, RefusedGood
  <2>2. Begin(p, l, CurrentChange, "start") /\ attempt' = attempt
        /\ mode = "stopped"
    BY <1>4 DEF Start
  <2> HIDE DEF l
  <2>3. nextOperation < MaxUint64
    BY <2>2, Headroom
  <2>4. l.pc = "invoke" => revision < MaxUint64 /\ nextOperation + 1 < MaxUint64
    BY <2>1, Headroom
  <2>5. "start" \in Phases \ {"guard"}
    BY DEF Phases
  <2> QED
    BY <1>1, <1>2, <1>3, <2>1, <2>2, <2>3, <2>4, <2>5, BeginStep
<1>5. CASE Verify(p)
  <2> DEFINE l == IF Exhausted THEN Refused("verify", TRUE)
                               ELSE Entry("verify", 1)
  <2>1. /\ l \in Call /\ l.pc = IF Exhausted THEN "latch" ELSE "invoke"
        /\ l.done = None
    BY <1>1, EntryGood, RefusedGood
  <2>2. Begin(p, l, pending.change, "verify") /\ attempt' = attempt
        /\ mode = "awaiting"
    BY <1>5 DEF Verify
  <2> HIDE DEF l
  <2>3. nextOperation < MaxUint64
    BY <2>2, Headroom
  <2>4. l.pc = "invoke" => revision < MaxUint64 /\ nextOperation + 1 < MaxUint64
    BY <2>1, Headroom
  <2>5. "verify" \in Phases \ {"guard"}
    BY DEF Phases
  <2> QED
    BY <1>2, <1>3, <2>1, <2>2, <2>3, <2>4, <2>5, BeginStep
<1>6. ASSUME NEW e \in Events, Issue(p, e) PROVE IInv'
  <2> DEFINE l == Entry("issue", Checks)
             ch == [CurrentChange EXCEPT !.seq = attempt + 1, !.event = e]
  <2>1. l \in Call /\ l.pc = "invoke" /\ l.done = None
    BY <1>1, EntryGood
  <2>2. /\ Begin(p, l, ch, "precondition") /\ attempt' = attempt + 1
        /\ ~Exhausted /\ attempt # MaxUint64
    BY <1>6 DEF Issue
  <2>3. attempt + 1 \in 0..MaxUint64
    BY <1>3, <2>2, ConstantsAssumption
  <2>4. ch \in Change /\ ch.event = e
    BY <1>1, <2>3 DEF Change
  <2> HIDE DEF l, ch
  <2>5. /\ revision < MaxUint64 /\ nextOperation + 1 < MaxUint64
        /\ nextOperation < MaxUint64
    BY <2>2, Headroom
  <2>6. "precondition" \in Phases \ {"guard"}
    BY DEF Phases
  <2> QED
    BY <1>2, <2>1, <2>2, <2>3, <2>4, <2>5, <2>6, BeginStep
<1>7. ASSUME NEW e \in Events, IssueExhausted(p, e) PROVE IInv'
  <2> DEFINE l == Refused("issue", FALSE)
             ch == [CurrentChange EXCEPT !.event = e]
  <2>1. l \in Call /\ l.pc = "latch" /\ l.done = None
    BY RefusedGood
  <2>2. /\ Begin(p, l, ch, "selection") /\ attempt' = attempt /\ mode = "ready"
    BY <1>7 DEF IssueExhausted
  <2>3. ch \in Change
    BY <1>1 DEF Change
  <2> HIDE DEF l, ch
  <2>4. nextOperation < MaxUint64
    BY <2>2, Headroom
  <2>5. "selection" \in Phases \ {"guard"}
    BY DEF Phases
  <2> QED
    BY <1>2, <1>3, <2>1, <2>2, <2>3, <2>4, <2>5, BeginStep
<1>8. ASSUME NEW o \in Decisions, NEW s \in States,
             Adjudicate(p, o, s)
      PROVE  IInv'
  <2> DEFINE l == [Entry("adjudicate", Checks) EXCEPT !.commits = o # "retain"]
             ch == IF o = "adopt" THEN fault.change
                                  ELSE [CurrentChange EXCEPT !.to = s]
  <2>1. l \in Call /\ l.pc = "invoke" /\ l.done = None
    <3> DEFINE k == Entry("adjudicate", Checks)
    <3>1. k \in Call /\ k.pc = "invoke" /\ k.done = None
      BY <1>1, EntryGood
    <3> HIDE DEF k
    <3>2. [k EXCEPT !.commits = o # "retain"] \in Call
          /\ [k EXCEPT !.commits = o # "retain"].pc = k.pc
          /\ [k EXCEPT !.commits = o # "retain"].done = k.done
      BY ZenonT(90), <3>1 DEF Call
    <3> QED
      BY <3>1, <3>2 DEF k
  <2>2. Begin(p, l, ch, "adjudicate") /\ attempt' = attempt /\ ~Exhausted
    BY <1>8 DEF Adjudicate
  <2>3. ch \in Change
    BY <1>1, <1>3 DEF Change
  <2> HIDE DEF l, ch
  <2>4. /\ revision < MaxUint64 /\ nextOperation + 1 < MaxUint64
        /\ nextOperation < MaxUint64
    BY <2>2, Headroom
  <2>5. "adjudicate" \in Phases \ {"guard"}
    BY DEF Phases
  <2> QED
    BY <1>2, <1>3, <2>1, <2>2, <2>3, <2>4, <2>5, BeginStep
<1> QED
  BY <1>4, <1>5, <1>6, <1>7, <1>8

\* Report, the common part of Trip and of an expiry, preserves the invariant.
LEMMA ReportStep ==
    ASSUME IInv, NEW p \in Procs, call[p].pc = "idle", NEW change \in Change,
           NEW cause \in Causes, Report(p, change, cause),
           timers' \subseteq (0..MaxUint64) \X (0..MaxUint64)
    PROVE  IInv'
<1> DEFINE b == ~fault.latched
           n == operation.id
           d == [IdleCall EXCEPT !.pc = "cancel", !.op = n,
                                 !.ends = "reporting", !.durable = b]
<1>1. TypeOK /\ call \in [Procs -> Call] /\ call[p] = IdleCall
  BY DEF IInv, TypeOK, CallShapes, CallShape
<1>2. /\ operation \in Operation /\ n \in 0..MaxUint64 /\ b \in BOOLEAN
      /\ fault \in Fault
  BY <1>1 DEF TypeOK, Operation, Fault
<1>3. /\ call' = [call EXCEPT ![p] = d] /\ reporting' = reporting + 1
      /\ operation' = Revoked
      /\ UNCHANGED <<state, revision, attempt, nextOperation, incarnation,
                     restarts, journalRunning, recorderRunning, writers, recorders,
                     journalError, disk, unresolved, everIssued, callbacks>>
      /\ recordsSpent' \in BOOLEAN
  BY <1>1, StampsGood DEF Report, committed, identities, delivery, durable, ghosts
<1>4. fault' \in Fault /\ pending' \in Pending /\ mode' = "faulted"
  BY <1>1, <1>2, LatchedFaultGood, NoValuesGood DEF Report, LatchLocked
<1> HIDE DEF n, b
<1>5. d \in Call /\ d.pc = "cancel" /\ d.ends = "reporting"
  BY ZenonT(90), <1>2, IdleGood DEF Call, IdleCall
<1> HIDE DEF d
<1>6. /\ call' \in [Procs -> Call] /\ call'[p] = d
      /\ \A q \in Procs \ {p} : call'[q] = call[q]
  BY <1>1, <1>3, <1>5, CallUpdated
<1>7. Ends(operation') /\ (operation.id # 0 => operation'.revoked)
  <2>1. Ends(Revoked)
    BY <1>2, EndsGood
  <2>2. operation.id # 0 => Revoked.revoked
    BY <1>2 DEF Revoked, Operation
  <2> QED
    BY <1>3, <2>1, <2>2
<1>8. reporting' \in Nat
  BY <1>1, <1>3 DEF TypeOK
<1>9. TypeOK'
  BY <1>1, <1>3, <1>4, <1>6, <1>7, <1>8 DEF TypeOK, Modes, Ends
<1>10. CallShapes'
  <2>1. CallShape(d)
    BY <1>5 DEF CallShape, Running
  <2>2. \A q \in Procs : CallShape(call'[q])
    BY <1>6, <2>1 DEF IInv, CallShapes
  <2> QED
    BY <2>2 DEF CallShapes, CallShape, Candidates
<1>11. OwnerInv'
  BY <1>3, <1>5, <1>6, <1>7 DEF IInv, OwnerInv, Ends
<1>12. GateInv'
  BY <1>3 DEF IInv, GateInv
<1>13. CallbackInv'
  BY <1>3, <1>7 DEF IInv, CallbackInv, Ends
<1>14. LeaseInv'
  BY <1>3, <1>7 DEF IInv, LeaseInv, One, Ends
<1>15. ReportingInv'
  <2>1. IsFiniteSet(Procs)
    BY ConstantsAssumption, FS_AddElement DEF Procs
  <2>2. IsFiniteSet(Reporters)
    BY <2>1, FS_Subset DEF Reporters
  <2>3. p \notin Reporters
    BY <1>1 DEF Reporters, IdleCall, None
  <2>4. Reporters' = Reporters \cup {p}
    BY <1>5, <1>6 DEF Reporters
  <2>5. Cardinality(Reporters \cup {p}) = Cardinality(Reporters) + 1
    BY <2>2, <2>3, FS_AddElement
  <2> QED
    BY <1>3, <2>4, <2>5 DEF IInv, ReportingInv
<1>16. CounterInv'
  BY <1>3, <1>4, <1>5, <1>6 DEF IInv, CounterInv, Running
<1> QED
  BY <1>9, <1>10, <1>11, <1>12, <1>13, <1>14, <1>15, <1>16 DEF IInv

\* Trip and a Verify that came too late preserve the invariant.
LEMMA TripInv ==
    ASSUME IInv, NEW p \in Procs, Trip(p) \/ VerifyExpired(p) PROVE IInv'
<1>1. /\ call[p].pc = "idle" /\ timers' = timers /\ TypeOK
      /\ CurrentChange \in Change
  BY CurrentChangeGood DEF Trip, VerifyExpired, Idle, IInv
<1>2. /\ pending.change \in Change /\ operation.change \in Change
      /\ timers' \subseteq (0..MaxUint64) \X (0..MaxUint64)
      /\ "tripped" \in Causes /\ "expired" \in Causes
  BY <1>1 DEF TypeOK, Pending, Operation, Causes
<1>3. \/ Report(p, operation.change, "tripped")
      \/ Report(p, pending.change, "tripped")
      \/ Report(p, CurrentChange, "tripped")
      \/ Report(p, pending.change, "expired")
  BY DEF Trip, VerifyExpired
<1> QED
  BY <1>1, <1>2, <1>3, ReportStep

\* TimerFires preserves the invariant.
LEMMA TimerFiresInv ==
    ASSUME IInv, NEW t \in timers, TimerFires(t) PROVE IInv'
<1>1. Timer \in Procs /\ call[Timer].pc = "idle" /\ TypeOK
  BY DEF Procs, TimerFires, IInv
<1>2. /\ pending.change \in Change /\ "expired" \in Causes
      /\ timers' \subseteq (0..MaxUint64) \X (0..MaxUint64)
  BY <1>1 DEF TypeOK, Pending, Causes, TimerFires
<1>3. CASE Report(Timer, pending.change, "expired")
  BY <1>1, <1>2, <1>3, ReportStep
<1>4. CASE UNCHANGED <<core, delivery, durable, ghosts, operation, reporting,
                       callbacks, call>>
  <2>1. UNCHANGED <<mode, state, revision, attempt, nextOperation, incarnation,
                    restarts, recordsSpent, pending, fault,
                    operation, reporting, callbacks,
                    journalRunning, recorderRunning, writers, recorders,
                    journalError, disk, unresolved, everIssued, call>>
    BY <1>4 DEF core, committed, counters, delivery, durable, ghosts
  <2>2. TypeOK'
    BY <1>1, <1>2, <2>1 DEF TypeOK
  <2>3. GateInv'
    BY <2>1 DEF IInv, GateInv
  <2>4. CallbackInv'
    BY <2>1, CallbackKept
  <2>5. LeaseInv'
    BY <2>1 DEF IInv, LeaseInv, One
  <2> QED
    BY <2>1, <2>2, <2>3, <2>4, <2>5, SilentStep
<1> QED
  BY <1>3, <1>4 DEF TimerFires

\* The public call that owns the Operation leaves it to its live goroutines.
LEMMA ReturnInv ==
    ASSUME IInv, NEW p \in Procs, Return(p) PROVE IInv'
<1> DEFINE c == call[p]
<1>1. TypeOK /\ call \in [Procs -> Call] /\ c.pc = "return" /\ c \in Call
  BY DEF IInv, TypeOK, Return
<1>2. /\ call' = [call EXCEPT ![p] = IdleCall]
      /\ UNCHANGED <<mode, state, revision, attempt, nextOperation, incarnation,
                     restarts, recordsSpent, pending, fault, timers, callbacks,
                     journalRunning, recorderRunning, writers, recorders,
                     journalError, disk, unresolved, everIssued>>
  BY DEF Return, core, committed, counters, delivery, durable, ghosts
<1>3. /\ call' \in [Procs -> Call] /\ call'[p] = IdleCall
      /\ \A q \in Procs \ {p} : call'[q] = call[q]
  BY <1>1, <1>2, IdleGood, CallUpdated
<1>4. IdleCall.ends = None /\ IdleCall.pc = "idle" /\ None # "operation"
      /\ None # "reporting"
  BY DEF IdleCall, None
<1>5. operation \in Operation
  BY <1>1 DEF TypeOK
<1>6. \/ operation' = operation /\ c.ends # "operation"
      \/ operation' = NoOperation /\ operation.live = 0 /\ operation.id # 0
         /\ c.ends = "operation"
      \/ /\ operation' \in Operation /\ operation'.id = operation.id
         /\ operation'.live = operation.live /\ operation.id # 0
         /\ operation'.revoked = operation.revoked /\ c.ends = "operation"
  <2>1. CASE c.ends = "operation"
    <3>1. operation.id # 0 /\ c.op = operation.id
      BY <2>1 DEF IInv, OwnerInv
    <3>2. operation' = OperationReturned(c.op)
      BY <2>1 DEF Return
    <3>3. CASE operation.live = 0
      BY <2>1, <3>1, <3>2, <3>3 DEF OperationReturned
    <3>4. CASE operation.live # 0
      <4>1. operation' = [operation EXCEPT !.returned = TRUE]
        BY <3>1, <3>2, <3>4 DEF OperationReturned
      <4> QED
        BY <1>5, <2>1, <3>1, <4>1 DEF Operation
    <3> QED
      BY <3>3, <3>4
  <2>2. CASE c.ends # "operation"
    BY <2>2 DEF Return
  <2> QED
    BY <2>1, <2>2
<1>7. operation' \in Operation
  BY <1>5, <1>6, NoValuesGood
<1>8. reporting' \in Nat /\ ReportingInv'
  <2>1. IsFiniteSet(Procs)
    BY ConstantsAssumption, FS_AddElement DEF Procs
  <2>2. IsFiniteSet(Reporters) /\ Cardinality(Reporters) = reporting
    BY <2>1, FS_Subset DEF Reporters, IInv, ReportingInv
  <2>3. CASE c.ends = "reporting"
    <3>1. Reporters' = Reporters \ {p} /\ p \in Reporters
      BY <1>3, <1>4, <2>3 DEF Reporters
    <3>2. /\ Cardinality(Reporters \ {p}) = Cardinality(Reporters) - 1
          /\ IsFiniteSet(Reporters \ {p})
      BY <2>2, <3>1, FS_RemoveElement
    <3>3. reporting' = reporting - 1
      BY <2>3 DEF Return
    <3>4. Cardinality(Reporters \ {p}) \in Nat
      BY <3>2, FS_CardinalityType
    <3> QED
      BY <2>2, <3>1, <3>2, <3>3, <3>4 DEF ReportingInv
  <2>4. CASE c.ends # "reporting"
    <3>1. Reporters' = Reporters
      BY <1>3, <1>4, <2>4 DEF Reporters
    <3>2. reporting' = reporting
      BY <2>4 DEF Return
    <3> QED
      BY <1>1, <2>2, <3>1, <3>2 DEF ReportingInv, TypeOK
  <2> QED
    BY <2>3, <2>4
<1>9. TypeOK'
  BY <1>1, <1>2, <1>3, <1>7, <1>8 DEF TypeOK
<1>10. CallShapes'
  <2>1. \A q \in Procs : CallShape(call'[q])
    BY <1>3, IdleGood DEF IInv, CallShapes
  <2> QED
    BY <2>1 DEF CallShapes, CallShape, Candidates
<1>11. OwnerInv'
  <2>1. c.ends = "operation" =>
           \A q \in Procs : call'[q].ends # "operation"
    BY <1>3, <1>4 DEF IInv, OwnerInv
  <2>2. operation'.id <= nextOperation'
    BY <1>1, <1>2, <1>6 DEF IInv, OwnerInv, TypeOK, NoOperation
  <2> QED
    BY <1>3, <1>4, <1>6, <2>1, <2>2 DEF IInv, OwnerInv
<1>12. GateInv'
  BY <1>2 DEF IInv, GateInv
<1>13. CallbackInv'
  <2>1. callbacks = {} \/ (operation'.id = operation.id
                            /\ operation'.revoked = operation.revoked)
    BY <1>6 DEF IInv, LeaseInv, One
  <2>2. \A q \in Procs : call[q].pc \in {"wait", "latch"} => call'[q] = call[q]
    BY <1>1, <1>3
  <2> QED
    BY <1>2, <2>1, <2>2, CallbackKept
<1>14. LeaseInv'
  BY <1>2, <1>6 DEF IInv, LeaseInv, One, NoOperation
<1>15. CounterInv'
  BY <1>2, <1>3, <1>4 DEF IInv, CounterInv, Running
<1> QED
  BY <1>8, <1>9, <1>10, <1>11, <1>12, <1>13, <1>14, <1>15 DEF IInv

\* A fresh process has no calls, no goroutines and no Operation.
LEMMA Fresh ==
    ASSUME TypeOK', operation' = NoOperation, reporting' = 0, callbacks' = {},
           writers' = {}, recorders' = {}, journalRunning' = FALSE,
           recorderRunning' = FALSE, nextOperation' = 0,
           call' = [p \in Procs |-> IdleCall]
    PROVE  IInv'
<1>1. \A p \in Procs : call'[p] = IdleCall
  OBVIOUS
<1>2. IdleCall.ends = None /\ IdleCall.pc = "idle" /\ None # "operation"
      /\ None # "reporting"
  BY DEF IdleCall, None
<1>3. CallShapes'
  <2>1. \A q \in Procs : CallShape(call'[q])
    BY <1>1, IdleGood
  <2> QED
    BY <2>1 DEF CallShapes, CallShape, Candidates
<1>4. OwnerInv' /\ GateInv' /\ CallbackInv' /\ LeaseInv'
  BY <1>1, <1>2 DEF OwnerInv, GateInv, CallbackInv, LeaseInv, NoOperation
<1>5. ReportingInv'
  <2>1. Reporters' = {}
    BY <1>1, <1>2 DEF Reporters
  <2> QED
    BY <2>1, FS_EmptySet DEF ReportingInv
<1>6. CounterInv'
  BY <1>1, <1>2, ConstantsAssumption DEF CounterInv, Running
<1> QED
  BY <1>3, <1>4, <1>5, <1>6 DEF IInv

\* CrashRestore preserves the invariant.
LEMMA CrashRestoreInv ==
    ASSUME IInv, CrashRestore PROVE IInv'
<1>1. TypeOK /\ disk \in Snapshot
  BY DEF IInv, TypeOK
<1>2. /\ disk.state \in States /\ disk.rev \in 0..MaxUint64
      /\ disk.attempt \in 0..MaxUint64 /\ disk.pending \in Change
      /\ disk.cause \in Causes /\ disk.indoubt \in BOOLEAN
      /\ disk.uncertain \in BOOLEAN /\ disk.faulted \in BOOLEAN
      /\ disk.restarts \in 0..MaxUint64 /\ disk.spent \in BOOLEAN
  BY <1>1 DEF Snapshot
<1>3. fault' \in Fault
  <2> DEFINE k == IF disk.cause = None THEN "restored" ELSE disk.cause
             u == disk.uncertain \/ disk.indoubt
             f == [latched |-> TRUE, change |-> disk.pending,
                   state |-> disk.state, cause |-> k, uncertain |-> u,
                   issued |-> disk.indoubt]
  <2>1. k \in Causes /\ u \in BOOLEAN
    BY <1>2 DEF Causes
  <2>2. fault' \in {f, NoFault}
    BY DEF CrashRestore
  <2> HIDE DEF k, u
  <2>3. f \in Fault
    BY <1>2, <2>1 DEF Fault
  <2> QED
    BY <2>2, <2>3, NoValuesGood
<1>4. /\ mode' \in Modes /\ state' \in States /\ revision' \in 0..MaxUint64
      /\ attempt' \in 0..MaxUint64 /\ nextOperation' \in 0..MaxUint64
  BY <1>2, ConstantsAssumption DEF CrashRestore, RestoredCounters, Modes
<1>5. incarnation' \in 1..MaxIncarnation
  BY <1>1, ConstantsAssumption DEF CrashRestore, TypeOK
<1>9. restarts' \in 0..MaxUint64 /\ recordsSpent' \in BOOLEAN
  <2>1. disk.saved => disk.restarts # MaxUint64
    BY DEF CrashRestore, Restorable, Ended
  <2> QED
    BY <1>2, <2>1, ConstantsAssumption DEF CrashRestore
<1>6. call' \in [Procs -> Call]
  BY IdleGood DEF CrashRestore
<1>7. /\ pending' = NoPending /\ operation' = NoOperation /\ reporting' = 0
      /\ timers' = {} /\ callbacks' = {} /\ writers' = {} /\ recorders' = {}
      /\ journalRunning' = FALSE /\ recorderRunning' = FALSE
      /\ journalError' = FALSE /\ nextOperation' = 0
      /\ call' = [p \in Procs |-> IdleCall]
      /\ UNCHANGED <<unresolved, everIssued, disk>>
  BY DEF CrashRestore, ghosts
<1>8. TypeOK'
  BY <1>1, <1>3, <1>4, <1>5, <1>6, <1>7, <1>9, NoValuesGood DEF TypeOK
<1> QED
  BY <1>7, <1>8, Fresh

-----------------------------------------------------------------------------
(* The theorems. *)

\* The invariant holds of a Supervisor that was just built.
LEMMA InitIInv == Init => IInv
<1> SUFFICES ASSUME Init PROVE IInv
  OBVIOUS
<1>1. call \in [Procs -> Call] /\ \A p \in Procs : call[p] = IdleCall
  BY IdleGood DEF Init
<1>2. TypeOK
  <2>1. /\ revision \in 0..MaxUint64 /\ attempt \in 0..MaxUint64
        /\ nextOperation \in 0..MaxUint64 /\ incarnation \in 1..MaxIncarnation
        /\ restarts \in 0..MaxUint64
        /\ reporting \in Nat /\ mode \in Modes /\ state \in States
    BY ConstantsAssumption DEF Init, Modes
  <2> QED
    BY <1>1, <2>1, NoValuesGood DEF Init, TypeOK
<1>3. IdleCall.ends = None /\ IdleCall.pc = "idle" /\ None # "operation"
      /\ None # "reporting"
  BY DEF IdleCall, None
<1>4. CallShapes
  BY <1>1, IdleGood DEF CallShapes
<1>5. OwnerInv /\ GateInv /\ CallbackInv /\ LeaseInv
  BY <1>1, <1>3 DEF Init, OwnerInv, GateInv, CallbackInv, LeaseInv, NoOperation
<1>6. ReportingInv
  <2>1. Reporters = {}
    BY <1>1, <1>3 DEF Reporters
  <2> QED
    BY <2>1, FS_EmptySet DEF Init, ReportingInv
<1>7. CounterInv
  BY <1>1, <1>3, ConstantsAssumption DEF Init, CounterInv, Running
<1> QED
  BY <1>2, <1>4, <1>5, <1>6, <1>7 DEF IInv

\* Every step preserves the invariant.
LEMMA NextIInv == IInv /\ [Next]_vars => IInv'
<1> SUFFICES ASSUME IInv, [Next]_vars PROVE IInv'
  OBVIOUS
<1>1. ASSUME NEW p \in Procs, Admit(p) PROVE IInv'
  BY <1>1, AdmitInv, RefuseInv, TripInv DEF Admit
<1>2. ASSUME NEW p \in Procs, Step(p) PROVE IInv'
  BY <1>2, CancelInv, LatchInv, RestoreFaultInv, InvokeInv, InvokeRefusedInv,
     AnswerInv, AbandonInv, PrepareInv, PrepareDeliverInv, PrepareFailedInv,
     PreparedInv, FinishLateInv, FinishRevokedInv, FinishReadyInv,
     AwaitVerificationInv, CommitInv, FinishAdjudicationInv, CloseInv,
     ClosedInv, RecordInv, RecordDoneInv, ReturnInv DEF Step
<1>3. CASE CallbackStep
  BY <1>3, CallbackReturnInv, LateRecordInv, LateReturnInv DEF CallbackStep
<1>4. CASE WriterStep
  BY <1>4, CaptureInv, WriteInv, WriterEndInv DEF WriterStep
<1>5. CASE RecorderStep
  BY <1>5, RecorderEndInv DEF RecorderStep
<1>6. CASE TimerStep
  BY SMTT(60), <1>6, TimerFiresInv DEF TimerStep
<1>7. CASE UNCHANGED vars
  BY <1>7 DEF vars, IInv, TypeOK, CallShapes, CallShape, Candidates, OwnerInv,
     GateInv, CallbackInv, LeaseInv, ReportingInv, Reporters, CounterInv, One
<1> QED
  BY <1>1, <1>2, <1>3, <1>4, <1>5, <1>6, <1>7, DeadlinePassesInv,
     ContextDoneInv, CrashRestoreInv DEF Next

\* The inductive invariant holds in every reachable state.
THEOREM Inductive == Spec => []IInv
BY InitIInv, NextIInv, PTL DEF Spec

\* Every variable keeps its type for every ceiling of the uint64 counters:
\* commit, Adjudicate and beginOperationLocked never carry one past it, and no
\* lease or publication count goes below zero.
THEOREM TypeCorrect == Spec => []TypeOK
<1>1. IInv => TypeOK
  BY DEF IInv
<1> QED
  BY <1>1, Inductive, PTL

\* However late a callback is, its own Operation still excludes every other one.
THEOREM CallbacksOwned == Spec => []LiveCallbacksOwned
<1>1. IInv => LiveCallbacksOwned
  <2> SUFFICES ASSUME IInv PROVE LiveCallbacksOwned
    OBVIOUS
  <2>1. \A g \in callbacks : operation.id = g.op
    BY DEF IInv, CallbackInv
  <2>2. CASE callbacks = {}
    BY <2>1, <2>2, FS_EmptySet DEF LiveCallbacksOwned
  <2>3. CASE callbacks # {}
    <3>1. PICK g : g \in callbacks
      BY <2>3
    <3>2. callbacks = {g}
      BY <3>1, CallbackFacts
    <3>3. Cardinality(callbacks) = 1
      BY <3>2, FS_Singleton
    <3> QED
      BY <2>1, <3>3 DEF LiveCallbacksOwned
  <2> QED
    BY <2>2, <2>3
<1> QED
  BY <1>1, Inductive, PTL

\* Only an admission changes the identity of s.operation to another Operation's.
LEMMA IdKept ==
    ASSUME IInv, NEW op \in 0..MaxUint64
    PROVE  /\ Leased(op).id = operation.id
           /\ CallbackReturned(op).id \in {0, operation.id}
           /\ OperationReturned(op).id \in {0, operation.id}
           /\ Revoked.id = operation.id
<1>1. operation \in Operation /\ NoOperation.id = 0
  BY DEF IInv, TypeOK, NoOperation
<1>2. Leased(op).id = operation.id
  BY <1>1 DEF Leased, Operation
<1>3. CallbackReturned(op).id \in {0, operation.id}
  BY <1>1 DEF CallbackReturned, Operation
<1>4. OperationReturned(op).id \in {0, operation.id}
  BY <1>1 DEF OperationReturned, Operation
<1>5. Revoked.id = operation.id
  BY <1>1 DEF Revoked, Operation
<1> QED
  BY <1>2, <1>3, <1>4, <1>5

\* A new Operation comes only from an admission that found the Supervisor quiescent.
LEMMA NewIdAdmitted ==
    ASSUME IInv, Next, operation'.id \notin {0, operation.id}
    PROVE  Quiescent
<1>0. TypeOK /\ operation \in Operation
  BY DEF IInv, TypeOK
<1>1. ASSUME NEW p \in Procs, Admit(p) PROVE Quiescent
  <2>1. CASE Refuse(p)
    BY <1>0, <2>1 DEF Refuse, shared
  <2>2. CASE Trip(p) \/ VerifyExpired(p)
    <3>1. operation' = Revoked
      BY <2>2 DEF Trip, VerifyExpired, Report
    <3>2. Revoked.id = operation.id
      BY <1>0 DEF Revoked, Operation
    <3> QED
      BY <3>1, <3>2
  <2> QED
    BY <1>1, <2>1, <2>2
       DEF Admit, Start, Issue, IssueExhausted, Verify, Adjudicate
<1>2. ASSUME NEW p \in Procs, Step(p) PROVE Quiescent
  <2>1. call[p].op \in 0..MaxUint64 /\ call[p].change \in Change
    BY <1>0 DEF TypeOK, Call
  <2>2. CASE Cancel(p)
    BY <1>0, <2>2 DEF Cancel, Operation
  <2>3. CASE Latch(p) \/ RestoreFault(p)
    <3>1. [Revoked EXCEPT !.done = TRUE].id = operation.id
      BY <1>0 DEF Revoked, Operation
    <3> QED
      BY <2>3, <3>1 DEF Latch, RestoreFault
  <2>4. CASE Invoke(p)
    <3>1. Leased(call[p].op) \in Operation /\ Leased(call[p].op).id = operation.id
      BY <1>0, <2>1, LeasedGood
    <3>2. [Leased(call[p].op) EXCEPT !.change = call[p].change].id = operation.id
      BY <3>1 DEF Operation
    <3> QED
      BY <2>4, <3>2 DEF Invoke
  <2>5. CASE Abandon(p)
    BY <1>0, <2>5 DEF Abandon, Operation
  <2>6. CASE Prepare(p)
    BY <1>0, <2>6 DEF Prepare, Operation
  <2>7. CASE PrepareDeliver(p) \/ Close(p) \/ Record(p)
    <3>1. operation' \in {operation, Leased(call[p].op)}
      BY <2>7 DEF PrepareDeliver, Close, Record, StartWriter
    <3> QED
      BY <2>1, <3>1, IdKept
  <2>8. CASE \/ InvokeRefused(p) \/ Answer(p) \/ PrepareFailed(p) \/ Prepared(p)
             \/ FinishLate(p) \/ FinishRevoked(p) \/ RecordDone(p)
             \/ Closed(p) \/ CloseFailed(p)
    BY <2>8 DEF InvokeRefused, Answer, PrepareFailed, Prepared, FinishLate,
       FinishRevoked, RecordDone, Closed, CloseFailed, shared
  <2>9. CASE \/ FinishReady(p) \/ AwaitVerification(p) \/ Commit(p)
             \/ FinishAdjudication(p)
    <3>1. operation' = [operation EXCEPT !.done = TRUE]
      BY <2>9 DEF FinishReady, AwaitVerification, Commit, FinishAdjudication
    <3> QED
      BY <1>0, <3>1 DEF Operation
  <2>10. CASE Return(p)
    BY <2>1, <2>10, IdKept DEF Return
  <2> QED
    BY <1>2, <2>2, <2>3, <2>4, <2>5, <2>6, <2>7, <2>8, <2>9, <2>10 DEF Step
<1>3. CASE CallbackStep
  <2>1. PICK g \in callbacks : \/ \E o \in Outcomes : CallbackReturn(g, o)
                               \/ LateRecord(g) \/ LateReturn(g)
    BY <1>3 DEF CallbackStep
  <2>2. g.op \in 0..MaxUint64
    BY CallbackFacts
  <2>3. operation' \in {operation, CallbackReturned(g.op), Leased(g.op)}
    BY <2>1 DEF CallbackReturn, LateRecord, LateReturn, Release
  <2> QED
    BY <2>2, <2>3, IdKept
<1>4. CASE WriterStep
  <2>1. PICK w \in writers : \/ Capture(w) \/ Write(w)
                             \/ \E o \in {"ok", "err"} : WriterEnd(w, o)
    BY <1>4 DEF WriterStep
  <2>2. w.op \in 0..MaxUint64
    BY WriterFacts
  <2>3. operation' \in {operation, CallbackReturned(w.op)}
    BY <2>1 DEF Capture, Write, WriterEnd
  <2> QED
    BY <2>2, <2>3, IdKept
<1>5. CASE RecorderStep
  <2>1. PICK r \in recorders : RecorderEnd(r)
    BY <1>5 DEF RecorderStep
  <2>2. r.op \in 0..MaxUint64
    BY <1>0 DEF TypeOK, Reporter
  <2> QED
    BY <2>1, <2>2, IdKept DEF RecorderEnd
<1>6. CASE TimerStep
  <2>1. operation' \in {operation, Revoked}
    BY <1>6 DEF TimerStep, TimerFires, Report
  <2>2. Revoked.id = operation.id
    BY <1>0 DEF Revoked, Operation
  <2> QED
    BY <2>1, <2>2
<1>7. CASE DeadlinePasses
  BY <1>7 DEF DeadlinePasses
<1>8. CASE ContextDone
  BY <1>0, <1>8 DEF ContextDone, Operation
<1>9. CASE CrashRestore
  BY <1>9 DEF CrashRestore, NoOperation
<1> QED
  BY <1>1, <1>2, <1>3, <1>4, <1>5, <1>6, <1>7, <1>8, <1>9 DEF Next

\* An Operation is admitted only when every callback, Journal write and Recorder
\* delivery of the one before has ended and every publication is complete.
THEOREM AdmittedQuiescent == Spec => AdmissionQuiescent
<1> DEFINE A == operation'.id \notin {0, operation.id} =>
                  /\ callbacks = {} /\ writers = {} /\ recorders = {}
                  /\ \A p \in Procs : call[p].ends = None
<1>1. IInv /\ [Next]_vars => [A]_vars
  <2> SUFFICES ASSUME IInv, Next, operation'.id \notin {0, operation.id}
               PROVE  /\ callbacks = {} /\ writers = {} /\ recorders = {}
                      /\ \A p \in Procs : call[p].ends = None
    OBVIOUS
  <2>1. Quiescent
    BY NewIdAdmitted
  <2>2. /\ callbacks = {} /\ writers = {} /\ recorders = {} /\ Reporters = {}
        /\ \A q \in Procs : call[q].ends # "operation"
    BY <2>1, QuiescentFacts
  <2>3. \A q \in Procs : call[q].ends \in {None, "operation", "reporting"}
    BY DEF IInv, TypeOK, Call
  <2> QED
    BY <2>2, <2>3 DEF Reporters
<1>2. Spec => [][Next]_vars
  BY DEF Spec
<1> QED
  BY <1>1, <1>2, Inductive, PTL DEF AdmissionQuiescent

-----------------------------------------------------------------------------
\* The outcome of the call is open.
Undecided == Running \cup {"latch"}

SelectedRow(c) ==
    /\ c.row \in DOMAIN Candidates(c)
    /\ c.change.row = Candidates(c)[c.row].id
    /\ c.change.to = Candidates(c)[c.row].to

\* A call of Issue in this phase works for a row; before, it looks for one.
RowChosen(phase, row) ==
    \/ phase \in {"guard", "invariant", "postcondition", "issue"}
    \/ phase = "precondition" /\ row # None

\* The phases that each entry point goes through.
PhaseFits(api, phase) ==
    /\ api # None
    /\ api = "start" => phase = "start"
    /\ api = "adjudicate" => phase = "adjudicate"
    /\ api = "verify" => phase \in {"verify", "invariant", "postcondition", "commit"}
    /\ api = "issue" => phase \in {"precondition", "guard", "selection", "invariant",
                                   "postcondition", "commit", "issue"}

Preparing(c) == c.pc \in {"prepare", "deliver", "prepared"}

\* Locals of a call with an open outcome.
LocalShape(c) ==
    /\ PhaseFits(c.api, c.phase)
    /\ Preparing(c) => c.api = "issue" /\ c.phase = "invariant"
    /\ c.pc \in {"prepare", "deliver"} => c.done = None
    /\ c.phase = "issue" /\ c.pc \in {"invoke", "wait"} => c.left = 1
    /\ c.pc = "latch" /\ (c.api = "verify") => c.uncertain
    /\ c.api = "issue" =>
          /\ c.change.event \in Events
          /\ RowChosen(c.phase, c.change.row) => SelectedRow(c)
          /\ Preparing(c) \/ c.phase = "issue" => Candidates(c)[c.row].external

\* Two Changes of one Attempt: they may differ in the row.
SameAttempt(a, b) ==
    a.inc = b.inc /\ a.seq = b.seq /\ a.rev = b.rev /\ a.from = b.from /\ a.event = b.event

\* From c to d a call has gone on by an answer, or has failed.
Follows(c, d) ==
    /\ d.pc \in {"invoke", "prepare", "finish", "latch"}
    /\ LocalShape(d)
    /\ d.api = c.api
    /\ SameAttempt(d.change, c.change)
    /\ c.api # "issue" \/ c.phase = "issue" => d.change = c.change
    /\ c.phase = "issue" <=> d.phase = "issue"
    /\ c.phase = "issue" => d.pc = "finish" \/ (d.pc = "latch" /\ d.uncertain)

-----------------------------------------------------------------------------
(* Locals. *)

\* A callback list that fits the call follows what the call did before.
LEMMA EnterFollows ==
    ASSUME NEW c \in Call, LocalShape(c), NEW phase \in Phases \ {"issue"}, NEW n \in Nat,
           PhaseFits(c.api, phase), c.phase # "issue",
           c.api = "issue" /\ RowChosen(phase, c.change.row) => SelectedRow(c)
    PROVE  Follows(c, Enter(c, phase, n))
<1> DEFINE d == Enter(c, phase, n)
<1>1. /\ d.pc = "invoke" /\ d.phase = phase /\ d.row = c.row /\ d.change = c.change
      /\ d.api = c.api
  BY DEF Enter, Call
<1> HIDE DEF d
<1>2. SelectedRow(c) => SelectedRow(d)
  BY <1>1 DEF SelectedRow, Candidates
<1>3. LocalShape(d)
  BY <1>1, <1>2 DEF LocalShape, Preparing
<1> QED
  BY <1>1, <1>3 DEF Follows, SameAttempt, d

\* So does a failure with the uncertainty that latchResult is given.
LEMMA FailFollows ==
    ASSUME NEW c \in Call, LocalShape(c), NEW cause
    PROVE  Follows(c, Fail(c, cause, Uncertain(c)))
<1> DEFINE d == Fail(c, cause, Uncertain(c))
<1>1. /\ d.pc = "latch" /\ d.phase = c.phase /\ d.change = c.change /\ d.api = c.api
      /\ d.uncertain = Uncertain(c) /\ d.row = c.row
  BY DEF Fail, Call
<1>2. (c.api = "verify") \/ (c.phase = "issue") => Uncertain(c)
  BY DEF Uncertain
<1> HIDE DEF d
<1>3. LocalShape(d)
  BY <1>1, <1>2 DEF LocalShape, Preparing, SelectedRow, Candidates
<1> QED
  BY <1>1, <1>2, <1>3 DEF Follows, SameAttempt, d

\* A row that is selected leads to its callbacks.
LEMMA SelectedFollows ==
    ASSUME NEW c \in Call, LocalShape(c), c.api = "issue", c.phase # "issue", SelectedRow(c)
    PROVE  Follows(c, Selected(c))
<1>1. Candidates(c) \in Seq(Row)
  BY ConstantsAssumption DEF Candidates, Call, Change, LocalShape
<1>2. Candidates(c)[c.row] \in Row
  BY <1>1 DEF SelectedRow
<1>3. Checks \in Nat /\ Candidates(c)[c.row].preconditions \in Nat
  BY <1>2, ConstantsAssumption DEF Row
<1>4. \A phase \in {"precondition", "invariant"} : phase \in Phases \ {"issue"}
                                                  /\ PhaseFits(c.api, phase)
  BY DEF Phases, PhaseFits, None
<1>5. \A phase \in {"precondition", "invariant"}, n \in Nat : Follows(c, Enter(c, phase, n))
  BY <1>4, EnterFollows
<1> QED
  BY <1>3, <1>5 DEF Selected

\* The row loop goes on under the same Attempt.
LEMMA ConsiderFollows ==
    ASSUME NEW c \in Call, LocalShape(c), c.api = "issue", c.phase # "issue",
           c.pc = "wait", NEW i \in Nat \ {0}
    PROVE  Follows(c, Consider(c, i))
<1>1. Candidates(c) \in Seq(Row) /\ c.change.event \in Events /\ c.change \in Change
  BY ConstantsAssumption DEF Candidates, Call, Change, LocalShape
<1>2. CASE i > Len(Candidates(c))
  <2> DEFINE d == [c EXCEPT !.pc = "finish", !.phase = "selection", !.row = 0,
                            !.done = None, !.change.row = None,
                            !.change.to = c.change.from]
  <2>1. d.pc = "finish" /\ d.phase = "selection" /\ d.api = c.api
    BY DEF Call
  <2>2. SameAttempt(d.change, c.change)
    BY <1>1 DEF Call, Change, SameAttempt
  <2>3. Consider(c, i) = d
    BY <1>2 DEF Consider
  <2> HIDE DEF d
  <2>4. LocalShape(d)
    BY <1>1, <2>1, <2>2 DEF LocalShape, Preparing, RowChosen, PhaseFits, SameAttempt, None
  <2> QED
    BY <2>1, <2>2, <2>3, <2>4 DEF Follows
<1>3. CASE ~(i > Len(Candidates(c)))
  <2> DEFINE d == [c EXCEPT !.row = i, !.change.row = Candidates(c)[i].id,
                            !.change.to = Candidates(c)[i].to]
  <2>1. i \in DOMAIN Candidates(c)
    BY <1>1, <1>3
  <2>2. Candidates(c)[i] \in Row
    BY <1>1, <2>1
  <2>3. Candidates(c)[i].id \in RowIds /\ Candidates(c)[i].to \in States
    BY <2>2 DEF Row
  <2>4. d \in Call
    BY <2>3 DEF Call, Change
  <2>5. /\ d.row = i /\ d.api = c.api /\ d.phase = c.phase /\ d.pc = c.pc
        /\ d.change.row = Candidates(c)[i].id /\ d.change.to = Candidates(c)[i].to
    BY <1>1 DEF Call, Change
  <2>6. SameAttempt(d.change, c.change)
    BY <1>1 DEF Call, Change, SameAttempt
  <2>7. Consider(c, i) = IF Candidates(c)[i].guarded THEN Enter(d, "guard", 1)
                                                     ELSE Selected(d)
    BY <1>3 DEF Consider
  <2> HIDE DEF d
  <2>8. Candidates(d) = Candidates(c)
    BY <2>6 DEF Candidates, SameAttempt
  <2>9. SelectedRow(d)
    BY <2>1, <2>5, <2>8 DEF SelectedRow
  <2>10. LocalShape(d)
    BY <1>1, <2>5, <2>6, <2>9 DEF LocalShape, Preparing, SameAttempt
  <2>11. Follows(d, Selected(d))
    BY <2>4, <2>5, <2>9, <2>10, SelectedFollows
  <2>12. Follows(d, Enter(d, "guard", 1))
    <3>1. "guard" \in Phases \ {"issue"} /\ PhaseFits(d.api, "guard")
      BY <2>5 DEF Phases, PhaseFits, None
    <3> QED
      BY <2>4, <2>5, <2>9, <2>10, <3>1, EnterFollows
  <2>13. Follows(d, Consider(c, i))
    BY <2>7, <2>11, <2>12
  <2> QED
    BY <2>5, <2>6, <2>13 DEF Follows, SameAttempt
<1> QED
  BY <1>2, <1>3

\* The end of a callback list leads to what follows it under the same Attempt.
LEMMA AdvanceFollows ==
    ASSUME NEW c \in Call, LocalShape(c), c.pc = "wait"
    PROVE  Follows(c, Advance(c))
<1>1. Checks \in Nat /\ 1 \in Nat \ {0}
  BY ConstantsAssumption
<1>2. CASE c.phase = "precondition" /\ c.change.row = None
  <2>1. c.api = "issue"
    BY <1>2 DEF LocalShape, PhaseFits, Call
  <2> QED
    BY <1>1, <1>2, <2>1, ConsiderFollows DEF Advance
<1>3. CASE c.phase = "guard"
  <2>1. c.api = "issue" /\ SelectedRow(c)
    BY <1>3 DEF LocalShape, PhaseFits, Call, RowChosen
  <2> QED
    BY <1>3, <2>1, SelectedFollows DEF Advance
<1>4. CASE (c.phase = "precondition" /\ c.change.row # None) \/ c.phase = "verify"
  <2>1. PhaseFits(c.api, "invariant") /\ "invariant" \in Phases \ {"issue"}
    BY <1>4 DEF LocalShape, PhaseFits, Call, Phases
  <2>2. c.api = "issue" => SelectedRow(c)
    BY <1>4 DEF LocalShape, RowChosen, PhaseFits
  <2> QED
    BY <1>1, <1>4, <2>1, <2>2, EnterFollows DEF Advance
<1>5. CASE c.phase = "invariant"
  <2>1. CASE c.api = "issue" /\ Candidates(c)[c.row].external
    <3> DEFINE d == [c EXCEPT !.pc = "prepare", !.done = None]
    <3>1. /\ d.pc = "prepare" /\ d.phase = c.phase /\ d.row = c.row
          /\ d.change = c.change /\ d.api = c.api /\ d.done = None
      BY DEF Call
    <3>2. Advance(c) = d
      BY <1>5, <2>1 DEF Advance
    <3> HIDE DEF d
    <3>3. LocalShape(d)
      BY <1>5, <2>1, <3>1 DEF LocalShape, Preparing, SelectedRow, Candidates
    <3> QED
      BY <1>5, <3>1, <3>2, <3>3 DEF Follows, SameAttempt
  <2>2. CASE ~(c.api = "issue" /\ Candidates(c)[c.row].external)
    <3>1. PhaseFits(c.api, "postcondition") /\ "postcondition" \in Phases \ {"issue"}
      BY <1>5 DEF LocalShape, PhaseFits, Call, Phases
    <3>2. c.api = "issue" => SelectedRow(c)
      BY <1>5 DEF LocalShape, RowChosen
    <3>3. Advance(c) = Enter(c, "postcondition", Checks)
      BY <1>5, <2>2 DEF Advance
    <3> QED
      BY <1>1, <1>5, <3>1, <3>2, <3>3, EnterFollows
  <2> QED
    BY <2>1, <2>2
<1>6. CASE c.phase = "postcondition"
  <2> DEFINE d == [c EXCEPT !.pc = "finish", !.phase = "commit", !.done = None]
  <2>1. /\ d.pc = "finish" /\ d.phase = "commit" /\ d.row = c.row
        /\ d.change = c.change /\ d.api = c.api
    BY DEF Call
  <2>2. Advance(c) = d
    BY <1>6 DEF Advance
  <2> HIDE DEF d
  <2>3. LocalShape(d)
    BY <1>6, <2>1 DEF LocalShape, Preparing, PhaseFits, RowChosen
  <2> QED
    BY <1>6, <2>1, <2>2, <2>3 DEF Follows, SameAttempt
<1>7. CASE c.phase \notin {"precondition", "guard", "verify", "invariant", "postcondition"}
  <2> DEFINE d == [c EXCEPT !.pc = "finish", !.done = None]
  <2>1. /\ d.pc = "finish" /\ d.phase = c.phase /\ d.row = c.row
        /\ d.change = c.change /\ d.api = c.api
    BY DEF Call
  <2>2. Advance(c) = d
    BY <1>7 DEF Advance
  <2> HIDE DEF d
  <2>3. LocalShape(d)
    BY <2>1 DEF LocalShape, Preparing, SelectedRow, Candidates
  <2> QED
    BY <2>1, <2>2, <2>3 DEF Follows, SameAttempt
<1> QED
  BY <1>2, <1>3, <1>4, <1>5, <1>6, <1>7

\* So does the answer of a callback.
LEMMA AnsweredFollows ==
    ASSUME NEW c \in Call, LocalShape(c), c.pc = "wait"
    PROVE  Follows(c, Answered(c))
<1>1. c.left > 1 => Follows(c, Enter(c, c.phase, c.left - 1))
  <2>1. c.left > 1 => c.left - 1 \in Nat /\ c.phase \in Phases \ {"issue"}
    BY DEF Call, LocalShape
  <2>2. PhaseFits(c.api, c.phase)
        /\ (c.api = "issue" /\ RowChosen(c.phase, c.change.row) => SelectedRow(c))
    BY DEF LocalShape
  <2> QED
    BY <2>1, <2>2, EnterFollows
<1>2. Follows(c, Advance(c))
  BY AdvanceFollows
<1>3. c.phase = "guard" => Follows(c, Consider(c, c.row + 1))
  <2>1. c.row + 1 \in Nat \ {0} /\ (c.phase = "guard" => c.api = "issue")
    BY DEF Call, LocalShape, PhaseFits
  <2> QED
    BY <2>1, ConsiderFollows
<1>4. Follows(c, Fail(c, "callback", Uncertain(c)))
  BY FailFollows
<1> QED
  BY <1>1, <1>2, <1>3, <1>4 DEF Answered

-----------------------------------------------------------------------------
(* The call that decides. *)

\* The outcome of the call of p is open and its Operation was not revoked.
Deciding(p) == call[p].pc \in Undecided /\ ~operation.revoked

\* An adjudication runs exactly under a latched Fault and a Verify exactly over
\* a pending Change; op.issued is set from the preparation of an external Issue on.
Decides(c, o, f, n) ==
    /\ LocalShape(c)
    /\ (c.api = "adjudicate") <=> f.latched
    /\ (c.api = "verify") <=> n.live
    /\ n.live => c.change = n.change
    /\ Identifier(o.change) = Identifier(c.change)
    /\ o.issued <=> c.api = "issue" /\ (c.pc \in {"deliver", "prepared"} \/ c.phase = "issue")
    /\ o.issued => o.change = c.change

\* The Change of an Issue is drawn from the state it was admitted in.
Current(c, s, r, a, i) ==
    c.api = "issue" =>
        /\ c.change.from = s /\ c.change.rev = r
        /\ (c.pc # "latch") \/ (c.phase = "issue") =>
              c.change.seq = a /\ a # 0 /\ c.change.inc = i

DecidingInv == \A p \in Procs : Deciding(p) =>
    /\ Decides(call[p], operation, fault, pending)
    /\ Current(call[p], state, revision, attempt, incarnation)

ModeInv ==
    /\ mode = "executing" <=> \E p \in Procs : Deciding(p)
    /\ mode = "faulted" => fault.latched
    /\ fault.latched => mode \in {"faulted", "executing"}
    /\ pending.live => mode \in {"awaiting", "executing"}
    /\ mode = "awaiting" => pending.live
    /\ mode = "executing" => reporting = 0

\* The Journal is closed only for a call that holds the Supervisor.
ClosingInv == \A p \in Procs : call[p].pc = "close" => call[p].ends # None

FaultInv == DecidingInv /\ ModeInv /\ ClosingInv

\* The call that decides owns s.operation, and there is one such call.
LEMMA DecidingFacts ==
    ASSUME IInv, NEW p \in Procs, Deciding(p)
    PROVE  /\ call[p] \in Call /\ call[p].ends = "operation"
           /\ operation.id # 0 /\ call[p].op = operation.id /\ Owns(call[p].op)
           /\ ~operation.returned
           /\ \A q \in Procs : call[q].pc \in Undecided => q = p
BY DEF IInv, TypeOK, CallShapes, CallShape, OwnerInv, Deciding, Undecided, Owns

\* A call that works for an Operation it still owns decides.
LEMMA OwnerDecides ==
    ASSUME IInv, NEW p \in Procs, call[p].pc \in Undecided
    PROVE  Owns(call[p].op) <=> Deciding(p)
BY DEF IInv, CallShapes, CallShape, OwnerInv, Deciding, Undecided, Owns

\* Under FaultInv it decides exactly when invoke and the outcomes let it go on.
LEMMA DecidingRuns ==
    ASSUME IInv, FaultInv, NEW p \in Procs, call[p].pc \in Undecided
    PROVE  MayRun(call[p]) <=> Deciding(p)
BY OwnerDecides DEF FaultInv, ModeInv, MayRun

\* Nobody decides while a publication or a closure of the Journal is under way.
LEMMA PublishingFacts ==
    ASSUME IInv, FaultInv, NEW p \in Procs
    PROVE  /\ call[p].ends = "reporting" => reporting # 0 /\ mode # "executing"
           /\ call[p].pc = "close" => \A q \in Procs : ~Deciding(q)
<1>1. call[p].ends = "reporting" => reporting # 0
  <2>1. IsFiniteSet(Procs)
    BY ConstantsAssumption, FS_AddElement DEF Procs
  <2>2. IsFiniteSet(Reporters)
    BY <2>1, FS_Subset DEF Reporters
  <2>3. call[p].ends = "reporting" => Reporters # {}
    BY DEF Reporters
  <2> QED
    BY <2>2, <2>3, FS_EmptySet DEF IInv, ReportingInv
<1>2. call[p].ends = "reporting" => mode # "executing"
  BY <1>1 DEF FaultInv, ModeInv
<1>3. ASSUME call[p].pc = "close", NEW q \in Procs, Deciding(q) PROVE FALSE
  <2>1. call[q].ends = "operation" /\ mode = "executing" /\ call[q].pc # "close"
    BY <1>3, DecidingFacts DEF FaultInv, ModeInv, Deciding, Undecided, Running
  <2>2. call[p].ends \in {"operation", "reporting"}
    BY <1>3 DEF FaultInv, ClosingInv, IInv, TypeOK, Call
  <2>3. call[p].ends = "operation" => p = q
    BY <2>1 DEF IInv, OwnerInv
  <2> QED
    BY <1>2, <1>3, <2>1, <2>2, <2>3
<1> QED
  BY <1>1, <1>2, <1>3

-----------------------------------------------------------------------------
(* Steps that leave the call that decides where it is. *)

SameLocals(c, d) ==
    /\ d.pc = c.pc /\ d.api = c.api /\ d.phase = c.phase /\ d.left = c.left
    /\ d.row = c.row /\ d.change = c.change /\ d.uncertain = c.uncertain
    /\ d.op = c.op
    /\ c.pc \in {"prepare", "deliver"} => d.done = c.done

Keeps(o) ==
    /\ o.id = operation.id /\ o.change = operation.change
    /\ o.issued = operation.issued /\ o.revoked = operation.revoked

\* The Journal goroutine moves on, or a new one starts while nobody decides, or
\* neither it nor the disk nor the answer it owes to the call that decides changes.
WriterMoves(w) == Capture(w) \/ Write(w) \/ \E o \in {"ok", "err"} : WriterEnd(w, o)
JournalMoves ==
    \/ \E w \in writers : WriterMoves(w)
    \/ /\ \A p \in Procs : ~Deciding(p)
       /\ disk' = disk /\ \A w \in writers' \ writers : w.step = "new"
    \/ /\ UNCHANGED <<writers, disk>>
       /\ \A p \in Procs : Deciding(p) /\ call[p].pc # "wait" => call'[p].done = call[p].done

Bystanding ==
    /\ UNCHANGED <<mode, committed, identities, fault, ghosts>>
    /\ pending' \in {pending, [pending EXCEPT !.expired = TRUE]}
    /\ \A p \in Procs : Deciding(p) <=> Deciding(p)'
    /\ \A p \in Procs : Deciding(p) => SameLocals(call[p], call'[p]) /\ Keeps(operation')
    /\ \A p \in Procs : call'[p].pc = "close" => call'[p].ends # None
    /\ reporting' = reporting \/ mode # "executing"
    /\ operation'.issued => operation.issued
    /\ JournalMoves

\* Such a step disturbs nothing of FaultInv.
LEMMA BystandingFault ==
    ASSUME IInv, FaultInv, Bystanding PROVE FaultInv'
<1>1. pending'.live = pending.live /\ pending'.change = pending.change
  BY DEF Bystanding, IInv, TypeOK, Pending
<1>2. UNCHANGED <<mode, state, revision, attempt, incarnation, fault>>
  BY DEF Bystanding, committed, identities
<1>3. ASSUME NEW p \in Procs, Deciding(p)'
      PROVE  /\ Decides(call'[p], operation', fault', pending')
             /\ Current(call'[p], state', revision', attempt', incarnation')
  <2>1. Deciding(p) /\ SameLocals(call[p], call'[p]) /\ Keeps(operation')
    BY <1>3 DEF Bystanding
  <2>2. /\ Decides(call[p], operation, fault, pending)
        /\ Current(call[p], state, revision, attempt, incarnation)
    BY SMTT(60), <2>1 DEF FaultInv, DecidingInv
  <2>3. LocalShape(call'[p])
    BY <2>1, <2>2 DEF Decides, SameLocals, LocalShape, Preparing, SelectedRow, Candidates
  <2>4. Decides(call'[p], operation', fault', pending')
    BY <1>1, <1>2, <2>1, <2>2, <2>3 DEF Decides, SameLocals, Keeps, Identifier
  <2>5. Current(call'[p], state', revision', attempt', incarnation')
    BY <1>2, <2>1, <2>2 DEF Current, SameLocals
  <2> QED
    BY <2>4, <2>5
<1>4. DecidingInv'
  BY <1>3 DEF DecidingInv
<1>5. ModeInv'
  BY <1>1, <1>2 DEF FaultInv, ModeInv, Bystanding
<1>6. ClosingInv'
  BY DEF ClosingInv, Bystanding
<1> QED
  BY <1>4, <1>5, <1>6 DEF FaultInv

\* Leases, cancellations and releases keep what the call that decides relies on.
LEMMA KeepsGood ==
    ASSUME operation \in Operation, NEW op \in 0..MaxUint64
    PROVE  /\ Keeps(operation) /\ Keeps(Leased(op))
           /\ Keeps([operation EXCEPT !.done = TRUE])
           /\ Keeps([operation EXCEPT !.abandoned = TRUE])
           /\ Keeps(CallbackReturned(op)) \/ operation.returned
<1>1. Keeps(operation) /\ Keeps(Leased(op))
  BY DEF Keeps, Leased, Operation
<1>2. Keeps([operation EXCEPT !.done = TRUE]) /\ Keeps([operation EXCEPT !.abandoned = TRUE])
  BY DEF Keeps, Operation
<1>3. Keeps(CallbackReturned(op)) \/ operation.returned
  BY DEF Keeps, CallbackReturned, Operation
<1> QED
  BY <1>1, <1>2, <1>3

\* A step of a call that does not decide, and does not start to.
LEMMA BystandCall ==
    ASSUME IInv, NEW p \in Procs, NEW d, call' = [call EXCEPT ![p] = d],
           ~Deciding(p), d.pc \notin Undecided \/ operation'.revoked,
           \/ Keeps(operation') \/ \A q \in Procs \ {p} : call[q].pc \notin Undecided,
           operation'.issued => operation.issued,
           UNCHANGED <<execution, ghosts>>, ClosingInv, (d.pc = "close") => d.ends # None,
           reporting' = reporting \/ mode # "executing", disk' = disk,
           \/ writers' = writers
           \/ /\ \A q \in Procs : ~Deciding(q)
              /\ \A w \in writers' \ writers : w.step = "new"
    PROVE  Bystanding
<1>1. call'[p] = d /\ \A q \in Procs \ {p} : call'[q] = call[q]
  BY CallUpdated DEF IInv, TypeOK
<1>2. ~Deciding(p)'
  BY <1>1 DEF Deciding
<1>3. \A q \in Procs \ {p} : Deciding(q) <=> Deciding(q)'
  BY <1>1 DEF Deciding, Keeps
<1>4. \A q \in Procs : Deciding(q) => SameLocals(call[q], call'[q]) /\ Keeps(operation')
  BY <1>1 DEF Deciding, SameLocals
<1>5. \A q \in Procs : call'[q].pc = "close" => call'[q].ends # None
  BY <1>1 DEF ClosingInv
<1>6. \A q \in Procs : Deciding(q) => call'[q].done = call[q].done
  BY <1>1
<1>7. JournalMoves
  BY <1>6 DEF JournalMoves
<1> QED
  BY <1>2, <1>3, <1>4, <1>5, <1>7 DEF Bystanding, execution

\* A step of a goroutine, a timer or the clock moves no call.
LEMMA BystandGoroutine ==
    ASSUME IInv, \A q \in Procs : SameLocals(call[q], call'[q]),
           Keeps(operation') \/ operation.returned, operation'.issued => operation.issued,
           UNCHANGED <<mode, committed, identities, fault, ghosts>>,
           pending' \in {pending, [pending EXCEPT !.expired = TRUE]},
           ClosingInv, \A q \in Procs : call'[q].ends = call[q].ends,
           reporting' = reporting, JournalMoves
    PROVE  Bystanding
<1>1. operation.returned => \A q \in Procs : call[q].pc \notin Undecided
  BY DEF IInv, CallShapes, CallShape, OwnerInv, Undecided
<1>2. \A q \in Procs : Deciding(q) <=> Deciding(q)'
  BY <1>1 DEF Deciding, SameLocals, Keeps
<1>3. \A q \in Procs : Deciding(q) => Keeps(operation')
  BY <1>1 DEF Deciding
<1>4. \A q \in Procs : call'[q].pc = "close" => call'[q].ends # None
  BY DEF ClosingInv, SameLocals
<1> QED
  BY <1>2, <1>3, <1>4 DEF Bystanding

\* A step of a publication: what is left of the public call decides nothing.
LEMMA BystandPublication ==
    ASSUME IInv, FaultInv, NEW p \in Procs,
           \/ Refuse(p) \/ Cancel(p) \/ Close(p) \/ Closed(p) \/ CloseFailed(p)
           \/ Record(p) \/ RecordDone(p) \/ Return(p)
    PROVE  Bystanding
<1> DEFINE c == call[p]
<1>1. c \in Call /\ operation \in Operation /\ c.op \in 0..MaxUint64
  BY DEF IInv, TypeOK, Call
<1>2. c.pc \notin Undecided
  BY DEF Refuse, Idle, Cancel, Close, Closed, CloseFailed, Record, RecordDone, Return,
     Undecided, Running
<1>3. ~Deciding(p)
  BY <1>2 DEF Deciding
<1>4. UNCHANGED <<execution, ghosts>>
  BY DEF Refuse, Cancel, Close, Closed, CloseFailed, Record, RecordDone, Return, shared,
     rest, core, execution, counters, identities
<1>5. /\ Keeps(operation') \/ \A q \in Procs \ {p} : call[q].pc \notin Undecided
      /\ operation'.issued => operation.issued
  <2>1. CASE Return(p)
    <3>1. CASE c.ends = "operation"
      <4>1. operation'.issued => operation.issued
        BY <1>1, <2>1, <3>1 DEF Return, OperationReturned, NoOperation, Operation
      <4> QED
        BY <1>1, <3>1, <4>1 DEF IInv, CallShapes, CallShape, OwnerInv, Undecided
    <3>2. CASE c.ends # "operation"
      BY <1>1, <2>1, <3>2, KeepsGood DEF Return, Keeps
    <3> QED
      BY <3>1, <3>2
  <2>2. CASE ~Return(p)
    <3>1. operation' \in {operation, Leased(c.op), [operation EXCEPT !.done = TRUE]}
      BY <2>2 DEF Refuse, Cancel, Close, Closed, CloseFailed, Record, RecordDone, shared,
         StartWriter
    <3> QED
      BY <1>1, <3>1, KeepsGood DEF Keeps
  <2> QED
    BY <2>1, <2>2
<1>6. PICK d : /\ call' = [call EXCEPT ![p] = d] /\ d.pc \notin Undecided
               /\ (d.pc = "close") => d.ends # None
  <2>1. \A b \in BOOLEAN : /\ Published(c.op, c.ends, b).pc \notin Undecided
                           /\ Published(c.op, c.ends, b).ends = c.ends
    BY <1>1, PublishedFrom DEF Undecided, Running
  <2>2. CASE Refuse(p)
    <3>1. Published(0, None, FALSE).pc \in {"record", "return"}
      BY DEF Published, IdleCall
    <3>2. c.pc = "idle" /\ call = [call EXCEPT ![p] = c]
      BY <2>2 DEF Refuse, Idle, IInv, TypeOK
    <3>3. CASE Recorder
      BY <2>2, <3>1, <3>3 DEF Refuse, Undecided, Running
    <3>4. CASE ~Recorder
      BY <2>2, <3>2, <3>4 DEF Refuse, Undecided, Running
    <3> QED
      BY <3>3, <3>4
  <2>3. CASE Cancel(p)
    <3>1. c.ends = "reporting" /\ c.durable \in BOOLEAN
      BY <1>1, <2>3 DEF Cancel, IInv, CallShapes, CallShape, Call
    <3> QED
      BY <2>1, <2>3, <3>1 DEF Cancel, Publish, None
  <2>4. CASE Close(p)
    <3>1. CASE journalRunning
      <4> DEFINE d == [c EXCEPT !.pc = "closing", !.done = "err"]
      <4>1. call' = [call EXCEPT ![p] = d]
        BY <2>4, <3>1 DEF Close
      <4>2. d.pc \notin Undecided /\ d.pc # "close"
        BY <1>1 DEF Call, Undecided, Running
      <4> QED
        BY <4>1, <4>2
    <3>2. CASE ~journalRunning
      <4> DEFINE d == [c EXCEPT !.pc = "closing"]
      <4>1. call' = [call EXCEPT ![p] = d]
        BY <2>4, <3>2 DEF Close
      <4>2. d.pc \notin Undecided /\ d.pc # "close"
        BY <1>1 DEF Call, Undecided, Running
      <4> QED
        BY <4>1, <4>2
    <3> QED
      BY <3>1, <3>2
  <2>5. CASE Closed(p) \/ CloseFailed(p)
    <3>1. \A n \in {1, 2} : ToRecord(c, n).pc \notin Undecided \cup {"close"}
      BY <1>1 DEF ToRecord, Call, Undecided, Running
    <3> QED
      BY <2>5, <3>1 DEF Closed, CloseFailed
  <2>6. Recorded(c).pc \notin Undecided \cup {"close"}
    BY <1>1 DEF Recorded, Call, Undecided, Running
  <2>7. CASE Record(p)
    <3>1. CASE recorderRunning
      BY <2>6, <2>7, <3>1 DEF Record
    <3>2. CASE ~recorderRunning
      <4> DEFINE d == [c EXCEPT !.pc = "recording"]
      <4>1. call' = [call EXCEPT ![p] = d]
        BY <2>7, <3>2 DEF Record
      <4>2. d.pc \notin Undecided /\ d.pc # "close"
        BY <1>1 DEF Call, Undecided, Running
      <4> QED
        BY <4>1, <4>2
    <3> QED
      BY <3>1, <3>2
  <2>8. CASE RecordDone(p)
    BY <2>6, <2>8 DEF RecordDone
  <2>9. CASE Return(p)
    <3>1. call' = [call EXCEPT ![p] = IdleCall]
      BY <2>9 DEF Return
    <3>2. IdleCall.pc \notin Undecided \cup {"close"}
      BY DEF IdleCall, Undecided, Running
    <3> QED
      BY <3>1, <3>2
  <2> QED
    BY <2>2, <2>3, <2>4, <2>5, <2>7, <2>8, <2>9
<1>7. reporting' = reporting \/ mode # "executing"
  <2>1. CASE Return(p)
    BY <2>1, PublishingFacts DEF Return
  <2>2. CASE ~Return(p)
    BY <2>2 DEF Refuse, Cancel, Close, Closed, CloseFailed, Record, RecordDone, shared, rest
  <2> QED
    BY <2>1, <2>2
<1>8. /\ disk' = disk
      /\ \/ writers' = writers
         \/ /\ \A q \in Procs : ~Deciding(q)
            /\ \A w \in writers' \ writers : w.step = "new"
  <2>1. CASE Close(p)
    BY <2>1, PublishingFacts DEF Close, StartWriter, rest, durable, delivery
  <2>2. CASE ~Close(p)
    BY <2>2 DEF Refuse, Cancel, Return, Closed, CloseFailed, Record, RecordDone, shared,
       rest, durable, delivery
  <2> QED
    BY <2>1, <2>2
<1> HIDE DEF c
<1> QED
  BY <1>3, <1>4, <1>5, <1>6, <1>7, <1>8, BystandCall DEF FaultInv

\* A call whose Operation was revoked goes on without a say, until it publishes.
LEMMA BystandRevoked ==
    ASSUME IInv, FaultInv, NEW p \in Procs, ~Deciding(p),
           \/ Latch(p) \/ RestoreFault(p) \/ FinishRevoked(p) \/ InvokeRefused(p)
           \/ Answer(p) \/ Abandon(p) \/ PrepareDeliver(p) \/ Prepare(p)
           \/ PrepareFailed(p) \/ Prepared(p) \/ FinishLate(p)
    PROVE  Bystanding
<1> DEFINE c == call[p]
<1>1. c \in Call /\ operation \in Operation /\ c.op \in 0..MaxUint64
  BY DEF IInv, TypeOK, Call
<1>2. c.pc \in Undecided
  BY DEF Latch, RestoreFault, FinishRevoked, InvokeRefused, Answer, Abandon, PrepareDeliver,
     Prepare, PrepareFailed, Prepared, FinishLate, Undecided, Running
<1>3. ~Owns(c.op) /\ ~MayRun(c) /\ operation.revoked
  BY <1>2, OwnerDecides, DecidingRuns DEF Deciding
<1>4. operation' \in {operation, Leased(c.op), [operation EXCEPT !.abandoned = TRUE]}
  BY <1>3 DEF Latch, RestoreFault, FinishRevoked, InvokeRefused, Answer, Abandon,
     PrepareDeliver, Prepare, PrepareFailed, Prepared, FinishLate, StartWriter, shared
<1>5. Keeps(operation')
  BY <1>1, <1>4, KeepsGood
<1>6. UNCHANGED <<execution, ghosts>>
  BY <1>3 DEF Latch, RestoreFault, FinishRevoked, InvokeRefused, Answer, Abandon,
     PrepareDeliver, Prepare, PrepareFailed, Prepared, FinishLate, shared, core, rest,
     execution, counters, identities
<1>7. operation'.revoked /\ (operation'.issued => operation.issued)
  BY <1>3, <1>5 DEF Keeps
<1>8. PICK d : call' = [call EXCEPT ![p] = d] /\ d.ends = c.ends
  <2>1. CASE PrepareDeliver(p)
    <3> DEFINE d == [c EXCEPT !.pc = "prepared"]
    <3>1. call' = [call EXCEPT ![p] = d] /\ d.ends = c.ends
      BY <1>1, <2>1 DEF PrepareDeliver, Call
    <3> QED
      BY <3>1
  <2>2. CASE Answer(p)
    <3>1. Continues(c, Answered(c))
      BY <1>1, <2>2, AnsweredGood DEF Answer, IInv, CallShapes
    <3> QED
      BY <2>2, <3>1 DEF Answer, Continues
  <2>3. CASE Latch(p) \/ RestoreFault(p) \/ FinishRevoked(p)
    <3>1. Published(c.op, c.ends, FALSE).ends = c.ends
      BY <1>1, PublishedFrom
    <3> QED
      BY <1>3, <2>3, <3>1 DEF Latch, RestoreFault, FinishRevoked, Publish
  <2>4. CASE \/ InvokeRefused(p) \/ Abandon(p) \/ Prepare(p) \/ PrepareFailed(p)
             \/ Prepared(p) \/ FinishLate(p)
    <3>1. /\ Fail(c, "callback", Uncertain(c)).ends = c.ends
          /\ Fail([c EXCEPT !.phase = "issue"], "journal", FALSE).ends = c.ends
          /\ Enter(c, "issue", 1).ends = c.ends
      BY <1>1 DEF Fail, Enter, Call
    <3> QED
      BY <1>3, <2>4, <3>1 DEF InvokeRefused, Abandon, Prepare, PrepareFailed, Prepared,
         FinishLate
  <2> QED
    BY <2>1, <2>2, <2>3, <2>4
<1>9. d.ends # None
  BY <1>2, <1>8 DEF IInv, CallShapes, CallShape, Undecided, None
<1>10. reporting' = reporting
  BY <1>3 DEF Latch, RestoreFault, FinishRevoked, InvokeRefused, Answer, Abandon,
     PrepareDeliver, Prepare, PrepareFailed, Prepared, FinishLate, shared, rest
<1>11. /\ disk' = disk
       /\ \/ writers' = writers
          \/ \A w \in writers' \ writers : w.step = "new"
  <2>1. CASE PrepareDeliver(p)
    BY <2>1 DEF PrepareDeliver, StartWriter, rest, durable
  <2>2. CASE ~PrepareDeliver(p)
    BY <2>2 DEF Latch, RestoreFault, FinishRevoked, InvokeRefused, Answer, Abandon, Prepare,
       PrepareFailed, Prepared, FinishLate, shared, rest, durable, delivery
  <2> QED
    BY <2>1, <2>2
<1>12. \A q \in Procs : ~Deciding(q)
  BY <1>3 DEF Deciding
<1> HIDE DEF c
<1> QED
  BY <1>5, <1>6, <1>7, <1>8, <1>9, <1>10, <1>11, <1>12, BystandCall DEF FaultInv

\* A goroutine of the application that ends, or moves on, decides nothing either.
LEMMA BystandAdapters ==
    ASSUME IInv, FaultInv, CallbackStep \/ WriterStep \/ RecorderStep
    PROVE  Bystanding
<1>1. operation \in Operation /\ call \in [Procs -> Call]
  BY DEF IInv, TypeOK
<1>2. PICK p \in Procs, op \in 0..MaxUint64 :
         /\ operation' \in {operation, Leased(op), CallbackReturned(op)}
         /\ \/ call' = call
            \/ /\ call[p].pc \in {"wait", "prepared", "closing"}
               /\ \E o : call' = [call EXCEPT ![p].done = o]
         /\ \/ WriterStep
            \/ UNCHANGED <<writers, disk>> /\ (call' = call \/ call[p].pc = "wait")
  <2>1. CASE CallbackStep
    <3>1. PICK g \in callbacks : \/ \E o \in Outcomes : CallbackReturn(g, o)
                                 \/ LateRecord(g) \/ LateReturn(g)
      BY <2>1 DEF CallbackStep
    <3>2. g.op \in 0..MaxUint64 /\ g.proc \in Procs
      BY CallbackFacts
    <3>3. operation' \in {operation, Leased(g.op), CallbackReturned(g.op)}
      BY <3>1 DEF CallbackReturn, LateRecord, LateReturn, Release
    <3>4. \/ call' = call
          \/ /\ call[g.proc].pc = "wait"
             /\ \E o : call' = [call EXCEPT ![g.proc].done = o]
      BY <3>1 DEF CallbackReturn, LateRecord, LateReturn, Release
    <3>5. UNCHANGED <<writers, disk>>
      BY <3>1 DEF CallbackReturn, LateRecord, LateReturn, Release, rest, durable, delivery
    <3> QED
      BY <3>2, <3>3, <3>4, <3>5
  <2>2. CASE WriterStep
    <3>1. PICK w \in writers : \/ Capture(w) \/ Write(w)
                               \/ \E o \in {"ok", "err"} : WriterEnd(w, o)
      BY <2>2 DEF WriterStep
    <3>2. w.op \in 0..MaxUint64 /\ w.proc \in Procs
      BY WriterFacts
    <3>3. operation' \in {operation, CallbackReturned(w.op)}
      BY <3>1 DEF Capture, Write, WriterEnd
    <3>4. \/ call' = call
          \/ /\ call[w.proc].pc \in {"prepared", "closing"}
             /\ \E o : call' = [call EXCEPT ![w.proc].done = o]
      BY <3>1 DEF Capture, Write, WriterEnd
    <3> QED
      BY <2>2, <3>2, <3>3, <3>4
  <2>3. CASE RecorderStep
    <3>1. PICK r \in recorders : RecorderEnd(r)
      BY <2>3 DEF RecorderStep
    <3>2. r.op \in 0..MaxUint64 /\ r.proc \in Procs
      BY DEF IInv, TypeOK, Reporter
    <3>3. operation' = CallbackReturned(r.op) /\ call' = call /\ UNCHANGED <<writers, disk>>
      BY <3>1 DEF RecorderEnd, rest, durable
    <3> QED
      BY <3>2, <3>3
  <2> QED
    BY <2>1, <2>2, <2>3
<1>3. /\ Keeps(operation') \/ operation.returned
      /\ operation'.issued => operation.issued
  <2>1. /\ Keeps(operation') \/ operation.returned
        /\ Leased(op).issued = operation.issued
    BY <1>1, <1>2, KeepsGood DEF Keeps
  <2>2. CallbackReturned(op).issued => operation.issued
    BY <1>1 DEF CallbackReturned, NoOperation, Operation
  <2> QED
    BY <1>2, <2>1, <2>2
<1>4. \A q \in Procs : SameLocals(call[q], call'[q]) /\ call'[q].ends = call[q].ends
  BY <1>1, <1>2 DEF SameLocals, Call
<1>5. UNCHANGED <<execution, ghosts, reporting>>
  BY DEF CallbackStep, WriterStep, RecorderStep, CallbackReturn, LateRecord, LateReturn,
     Capture, Write, WriterEnd, RecorderEnd, rest, core, execution,
     counters, identities
<1>6. JournalMoves
  <2>1. CASE WriterStep
    BY <2>1 DEF WriterStep, JournalMoves, WriterMoves
  <2>2. CASE UNCHANGED <<writers, disk>> /\ (call' = call \/ call[p].pc = "wait")
    <3>1. \A q \in Procs : call[q].pc # "wait" => call'[q].done = call[q].done
      BY <1>1, <1>2, <2>2
    <3> QED
      BY <2>2, <3>1 DEF JournalMoves
  <2> QED
    BY <1>2, <2>1, <2>2
<1> QED
  BY <1>3, <1>4, <1>5, <1>6, BystandGoroutine DEF execution, FaultInv

\* Nor do a stale timer, the clock and the context.
LEMMA BystandTime ==
    ASSUME IInv, FaultInv, \/ \E t \in timers : TimerFires(t) /\ ~Matches(t)
                           \/ DeadlinePasses \/ ContextDone
    PROVE  Bystanding
<1>1. operation \in Operation /\ 0 \in 0..MaxUint64
  BY ConstantsAssumption DEF IInv, TypeOK
<1>2. Keeps(operation')
  <2>1. operation' \in {operation, [operation EXCEPT !.done = TRUE]}
    BY DEF TimerFires, DeadlinePasses, ContextDone
  <2> QED
    BY <1>1, <2>1, KeepsGood
<1>3. call' = call
  BY DEF TimerFires, DeadlinePasses, ContextDone
<1>4. /\ UNCHANGED <<mode, committed, identities, fault, ghosts, reporting, writers, disk>>
      /\ pending' \in {pending, [pending EXCEPT !.expired = TRUE]}
  BY DEF TimerFires, DeadlinePasses, ContextDone, core, rest, durable, delivery,
     counters, identities
<1>5. \A q \in Procs : SameLocals(call[q], call'[q]) /\ call'[q].ends = call[q].ends
  BY <1>3 DEF SameLocals
<1>6. JournalMoves
  BY <1>3, <1>4 DEF JournalMoves
<1> QED
  BY <1>2, <1>4, <1>5, <1>6, BystandGoroutine DEF FaultInv, Keeps

\* And doing nothing.
LEMMA BystandStutter ==
    ASSUME IInv, FaultInv, UNCHANGED vars PROVE Bystanding
BY DEF Bystanding, vars, Deciding, SameLocals, Keeps, committed, identities, ghosts,
   JournalMoves, FaultInv, ClosingInv

-----------------------------------------------------------------------------
(* Steps of the call that decides. *)

\* The call that decides goes on, and knows what it has to know.
LEMMA ProgressFault ==
    ASSUME IInv, FaultInv, NEW p \in Procs, Deciding(p), NEW d,
           call' = [call EXCEPT ![p] = d], d.pc \in Undecided, ~operation'.revoked,
           Decides(d, operation', fault, pending),
           Current(d, state, revision, attempt, incarnation),
           UNCHANGED <<core, reporting>>
    PROVE  FaultInv' /\ \A q \in Procs : Deciding(q)' <=> q = p
<1>1. call'[p] = d /\ \A q \in Procs \ {p} : call'[q] = call[q]
  BY CallUpdated DEF IInv, TypeOK
<1>2. \A q \in Procs : Deciding(q)' <=> q = p
  BY <1>1, DecidingFacts DEF Deciding
<1>3. UNCHANGED <<mode, state, revision, attempt, incarnation, fault, pending>>
  BY DEF core, committed, counters
<1>4. ASSUME NEW q \in Procs, Deciding(q)'
      PROVE  /\ Decides(call'[q], operation', fault', pending')
             /\ Current(call'[q], state', revision', attempt', incarnation')
  BY <1>1, <1>2, <1>3, <1>4
<1>5. DecidingInv'
  BY <1>4 DEF DecidingInv
<1>6. (\E q \in Procs : Deciding(q)) /\ (\E q \in Procs : Deciding(q)')
  BY <1>2
<1>7. ModeInv'
  BY <1>3, <1>6 DEF FaultInv, ModeInv
<1>8. ClosingInv'
  BY <1>1 DEF FaultInv, ClosingInv, Undecided, Running
<1> QED
  BY <1>2, <1>5, <1>7, <1>8 DEF FaultInv

\* An answer keeps what the call knows.
LEMMA FollowsDecides ==
    ASSUME NEW c, NEW d, NEW o, NEW k, NEW f, NEW n, NEW s, NEW r, NEW a, NEW i,
           Follows(c, d), Decides(c, o, f, n), Current(c, s, r, a, i),
           k.change = o.change, k.issued = o.issued, o.issued \in BOOLEAN,
           c.pc \notin {"deliver", "prepared", "latch"}
    PROVE  Decides(d, k, f, n) /\ Current(d, s, r, a, i)
<1>1. /\ d.pc \notin {"deliver", "prepared"} /\ LocalShape(d) /\ d.api = c.api
      /\ SameAttempt(d.change, c.change)
      /\ c.api # "issue" \/ c.phase = "issue" => d.change = c.change
      /\ c.phase = "issue" <=> d.phase = "issue"
  BY DEF Follows
<1>2. Decides(d, k, f, n)
  BY <1>1 DEF Decides, Identifier, SameAttempt
<1>3. Current(d, s, r, a, i)
  BY <1>1 DEF Current, SameAttempt
<1> QED
  BY <1>2, <1>3

\* What DecidingInv says of the call that decides.
LEMMA DecidingKnows ==
    ASSUME IInv, FaultInv, NEW p \in Procs, Deciding(p)
    PROVE  /\ Decides(call[p], operation, fault, pending)
           /\ Current(call[p], state, revision, attempt, incarnation)
           /\ LocalShape(call[p]) /\ call[p] \in Call /\ mode = "executing"
           /\ operation \in Operation /\ operation.issued \in BOOLEAN
BY DecidingFacts DEF FaultInv, DecidingInv, ModeInv, Decides, IInv, TypeOK, Operation

\* The steps after which the call has an answer, or none.
LEMMA AnswersFault ==
    ASSUME IInv, FaultInv, NEW p \in Procs, Deciding(p),
           InvokeRefused(p) \/ Answer(p) \/ Abandon(p) \/ FinishLate(p)
    PROVE  /\ FaultInv' /\ Follows(call[p], call'[p]) /\ Keeps(operation')
           /\ \A q \in Procs : Deciding(q)' <=> q = p
<1> DEFINE c == call[p]
<1>1. /\ Decides(c, operation, fault, pending)
      /\ Current(c, state, revision, attempt, incarnation)
      /\ LocalShape(c) /\ c \in Call /\ operation \in Operation
      /\ operation.issued \in BOOLEAN
  BY DecidingKnows
<1>2. c.pc \in {"invoke", "wait", "finish"}
  BY DEF InvokeRefused, Answer, Abandon, FinishLate
<1>3. PICK d : call' = [call EXCEPT ![p] = d] /\ Follows(c, d)
  <2>1. Follows(c, Fail(c, "callback", Uncertain(c)))
    BY <1>1, FailFollows
  <2>2. Answer(p) => Follows(c, Answered(c))
    BY <1>1, AnsweredFollows DEF Answer
  <2> QED
    BY <2>1, <2>2 DEF InvokeRefused, Answer, Abandon, FinishLate
<1>4. operation' \in {operation, [operation EXCEPT !.abandoned = TRUE]}
      /\ UNCHANGED <<core, reporting>>
  BY DEF InvokeRefused, Answer, Abandon, FinishLate, shared, rest
<1>5. Keeps(operation')
  BY <1>1, <1>4, KeepsGood, ConstantsAssumption DEF Keeps, Operation
<1> HIDE DEF c
<1>6. /\ Decides(d, operation', fault, pending)
      /\ Current(d, state, revision, attempt, incarnation)
  BY <1>1, <1>2, <1>3, <1>5, FollowsDecides DEF Keeps
<1>7. d.pc \in Undecided /\ ~operation'.revoked
  BY <1>3, <1>5 DEF Follows, Undecided, Running, Keeps, Deciding
<1>8. call'[p] = d
  BY <1>3, CallUpdated DEF IInv, TypeOK
<1> QED
  BY <1>3, <1>4, <1>5, <1>6, <1>7, <1>8, ProgressFault DEF c

\* The steps of the preparation.
LEMMA PreparationFault ==
    ASSUME IInv, FaultInv, NEW p \in Procs, Deciding(p),
           Prepare(p) \/ PrepareDeliver(p) \/ PrepareFailed(p) \/ Prepared(p)
    PROVE  FaultInv' /\ \A q \in Procs : Deciding(q)' <=> q = p
<1> DEFINE c == call[p]
<1>1. /\ Decides(c, operation, fault, pending)
      /\ Current(c, state, revision, attempt, incarnation)
      /\ LocalShape(c) /\ c \in Call /\ operation \in Operation
      /\ MayRun(c) /\ c.op \in 0..MaxUint64 /\ ~operation.revoked
  BY DecidingKnows, DecidingRuns DEF Deciding, Call
<1>2. Preparing(c) /\ c.api = "issue" /\ c.phase = "invariant"
  BY <1>1 DEF Prepare, PrepareDeliver, PrepareFailed, Prepared, Preparing, LocalShape
<1>3. PICK d : /\ call' = [call EXCEPT ![p] = d]
               /\ d.api = c.api /\ d.change = c.change /\ d.row = c.row
               /\ d.pc = "deliver" => d.done = None
               /\ \/ d.pc \in {"deliver", "prepared"} /\ d.phase = c.phase
                  \/ d.pc = "invoke" /\ d.phase = "issue" /\ d.left = 1
                  \/ d.pc = "latch" /\ d.phase = "issue"
  <2>1. CASE Prepare(p)
    <3>1. call' = [call EXCEPT ![p] = IF Journal THEN [c EXCEPT !.pc = "deliver"]
                                                 ELSE Enter(c, "issue", 1)]
      BY <1>1, <2>1 DEF Prepare
    <3>2. CASE Journal
      <4> DEFINE d == [c EXCEPT !.pc = "deliver"]
      <4>1. d.pc = "deliver" /\ d.api = c.api /\ d.phase = c.phase /\ d.row = c.row
            /\ d.change = c.change /\ d.done = None
        BY <1>1, <2>1 DEF Call, Prepare, LocalShape
      <4>2. call' = [call EXCEPT ![p] = d]
        BY <3>1, <3>2
      <4> HIDE DEF d
      <4> QED
        BY <4>1, <4>2
    <3>3. CASE ~Journal
      <4> DEFINE d == Enter(c, "issue", 1)
      <4>1. d.pc = "invoke" /\ d.api = c.api /\ d.phase = "issue" /\ d.row = c.row
            /\ d.change = c.change /\ d.left = 1
        BY <1>1 DEF Call, Enter
      <4>2. call' = [call EXCEPT ![p] = d]
        BY <3>1, <3>3
      <4> HIDE DEF d
      <4> QED
        BY <4>1, <4>2
    <3> QED
      BY <3>2, <3>3
  <2>2. CASE PrepareDeliver(p)
    <3> DEFINE d == [c EXCEPT !.pc = "prepared"]
    <3>1. d.pc = "prepared" /\ d.api = c.api /\ d.phase = c.phase /\ d.row = c.row
          /\ d.change = c.change
      BY <1>1 DEF Call
    <3>2. call' = [call EXCEPT ![p] = d]
      BY <2>2 DEF PrepareDeliver
    <3> HIDE DEF d
    <3> QED
      BY <3>1, <3>2
  <2>3. CASE PrepareFailed(p)
    <3> DEFINE d == Fail([c EXCEPT !.phase = "issue"], "journal", FALSE)
    <3>1. d.pc = "latch" /\ d.api = c.api /\ d.phase = "issue" /\ d.row = c.row
          /\ d.change = c.change
      BY <1>1 DEF Call, Fail
    <3>2. call' = [call EXCEPT ![p] = d]
      BY <2>3 DEF PrepareFailed
    <3> HIDE DEF d
    <3> QED
      BY <3>1, <3>2
  <2>4. CASE Prepared(p)
    <3> DEFINE d == Enter(c, "issue", 1)
    <3>1. d.pc = "invoke" /\ d.api = c.api /\ d.phase = "issue" /\ d.row = c.row
          /\ d.change = c.change /\ d.left = 1
      BY <1>1 DEF Call, Enter
    <3>2. call' = [call EXCEPT ![p] = d]
      BY <2>4 DEF Prepared
    <3> HIDE DEF d
    <3> QED
      BY <3>1, <3>2
  <2> QED
    BY <2>1, <2>2, <2>3, <2>4
<1>4. /\ operation'.change = c.change /\ operation'.issued = TRUE
      /\ ~operation'.revoked /\ UNCHANGED <<core, reporting>>
  <2>1. CASE Prepare(p)
    BY <1>1, <2>1 DEF Prepare, Operation, rest
  <2>2. CASE ~Prepare(p)
    <3>1. c.pc \in {"deliver", "prepared"}
      BY <2>2 DEF PrepareDeliver, PrepareFailed, Prepared
    <3>2. operation.issued = TRUE /\ operation.change = c.change
      BY <1>1, <1>2, <3>1 DEF Decides, Operation
    <3>3. operation' \in {operation, Leased(c.op)} /\ UNCHANGED <<core, reporting>>
      BY <2>2 DEF PrepareDeliver, PrepareFailed, Prepared, StartWriter, shared, rest
    <3>4. Keeps(operation')
      BY <1>1, <3>3, KeepsGood
    <3> QED
      BY <1>1, <3>2, <3>3, <3>4 DEF Keeps
  <2> QED
    BY <2>1, <2>2
<1> HIDE DEF c
<1>5. LocalShape(d)
  <2>1. PhaseFits(d.api, d.phase)
    BY <1>2, <1>3 DEF PhaseFits, None
  <2>2. SelectedRow(d) /\ Candidates(d)[d.row].external
    BY <1>1, <1>2, <1>3 DEF LocalShape, RowChosen, SelectedRow, Candidates
  <2> QED
    BY <1>1, <1>2, <1>3, <2>1, <2>2 DEF LocalShape, Preparing
<1>6. Decides(d, operation', fault, pending)
  BY <1>1, <1>2, <1>3, <1>4, <1>5 DEF Decides, Identifier
<1>7. Current(d, state, revision, attempt, incarnation)
  BY <1>1, <1>2, <1>3 DEF Current, Preparing
<1>8. d.pc \in Undecided
  BY <1>3 DEF Undecided, Running
<1> QED
  BY <1>3, <1>4, <1>6, <1>7, <1>8, ProgressFault

\* A callback starts only for the call that decides.
LEMMA InvokeFault ==
    ASSUME IInv, FaultInv, NEW p \in Procs, Invoke(p)
    PROVE  FaultInv' /\ Deciding(p) /\ \A q \in Procs : Deciding(q)' <=> q = p
<1> DEFINE c == call[p]
           d == [c EXCEPT !.pc = "wait"]
           o == Leased(c.op)
<1>1. Deciding(p) /\ c.pc = "invoke" /\ MayRun(c)
  BY DecidingRuns DEF Invoke, Undecided, Running
<1>2. /\ Decides(c, operation, fault, pending)
      /\ Current(c, state, revision, attempt, incarnation)
      /\ LocalShape(c) /\ c \in Call /\ operation \in Operation
      /\ c.op \in 0..MaxUint64 /\ ~operation.revoked
  BY <1>1, DecidingKnows DEF Deciding, Call
<1>3. /\ d.pc = "wait" /\ d.api = c.api /\ d.phase = c.phase /\ d.row = c.row
      /\ d.change = c.change /\ d.left = c.left
  BY <1>2 DEF Call
<1>4. call' = [call EXCEPT ![p] = d] /\ UNCHANGED <<core, reporting>>
      /\ operation' = [o EXCEPT !.change = c.change]
  BY DEF Invoke
<1>5. Keeps(o) /\ o \in Operation
  BY <1>2, KeepsGood, LeasedGood
<1> HIDE DEF c, d, o
<1>6. /\ operation'.change = c.change /\ operation'.issued = operation.issued
      /\ ~operation'.revoked
  BY <1>2, <1>4, <1>5 DEF Operation, Keeps
<1>7. LocalShape(d)
  BY <1>1, <1>2, <1>3 DEF LocalShape, Preparing, SelectedRow, Candidates
<1>8. Decides(d, operation', fault, pending)
  BY <1>1, <1>2, <1>3, <1>6, <1>7 DEF Decides
<1>9. Current(d, state, revision, attempt, incarnation) /\ d.pc \in Undecided
  BY <1>1, <1>2, <1>3 DEF Current, Undecided, Running
<1> QED
  BY <1>1, <1>4, <1>6, <1>8, <1>9, ProgressFault

\* Once the one call that decides has an outcome nobody decides.
LEMMA SettledAll ==
    ASSUME IInv, NEW p \in Procs, Deciding(p), NEW d, call' = [call EXCEPT ![p] = d],
           d.pc \notin Undecided
    PROVE  \A q \in Procs : ~Deciding(q)'
<1>1. call'[p] = d /\ \A q \in Procs \ {p} : call'[q] = call[q]
  BY CallUpdated DEF IInv, TypeOK
<1> QED
  BY <1>1, DecidingFacts DEF Deciding

\* The locals that a publication starts from are undecided no more.
LEMMA PublishSettles ==
    ASSUME IInv, NEW p \in Procs, NEW b \in BOOLEAN, Publish(p, b)
    PROVE  \E d : /\ call' = [call EXCEPT ![p] = d] /\ d.pc \notin Undecided
                  /\ d.ends = call[p].ends
<1> DEFINE d == Published(call[p].op, call[p].ends, b)
<1>1. call[p] \in Call
  BY DEF IInv, TypeOK
<1>2. d.pc \notin Undecided /\ d.ends = call[p].ends
  BY <1>1, PublishedFrom DEF Undecided, Running
<1>3. call' = [call EXCEPT ![p] = d]
  BY DEF Publish
<1> HIDE DEF d
<1> QED
  BY <1>2, <1>3

\* The outcomes of the call that decides: its entry point tells whether a Fault
\* is latched and whether a Change is pending.
LEMMA OutcomeFault ==
    ASSUME IInv, FaultInv, NEW p \in Procs,
           \/ (Latch(p) \/ RestoreFault(p)) /\ Deciding(p)
           \/ FinishReady(p) \/ AwaitVerification(p) \/ Commit(p) \/ FinishAdjudication(p)
    PROVE  FaultInv' /\ Deciding(p)
<1> DEFINE c == call[p]
<1>1. Deciding(p)
  BY DecidingRuns DEF FinishReady, AwaitVerification, Commit, FinishAdjudication, Finishing,
     Undecided, Running
<1>2. /\ Decides(c, operation, fault, pending) /\ LocalShape(c) /\ c \in Call
      /\ mode = "executing" /\ Owns(c.op) /\ fault.latched \in BOOLEAN
      /\ pending.live \in BOOLEAN
  BY <1>1, DecidingKnows, DecidingFacts DEF IInv, TypeOK, Fault, Pending
<1>3. \E b \in BOOLEAN : Publish(p, b)
  BY <1>2 DEF Latch, RestoreFault, FinishReady, AwaitVerification, Commit,
     FinishAdjudication
<1>4. \A q \in Procs : ~Deciding(q)'
  BY <1>1, <1>3, PublishSettles, SettledAll
<1>5. DecidingInv' /\ ClosingInv'
  <2>1. PICK d : call' = [call EXCEPT ![p] = d] /\ d.ends = call[p].ends
    BY <1>3, PublishSettles
  <2>2. d.ends # None
    BY <1>1, <2>1, DecidingFacts DEF None
  <2>3. ClosingInv'
    BY <2>1, <2>2, CallUpdated DEF IInv, TypeOK, FaultInv, ClosingInv
  <2> QED
    BY <1>4, <2>3 DEF DecidingInv
<1>6. /\ (c.api = "adjudicate") <=> fault.latched
      /\ (c.api = "verify") <=> pending.live
      /\ PhaseFits(c.api, c.phase) /\ c.api \in {None, "start", "issue", "verify", "adjudicate"}
  BY <1>2 DEF Decides, LocalShape, Call
<1>7. ModeInv'
  <2>1. CASE Latch(p)
    BY <1>2, <1>4, <2>1 DEF Latch, LatchLocked, LatchedFault, NoPending, ModeInv
  <2>2. CASE RestoreFault(p)
    BY <1>2, <1>4, <1>6, <2>2 DEF RestoreFault, ModeInv, None
  <2>3. CASE FinishReady(p)
    <3>1. ~fault.latched /\ ~pending.live
      BY <1>6, <2>3 DEF FinishReady, Finishing, PhaseFits, None
    <3> QED
      BY <1>4, <2>3, <3>1 DEF FinishReady, ModeInv
  <2>4. CASE AwaitVerification(p)
    <3>1. ~fault.latched
      BY <1>6, <2>4 DEF AwaitVerification, Finishing, PhaseFits, None
    <3> QED
      BY <1>4, <2>4, <3>1 DEF AwaitVerification, ModeInv
  <2>5. CASE Commit(p)
    <3>1. ~fault.latched
      BY <1>6, <2>5 DEF Commit, Finishing, PhaseFits, None
    <3> QED
      BY <1>4, <2>5, <3>1 DEF Commit, ModeInv, NoPending
  <2>6. CASE FinishAdjudication(p)
    <3>1. ~pending.live
      BY <1>6, <2>6 DEF FinishAdjudication, Finishing, PhaseFits, None
    <3> QED
      BY <1>4, <2>6, <3>1 DEF FinishAdjudication, ModeInv, NoFault
  <2> QED
    BY <2>1, <2>2, <2>3, <2>4, <2>5, <2>6
<1> QED
  BY <1>1, <1>5, <1>7 DEF FaultInv

-----------------------------------------------------------------------------
(* Reports, admissions, restarts. *)

\* Trip and an expiry take the decision from whoever has it.
LEMMA ReportFault ==
    ASSUME IInv, FaultInv, NEW p \in Procs, call[p].pc = "idle", NEW change, NEW cause,
           Report(p, change, cause)
    PROVE  FaultInv' /\ \A q \in Procs : ~Deciding(q)'
<1> DEFINE d == [IdleCall EXCEPT !.pc = "cancel", !.op = operation.id,
                                 !.ends = "reporting", !.durable = ~fault.latched]
<1>1. call' = [call EXCEPT ![p] = d] /\ operation' = Revoked
  BY DEF Report
<1>2. d.pc = "cancel"
  BY DEF IdleCall
<1> HIDE DEF d
<1>3. call'[p] = d /\ \A q \in Procs \ {p} : call'[q] = call[q]
  BY <1>1, CallUpdated DEF IInv, TypeOK
<1>4. operation.id # 0 => Revoked.revoked
  BY DEF Revoked, IInv, TypeOK, Operation
<1>5. \A q \in Procs : call[q].pc \in Undecided => operation.id # 0
  BY DEF IInv, CallShapes, CallShape, OwnerInv, Undecided
<1>6. \A q \in Procs : ~Deciding(q)'
  BY <1>1, <1>2, <1>3, <1>4, <1>5 DEF Deciding, Undecided, Running
<1>7. mode' = "faulted" /\ fault'.latched /\ ~pending'.live
  BY DEF Report, LatchLocked, LatchedFault, NoPending
<1>8. ModeInv' /\ DecidingInv' /\ ClosingInv'
  BY <1>2, <1>3, <1>6, <1>7 DEF ModeInv, DecidingInv, FaultInv, ClosingInv
<1> QED
  BY <1>6, <1>8 DEF FaultInv

\* What is reported is the Change of s.operation, the pending one, or none.
LEMMA ReportsOf ==
    ASSUME IInv, NEW p \in Procs, Trip(p) \/ VerifyExpired(p)
    PROVE  call[p].pc = "idle" /\
           \/ Report(p, operation.change, "tripped") /\ mode = "executing"
           \/ \E cause \in {"tripped", "expired"} :
                 Report(p, pending.change, cause) /\ pending.live /\ mode = "awaiting"
           \/ Report(p, CurrentChange, "tripped") /\ ~(mode = "executing")
                 /\ ~(mode = "awaiting" /\ pending.live)
BY DEF Trip, VerifyExpired, Idle

\* What an admission changes, and what it finds.
Admitted(p) ==
    /\ Quiescent /\ mode # "executing" /\ mode' = "executing"
    /\ UNCHANGED <<committed, incarnation, pending, fault, rest, delivery>>
    /\ operation'.change = call'[p].change /\ operation'.issued = FALSE
    /\ call'[p].pc \in {"invoke", "latch"} /\ call'[p].phase # "issue"
    /\ Deciding(p)' /\ \A q \in Procs : Deciding(q)' => q = p
    /\ \A q \in Procs \ {p} : call'[q] = call[q]
    /\ attempt' = IF (call'[p].api = "issue") /\ (call'[p].pc = "invoke")
                    THEN attempt + 1 ELSE attempt

\* An admitted call decides, on what the entry point found.
LEMMA BeginFault ==
    ASSUME IInv, FaultInv, NEW p \in Procs, Quiescent, NEW locals \in Call,
           locals.pc \in {"invoke", "latch"}, NEW change, NEW phase \in Phases,
           Begin(p, locals, change, phase), PhaseFits(locals.api, phase),
           phase # "issue",
           (locals.pc = "latch") /\ (locals.api = "verify") => locals.uncertain,
           locals.api = "issue" =>
              /\ change.event \in Events /\ ~RowChosen(phase, change.row)
              /\ change.from = state /\ change.rev = revision
              /\ locals.pc # "latch" =>
                    /\ change.seq = attempt' /\ change.inc = incarnation /\ attempt' # 0,
           (locals.api = "adjudicate") <=> fault.latched,
           (locals.api = "verify") <=> pending.live,
           pending.live => change = pending.change,
           attempt' = IF (locals.api = "issue") /\ (locals.pc = "invoke")
                        THEN attempt + 1 ELSE attempt
    PROVE  FaultInv' /\ Admitted(p)
<1> DEFINE n == nextOperation + 1
           d == [locals EXCEPT !.op = n, !.ends = "operation",
                               !.change = change, !.phase = phase]
           o == [NoOperation EXCEPT !.id = n, !.change = change]
<1>1. /\ operation' = o /\ mode' = "executing" /\ call' = [call EXCEPT ![p] = d]
      /\ UNCHANGED <<committed, incarnation, pending, fault, rest, delivery>>
  BY DEF Begin
<1>2. \A q \in Procs : call[q].pc \notin Undecided
  BY QuiescentFacts DEF IInv, CallShapes, CallShape, Undecided
<1>3. o.change = change /\ o.issued = FALSE /\ o.revoked = FALSE
  BY DEF NoOperation
<1>4. /\ d.pc = locals.pc /\ d.api = locals.api /\ d.phase = phase /\ d.change = change
      /\ d.uncertain = locals.uncertain /\ d.ends = "operation"
  BY DEF Call
<1> HIDE DEF n, d, o
<1>5. call'[p] = d /\ \A q \in Procs \ {p} : call'[q] = call[q]
  BY <1>1, CallUpdated DEF IInv, TypeOK
<1>6. \A q \in Procs : Deciding(q)' <=> q = p
  BY <1>1, <1>2, <1>3, <1>4, <1>5 DEF Deciding, Undecided, Running
<1>7. LocalShape(d)
  BY <1>4 DEF LocalShape, Preparing
<1>8. Decides(d, o, fault, pending)
  BY <1>3, <1>4, <1>7 DEF Decides, Identifier
<1>9. Current(d, state, revision, attempt', incarnation)
  BY <1>4 DEF Current
<1>10. ASSUME NEW q \in Procs, Deciding(q)'
       PROVE  /\ Decides(call'[q], operation', fault', pending')
              /\ Current(call'[q], state', revision', attempt', incarnation')
  BY <1>1, <1>5, <1>6, <1>8, <1>9, <1>10 DEF committed
<1>11. DecidingInv'
  BY <1>10 DEF DecidingInv
<1>12. ModeInv'
  <2>1. \E q \in Procs : Deciding(q)'
    BY <1>6
  <2> QED
    BY <1>1, <2>1 DEF FaultInv, ModeInv, Quiescent, rest
<1>13. mode # "executing"
  BY <1>2 DEF FaultInv, ModeInv, Deciding
<1>14. Admitted(p)
  BY <1>1, <1>3, <1>4, <1>5, <1>6, <1>13 DEF Admitted
<1>15. ClosingInv'
  BY <1>4, <1>5 DEF FaultInv, ClosingInv
<1> QED
  BY <1>11, <1>12, <1>14, <1>15 DEF FaultInv

\* Start, Issue, Verify and Adjudicate each test the mode that tells what they find.
LEMMA AdmitFault ==
    ASSUME IInv, FaultInv, NEW p \in Procs,
           \/ Start(p) \/ Verify(p)
           \/ \E e \in Events : Issue(p, e) \/ IssueExhausted(p, e)
           \/ \E o \in {"retain", "adopt", "override"}, s \in States :
                 Adjudicate(p, o, s)
    PROVE  FaultInv' /\ Admitted(p)
<1>1. /\ TypeOK /\ Checks \in Nat /\ 1 \in Nat /\ attempt \in Nat
      /\ CurrentChange \in Change
  BY CurrentChangeGood, ConstantsAssumption DEF IInv, TypeOK
<1>2. Quiescent /\ fault.latched \in BOOLEAN /\ pending.live \in BOOLEAN
  BY <1>1 DEF Start, Verify, Issue, IssueExhausted, Adjudicate, TypeOK, Fault, Pending
<1>3. \A api \in {"start", "issue", "verify", "adjudicate"}, k \in Nat :
         Entry(api, k) \in Call /\ Entry(api, k).pc = "invoke" /\ Entry(api, k).api = api
  <2>1. \A api \in {"start", "issue", "verify", "adjudicate"}, k \in Nat :
           Entry(api, k).api = api
    BY DEF Entry, IdleCall
  <2> QED
    BY <2>1, EntryGood
<1>4. \A api \in {"start", "issue", "verify", "adjudicate"}, u \in BOOLEAN :
         /\ Refused(api, u) \in Call /\ Refused(api, u).pc = "latch"
         /\ Refused(api, u).api = api /\ Refused(api, u).uncertain = u
  <2>1. \A api \in {"start", "issue", "verify", "adjudicate"}, u \in BOOLEAN :
           Refused(api, u).api = api /\ Refused(api, u).uncertain = u
    BY DEF Refused, IdleCall
  <2> QED
    BY <2>1, RefusedGood
<1>5. CASE Start(p)
  <2> DEFINE l == IF Exhausted THEN Refused("start", FALSE)
                               ELSE Entry("start", Checks)
  <2>1. l \in Call /\ l.pc \in {"invoke", "latch"} /\ l.api = "start"
    <3>1. /\ Entry("start", Checks) \in Call /\ Entry("start", Checks).pc = "invoke"
          /\ Entry("start", Checks).api = "start"
      BY <1>1, <1>3
    <3>2. /\ Refused("start", FALSE) \in Call /\ Refused("start", FALSE).pc = "latch"
          /\ Refused("start", FALSE).api = "start"
      BY <1>4
    <3> QED
      BY <3>1, <3>2
  <2>2. /\ Begin(p, l, CurrentChange, "start") /\ attempt' = attempt
        /\ ~fault.latched /\ ~pending.live
    BY <1>5 DEF Start, FaultInv, ModeInv
  <2> HIDE DEF l
  <2>3. "start" \in Phases /\ PhaseFits("start", "start")
    BY DEF Phases, PhaseFits, None
  <2> QED
    BY <1>2, <2>1, <2>2, <2>3, BeginFault
<1>6. CASE Verify(p)
  <2> DEFINE l == IF Exhausted THEN Refused("verify", TRUE)
                               ELSE Entry("verify", 1)
  <2>1. /\ l \in Call /\ l.pc \in {"invoke", "latch"} /\ l.api = "verify"
        /\ l.pc = "latch" => l.uncertain
    <3>1. /\ Entry("verify", 1) \in Call /\ Entry("verify", 1).pc = "invoke"
          /\ Entry("verify", 1).api = "verify"
      BY <1>1, <1>3
    <3>2. /\ Refused("verify", TRUE) \in Call /\ Refused("verify", TRUE).pc = "latch"
          /\ Refused("verify", TRUE).api = "verify" /\ Refused("verify", TRUE).uncertain = TRUE
      BY <1>4
    <3> QED
      BY <3>1, <3>2
  <2>2. /\ Begin(p, l, pending.change, "verify") /\ attempt' = attempt
        /\ ~fault.latched /\ pending.live
    BY <1>6 DEF Verify, FaultInv, ModeInv
  <2> HIDE DEF l
  <2>3. "verify" \in Phases /\ PhaseFits("verify", "verify")
    BY DEF Phases, PhaseFits, None
  <2> QED
    BY <1>2, <2>1, <2>2, <2>3, BeginFault
<1>7. ASSUME NEW e \in Events, Issue(p, e) PROVE FaultInv' /\ Admitted(p)
  <2> DEFINE l == Entry("issue", Checks)
             ch == [CurrentChange EXCEPT !.seq = attempt + 1, !.event = e]
  <2>1. l \in Call /\ l.pc = "invoke" /\ l.api = "issue"
    BY <1>1, <1>3
  <2>2. /\ Begin(p, l, ch, "precondition") /\ attempt' = attempt + 1
        /\ ~fault.latched /\ ~pending.live
    BY <1>7 DEF Issue, FaultInv, ModeInv
  <2>3. /\ ch.seq = attempt + 1 /\ ch.event = e /\ ch.inc = incarnation
        /\ ch.from = state /\ ch.rev = revision /\ ch.row = None
    BY DEF CurrentChange
  <2> HIDE DEF l, ch
  <2>4. /\ "precondition" \in Phases /\ PhaseFits("issue", "precondition")
        /\ ~RowChosen("precondition", ch.row) /\ attempt + 1 # 0
    BY <1>1, <2>3 DEF Phases, PhaseFits, None, RowChosen
  <2> QED
    BY <1>2, <2>1, <2>2, <2>3, <2>4, BeginFault
<1>8. ASSUME NEW e \in Events, IssueExhausted(p, e) PROVE FaultInv' /\ Admitted(p)
  <2> DEFINE l == Refused("issue", FALSE)
             ch == [CurrentChange EXCEPT !.event = e]
  <2>1. l \in Call /\ l.pc = "latch" /\ l.api = "issue"
    BY <1>4
  <2>2. /\ Begin(p, l, ch, "selection") /\ attempt' = attempt
        /\ ~fault.latched /\ ~pending.live
    BY <1>8 DEF IssueExhausted, FaultInv, ModeInv
  <2>3. ch.event = e /\ ch.from = state /\ ch.rev = revision /\ ch.row = None
    BY DEF CurrentChange
  <2> HIDE DEF l, ch
  <2>4. /\ "selection" \in Phases /\ PhaseFits("issue", "selection")
        /\ ~RowChosen("selection", ch.row)
    BY DEF Phases, PhaseFits, None, RowChosen
  <2> QED
    BY <1>2, <2>1, <2>2, <2>3, <2>4, BeginFault
<1>9. ASSUME NEW o \in {"retain", "adopt", "override"}, NEW s \in States,
             Adjudicate(p, o, s)
      PROVE  FaultInv' /\ Admitted(p)
  <2> DEFINE k == Entry("adjudicate", Checks)
             l == [k EXCEPT !.commits = o # "retain"]
             ch == IF o = "adopt" THEN fault.change
                                  ELSE [CurrentChange EXCEPT !.to = s]
  <2>1. k \in Call /\ k.pc = "invoke" /\ k.api = "adjudicate"
    BY <1>1, <1>3
  <2>2. /\ Begin(p, l, ch, "adjudicate") /\ attempt' = attempt
        /\ fault.latched /\ ~pending.live
    BY <1>9 DEF Adjudicate, FaultInv, ModeInv
  <2> HIDE DEF k, ch
  <2>3. l \in Call /\ l.pc = "invoke" /\ l.api = "adjudicate"
    BY <2>1 DEF Call
  <2> HIDE DEF l
  <2>4. "adjudicate" \in Phases /\ PhaseFits("adjudicate", "adjudicate")
    BY DEF Phases, PhaseFits, None
  <2> QED
    BY <1>2, <2>2, <2>3, <2>4, BeginFault
<1> QED
  BY <1>5, <1>6, <1>7, <1>8, <1>9

\* The next process starts with nobody deciding, under the Fault it restored.
LEMMA CrashFault ==
    ASSUME CrashRestore PROVE FaultInv' /\ \A q \in Procs : ~Deciding(q)'
<1>1. \A q \in Procs : call'[q].pc = "idle"
  BY DEF CrashRestore, IdleCall
<1>2. \A q \in Procs : ~Deciding(q)'
  BY <1>1 DEF Deciding, Undecided, Running
<1>3. /\ mode' \in {"faulted", "stopped"} /\ (mode' = "faulted" <=> fault'.latched)
      /\ ~pending'.live
  BY DEF CrashRestore, NoFault, NoPending
<1> QED
  BY <1>1, <1>2, <1>3 DEF FaultInv, DecidingInv, ModeInv, ClosingInv

\* So does the first one, without a Fault.
LEMMA InitFault == Init => FaultInv
BY DEF Init, FaultInv, DecidingInv, ModeInv, ClosingInv, Deciding, Undecided, Running, IdleCall,
   NoFault, NoPending

-----------------------------------------------------------------------------
(* Every step. *)

\* The steps of Next by what they do to the call that decides.
Settling(p) ==
    \/ (Latch(p) \/ RestoreFault(p)) /\ Deciding(p)
    \/ FinishReady(p) \/ AwaitVerification(p) \/ Commit(p) \/ FinishAdjudication(p)
Answering(p) ==
    Deciding(p) /\ (InvokeRefused(p) \/ Answer(p) \/ Abandon(p) \/ FinishLate(p))
PreparationStep(p) ==
    /\ Deciding(p)
    /\ Prepare(p) \/ PrepareDeliver(p) \/ PrepareFailed(p) \/ Prepared(p)
Expiry(p) == \E t \in timers : /\ call[p].pc = "idle" /\ TimerFires(t)
                               /\ Report(p, pending.change, "expired")
                               /\ pending.live /\ mode = "awaiting"

\* Every step of a public call, a goroutine, the clock or a crash is one of these.
LEMMA StepKinds ==
    ASSUME IInv, FaultInv, [Next]_vars
    PROVE  \/ \E p \in Procs : Admitted(p) /\ FaultInv'
           \/ \E p \in Procs : Trip(p) \/ VerifyExpired(p) \/ Expiry(p)
           \/ \E p \in Procs : Settling(p) \/ Answering(p) \/ PreparationStep(p) \/ Invoke(p)
           \/ Bystanding
           \/ CrashRestore
<1>1. ASSUME NEW p \in Procs, Admit(p)
      PROVE  \/ Admitted(p) /\ FaultInv'
             \/ Trip(p) \/ VerifyExpired(p)
             \/ Bystanding
  BY <1>1, AdmitFault, BystandPublication, ConstantsAssumption DEF Admit
<1>2. ASSUME NEW p \in Procs, Step(p)
      PROVE  Settling(p) \/ Answering(p) \/ PreparationStep(p) \/ Invoke(p) \/ Bystanding
  <2>1. CASE \/ Cancel(p) \/ Close(p) \/ Closed(p) \/ CloseFailed(p) \/ Record(p)
             \/ RecordDone(p) \/ Return(p)
    BY <2>1, BystandPublication
  <2>2. CASE Latch(p) \/ RestoreFault(p)
    BY <2>2, BystandRevoked DEF Settling
  <2>3. CASE InvokeRefused(p) \/ Answer(p) \/ Abandon(p) \/ FinishLate(p)
    BY <2>3, BystandRevoked DEF Answering
  <2>4. CASE Prepare(p) \/ PrepareDeliver(p) \/ PrepareFailed(p) \/ Prepared(p)
    BY <2>4, BystandRevoked DEF PreparationStep
  <2>5. CASE FinishRevoked(p)
    <3>1. ~Deciding(p)
      BY <2>5, DecidingRuns DEF FinishRevoked, Undecided, Running
    <3> QED
      BY <2>5, <3>1, BystandRevoked
  <2> QED
    BY <1>2, <2>1, <2>2, <2>3, <2>4, <2>5 DEF Step, Settling
<1>3. ASSUME NEW t \in timers, TimerFires(t)
      PROVE  Expiry(Timer) \/ Bystanding
  BY <1>3, BystandTime DEF TimerFires, Expiry, Matches
<1>4. Timer \in Procs
  BY DEF Procs
<1> QED
  BY <1>1, <1>2, <1>3, <1>4, BystandAdapters, BystandTime, BystandStutter
     DEF Next, TimerStep

\* Every step preserves what the call that decides knows.
LEMMA NextFault == IInv /\ FaultInv /\ [Next]_vars => FaultInv'
<1> SUFFICES ASSUME IInv, FaultInv, [Next]_vars PROVE FaultInv'
  OBVIOUS
<1>1. ASSUME NEW p \in Procs, Trip(p) \/ VerifyExpired(p) \/ Expiry(p) PROVE FaultInv'
  BY <1>1, ReportsOf, ReportFault DEF Expiry
<1>2. ASSUME NEW p \in Procs, Settling(p) \/ Answering(p) \/ PreparationStep(p) \/ Invoke(p)
      PROVE  FaultInv'
  BY <1>2, OutcomeFault, AnswersFault, PreparationFault, InvokeFault
     DEF Settling, Answering, PreparationStep
<1> QED
  BY <1>1, <1>2, StepKinds, BystandingFault, CrashFault

\* An adjudication runs exactly under a latched Fault, a Verify exactly over a
\* pending Change, and only for the call that owns a Supervisor in mode Executing.
THEOREM FaultInductive == Spec => [](IInv /\ FaultInv)
BY InitIInv, NextIInv, InitFault, NextFault, PTL DEF Spec

\* What a step may do to a latched Fault, and to the committed state under it.
LEMMA LatchedKept ==
    ASSUME IInv, FaultInv, Next, fault.latched
    PROVE  \/ fault' = fault /\ UNCHANGED committed
           \/ incarnation' # incarnation
           \/ \E p \in Procs : FinishAdjudication(p)
<1>1. ASSUME NEW p \in Procs, Trip(p) \/ VerifyExpired(p) \/ Expiry(p)
      PROVE  fault' = fault /\ UNCHANGED committed
  BY <1>1, ReportsOf DEF Expiry, Report, LatchLocked
<1>2. ASSUME NEW p \in Procs, Settling(p)
      PROVE  (fault' = fault /\ UNCHANGED committed) \/ FinishAdjudication(p)
  <2>1. ~Commit(p)
    <3>1. Commit(p) => Decides(call[p], operation, fault, pending) /\ call[p] \in Call
      BY OutcomeFault, DecidingKnows
    <3> QED
      BY <3>1 DEF Commit, Finishing, Decides, LocalShape, PhaseFits, Call
  <2>2. CASE Latch(p)
    BY <2>2 DEF Latch, LatchLocked
  <2>3. CASE RestoreFault(p) \/ FinishReady(p) \/ AwaitVerification(p)
    BY <2>3 DEF RestoreFault, FinishReady, AwaitVerification, committed
  <2> QED
    BY <1>2, <2>1, <2>2, <2>3 DEF Settling
<1>3. ASSUME NEW p \in Procs, Answering(p) \/ PreparationStep(p) \/ Invoke(p)
      PROVE  fault' = fault /\ UNCHANGED committed
  BY <1>3 DEF Answering, PreparationStep, Invoke, InvokeRefused, Answer, Abandon, FinishLate,
     Prepare, PrepareDeliver, PrepareFailed, Prepared, shared, core
<1>4. CrashRestore => incarnation' # incarnation
  BY DEF CrashRestore, IInv, TypeOK
<1> QED
  BY <1>1, <1>2, <1>3, <1>4, StepKinds DEF Admitted, Bystanding

\* FinishAdjudication clears the Fault under an Operation it still owns.
LEMMA AdjudicationOwns ==
    ASSUME NEW p \in Procs, FinishAdjudication(p)
    PROVE  /\ fault' = NoFault /\ mode = "executing" /\ mode' = "ready"
           /\ ~operation.revoked /\ ~fault'.latched
           /\ UNCHANGED committed \/ revision' = revision + 1
BY DEF FinishAdjudication, Finishing, MayRun, Owns, NoFault, committed

\* No Trip, expiry or late failure rewrites the first cause of a latched Fault:
\* only an adjudication that still owns its Operation clears it.
THEOREM FirstCause == Spec => FirstCauseKept
<1> DEFINE A == fault.latched /\ fault' # fault =>
                  \/ incarnation' # incarnation
                  \/ /\ fault' = NoFault /\ mode = "executing" /\ mode' = "ready"
                     /\ ~operation.revoked
<1>1. IInv /\ FaultInv /\ [Next]_vars => [A]_vars
  BY LatchedKept, AdjudicationOwns
<1> QED
  BY <1>1, FaultInductive, PTL DEF Spec, FirstCauseKept

\* A Verify or an Issue that was tripped under way never commits: while a Fault
\* is latched the committed state changes only by the adjudication that clears it.
THEOREM FaultStopsCommits == Spec => NoCommitWhileFaulted
<1> DEFINE A == fault.latched /\ incarnation' = incarnation
                  /\ (state' # state \/ revision' # revision) =>
                        /\ ~fault'.latched /\ revision' = revision + 1
                        /\ mode = "executing" /\ ~operation.revoked
<1>1. IInv /\ FaultInv /\ [Next]_vars => [A]_vars
  BY LatchedKept, AdjudicationOwns DEF committed
<1> QED
  BY <1>1, FaultInductive, PTL DEF Spec, NoCommitWhileFaulted

-----------------------------------------------------------------------------
(***************************************************************************)
(* What memory and the Journal hold of an issued Attempt.                    *)
(***************************************************************************)

\* The Issue callback of the call may have run.
Started(c) == /\ c.phase = "issue"
              /\ c.pc \in {"wait", "finish"} \/ (c.pc = "latch" /\ c.uncertain)

\* The preparation of the call has reached the disk.
Stored(c) == \/ c.pc = "prepared" /\ c.done = "ok"
             \/ c.pc = "invoke" /\ c.phase = "issue"

\* An unresolved Attempt is in one of three hands.
Holds(e) ==
    \/ pending.live /\ Identifier(pending.change) = e
    \/ fault.latched /\ fault.issued /\ fault.uncertain /\ Identifier(fault.change) = e
    \/ \E p \in Procs : Deciding(p) /\ Started(call[p]) /\ Identifier(operation.change) = e

HeldInv == \A e \in unresolved : Holds(e)

About(s, id) == s.indoubt /\ Identifier(s.pending) = id

\* Snapshot s lies between the one on disk and the counters r, a, i.
Between(d, s, r, a, i) ==
    d.rev <= s.rev /\ s.rev <= r /\ d.attempt <= s.attempt /\ s.attempt <= a
    /\ d.inc <= s.inc /\ s.inc <= i

\* The one Journal goroutine holds a Snapshot no older than the disk.
WriterInv ==
    /\ Between(disk, disk, revision, attempt, incarnation)
    /\ \A w \in writers : w.step # "new" =>
          Between(disk, w.snapshot, revision, attempt, incarnation)
    /\ \A w \in writers : w.step = "written" => disk = w.snapshot

\* The disk, and whatever is on its way there, is in doubt about it.
AboutInv == Journal => \A e \in unresolved :
    /\ About(disk, e)
    /\ \A w \in writers : w.step # "new" => About(w.snapshot, e)

\* A write under way while a call decides is its preparation, and the Issue
\* callback is entered only when nothing is left to write.
PreparingInv == \A p \in Procs : Deciding(p) =>
    /\ \A w \in writers :
          /\ operation.issued
          /\ w.step # "new" => /\ About(w.snapshot, Identifier(operation.change))
                               /\ w.snapshot.attempt = attempt
    /\ Journal /\ Stored(call[p]) =>
          /\ writers = {} /\ About(disk, Identifier(operation.change))
          /\ disk.attempt = attempt

\* The sequence of an Attempt is not reused, across restarts from the Journal.
EverInv ==
    /\ \A s \in everIssued : s <= attempt /\ (Journal => s <= disk.attempt)
    /\ \A p \in Procs :
          Deciding(p) /\ call[p].api = "issue" /\ call[p].pc # "latch" /\ ~Started(call[p])
             => call[p].change.seq \notin everIssued

DurableInv == HeldInv /\ WriterInv /\ AboutInv /\ PreparingInv /\ EverInv

-----------------------------------------------------------------------------
(* Snapshots and preparations. *)

\* An Operation whose preparation began runs an Issue, with no Fault and nothing pending.
LEMMA IssuingFacts ==
    ASSUME IInv, FaultInv, NEW p \in Procs, Deciding(p), operation.issued
    PROVE  /\ call[p].api = "issue" /\ ~fault.latched /\ ~pending.live
           /\ operation.change = call[p].change /\ operation.change.seq = attempt
           /\ operation.change.seq # 0 /\ operation.id # 0 /\ mode = "executing"
<1>1. /\ Decides(call[p], operation, fault, pending) /\ mode = "executing"
      /\ Current(call[p], state, revision, attempt, incarnation)
  BY DecidingKnows
<1>2. call[p].api = "issue"
      /\ (call[p].pc \in {"deliver", "prepared"} \/ call[p].phase = "issue")
  BY <1>1 DEF Decides
<1>3. fault.latched \in BOOLEAN /\ pending.live \in BOOLEAN /\ operation.id # 0
  BY DecidingFacts DEF IInv, TypeOK, Fault, Pending
<1> QED
  BY <1>1, <1>2, <1>3 DEF Decides, Current

\* A call whose Issue callback may have run has its Operation marked as issued.
LEMMA StartedFacts ==
    ASSUME IInv, FaultInv, NEW p \in Procs, Deciding(p),
           Started(call[p]) \/ call[p].phase = "issue"
    PROVE  /\ call[p].api = "issue" /\ operation.issued /\ ~fault.latched /\ ~pending.live
           /\ operation.change = call[p].change
<1>1. Decides(call[p], operation, fault, pending) /\ call[p] \in Call
  BY DecidingKnows
<1>2. call[p].api = "issue" /\ call[p].phase = "issue"
  BY <1>1 DEF Decides, LocalShape, PhaseFits, Call, Started, None
<1>3. operation.issued
  BY <1>1, <1>2 DEF Decides
<1> QED
  BY <1>2, <1>3, IssuingFacts

\* A Fault and a pending Change exclude each other.
LEMMA FaultOrPending ==
    ASSUME IInv, FaultInv PROVE ~(fault.latched /\ pending.live)
<1> SUFFICES ASSUME fault.latched, pending.live PROVE FALSE
  OBVIOUS
<1>1. mode = "executing"
  BY DEF FaultInv, ModeInv
<1>2. PICK p \in Procs : Deciding(p)
  BY <1>1 DEF FaultInv, ModeInv
<1>3. Decides(call[p], operation, fault, pending)
  BY <1>2, DecidingKnows
<1> QED
  BY <1>3 DEF Decides

\* A Snapshot captured now is in doubt about the Attempt of a preparation under
\* way, and about every unresolved one.
LEMMA SnapshotAbout ==
    ASSUME IInv, FaultInv, HeldInv
    PROVE  /\ \A e \in unresolved : About(SnapshotNow, e)
           /\ \A p \in Procs : Deciding(p) /\ operation.issued =>
                 About(SnapshotNow, Identifier(operation.change))
           /\ SnapshotNow.rev = revision /\ SnapshotNow.attempt = attempt
           /\ SnapshotNow.inc = incarnation
<1> DEFINE issuing == operation.id # 0 /\ mode = "executing" /\ operation.issued
<1>1. /\ SnapshotNow.indoubt = (pending.live \/ issuing \/ (fault.latched /\ fault.issued))
      /\ SnapshotNow.pending = SnapshotPending
      /\ SnapshotNow.rev = revision /\ SnapshotNow.attempt = attempt
      /\ SnapshotNow.inc = incarnation
  BY DEF SnapshotNow
<1>2. issuing => \E p \in Procs : Deciding(p)
  BY DEF FaultInv, ModeInv
<1>3. issuing => ~fault.latched /\ ~pending.live /\ operation.change.seq # 0
  BY <1>2, IssuingFacts
<1>4. pending.live => About(SnapshotNow, Identifier(pending.change))
  BY <1>1 DEF About, SnapshotPending
<1>5. issuing => About(SnapshotNow, Identifier(operation.change))
  BY <1>1, <1>3 DEF About, SnapshotPending
<1>6. fault.latched /\ fault.issued => About(SnapshotNow, Identifier(fault.change))
  <2> SUFFICES ASSUME fault.latched, fault.issued
               PROVE  About(SnapshotNow, Identifier(fault.change))
    OBVIOUS
  <2>1. ~pending.live /\ ~issuing
    BY <1>3, FaultOrPending
  <2>2. SnapshotPending = [fault.change EXCEPT !.from = fault.state]
    BY <2>1 DEF SnapshotPending
  <2>3. fault.change \in Change
    BY DEF IInv, TypeOK, Fault
  <2>4. Identifier(SnapshotPending) = Identifier(fault.change)
    BY <2>2, <2>3 DEF Identifier, Change
  <2> QED
    BY <1>1, <2>4 DEF About
<1>7. \A p \in Procs : Deciding(p) /\ operation.issued => issuing
  BY IssuingFacts
<1>8. \A p \in Procs : Deciding(p) /\ Started(call[p]) => issuing
  BY <1>7, StartedFacts
<1>9. ASSUME NEW e \in unresolved PROVE About(SnapshotNow, e)
  BY <1>4, <1>5, <1>6, <1>8, <1>9 DEF HeldInv, Holds
<1> QED
  BY <1>1, <1>5, <1>7, <1>9

-----------------------------------------------------------------------------
(* Admissions, reports and outcomes. *)

\* An admission finds no write under way and draws a fresh sequence number.
LEMMA AdmittedDurable ==
    ASSUME IInv, FaultInv, DurableInv, FaultInv', NEW p \in Procs, Admitted(p)
    PROVE  DurableInv'
<1>1. /\ UNCHANGED <<pending, fault, disk, writers, unresolved, everIssued, revision,
                     incarnation>>
      /\ writers = {} /\ attempt' \in {attempt, attempt + 1} /\ attempt \in Nat
  BY QuiescentFacts DEF Admitted, committed, rest, durable, ghosts, delivery, IInv, TypeOK
<1>2. \A q \in Procs : ~Deciding(q)
  BY DEF Admitted, FaultInv, ModeInv
<1>3. /\ \A q \in Procs : Deciding(q)' => q = p
      /\ call'[p].pc \in {"invoke", "latch"} /\ call'[p].phase # "issue"
  BY DEF Admitted
<1>4. \A s \in everIssued : s \in Nat /\ s <= attempt
  <2>1. everIssued \subseteq 0..MaxUint64
    BY DEF IInv, TypeOK
  <2> QED
    BY <2>1 DEF DurableInv, EverInv
<1>5. HeldInv'
  BY <1>1, <1>2 DEF DurableInv, HeldInv, Holds
<1>6. WriterInv'
  <2>1. /\ disk.rev <= revision /\ disk.attempt <= attempt /\ disk.inc <= incarnation
        /\ disk \in Snapshot
    BY DEF DurableInv, WriterInv, Between, IInv, TypeOK
  <2>2. disk.rev \in Nat /\ disk.attempt \in Nat /\ disk.inc \in Nat
    BY <2>1 DEF Snapshot
  <2>3. Between(disk, disk, revision, attempt', incarnation)
    BY <1>1, <2>1, <2>2 DEF Between
  <2> QED
    BY <1>1, <2>3 DEF WriterInv
<1>7. AboutInv'
  BY <1>1 DEF DurableInv, AboutInv
<1>8. PreparingInv'
  BY <1>1, <1>3 DEF PreparingInv, Stored
<1>9. EverInv'
  <2>1. call'[p].api = "issue" /\ call'[p].pc # "latch" => call'[p].change.seq = attempt + 1
    <3>1. Deciding(p)' /\ Current(call'[p], state', revision', attempt', incarnation')
      BY DEF Admitted, FaultInv, DecidingInv
    <3> QED
      BY <3>1 DEF Admitted, Current
  <2>2. \A s \in everIssued : s <= attempt' /\ s # attempt + 1
    BY <1>1, <1>4
  <2> QED
    BY <1>1, <1>3, <2>1, <2>2 DEF DurableInv, EverInv
<1> QED
  BY <1>5, <1>6, <1>7, <1>8, <1>9 DEF DurableInv

\* A step after which nobody decides, and that neither writes nor forgets.
LEMMA UndecidedDurable ==
    ASSUME IInv, DurableInv, \A q \in Procs : ~Deciding(q)',
           UNCHANGED <<attempt, incarnation, disk, writers, everIssued>>,
           revision' \in {revision, revision + 1}, unresolved' \subseteq unresolved,
           HeldInv'
    PROVE  DurableInv'
<1>1. /\ revision \in Nat /\ disk.rev \in Nat
      /\ \A w \in writers : w.snapshot.rev \in Nat
  BY DEF IInv, TypeOK, Snapshot, Writer
<1>2. WriterInv'
  BY <1>1 DEF DurableInv, WriterInv, Between
<1>3. AboutInv'
  BY DEF DurableInv, AboutInv
<1>4. PreparingInv' /\ EverInv'
  BY DEF PreparingInv, DurableInv, EverInv
<1> QED
  BY <1>2, <1>3, <1>4 DEF DurableInv

\* A Trip or an expiry keeps a started Attempt in the Fault it latches.
LEMMA ReportDurable ==
    ASSUME IInv, FaultInv, DurableInv, NEW p \in Procs,
           Trip(p) \/ VerifyExpired(p) \/ Expiry(p)
    PROVE  DurableInv'
<1>1. call[p].pc = "idle" /\
      \/ Report(p, operation.change, "tripped") /\ mode = "executing"
      \/ \E cause \in {"tripped", "expired"} :
            Report(p, pending.change, cause) /\ pending.live /\ mode = "awaiting"
      \/ Report(p, CurrentChange, "tripped") /\ ~(mode = "executing")
            /\ ~(mode = "awaiting" /\ pending.live)
  BY ReportsOf DEF Expiry
<1>2. PICK change, cause : Report(p, change, cause) /\
      \/ change = operation.change /\ mode = "executing"
      \/ change = pending.change /\ pending.live /\ mode = "awaiting"
      \/ mode # "executing" /\ ~(mode = "awaiting" /\ pending.live)
  BY <1>1
<1>3. (\A q \in Procs : ~Deciding(q)')
  BY <1>1, <1>2, ReportFault
<1>4. /\ UNCHANGED <<attempt, incarnation, disk, writers, everIssued, revision, unresolved>>
      /\ fault' = IF fault.latched THEN fault ELSE LatchedFault(change, cause, TRUE)
  BY <1>2 DEF Report, LatchLocked, committed, identities, delivery, durable, ghosts
<1>5. fault.latched \in BOOLEAN /\ pending.live \in BOOLEAN
  BY DEF IInv, TypeOK, Fault, Pending
<1>6. ASSUME NEW e \in unresolved
      PROVE  fault'.latched /\ fault'.issued /\ fault'.uncertain /\ Identifier(fault'.change) = e
  <2>1. Holds(e)
    BY DEF DurableInv, HeldInv
  <2>2. CASE fault.latched
    <3>1. ~pending.live
      BY <2>2, FaultOrPending
    <3>2. \A q \in Procs : ~(Deciding(q) /\ Started(call[q]))
      BY <2>2, StartedFacts
    <3> QED
      BY <1>4, <2>1, <2>2, <3>1, <3>2 DEF Holds
  <2>3. CASE ~fault.latched
    <3>1. fault' = LatchedFault(change, cause, TRUE)
      BY <1>4, <2>3
    <3>2. \/ pending.live /\ Identifier(pending.change) = e
          \/ \E q \in Procs : Deciding(q) /\ Started(call[q])
                              /\ Identifier(operation.change) = e
      BY <2>1, <2>3 DEF Holds
    <3>3. CASE pending.live /\ Identifier(pending.change) = e
      <4>1. Identifier(change) = e
        <5>1. CASE change = operation.change /\ mode = "executing"
          <6>1. PICK q \in Procs : Deciding(q)
            BY <5>1 DEF FaultInv, ModeInv
          <6>2. Decides(call[q], operation, fault, pending)
            BY <6>1, DecidingKnows
          <6> QED
            BY <3>3, <5>1, <6>2 DEF Decides
        <5>2. CASE mode # "executing"
          BY <1>2, <3>3, <5>2 DEF FaultInv, ModeInv
        <5> QED
          BY <1>2, <3>3, <5>1, <5>2
      <4> QED
        BY <3>1, <3>3, <4>1 DEF LatchedFault
    <3>4. ASSUME NEW q \in Procs, Deciding(q), Started(call[q]),
                 Identifier(operation.change) = e
          PROVE  fault'.latched /\ fault'.issued /\ fault'.uncertain
                 /\ Identifier(fault'.change) = e
      <4>1. operation.issued /\ operation.id # 0 /\ mode = "executing"
        BY <3>4, StartedFacts, IssuingFacts
      <4>2. change = operation.change
        BY <1>2, <4>1
      <4> QED
        BY <3>1, <3>4, <4>1, <4>2 DEF LatchedFault
    <3> QED
      BY <3>2, <3>3, <3>4
  <2> QED
    BY <2>2, <2>3
<1>7. HeldInv'
  BY <1>4, <1>6 DEF HeldInv, Holds
<1> QED
  BY <1>3, <1>4, <1>7, UndecidedDurable

\* An outcome hands the Attempt on to the pending Change or to the Fault, or
\* resolves it.
LEMMA SettlingDurable ==
    ASSUME IInv, FaultInv, DurableInv, NEW p \in Procs, Settling(p)
    PROVE  DurableInv'
<1> DEFINE c == call[p]
<1>1. Deciding(p)
  BY OutcomeFault DEF Settling
<1>2. /\ Decides(c, operation, fault, pending) /\ LocalShape(c) /\ c \in Call
      /\ mode = "executing" /\ Owns(c.op) /\ operation.id # 0
      /\ \A q \in Procs : Deciding(q) => q = p
      /\ \A q \in Procs : call[q].pc \in Undecided => q = p
  BY <1>1, DecidingKnows, DecidingFacts DEF Deciding
<1>3. \E b \in BOOLEAN : Publish(p, b)
  BY <1>2 DEF Settling, Latch, RestoreFault, FinishReady, AwaitVerification, Commit,
     FinishAdjudication, IInv, TypeOK, Fault
<1>4. \A q \in Procs : ~Deciding(q)'
  BY <1>1, <1>3, PublishSettles, SettledAll
<1>5. /\ UNCHANGED <<attempt, incarnation, disk, writers, everIssued>>
      /\ revision' \in {revision, revision + 1} /\ unresolved' \subseteq unresolved
  BY DEF Settling, Latch, RestoreFault, FinishReady, AwaitVerification, Commit,
     FinishAdjudication, rest, committed, identities, delivery, durable, ghosts
<1>6. \A e \in unresolved :
         \/ pending.live /\ Identifier(pending.change) = e
         \/ fault.latched /\ fault.issued /\ fault.uncertain /\ Identifier(fault.change) = e
         \/ Started(c) /\ Identifier(operation.change) = e
  BY <1>2 DEF DurableInv, HeldInv, Holds
<1>7. Started(c) => c.phase = "issue" /\ operation.issued /\ ~fault.latched /\ ~pending.live
                    /\ operation.change = c.change
  BY <1>1, StartedFacts DEF Started
<1>8. /\ (c.api = "adjudicate") <=> fault.latched
      /\ (c.api = "verify") <=> pending.live
      /\ PhaseFits(c.api, c.phase) /\ c.api \in {None, "start", "issue", "verify", "adjudicate"}
      /\ pending.live => c.change = pending.change
      /\ c.pc = "latch" /\ (c.api = "verify") => c.uncertain
      /\ Identifier(operation.change) = Identifier(c.change)
  BY <1>2 DEF Decides, LocalShape, Call
<1>9. HeldInv'
  <2>1. CASE Latch(p)
    <3>1. ~fault.latched /\ c.pc = "latch"
      BY <1>8, <2>1 DEF Latch
    <3>2. fault' = LatchedFault(c.change, c.cause, c.uncertain) /\ unresolved' = unresolved
      BY <1>2, <2>1, <3>1 DEF Latch, LatchLocked, rest, ghosts
    <3>3. \A e \in unresolved :
             /\ Identifier(c.change) = e /\ c.uncertain
             /\ \/ pending.live /\ Identifier(pending.change) = Identifier(c.change)
                \/ operation.issued
      BY <1>6, <1>7, <1>8, <3>1 DEF Started
    <3>4. \A e \in unresolved :
             fault'.latched /\ fault'.issued /\ fault'.uncertain /\ Identifier(fault'.change) = e
      BY <1>2, <1>8, <3>2, <3>3 DEF LatchedFault
    <3> QED
      BY <3>2, <3>4 DEF HeldInv, Holds
  <2>2. CASE RestoreFault(p)
    <3>1. fault.latched
      BY <1>8, <2>2 DEF RestoreFault
    <3>2. UNCHANGED <<pending, fault, unresolved>>
      BY <2>2 DEF RestoreFault, rest, ghosts
    <3> QED
      BY <1>6, <1>7, <3>1, <3>2 DEF HeldInv, Holds
  <2>3. CASE FinishReady(p)
    <3>1. ~fault.latched /\ ~pending.live /\ c.phase # "issue"
      BY <1>8, <2>3 DEF FinishReady, Finishing, PhaseFits, None
    <3>2. unresolved' = unresolved
      BY <2>3 DEF FinishReady, rest, ghosts
    <3> QED
      BY <1>6, <1>7, <3>1, <3>2 DEF HeldInv
  <2>4. CASE AwaitVerification(p)
    <3>1. ~fault.latched /\ ~pending.live
      BY <1>8, <2>4 DEF AwaitVerification, Finishing, PhaseFits, None
    <3>2. unresolved' = unresolved /\ pending'.live /\ pending'.change = c.change
      BY <2>4 DEF AwaitVerification, ghosts
    <3> QED
      BY <1>6, <1>8, <3>1, <3>2 DEF HeldInv, Holds
  <2>5. CASE Commit(p)
    <3>1. ~fault.latched /\ c.phase = "commit"
      BY <1>8, <2>5 DEF Commit, Finishing, PhaseFits, None
    <3>2. unresolved' = unresolved \ {Identifier(c.change)}
      BY <2>5 DEF Commit
    <3> QED
      BY <1>6, <1>7, <1>8, <3>1, <3>2 DEF HeldInv
  <2>6. CASE FinishAdjudication(p)
    <3>1. ~pending.live
      BY <1>8, <2>6 DEF FinishAdjudication, Finishing, PhaseFits, None
    <3>2. unresolved' = unresolved \ {Identifier(fault.change)} /\ fault.latched
      BY <2>6 DEF FinishAdjudication
    <3> QED
      BY <1>6, <1>7, <3>1, <3>2 DEF HeldInv
  <2> QED
    BY <2>1, <2>2, <2>3, <2>4, <2>5, <2>6 DEF Settling
<1> QED
  BY <1>4, <1>5, <1>9, UndecidedDurable

-----------------------------------------------------------------------------
(* The call that decides goes on. *)

\* An answer, or its absence, leaves a started Attempt started.
LEMMA AnsweringDurable ==
    ASSUME IInv, FaultInv, DurableInv, NEW p \in Procs, Answering(p)
    PROVE  DurableInv'
<1> DEFINE c == call[p]
           d == call'[p]
<1>1. /\ Deciding(p) /\ Follows(c, d) /\ Keeps(operation')
      /\ \A q \in Procs : Deciding(q)' <=> q = p
  BY AnswersFault DEF Answering
<1>2. /\ LocalShape(c) /\ c \in Call /\ c.pc \in {"invoke", "wait", "finish"}
      /\ \A q \in Procs : Deciding(q) => q = p
  BY <1>1, DecidingKnows, DecidingFacts
     DEF Answering, InvokeRefused, Answer, Abandon, FinishLate, Deciding
<1>3. UNCHANGED <<attempt, incarnation, revision, disk, writers, unresolved, everIssued,
                  pending, fault>>
  BY DEF Answering, InvokeRefused, Answer, Abandon, FinishLate, shared, core, rest,
     committed, counters, delivery, durable, ghosts
<1>4. /\ operation'.change = operation.change /\ operation'.issued = operation.issued
  BY <1>1 DEF Keeps
<1>5. d.pc \in {"invoke", "prepare", "finish", "latch"} /\ d.api = c.api
      /\ SameAttempt(d.change, c.change) /\ (c.phase = "issue" <=> d.phase = "issue")
      /\ (c.phase = "issue" => d.pc = "finish" \/ (d.pc = "latch" /\ d.uncertain))
  BY <1>1 DEF Follows
<1>6. Started(c) => Started(d)
  BY <1>5 DEF Started
<1>7. ~Stored(d)
  BY <1>5 DEF Stored
<1>8. ASSUME NEW e \in unresolved PROVE Holds(e)'
  <2>1. Holds(e)
    BY DEF DurableInv, HeldInv
  <2> QED
    BY <1>1, <1>2, <1>3, <1>4, <1>6, <2>1 DEF Holds
<1>9. HeldInv'
  BY <1>3, <1>8 DEF HeldInv
<1>10. WriterInv' /\ AboutInv'
  BY <1>3 DEF DurableInv, WriterInv, AboutInv
<1>11. PreparingInv'
  BY <1>1, <1>3, <1>4, <1>7 DEF DurableInv, PreparingInv
<1>12. EverInv'
  <2>1. d.api = "issue" /\ d.pc # "latch" /\ ~Started(d) =>
           c.api = "issue" /\ c.pc # "latch" /\ ~Started(c) /\ d.change.seq = c.change.seq
    BY <1>2, <1>5, <1>6 DEF SameAttempt
  <2> QED
    BY <1>1, <1>3, <2>1 DEF DurableInv, EverInv
<1> QED
  BY <1>9, <1>10, <1>11, <1>12 DEF DurableInv

\* What a call that prepares its Issue finds: the Issue did not start, and what is
\* unresolved is held by the pending Change or by the Fault, of which there is none.
LEMMA NothingUnresolved ==
    ASSUME IInv, FaultInv, DurableInv, NEW p \in Procs, Deciding(p),
           (call[p].api = "issue"), ~Started(call[p])
    PROVE  unresolved = {}
<1>1. Decides(call[p], operation, fault, pending) /\ fault.latched \in BOOLEAN
      /\ pending.live \in BOOLEAN
  BY DecidingKnows DEF IInv, TypeOK, Fault, Pending
<1>2. ~fault.latched /\ ~pending.live
  BY <1>1 DEF Decides
<1>3. \A q \in Procs : Deciding(q) => q = p
  BY DecidingFacts DEF Deciding
<1> QED
  BY <1>2, <1>3 DEF DurableInv, HeldInv, Holds

\* The preparation ends in the Issue callback only once it is on disk.
LEMMA PreparationDurable ==
    ASSUME IInv, FaultInv, DurableInv, NEW p \in Procs, PreparationStep(p)
    PROVE  DurableInv'
<1> DEFINE c == call[p]
           d == call'[p]
<1>1. /\ Deciding(p) /\ \A q \in Procs : Deciding(q)' <=> q = p
      /\ Decides(c, operation, fault, pending) /\ LocalShape(c) /\ c \in Call
      /\ MayRun(c) /\ operation \in Operation /\ c.op \in 0..MaxUint64
  BY PreparationFault, DecidingKnows, DecidingRuns DEF PreparationStep, Deciding, Call
<1>2. /\ c.pc \in {"prepare", "deliver", "prepared"}
      /\ c.api = "issue" /\ c.phase = "invariant" /\ ~Started(c)
  BY <1>1 DEF PreparationStep, Prepare, PrepareDeliver, PrepareFailed, Prepared, Preparing,
     LocalShape, Started
<1>3. UNCHANGED <<attempt, incarnation, revision, disk, unresolved, everIssued,
                  pending, fault>>
  BY DEF PreparationStep, Prepare, PrepareDeliver, PrepareFailed, Prepared, shared, core,
     rest, committed, counters, durable, ghosts
<1>4. unresolved = {}
  BY <1>1, <1>2, NothingUnresolved
<1>5. call \in [Procs -> Call]
  BY DEF IInv, TypeOK
<1>6. HeldInv' /\ AboutInv'
  BY <1>3, <1>4 DEF HeldInv, AboutInv
<1>7. /\ writers' = writers \/ \A w \in writers' : w.step = "new"
      /\ d.change = c.change /\ d.api = c.api
      /\ \A w \in writers' :
            /\ operation'.issued
            /\ w.step # "new" => /\ About(w.snapshot, Identifier(operation'.change))
                                 /\ w.snapshot.attempt = attempt
      /\ Journal /\ Stored(d) =>
            /\ writers' = {} /\ About(disk, Identifier(operation'.change))
            /\ disk.attempt = attempt
  <2>1. CASE Prepare(p)
    <3>1. ~operation.issued
      BY <1>1, <1>2, <2>1 DEF Decides, Prepare
    <3>2. writers = {} /\ writers' = writers
      BY <1>1, <2>1, <3>1 DEF DurableInv, PreparingInv, Prepare, delivery
    <3>3. d = IF Journal THEN [c EXCEPT !.pc = "deliver"] ELSE Enter(c, "issue", 1)
      BY <1>1, <1>5, <2>1 DEF Prepare
    <3>4. /\ d.change = c.change /\ d.api = c.api
          /\ Journal => d.pc = "deliver"
      BY <1>1, <3>3 DEF Enter, Call
    <3> QED
      BY <3>2, <3>4 DEF Stored
  <2>2. CASE PrepareDeliver(p)
    <3>1. writers = {} /\ \A w \in writers' : w.step = "new"
      BY <2>2 DEF PrepareDeliver, StartWriter, IInv, GateInv
    <3>2. d = [c EXCEPT !.pc = "prepared"]
      BY <1>5, <2>2 DEF PrepareDeliver
    <3>3. /\ d.change = c.change /\ d.api = c.api /\ d.pc = "prepared" /\ d.done = None
      BY <1>1, <2>2, <3>2 DEF Call, PrepareDeliver, LocalShape
    <3>4. operation' = Leased(c.op)
      BY <2>2 DEF PrepareDeliver, StartWriter
    <3>5. operation'.issued
      BY <1>1, <1>2, <2>2, <3>4, KeepsGood DEF Decides, PrepareDeliver, Keeps
    <3> QED
      BY <3>1, <3>3, <3>5 DEF Stored, None
  <2>3. CASE PrepareFailed(p)
    <3>1. UNCHANGED <<writers, operation>>
      BY <2>3 DEF PrepareFailed, shared, delivery
    <3>2. d = Fail([c EXCEPT !.phase = "issue"], "journal", FALSE)
      BY <1>5, <2>3 DEF PrepareFailed
    <3>3. d.change = c.change /\ d.api = c.api /\ d.pc = "latch"
      BY <1>1, <3>2 DEF Call, Fail
    <3> QED
      BY <1>1, <3>1, <3>3 DEF DurableInv, PreparingInv, Stored
  <2>4. CASE Prepared(p)
    <3>1. UNCHANGED <<writers, operation>> /\ Stored(c)
      BY <2>4 DEF Prepared, shared, delivery, Stored
    <3>2. d = Enter(c, "issue", 1)
      BY <1>5, <2>4 DEF Prepared
    <3>3. d.change = c.change /\ d.api = c.api
      BY <1>1, <3>2 DEF Call, Enter
    <3> QED
      BY <1>1, <3>1, <3>3 DEF DurableInv, PreparingInv
  <2> QED
    BY <2>1, <2>2, <2>3, <2>4 DEF PreparationStep
<1> HIDE DEF c, d
<1>8. WriterInv'
  BY <1>3, <1>7 DEF DurableInv, WriterInv
<1>9. PreparingInv'
  BY <1>1, <1>3, <1>7 DEF PreparingInv, d
<1>10. EverInv'
  <2>1. c.pc # "latch"
    BY <1>2
  <2> QED
    BY <1>1, <1>2, <1>3, <1>7, <2>1 DEF DurableInv, EverInv, c, d
<1> QED
  BY <1>6, <1>8, <1>9, <1>10 DEF DurableInv

\* The Issue callback starts for an Attempt that is on disk and was never started.
LEMMA InvokeDurable ==
    ASSUME IInv, FaultInv, DurableInv, NEW p \in Procs, Invoke(p)
    PROVE  DurableInv'
<1> DEFINE c == call[p]
           d == call'[p]
<1>1. /\ Deciding(p) /\ \A q \in Procs : Deciding(q)' <=> q = p
      /\ Decides(c, operation, fault, pending) /\ c \in Call
      /\ operation \in Operation /\ c.op \in 0..MaxUint64
  BY InvokeFault, DecidingKnows DEF Call
<1>2. UNCHANGED <<attempt, incarnation, revision, disk, writers, pending, fault>>
  BY DEF Invoke, core, committed, counters, durable, delivery
<1>3. /\ d.pc = "wait" /\ d.phase = c.phase /\ d.change = c.change /\ d.api = c.api
  <2>1. d = [c EXCEPT !.pc = "wait"]
    BY DEF Invoke, IInv, TypeOK
  <2> QED
    BY <1>1, <2>1 DEF Call
<1>4. operation'.change = c.change /\ operation'.issued = operation.issued
  <2>1. Leased(c.op) \in Operation /\ Keeps(Leased(c.op))
    BY <1>1, KeepsGood, LeasedGood
  <2> QED
    BY <2>1 DEF Invoke, Keeps, Operation
<1>5. c.pc = "invoke" /\ ~Started(c) /\ (Started(d) <=> c.phase = "issue") /\ ~Stored(d)
  BY <1>3 DEF Invoke, Started, Stored
<1>6. \A q \in Procs : Deciding(q) => q = p
  BY <1>1, DecidingFacts DEF Deciding
<1>7. WriterInv'
  BY <1>2 DEF DurableInv, WriterInv
<1>8. CASE c.phase = "issue"
  <2>1. /\ (c.api = "issue") /\ operation.issued /\ operation.change = c.change
        /\ c.change.seq = attempt
    BY <1>1, <1>8, StartedFacts, IssuingFacts
  <2>2. unresolved = {}
    BY <1>1, <1>5, <2>1, NothingUnresolved
  <2>3. /\ unresolved' = unresolved \cup {Identifier(c.change)}
        /\ everIssued' = everIssued \cup {c.change.seq}
    BY <1>8 DEF Invoke
  <2>4. Journal => writers = {} /\ About(disk, Identifier(c.change)) /\ disk.attempt = attempt
    BY <1>1, <1>5, <1>8, <2>1 DEF DurableInv, PreparingInv, Stored
  <2>5. HeldInv'
    BY <1>1, <1>4, <1>5, <1>8, <2>2, <2>3 DEF HeldInv, Holds
  <2>6. AboutInv'
    BY <1>2, <2>2, <2>3, <2>4 DEF AboutInv
  <2>7. PreparingInv'
    BY <1>1, <1>2, <1>4, <1>5, <2>1 DEF DurableInv, PreparingInv
  <2>8. EverInv'
    <3>1. attempt <= attempt
      BY DEF IInv, TypeOK
    <3> QED
      BY <1>1, <1>2, <1>5, <1>8, <2>1, <2>3, <2>4, <3>1 DEF DurableInv, EverInv
  <2> QED
    BY <1>7, <2>5, <2>6, <2>7, <2>8 DEF DurableInv
<1>9. CASE c.phase # "issue"
  <2>1. ~operation.issued
    BY <1>1, <1>5, <1>9 DEF Decides
  <2>2. writers = {}
    BY <1>1, <2>1 DEF DurableInv, PreparingInv
  <2>3. UNCHANGED <<unresolved, everIssued>>
    BY <1>9 DEF Invoke, ghosts
  <2>4. ASSUME NEW e \in unresolved PROVE Holds(e)'
    <3>1. Holds(e)
      BY DEF DurableInv, HeldInv
    <3> QED
      BY <1>2, <1>5, <1>6, <3>1 DEF Holds
  <2>5. HeldInv' /\ AboutInv'
    BY <1>2, <2>3, <2>4 DEF DurableInv, HeldInv, AboutInv
  <2>6. PreparingInv'
    BY <1>1, <1>2, <1>5, <2>2 DEF PreparingInv
  <2>7. EverInv'
    BY <1>1, <1>2, <1>3, <1>5, <2>3 DEF DurableInv, EverInv
  <2> QED
    BY <1>7, <2>5, <2>6, <2>7 DEF DurableInv
<1> QED
  BY <1>8, <1>9

-----------------------------------------------------------------------------
(* The Journal. *)

\* What the one Journal goroutine carries, and what is on disk, when it moves on.
LEMMA WriterDurable ==
    ASSUME IInv, FaultInv, DurableInv, NEW w \in writers, WriterMoves(w)
    PROVE  /\ \A v \in writers' : v.step # "new"
           /\ disk' = disk \/ (w.step # "new" /\ disk' = w.snapshot)
           /\ \A v \in writers' : \/ v.snapshot = SnapshotNow
                                  \/ w.step # "new" /\ v.snapshot = w.snapshot
           /\ \A v \in writers' : v.step = "written" => disk' = v.snapshot
           /\ writers' # {} => call' = call
           /\ \A p \in Procs : \/ call'[p].done = call[p].done
                               \/ call'[p].done = "ok" => disk' = w.snapshot /\ w.step # "new"
<1>1. writers = {w} /\ w \in Writer /\ call \in [Procs -> Call]
  BY DEF IInv, TypeOK, GateInv
<1>2. CASE Capture(w)
  <2> DEFINE v == [w EXCEPT !.step = "captured", !.snapshot = SnapshotNow]
  <2>1. writers' = {v} /\ v.step = "captured" /\ v.snapshot = SnapshotNow
    BY <1>1, <1>2 DEF Capture, Stepped, Writer
  <2> HIDE DEF v
  <2>2. disk' = disk /\ call' = call
    BY <1>2 DEF Capture, rest, durable
  <2> QED
    BY <2>1, <2>2
<1>3. CASE Write(w)
  <2> DEFINE v == [w EXCEPT !.step = "written", !.snapshot = w.snapshot]
  <2>1. writers' = {v} /\ v.step = "written" /\ v.snapshot = w.snapshot
    BY <1>1, <1>3 DEF Write, Stepped, Writer
  <2> HIDE DEF v
  <2>2. disk' = w.snapshot /\ call' = call /\ w.step = "captured"
    BY <1>3 DEF Write
  <2> QED
    BY <2>1, <2>2
<1>4. ASSUME NEW o \in {"ok", "err"}, WriterEnd(w, o)
      PROVE  /\ writers' = {} /\ disk' = disk
             /\ \A p \in Procs : \/ call'[p].done = call[p].done
                                 \/ call'[p].done = "ok" => disk' = w.snapshot /\ w.step # "new"
  <2>1. writers' = {} /\ disk' = disk
    BY <1>1, <1>4 DEF WriterEnd, rest, durable
  <2>2. \A p \in Procs : call'[p].done \in {call[p].done, o}
    BY <1>1, <1>4 DEF WriterEnd, Call
  <2>3. o = "ok" => w.step = "written" /\ disk = w.snapshot
    BY <1>4 DEF WriterEnd, DurableInv, WriterInv
  <2> QED
    BY <2>1, <2>2, <2>3
<1> QED
  BY <1>2, <1>3, <1>4 DEF WriterMoves

\* A Snapshot that lies between the disk and the counters may become the disk.
LEMMA BetweenFacts ==
    ASSUME NEW d \in Snapshot, NEW s \in Snapshot, NEW r \in Nat, NEW a \in Nat, NEW i \in Nat,
           Between(d, s, r, a, i)
    PROVE  Between(s, s, r, a, i) /\ Between(d, d, r, a, i)
BY DEF Between, Snapshot

\* The Journal, the Recorder, a publication or the clock forgets no Attempt.
LEMMA BystandingDurable ==
    ASSUME IInv, FaultInv, DurableInv, Bystanding
    PROVE  DurableInv'
<1>1. /\ UNCHANGED <<revision, attempt, incarnation, fault, unresolved, everIssued>>
      /\ pending'.live = pending.live /\ pending'.change = pending.change
  BY DEF Bystanding, committed, identities, ghosts, IInv, TypeOK, Pending
<1>2. ASSUME NEW p \in Procs
      PROVE  /\ Deciding(p) <=> Deciding(p)'
             /\ Deciding(p) =>
                   /\ operation'.change = operation.change
                   /\ operation'.issued = operation.issued
                   /\ Started(call'[p]) <=> Started(call[p])
                   /\ call'[p].change = call[p].change /\ call'[p].api = call[p].api
                   /\ call'[p].pc = call[p].pc /\ call'[p].phase = call[p].phase
  BY DEF Bystanding, SameLocals, Keeps, Started
<1>3. HeldInv'
  <2>1. ASSUME NEW e \in unresolved PROVE Holds(e)'
    <3>1. Holds(e)
      BY DEF DurableInv, HeldInv
    <3> QED
      BY <1>1, <1>2, <3>1 DEF Holds
  <2> QED
    BY <1>1, <2>1 DEF HeldInv
<1>4. /\ disk \in Snapshot /\ \A w \in writers : w.snapshot \in Snapshot
      /\ revision \in Nat /\ attempt \in Nat /\ incarnation \in Nat
      /\ SnapshotNow \in Snapshot /\ everIssued \subseteq Nat
  BY SnapshotNowGood DEF IInv, TypeOK, Writer
<1>5. /\ Between(disk, disk, revision, attempt, incarnation)
      /\ \A w \in writers : w.step # "new" =>
            Between(disk, w.snapshot, revision, attempt, incarnation)
      /\ \A w \in writers : w.step = "written" => disk = w.snapshot
  BY DEF DurableInv, WriterInv
<1>6. \A s \in everIssued : s \in Nat /\ s <= attempt /\ (Journal => s <= disk.attempt)
  BY <1>4 DEF DurableInv, EverInv
<1>7. ASSUME disk.attempt <= disk'.attempt, disk' \in Snapshot PROVE EverInv'
  <2>1. disk.attempt \in Nat /\ disk'.attempt \in Nat
    BY <1>4, <1>7 DEF Snapshot
  <2>2. \A s \in everIssued : s <= attempt /\ (Journal => s <= disk'.attempt)
    BY <1>6, <1>7, <2>1
  <2> QED
    BY <1>1, <1>2, <2>2 DEF DurableInv, EverInv
<1>8. disk.attempt <= disk.attempt
  BY <1>4 DEF Snapshot
<1>9. CASE \E w \in writers : WriterMoves(w)
  <2>1. PICK w \in writers : WriterMoves(w)
    BY <1>9
  <2>2. /\ \A v \in writers' : v.step # "new"
        /\ disk' = disk \/ (w.step # "new" /\ disk' = w.snapshot)
        /\ \A v \in writers' : \/ v.snapshot = SnapshotNow
                               \/ w.step # "new" /\ v.snapshot = w.snapshot
        /\ \A v \in writers' : v.step = "written" => disk' = v.snapshot
        /\ writers' # {} => call' = call
        /\ \A p \in Procs : \/ call'[p].done = call[p].done
                            \/ call'[p].done = "ok" => disk' = w.snapshot /\ w.step # "new"
    BY <2>1, WriterDurable
  <2>3. \A e \in unresolved : About(SnapshotNow, e)
    BY SnapshotAbout DEF DurableInv
  <2>4. /\ SnapshotNow.rev = revision /\ SnapshotNow.attempt = attempt
        /\ SnapshotNow.inc = incarnation
    BY SnapshotAbout DEF DurableInv
  <2>5. w.step # "new" => Between(disk, w.snapshot, revision, attempt, incarnation)
                          /\ Between(w.snapshot, w.snapshot, revision, attempt, incarnation)
    BY <1>4, <1>5, <2>1, BetweenFacts
  <2>6. Between(disk, SnapshotNow, revision, attempt, incarnation)
    BY <1>4, <1>5, <2>4 DEF Between, Snapshot
  <2>7. WriterInv'
    <3>1. Between(disk', disk', revision, attempt, incarnation)
      BY <1>5, <2>2, <2>5
    <3>2. ASSUME NEW v \in writers'
          PROVE  Between(disk', v.snapshot, revision, attempt, incarnation)
      <4>1. CASE disk' = disk
        BY <2>2, <2>5, <2>6, <3>2, <4>1
      <4>2. CASE w.step # "new" /\ disk' = w.snapshot
        <5>1. Between(w.snapshot, SnapshotNow, revision, attempt, incarnation)
          BY <1>4, <2>4, <2>5, <4>2 DEF Between, Snapshot
        <5> QED
          BY <2>2, <2>5, <3>2, <4>2, <5>1
      <4> QED
        BY <2>2, <4>1, <4>2
    <3>3. \A v \in writers' : v.step = "written" => disk' = v.snapshot
      BY <2>2
    <3> QED
      BY <1>1, <3>1, <3>2, <3>3 DEF WriterInv
  <2>8. AboutInv'
    <3> SUFFICES ASSUME Journal, NEW e \in unresolved
                 PROVE  About(disk', e) /\ \A v \in writers' : About(v.snapshot, e)
      BY <1>1 DEF AboutInv
    <3>1. About(disk, e) /\ (w.step # "new" => About(w.snapshot, e))
      BY <2>1 DEF DurableInv, AboutInv
    <3> QED
      BY <2>2, <2>3, <3>1
  <2>9. PreparingInv'
    <3> SUFFICES ASSUME NEW p \in Procs, Deciding(p)
                 PROVE  /\ \A v \in writers' :
                              /\ operation'.issued
                              /\ About(v.snapshot, Identifier(operation.change))
                              /\ v.snapshot.attempt = attempt
                        /\ Journal /\ Stored(call'[p]) =>
                              /\ writers' = {} /\ About(disk', Identifier(operation.change))
                              /\ disk'.attempt = attempt
      BY <1>1, <1>2 DEF PreparingInv
    <3>1. operation.issued /\ (w.step # "new" => About(w.snapshot, Identifier(operation.change))
                                                 /\ w.snapshot.attempt = attempt)
      BY <2>1 DEF DurableInv, PreparingInv
    <3>2. About(SnapshotNow, Identifier(operation.change))
      BY <3>1, SnapshotAbout DEF DurableInv
    <3>3. Journal => ~Stored(call[p])
      BY <2>1 DEF DurableInv, PreparingInv
    <3>4. Journal /\ Stored(call'[p]) => call'[p].done = "ok" /\ call'[p].done # call[p].done
      BY <1>2, <3>3 DEF Stored
    <3>5. Journal /\ Stored(call'[p]) => writers' = {} /\ disk' = w.snapshot /\ w.step # "new"
      BY <2>2, <3>4
    <3> QED
      BY <1>2, <2>2, <2>4, <3>1, <3>2, <3>5
  <2>10. EverInv'
    <3>1. disk.attempt <= disk'.attempt /\ disk' \in Snapshot
      BY <1>4, <1>8, <2>1, <2>2, <2>5 DEF Between
    <3> QED
      BY <1>7, <3>1
  <2> QED
    BY <1>3, <2>7, <2>8, <2>9, <2>10 DEF DurableInv
<1>10. CASE /\ \A p \in Procs : ~Deciding(p)
            /\ disk' = disk /\ \A w \in writers' \ writers : w.step = "new"
  <2>1. WriterInv'
    <3>1. \A w \in writers' : w.step = "written" => w \in writers
      BY <1>10
    <3>2. \A w \in writers' : w.step # "new" => w \in writers
      BY <1>10
    <3> QED
      BY <1>1, <1>5, <1>10, <3>1, <3>2 DEF WriterInv
  <2>2. AboutInv'
    BY <1>1, <1>10 DEF DurableInv, AboutInv
  <2>3. PreparingInv'
    BY <1>2, <1>10 DEF PreparingInv
  <2> QED
    BY <1>3, <1>4, <1>7, <1>8, <1>10, <2>1, <2>2, <2>3 DEF DurableInv
<1>11. CASE /\ UNCHANGED <<writers, disk>>
            /\ \A p \in Procs : Deciding(p) /\ call[p].pc # "wait" => call'[p].done = call[p].done
  <2>1. WriterInv' /\ AboutInv'
    BY <1>1, <1>11 DEF DurableInv, WriterInv, AboutInv
  <2>2. \A p \in Procs : Deciding(p) => (Stored(call'[p]) => Stored(call[p]))
    BY <1>2, <1>11 DEF Stored
  <2>3. PreparingInv'
    BY <1>1, <1>2, <1>11, <2>2 DEF DurableInv, PreparingInv
  <2> QED
    BY <1>3, <1>4, <1>7, <1>8, <1>11, <2>1, <2>3 DEF DurableInv
<1> QED
  BY <1>9, <1>10, <1>11 DEF Bystanding, JournalMoves

-----------------------------------------------------------------------------
(* Every step. *)

\* A restart finds every unresolved Attempt on disk, and draws newer sequences.
LEMMA CrashDurable ==
    ASSUME IInv, DurableInv, CrashRestore PROVE DurableInv'
<1>1. Journal /\ UNCHANGED <<disk, unresolved, everIssued>> /\ writers' = {}
      /\ revision' = disk.rev /\ attempt' = disk.attempt /\ incarnation' = incarnation + 1
  BY DEF CrashRestore, RestoredCounters, ghosts
<1>2. \A q \in Procs : ~Deciding(q)'
  BY CrashFault
<1>3. ASSUME NEW e \in unresolved
      PROVE  fault'.latched /\ fault'.issued /\ fault'.uncertain /\ Identifier(fault'.change) = e
  <2>1. disk.indoubt /\ Identifier(disk.pending) = e
    BY <1>1 DEF DurableInv, AboutInv, About
  <2> QED
    BY <2>1 DEF CrashRestore
<1>4. HeldInv' /\ AboutInv' /\ PreparingInv'
  BY <1>1, <1>2, <1>3 DEF HeldInv, Holds, AboutInv, PreparingInv, DurableInv
<1>5. WriterInv'
  <2>1. disk.rev \in Nat /\ disk.attempt \in Nat /\ disk.inc \in Nat /\ incarnation \in Nat
        /\ disk.inc <= incarnation
    BY DEF IInv, TypeOK, Snapshot, DurableInv, WriterInv, Between
  <2> QED
    BY <1>1, <2>1 DEF WriterInv, Between
<1>6. EverInv'
  BY <1>1, <1>2 DEF DurableInv, EverInv
<1> QED
  BY <1>4, <1>5, <1>6 DEF DurableInv

\* Nothing was issued yet, and nothing is on disk.
LEMMA InitDurable == Init => DurableInv
<1> SUFFICES ASSUME Init PROVE DurableInv
  OBVIOUS
<1>1. \A q \in Procs : ~Deciding(q)
  BY DEF Init, Deciding, Undecided, Running, IdleCall
<1>2. WriterInv
  BY DEF Init, WriterInv, Between, NoSnapshot
<1> QED
  BY <1>1, <1>2 DEF Init, DurableInv, HeldInv, AboutInv, PreparingInv, EverInv

\* Every step keeps what memory and the disk hold.
LEMMA NextDurable == IInv /\ FaultInv /\ DurableInv /\ [Next]_vars => DurableInv'
BY StepKinds, AdmittedDurable, ReportDurable, SettlingDurable, AnsweringDurable,
   PreparationDurable, InvokeDurable, BystandingDurable, CrashDurable

\* Before the Issue callback starts and until somebody resolves it, an Attempt is in
\* memory, on disk, and in whatever the Journal is about to write over it.
THEOREM DurableInductive == Spec => [](IInv /\ FaultInv /\ DurableInv)
<1>1. Init => IInv /\ FaultInv /\ DurableInv
  BY InitIInv, InitFault, InitDurable
<1>2. IInv /\ FaultInv /\ DurableInv /\ [Next]_vars => (IInv /\ FaultInv /\ DurableInv)'
  BY NextIInv, NextFault, NextDurable
<1> QED
  BY <1>1, <1>2, PTL DEF Spec

\* A started and unresolved Attempt is never forgotten: it is pending, or its Issue is
\* executing, or the latched Fault is about it and says Uncertain.
THEOREM NeverForgotten == Spec => []UnresolvedHeld
<1>1. IInv /\ FaultInv /\ DurableInv => UnresolvedHeld
  <2> SUFFICES ASSUME IInv, FaultInv, DurableInv, NEW e \in unresolved
               PROVE  \/ pending.live /\ Identifier(pending.change) = e
                      \/ /\ mode = "executing" /\ operation.issued
                         /\ Identifier(operation.change) = e
                      \/ /\ fault.latched /\ fault.issued /\ fault.uncertain
                         /\ Identifier(fault.change) = e
    BY DEF UnresolvedHeld
  <2>1. Holds(e)
    BY DEF DurableInv, HeldInv
  <2>2. \A p \in Procs : Deciding(p) /\ Started(call[p]) => mode = "executing" /\ operation.issued
    BY StartedFacts, IssuingFacts
  <2> QED
    BY <2>1, <2>2 DEF Holds
<1> QED
  BY <1>1, DurableInductive, PTL

\* Nor is it by the Journal, whatever write is late, lost, failed or skipped: every
\* restart finds a Snapshot that is in doubt about it.
THEOREM FoundByRestart == Spec => []UnresolvedDurable
<1>1. DurableInv => UnresolvedDurable
  BY DEF DurableInv, AboutInv, About, UnresolvedDurable
<1> QED
  BY <1>1, DurableInductive, PTL

\* Only invoke starts a callback.
LEMMA StartedByInvoke ==
    ASSUME IInv, [Next]_vars, NEW g \in callbacks' \ callbacks, g.step = "running"
    PROVE  Invoke(g.proc) /\ g.proc \in Procs /\ g.phase = call[g.proc].phase
<1>1. \A p \in Procs : ~Admit(p)
  BY ZenonT(60) DEF Admit, Start, Issue, IssueExhausted, Verify, Adjudicate, Refuse, Trip, VerifyExpired,
     Begin, Report, shared
<1>2. ~CallbackStep
  <2> SUFFICES ASSUME CallbackStep PROVE FALSE
    OBVIOUS
  <2>1. PICK h \in callbacks : \/ \E o \in Outcomes : CallbackReturn(h, o)
                               \/ LateRecord(h) \/ LateReturn(h)
    BY DEF CallbackStep
  <2>2. \A s \in {"late", "recording"} : [h EXCEPT !.step = s].step = s
    BY DEF IInv, TypeOK, Callback
  <2>3. callbacks' \in {callbacks \ {h}, Moved(h, "late"), Moved(h, "recording")}
    BY <2>1 DEF CallbackReturn, LateRecord, LateReturn, Release
  <2> QED
    BY <2>2, <2>3 DEF Moved
<1>3. ~WriterStep /\ ~RecorderStep /\ ~TimerStep /\ ~DeadlinePasses /\ ~ContextDone
      /\ ~CrashRestore /\ ~UNCHANGED vars
  BY DEF WriterStep, Capture, Write, WriterEnd, RecorderStep, RecorderEnd, TimerStep, TimerFires,
     Report, DeadlinePasses, ContextDone, CrashRestore, vars
<1>4. PICK p \in Procs : Step(p)
  BY <1>1, <1>2, <1>3 DEF Next
<1>5. Invoke(p)
  BY <1>4 DEF Step, Cancel, Latch, RestoreFault, InvokeRefused, Answer, Abandon, Prepare,
     PrepareDeliver, PrepareFailed, Prepared, FinishLate, FinishRevoked, FinishReady,
     AwaitVerification, Commit, FinishAdjudication, Close, Closed, CloseFailed, Record,
     RecordDone, Return, shared
<1>6. g = [proc |-> p, op |-> call[p].op, phase |-> call[p].phase, step |-> "running"]
  BY <1>5 DEF Invoke
<1> QED
  BY <1>5, <1>6

\* The Issue callback of an Attempt is started once, whatever was restored since: its
\* sequence is drawn above every one that ever reached the disk.
THEOREM StartedOnce == Spec => IssueAtMostOnce
<1> DEFINE A == \A g \in callbacks' \ callbacks :
                   g.step = "running" /\ g.phase = "issue" =>
                       call[g.proc].change.seq \notin everIssued
<1>1. IInv /\ FaultInv /\ DurableInv /\ [Next]_vars => A
  <2> SUFFICES ASSUME IInv, FaultInv, DurableInv, [Next]_vars,
                      NEW g \in callbacks' \ callbacks, g.step = "running", g.phase = "issue"
               PROVE  call[g.proc].change.seq \notin everIssued
    OBVIOUS
  <2> DEFINE p == g.proc
  <2>1. Invoke(p) /\ p \in Procs /\ call[p].phase = "issue" /\ call[p].pc = "invoke"
    BY StartedByInvoke DEF Invoke
  <2>2. Deciding(p)
    BY <2>1, InvokeFault
  <2>3. (call[p].api = "issue") /\ ~Started(call[p])
    BY <2>1, <2>2, StartedFacts DEF Started
  <2> QED
    BY <2>1, <2>2, <2>3 DEF DurableInv, EverInv
<1> QED
  BY <1>1, DurableInductive, PTL DEF Spec, IssueAtMostOnce

\* The Snapshot on disk never goes back: the one write under way is captured after the
\* write before it has ended, and a restored process counts on from its Snapshot.  Of
\* the writers of a dead process it says nothing: CrashRestore ends them.
THEOREM DiskAdvances == Spec => DiskMonotone
<1> DEFINE A == disk'.rev >= disk.rev /\ disk'.attempt >= disk.attempt
                /\ disk'.inc >= disk.inc
<1>1. IInv /\ DurableInv /\ [Next]_vars => A
  <2> SUFFICES ASSUME IInv, DurableInv, [Next]_vars PROVE A
    OBVIOUS
  <2>1. disk.rev \in Nat /\ disk.attempt \in Nat /\ disk.inc \in Nat
    BY DEF IInv, TypeOK, Snapshot
  <2>2. ASSUME NEW w \in writers, Write(w) PROVE A
    <3>1. Between(disk, w.snapshot, revision, attempt, incarnation) /\ disk' = w.snapshot
      BY <2>2 DEF DurableInv, WriterInv, Write
    <3>2. w.snapshot \in Snapshot
      BY DEF IInv, TypeOK, Writer
    <3>3. w.snapshot.rev \in Nat /\ w.snapshot.attempt \in Nat /\ w.snapshot.inc \in Nat
      BY <3>2 DEF Snapshot
    <3> QED
      BY <2>1, <3>1, <3>3 DEF Between
  <2>3. CASE disk' = disk
    BY <2>1, <2>3
  <2>4. disk' = disk \/ \E w \in writers : Write(w)
    <3>1. ASSUME NEW p \in Procs, Admit(p) PROVE disk' = disk
      BY <3>1, Zenon DEF Admit, Start, Issue, IssueExhausted, Verify, Adjudicate, Refuse, Trip,
         VerifyExpired, Begin, Report, shared, rest, durable
    <3>2. ASSUME NEW p \in Procs, Step(p) PROVE disk' = disk
      BY <3>2 DEF Step, Cancel, Latch, RestoreFault, Invoke, InvokeRefused, Answer, Abandon,
         Prepare, PrepareDeliver, PrepareFailed, Prepared, FinishLate, FinishRevoked,
         FinishReady, AwaitVerification, Commit, FinishAdjudication, Close, Closed,
         CloseFailed, Record, RecordDone, Return, shared, rest, durable
    <3>3. CallbackStep \/ RecorderStep \/ TimerStep \/ DeadlinePasses \/ ContextDone
          \/ CrashRestore \/ UNCHANGED vars => disk' = disk
      BY DEF CallbackStep, CallbackReturn, LateRecord, LateReturn, RecorderStep, RecorderEnd,
         TimerStep, TimerFires, Report, DeadlinePasses, ContextDone, CrashRestore, vars,
         rest, durable
    <3>4. WriterStep => disk' = disk \/ \E w \in writers : Write(w)
      BY DEF WriterStep, Capture, WriterEnd, rest, durable
    <3> QED
      BY <3>1, <3>2, <3>3, <3>4 DEF Next
  <2> QED
    BY <2>2, <2>3, <2>4
<1> QED
  BY <1>1, DurableInductive, PTL DEF Spec, DiskMonotone

-----------------------------------------------------------------------------
(* What a Snapshot may contain. *)

External(s, ch) ==
    \E i \in DOMAIN Rows[<<s, ch.event>>] :
        LET row == Rows[<<s, ch.event>>][i]
        IN  row.id = ch.row /\ row.to = ch.to /\ row.external

\* The Change of an Attempt that state s with these counters may have issued.
Issued(ch, s, r, a) ==
    ch.seq \in 1..a /\ ch.rev = r /\ ch.event \in Events /\ External(s, ch)

\* What is in doubt was issued from the committed state; op.issued outlives its
\* Operation only in the pending Change or in the Fault.
IssuedInv ==
    /\ pending.live => Issued(pending.change, state, revision, attempt)
                       /\ pending.change.from = state
    /\ fault.latched /\ fault.issued => Issued(fault.change, state, revision, attempt)
                                        /\ fault.state = state
    /\ pending.live /\ mode = "executing" => operation.change = pending.change
    /\ operation.issued => mode = "executing" \/ pending.live \/ fault.latched

Accepted(s) == s.saved /\ (~Ended(s) => Restorable(s))

StoredInv ==
    /\ disk.saved => Accepted(disk)
    /\ ~disk.saved => disk = NoSnapshot
    /\ \A w \in writers : w.step # "new" => Accepted(w.snapshot)

\* An Operation that prepared or runs an Issue works for an external row of the
\* committed state.
LEMMA IssuingGood ==
    ASSUME IInv, FaultInv, NEW p \in Procs, Deciding(p), operation.issued
    PROVE  /\ Issued(call[p].change, state, revision, attempt)
           /\ operation.change = call[p].change /\ call[p].change.from = state
<1> DEFINE c == call[p]
<1>1. /\ Decides(c, operation, fault, pending) /\ LocalShape(c) /\ c \in Call
      /\ Current(c, state, revision, attempt, incarnation)
  BY DecidingKnows
<1>2. /\ c.api = "issue" /\ (Preparing(c) \/ (c.phase = "issue"))
      /\ operation.change = c.change /\ c.change.seq = attempt /\ attempt # 0
  BY <1>1, IssuingFacts DEF Decides, Preparing, Current
<1>3. /\ c.change.event \in Events /\ SelectedRow(c) /\ Candidates(c)[c.row].external
  BY <1>1, <1>2 DEF LocalShape, RowChosen
<1>4. c.change.from = state /\ c.change.rev = revision /\ attempt \in Nat
  BY SMTT(60), <1>1, <1>2 DEF Current, IInv, TypeOK
<1>5. External(state, c.change)
  BY Zenon, <1>3, <1>4 DEF External, SelectedRow, Candidates
<1> QED
  BY <1>2, <1>3, <1>4, <1>5 DEF Issued

\* Whatever Snapshot() may be handed now, restoreSupervisor accepts it.
LEMMA SnapshotAccepted ==
    ASSUME IInv, FaultInv, IssuedInv PROVE Accepted(SnapshotNow)
<1> DEFINE issuing == operation.id # 0 /\ mode = "executing" /\ operation.issued
           s == SnapshotNow
           ch == SnapshotPending
<1>1. /\ s.indoubt = (pending.live \/ issuing \/ (fault.latched /\ fault.issued))
      /\ s.saved = TRUE /\ s.pending = ch /\ s.rev = revision /\ s.attempt = attempt
      /\ s.state = state
  BY DEF SnapshotNow
<1>2. issuing => Issued(operation.change, state, revision, attempt)
                 /\ operation.change.from = state /\ operation.change.seq # 0
  <2>1. issuing => \E p \in Procs : Deciding(p)
    BY DEF FaultInv, ModeInv
  <2> QED
    BY <2>1, IssuingGood, IssuingFacts
<1>3. pending.live \in BOOLEAN /\ fault.latched \in BOOLEAN /\ attempt \in Nat
      /\ fault.change \in Change
  BY DEF IInv, TypeOK, Pending, Fault
<1> HIDE DEF s
<1>4. ASSUME s.indoubt
      PROVE  Issued(ch, state, revision, attempt) /\ ch.from = state
  <2>1. CASE pending.live
    BY <2>1 DEF SnapshotPending, IssuedInv
  <2>2. CASE ~pending.live /\ issuing
    BY <1>2, <2>2 DEF SnapshotPending
  <2>3. CASE ~pending.live /\ ~issuing
    <3>1. ch = [fault.change EXCEPT !.from = fault.state] /\ fault.latched /\ fault.issued
      BY <1>1, <1>4, <2>3 DEF SnapshotPending
    <3>2. Issued(fault.change, state, revision, attempt) /\ fault.state = state
      BY <3>1 DEF IssuedInv
    <3>3. /\ ch.seq = fault.change.seq /\ ch.rev = fault.change.rev /\ ch.row = fault.change.row
          /\ ch.event = fault.change.event /\ ch.to = fault.change.to /\ ch.from = fault.state
      BY <1>3, <3>1 DEF Change
    <3> QED
      BY <3>2, <3>3 DEF Issued, External
  <2> QED
    BY <1>3, <2>1, <2>2, <2>3
<1>5. ~s.indoubt => ch.seq = 0
  BY <1>1 DEF SnapshotPending, NoChange
<1>6. s.indoubt => ch.seq # 0 /\ ch.seq <= attempt
  BY <1>3, <1>4 DEF Issued
<1> HIDE DEF ch
<1>7. ~Ended(s) => Restorable(s)
  BY <1>1, <1>4, <1>5, <1>6 DEF Restorable, Issued, External
<1> QED
  BY <1>1, <1>7 DEF Accepted, s

\* An Attempt stays issued while the sequence counter grows.
LEMMA IssuedLater ==
    ASSUME NEW ch, NEW s, NEW r, NEW a \in Nat, NEW b \in Nat, a <= b, Issued(ch, s, r, a)
    PROVE  Issued(ch, s, r, b)
BY DEF Issued

\* A step that keeps the committed state, the Fault and the pending Change.
LEMMA KeptIssued ==
    ASSUME IInv, IssuedInv, UNCHANGED <<committed, fault>>,
           attempt' \in Nat, attempt <= attempt',
           pending'.live => pending.live /\ pending'.change = pending.change,
           pending'.live /\ mode' = "executing" => operation'.change = pending'.change,
           operation'.issued => mode' = "executing" \/ pending'.live \/ fault.latched
    PROVE  IssuedInv'
<1>1. attempt \in Nat
  BY DEF IInv, TypeOK
<1> QED
  BY <1>1, IssuedLater DEF IssuedInv, committed

\* What LatchedFault calls issued, was.
LEMMA LatchIssued ==
    ASSUME IInv, FaultInv, IssuedInv, ~fault.latched, NEW change, NEW cause, NEW uncertain,
           pending.live => change = pending.change,
           operation.id # 0 /\ operation.issued /\ ~pending.live =>
              Issued(change, state, revision, attempt),
           LatchedFault(change, cause, uncertain).issued
    PROVE  Issued(change, state, revision, attempt)
BY DEF LatchedFault, IssuedInv

\* Trip and an expiry latch a Fault about the Change that was issued.
LEMMA ReportIssued ==
    ASSUME IInv, FaultInv, IssuedInv, NEW p \in Procs,
           Trip(p) \/ VerifyExpired(p) \/ Expiry(p)
    PROVE  IssuedInv'
<1>1. PICK change, cause : Report(p, change, cause) /\
      \/ change = operation.change /\ mode = "executing"
      \/ change = pending.change /\ pending.live /\ mode = "awaiting"
      \/ mode # "executing" /\ ~(mode = "awaiting" /\ pending.live)
  BY ReportsOf DEF Expiry
<1>2. /\ UNCHANGED <<attempt, state, revision>> /\ mode' = "faulted" /\ ~pending'.live
      /\ fault' = IF fault.latched THEN fault ELSE LatchedFault(change, cause, TRUE)
      /\ fault'.latched
  BY <1>1 DEF Report, LatchLocked, committed, identities, NoPending, LatchedFault
<1>3. fault.latched \in BOOLEAN /\ pending.live \in BOOLEAN
  BY DEF IInv, TypeOK, Fault, Pending
<1>4. CASE fault.latched
  BY <1>2, <1>4 DEF IssuedInv
<1>5. CASE ~fault.latched
  <2>1. pending.live => change = pending.change
    BY <1>1 DEF IssuedInv, FaultInv, ModeInv
  <2>2. operation.issued /\ ~pending.live => Issued(change, state, revision, attempt)
    <3> SUFFICES ASSUME operation.issued, ~pending.live
                 PROVE  Issued(change, state, revision, attempt)
      OBVIOUS
    <3>1. mode = "executing" /\ change = operation.change
      BY <1>1, <1>5 DEF IssuedInv, FaultInv, ModeInv
    <3>2. PICK q \in Procs : Deciding(q)
      BY <3>1 DEF FaultInv, ModeInv
    <3> QED
      BY <3>1, <3>2, IssuingGood
  <2>3. fault'.issued => Issued(change, state, revision, attempt)
    BY <1>2, <1>5, <2>1, <2>2, LatchIssued
  <2>4. fault'.change = change /\ fault'.state = state
    BY <1>2, <1>5 DEF LatchedFault
  <2> QED
    BY <1>2, <2>3, <2>4 DEF IssuedInv
<1> QED
  BY <1>4, <1>5

\* An outcome leaves in doubt only what was issued, and commits only what is not.
LEMMA SettlingIssued ==
    ASSUME IInv, FaultInv, IssuedInv, NEW p \in Procs, Settling(p)
    PROVE  IssuedInv'
<1> DEFINE c == call[p]
<1>1. Deciding(p)
  BY OutcomeFault DEF Settling
<1>2. /\ Decides(c, operation, fault, pending) /\ LocalShape(c) /\ c \in Call
      /\ mode = "executing" /\ Owns(c.op) /\ fault.latched \in BOOLEAN
      /\ pending.live \in BOOLEAN /\ attempt \in Nat /\ operation \in Operation
  BY <1>1, DecidingKnows, DecidingFacts DEF IInv, TypeOK, Fault, Pending
<1>3. /\ (c.api = "adjudicate") <=> fault.latched
      /\ (c.api = "verify") <=> pending.live
      /\ pending.live => c.change = pending.change
      /\ PhaseFits(c.api, c.phase) /\ c.api \in {None, "start", "issue", "verify", "adjudicate"}
      /\ operation.issued <=>
            (c.api = "issue") /\ (c.pc \in {"deliver", "prepared"} \/ (c.phase = "issue"))
  BY <1>2 DEF Decides, LocalShape, Call
<1>4. operation.issued => Issued(c.change, state, revision, attempt) /\ c.change.from = state
  BY <1>1, IssuingGood
<1>5. CASE Latch(p)
  <2>1. ~fault.latched
    BY <1>3, <1>5 DEF Latch
  <2>2. /\ fault' = LatchedFault(c.change, c.cause, c.uncertain) /\ ~pending'.live
        /\ UNCHANGED <<state, revision, attempt>>
    BY <1>2, <1>5, <2>1 DEF Latch, LatchLocked, NoPending, committed, identities
  <2>3. fault'.issued => Issued(c.change, state, revision, attempt)
    BY <1>3, <1>4, <2>1, <2>2, LatchIssued
  <2>4. fault'.change = c.change /\ fault'.state = state /\ fault'.latched
    BY <2>2 DEF LatchedFault
  <2> QED
    BY <2>2, <2>3, <2>4 DEF IssuedInv
<1>6. CASE RestoreFault(p) \/ FinishReady(p)
  <2>1. UNCHANGED <<state, revision, attempt, pending, fault>> /\ mode' # "executing"
    BY <1>2, <1>6 DEF RestoreFault, FinishReady, committed, identities
  <2>2. operation'.issued => fault.latched
    <3>1. CASE RestoreFault(p)
      BY <1>3, <3>1 DEF RestoreFault
    <3>2. CASE FinishReady(p)
      <4>1. ~operation.issued
        BY <1>3, <3>2 DEF FinishReady, Finishing
      <4> QED
        BY <1>2, <3>2, <4>1 DEF FinishReady, Operation
    <3> QED
      BY <1>6, <3>1, <3>2
  <2> QED
    BY <2>1, <2>2 DEF IssuedInv
<1>7. CASE AwaitVerification(p)
  <2>1. operation.issued /\ ~fault.latched
    BY <1>3, <1>7 DEF AwaitVerification, Finishing, PhaseFits, None
  <2>2. /\ pending'.live /\ pending'.change = c.change /\ mode' = "awaiting"
        /\ UNCHANGED <<state, revision, attempt, fault>>
    BY <1>7 DEF AwaitVerification, committed, identities
  <2> QED
    BY <1>4, <2>1, <2>2 DEF IssuedInv
<1>8. CASE Commit(p) \/ FinishAdjudication(p)
  <2>1. ~operation.issued
    BY <1>3, <1>8 DEF Commit, FinishAdjudication, Finishing, PhaseFits
  <2>2. ~operation'.issued
    BY <1>2, <1>8, <2>1 DEF Commit, FinishAdjudication, Operation
  <2>3. ~pending'.live /\ ~fault'.latched
    <3>1. CASE Commit(p)
      BY <1>3, <3>1 DEF Commit, Finishing, PhaseFits, None, NoPending
    <3>2. CASE FinishAdjudication(p)
      BY <1>3, <3>2 DEF FinishAdjudication, Finishing, PhaseFits, None, NoFault
    <3> QED
      BY <1>8, <3>1, <3>2
  <2> QED
    BY <2>2, <2>3 DEF IssuedInv
<1> QED
  BY <1>5, <1>6, <1>7, <1>8 DEF Settling

\* An admission, and the call that decides going on.
LEMMA GoingOnIssued ==
    ASSUME IInv, FaultInv, IssuedInv, NEW p \in Procs,
           (Admitted(p) /\ FaultInv') \/ Answering(p) \/ PreparationStep(p) \/ Invoke(p)
    PROVE  IssuedInv'
<1>1. attempt \in Nat /\ attempt + 1 \in Nat /\ attempt <= attempt /\ attempt <= attempt + 1
  BY DEF IInv, TypeOK
<1>2. CASE Admitted(p) /\ FaultInv'
  <2>1. UNCHANGED <<committed, fault, pending>> /\ attempt' \in {attempt, attempt + 1}
        /\ mode' = "executing"
    BY <1>2 DEF Admitted
  <2>2. pending'.live => operation'.change = pending'.change
    <3>1. Deciding(p)' /\ operation'.change = call'[p].change
      BY <1>2 DEF Admitted
    <3>2. Decides(call'[p], operation', fault', pending')
      BY <1>2, <3>1 DEF FaultInv, DecidingInv
    <3> QED
      BY <3>1, <3>2 DEF Decides
  <2> QED
    BY <1>1, <2>1, <2>2, KeptIssued
<1>3. CASE Answering(p) \/ PreparationStep(p) \/ Invoke(p)
  <2>1. UNCHANGED core
    BY <1>3 DEF Answering, PreparationStep, Invoke, InvokeRefused, Answer, Abandon, FinishLate,
       Prepare, PrepareDeliver, PrepareFailed, Prepared, shared
  <2>2. Deciding(p)
    BY <1>3, InvokeFault DEF Answering, PreparationStep
  <2>3. mode = "executing" /\ Decides(call[p], operation, fault, pending)
        /\ operation \in Operation /\ call[p].op \in 0..MaxUint64
    BY <2>2, DecidingKnows DEF Call
  <2>4. pending.live => operation'.change = pending.change
    <3>1. CASE Answering(p)
      BY <2>3, <3>1, AnswersFault DEF Answering, Keeps, IssuedInv
    <3>2. CASE PreparationStep(p)
      <4>1. LocalShape(call[p])
        BY <2>3 DEF Decides
      <4>2. call[p].api = "issue"
        BY <3>2, <4>1 DEF PreparationStep, Prepare, PrepareDeliver, PrepareFailed, Prepared,
           LocalShape, Preparing
      <4> QED
        BY <2>3, <4>2 DEF Decides
    <3>3. CASE Invoke(p)
      <4>1. Leased(call[p].op) \in Operation
        BY <2>3, LeasedGood
      <4>2. operation'.change = call[p].change
        BY <3>3, <4>1 DEF Invoke, Operation
      <4> QED
        BY <2>3, <4>2 DEF Decides
    <3> QED
      BY <1>3, <3>1, <3>2, <3>3
  <2>5. UNCHANGED <<committed, fault, pending, attempt>> /\ mode' = "executing"
    BY <2>1, <2>3 DEF core, counters
  <2> QED
    BY <1>1, <2>4, <2>5, KeptIssued
<1> QED
  BY <1>2, <1>3

\* What goes on beside the call that decides.
LEMMA BystandingIssued ==
    ASSUME IInv, FaultInv, IssuedInv, Bystanding PROVE IssuedInv'
<1>1. /\ UNCHANGED <<committed, fault, attempt, mode>>
      /\ pending'.live = pending.live /\ pending'.change = pending.change
      /\ attempt \in Nat /\ attempt <= attempt
  BY DEF Bystanding, identities, IInv, TypeOK, Pending
<1>2. mode = "executing" => operation'.change = operation.change
  BY DEF Bystanding, FaultInv, ModeInv, Keeps
<1>3. pending'.live /\ mode' = "executing" => operation'.change = pending'.change
  BY <1>1, <1>2 DEF IssuedInv
<1>4. operation'.issued => mode' = "executing" \/ pending'.live \/ fault.latched
  BY <1>1 DEF Bystanding, IssuedInv
<1> QED
  BY <1>1, <1>3, <1>4, KeptIssued

\* A restart takes over the Attempt of a Snapshot that was accepted.
LEMMA CrashIssued ==
    ASSUME IInv, StoredInv, CrashRestore PROVE IssuedInv'
<1>1. /\ ~pending'.live /\ ~operation'.issued /\ state' = disk.state
      /\ revision' = disk.rev /\ attempt' = disk.attempt
  BY DEF CrashRestore, RestoredCounters, NoPending, NoOperation
<1>2. fault'.latched /\ fault'.issued =>
         disk.indoubt /\ fault'.change = disk.pending /\ fault'.state = disk.state
  BY DEF CrashRestore, NoFault
<1>3. disk.indoubt => disk.saved
  BY DEF StoredInv, NoSnapshot
<1>4. disk.indoubt => Issued(disk.pending, disk.state, disk.rev, disk.attempt)
  <2> SUFFICES ASSUME disk.indoubt
               PROVE  Issued(disk.pending, disk.state, disk.rev, disk.attempt)
    OBVIOUS
  <2>1. Restorable(disk)
    BY <1>3 DEF CrashRestore
  <2>2. disk.pending.seq \in Nat /\ disk.attempt \in Nat
    BY DEF IInv, TypeOK, Snapshot, Change
  <2>3. disk.pending.seq \in 1..disk.attempt
    BY <2>1, <2>2 DEF Restorable
  <2> QED
    BY <2>1, <2>3 DEF Restorable, Issued, External
<1> QED
  BY <1>1, <1>2, <1>4 DEF IssuedInv

\* The Journal stores only what restoreSupervisor accepts.
LEMMA NextStored ==
    ASSUME IInv, FaultInv, DurableInv, IssuedInv, StoredInv, [Next]_vars
    PROVE  StoredInv'
<1>1. CASE disk' = disk /\ \A w \in writers' \ writers : w.step = "new"
  BY <1>1 DEF StoredInv
<1>2. ASSUME NEW w \in writers, WriterMoves(w) PROVE StoredInv'
  <2>1. /\ disk' = disk \/ (w.step # "new" /\ disk' = w.snapshot)
        /\ \A v \in writers' : \/ v.snapshot = SnapshotNow
                               \/ w.step # "new" /\ v.snapshot = w.snapshot
    BY <1>2, WriterDurable
  <2>2. Accepted(SnapshotNow)
    BY SnapshotAccepted
  <2>3. w.step # "new" => Accepted(w.snapshot)
    BY DEF StoredInv
  <2> QED
    BY <2>1, <2>2, <2>3 DEF StoredInv, Accepted
<1>3. CASE Bystanding
  BY <1>1, <1>2, <1>3 DEF Bystanding, JournalMoves
<1>4. ASSUME NEW p \in Procs,
             \/ Admitted(p) \/ Trip(p) \/ VerifyExpired(p) \/ Expiry(p)
             \/ Settling(p) \/ Answering(p) \/ PreparationStep(p) \/ Invoke(p)
      PROVE  StoredInv'
  <2>1. CASE Admitted(p)
    BY <1>1, <2>1 DEF Admitted, rest, durable, delivery
  <2>2. CASE Trip(p) \/ VerifyExpired(p) \/ Expiry(p)
    BY <1>1, <2>2, ReportsOf DEF Expiry, Report, durable, delivery
  <2>3. CASE Settling(p)
    BY <1>1, <2>3 DEF Settling, Latch, RestoreFault, FinishReady, AwaitVerification, Commit,
       FinishAdjudication, rest, durable, delivery
  <2>4. CASE Answering(p)
    BY <1>1, <2>4 DEF Answering, InvokeRefused, Answer, Abandon, FinishLate, shared, rest,
       durable, delivery
  <2>5. CASE PreparationStep(p)
    <3>1. disk' = disk /\ \A w \in writers' \ writers : w.step = "new"
      <4>1. CASE PrepareDeliver(p)
        BY <4>1 DEF PrepareDeliver, StartWriter, rest, durable
      <4>2. CASE Prepare(p) \/ PrepareFailed(p) \/ Prepared(p)
        BY <4>2 DEF Prepare, PrepareFailed, Prepared, shared, rest, durable, delivery
      <4> QED
        BY <2>5, <4>1, <4>2 DEF PreparationStep
    <3> QED
      BY <1>1, <3>1
  <2>6. CASE Invoke(p)
    BY <1>1, <2>6 DEF Invoke, durable, delivery
  <2> QED
    BY <1>4, <2>1, <2>2, <2>3, <2>4, <2>5, <2>6
<1>5. CASE CrashRestore
  BY <1>1, <1>5 DEF CrashRestore
<1> QED
  BY <1>3, <1>4, <1>5, StepKinds

\* Every step keeps what is in doubt restorable.
LEMMA NextIssued ==
    IInv /\ FaultInv /\ DurableInv /\ IssuedInv /\ StoredInv /\ [Next]_vars => IssuedInv'
BY StepKinds, GoingOnIssued, ReportIssued, SettlingIssued, BystandingIssued, CrashIssued

\* What is in doubt was issued from the committed state by one of its external rows,
\* and so is what any Snapshot, on disk or on its way there, says is in doubt; every
\* such Snapshot passes restoreSupervisor unless one of its three counters is at its end.
THEOREM RestoreInductive == Spec => [](IInv /\ FaultInv /\ IssuedInv /\ StoredInv)
<1> DEFINE I == IInv /\ FaultInv /\ DurableInv /\ IssuedInv /\ StoredInv
<1>1. Init => IssuedInv /\ StoredInv
  BY DEF Init, IssuedInv, StoredInv, NoPending, NoFault, NoOperation, NoSnapshot
<1>2. Init => I
  BY <1>1, InitIInv, InitFault, InitDurable
<1>3. I /\ [Next]_vars => I'
  BY NextIInv, NextFault, NextDurable, NextIssued, NextStored
<1> QED
  BY <1>2, <1>3, PTL DEF Spec

\* restoreSupervisor accepts whatever the Journal or Snapshot() is handed, at any
\* moment, and whatever is on disk, unless it answers ErrCounterExhausted: its revision
\* or its restarts are at MaxUint64, or its Record numbers within the margin of it.
THEOREM AlwaysRestorable == Spec => []SnapshotsRestorable
<1>1. IInv /\ FaultInv /\ IssuedInv /\ StoredInv => SnapshotsRestorable
  BY SnapshotAccepted DEF SnapshotsRestorable, StoredInv, Accepted
<1> QED
  BY <1>1, RestoreInductive, PTL
=============================================================================
