---------------------------- MODULE QueuedProofs ----------------------------
(***************************************************************************)
(* What the queued Runtime keeps for every number of Runtimes, callers,      *)
(* roots and limits: one root of a Runtime at a time, in the order of        *)
(* admission, counted exactly against MaxRoots, and settled for good.        *)
(*                                                                         *)
(* A Runtime has one drain goroutine while it is running and none otherwise  *)
(* (DrainInv): Fire starts one exactly when the last one has ended under the *)
(* same lock.  Everything else follows from whom that goroutine works for.  *)
(***************************************************************************)
EXTENDS Queued, FiniteSetTheorems, SequenceTheorems, TLAPS

ExecutingPhases == {"begin", "callback", "observe", "next"}

Phases == ExecutingPhases \cup {None, "queued", "finished", "answered", "returned", "removed"}

Errors == {None, "canceled", "inFlight", "failed", "panic", "stopped"}

Root ==
    [phase : Phases, rt : Runtimes \cup {None}, event : Events \cup {None},
     above : SUBSET RootIds, cancelled : BOOLEAN, active : BOOLEAN,
     pending : Seq(Events), accepted : Nat, ran : Nat, err : Errors]

DrainRecord == [pc : {None, "top", "executing", "answering"}, req : 0 .. MaxFires]

CallRecord == [pc : {"idle", "waiting", "held"}, root : 0 .. MaxFires,
               ctx : 0 .. MaxFires, obs : BOOLEAN, joined : BOOLEAN]

TypeInv ==
    /\ state \in [Runtimes -> States]
    /\ inFlight \in [Runtimes -> BOOLEAN]
    /\ queue \in [Runtimes -> Seq(RootIds)]
    /\ running \in [Runtimes -> BOOLEAN]
    /\ rootCount \in [Runtimes -> Int]
    /\ drains \in [RootIds -> DrainRecord]
    /\ root \in [RootIds -> Root]
    /\ admitted \in 0 .. MaxFires
    /\ calls \in [Callers -> CallRecord]

\* Roots, drain goroutines and waiting calls exist once Fire has admitted the root.
AdmissionInv ==
    /\ \A n \in RootIds : IF n > admitted
                          THEN root[n].phase = None /\ drains[n].pc = None
                          ELSE root[n].rt \in Runtimes
    /\ \A c \in Callers : calls[c].pc # "idle" => calls[c].root \in 1 .. admitted

\* A queue holds the queued roots of its Runtime in the order of admission.
QueueInv ==
    /\ \A r \in Runtimes : \A i \in 1 .. Len(queue[r]) :
          root[queue[r][i]].phase = "queued" /\ root[queue[r][i]].rt = r
    /\ \A r \in Runtimes : \A i, j \in 1 .. Len(queue[r]) :
          i < j => queue[r][i] < queue[r][j]
    /\ \A n \in RootIds : root[n].phase = "queued" =>
          \E i \in 1 .. Len(queue[root[n].rt]) : queue[root[n].rt][i] = n

Draining(d, r) == drains[d].pc # None /\ root[d].rt = r

Holds(d, n) == drains[d].pc = "executing" /\ drains[d].req = n

Answers(d, n) == drains[d].pc = "answering" /\ drains[d].req = n

\* A drain works for a root of its own Runtime, and every root in execution has one.
ServiceInv ==
    /\ \A d, n \in RootIds : Holds(d, n) =>
          /\ root[n].rt = root[d].rt
          /\ Executing(n) \/ root[n].phase = "finished"
    /\ \A d, n \in RootIds : Answers(d, n) =>
          root[n].rt = root[d].rt /\ root[n].phase = "finished"
    /\ \A d \in RootIds : drains[d].pc \in {"executing", "answering"} => drains[d].req # 0
    /\ \A n \in RootIds : Executing(n) => \E d \in RootIds : Holds(d, n)
    /\ \A n \in RootIds : root[n].phase = "finished" =>
          \E d \in RootIds : Holds(d, n) \/ Answers(d, n)

\* A Runtime is running exactly while it has a drain, which is the only one; it is
\* running while its queue holds a root.
DrainInv ==
    /\ \A d \in RootIds, r \in Runtimes : Draining(d, r) => running[r]
    /\ \A r \in Runtimes : running[r] => \E d \in RootIds : Draining(d, r)
    /\ \A d, e \in RootIds, r \in Runtimes : Draining(d, r) /\ Draining(e, r) => d = e
    /\ \A r \in Runtimes : queue[r] # << >> => running[r]

\* The roots that count against MaxRoots.
Counted(r) ==
    {n \in RootIds : /\ root[n].rt = r
                     /\ root[n].phase = "queued" \/ \E d \in RootIds : Holds(d, n)}

CountInv ==
    \A r \in Runtimes : rootCount[r] <= MaxRoots /\ rootCount[r] = Cardinality(Counted(r))

\* An Instance in flight runs the callback of a root of its Runtime.
FlightInv ==
    \A r \in Runtimes : inFlight[r] =>
        \E n \in RootIds : root[n].rt = r /\ root[n].phase = "callback"

\* The ledger of one cascade: what was accepted has run, is running or is pending.
Cascade(x) ==
    /\ x.active <=> (x.phase \in ExecutingPhases)
    /\ x.phase \in ExecutingPhases =>
          x.accepted = x.ran + Len(x.pending) + (IF x.phase \in {"begin", "callback"} THEN 1 ELSE 0)
    /\ x.phase \in ExecutingPhases \cup {"queued"} => x.err = None
    /\ x.phase = "queued" => x.ran = 0 /\ x.pending = << >>
    /\ x.phase \in {"finished", "answered"} /\ (x.err = None) => x.ran = x.accepted
    /\ x.err # "inFlight"

CascadeInv == \A n \in RootIds : Cascade(root[n])

QueuedInv ==
    /\ TypeInv /\ AdmissionInv /\ QueueInv /\ ServiceInv /\ DrainInv
    /\ CountInv /\ FlightInv /\ CascadeInv /\ FirstInFirstOut

-----------------------------------------------------------------------------
(* Sequences, identifiers and the state of the drain. *)

\* removeRootLocked closes the gap that the removed root leaves.
LEMMA RemoveAtFacts ==
    ASSUME NEW S, NEW s \in Seq(S), NEW i \in 1 .. Len(s)
    PROVE  /\ RemoveAt(s, i) \in Seq(S) /\ Len(RemoveAt(s, i)) = Len(s) - 1
           /\ \A j \in 1..(Len(s) - 1) :
                 RemoveAt(s, i)[j] = IF j < i THEN s[j] ELSE s[j + 1]
<1> DEFINE a == SubSeq(s, 1, i - 1)
           b == SubSeq(s, i + 1, Len(s))
<1>1. Len(s) \in Nat /\ i \in 1..Len(s)
  BY LenProperties
<1>2. a \in Seq(S) /\ Len(a) = i - 1 /\ \A j \in 1..(i - 1) : a[j] = s[j]
  BY <1>1, SubSeqProperties
<1>3. /\ b \in Seq(S) /\ Len(b) = Len(s) - i
      /\ \A j \in 1..(Len(s) - i) : b[j] = s[i + j]
  BY <1>1, SubSeqProperties
<1>4. RemoveAt(s, i) = a \o b
  BY DEF RemoveAt
<1> HIDE DEF a, b
<1>5. /\ a \o b \in Seq(S) /\ Len(a \o b) = Len(a) + Len(b)
      /\ \A j \in 1..(Len(a) + Len(b)) :
            (a \o b)[j] = IF j <= Len(a) THEN a[j] ELSE b[j - Len(a)]
  BY <1>2, <1>3, ConcatProperties
<1>6. Len(a) + Len(b) = Len(s) - 1
  BY <1>1, <1>2, <1>3
<1>7. ASSUME NEW j \in 1..(Len(s) - 1)
      PROVE  (a \o b)[j] = IF j < i THEN s[j] ELSE s[j + 1]
  <2>1. (a \o b)[j] = IF j <= Len(a) THEN a[j] ELSE b[j - Len(a)]
    BY <1>5, <1>6, <1>7
  <2>2. CASE j < i
    <3>1. j <= Len(a) /\ j \in 1..(i - 1)
      BY <1>1, <1>2, <1>7, <2>2
    <3> QED
      BY <1>2, <2>1, <2>2, <3>1
  <2>3. CASE ~(j < i)
    <3>1. ~(j <= Len(a)) /\ j - Len(a) = j - (i - 1)
      BY <1>1, <1>2, <1>7, <2>3
    <3>2. j - (i - 1) \in 1..(Len(s) - i) /\ i + (j - (i - 1)) = j + 1
      BY <1>1, <1>7, <2>3
    <3> QED
      BY <1>3, <2>1, <2>3, <3>1, <3>2
  <2> QED
    BY <2>2, <2>3
<1> QED
  BY <1>4, <1>5, <1>6, <1>7

\* Roots are numbered from 1.
LEMMA RootIdFacts ==
    /\ MaxFires \in Nat
    /\ \A n \in RootIds : n \in Nat /\ n > 0
    /\ \A n \in (0 .. MaxFires) \ {0} : n \in RootIds
BY LimitsAssumption DEF RootIds

\* A set of roots has a cardinality, which changes by one with one of its members.
LEMMA RootCountFacts ==
    ASSUME NEW A \in SUBSET RootIds, NEW n \in RootIds
    PROVE  /\ Cardinality(A) \in Nat
           /\ n \notin A => Cardinality(A \cup {n}) = Cardinality(A) + 1
           /\ n \in A => Cardinality(A \ {n}) = Cardinality(A) - 1
<1>1. IsFiniteSet(RootIds)
  BY FS_Interval, LimitsAssumption DEF RootIds
<1>2. IsFiniteSet(A)
  BY <1>1, FS_Subset
<1> QED
  BY <1>2, FS_AddElement, FS_RemoveElement, FS_CardinalityType

\* Serialized, from the only drain of each Runtime.
LEMMA OneDrainOneRoot ==
    ASSUME TypeInv, AdmissionInv, ServiceInv, DrainInv
    PROVE  /\ \A m, n \in RootIds :
                 Executing(m) /\ Executing(n) /\ root[m].rt = root[n].rt => m = n
           /\ \A d, e, n \in RootIds : Holds(d, n) /\ Holds(e, n) => d = e
<1>1. \A d, n \in RootIds : Holds(d, n) => root[d].rt \in Runtimes /\ Draining(d, root[n].rt)
  <2> SUFFICES ASSUME NEW d \in RootIds, NEW n \in RootIds, Holds(d, n)
               PROVE  root[d].rt \in Runtimes /\ Draining(d, root[n].rt)
    OBVIOUS
  <2>1. root[n].rt = root[d].rt
    BY DEF ServiceInv
  <2>2. drains[d].pc # None
    BY DEF Holds, None
  <2>3. ~(d > admitted)
    BY <2>2 DEF AdmissionInv
  <2> QED
    BY <2>1, <2>2, <2>3 DEF AdmissionInv, Draining
<1>2. ASSUME NEW m \in RootIds, NEW n \in RootIds,
             Executing(m), Executing(n), root[m].rt = root[n].rt
      PROVE  m = n
  BY <1>1, <1>2 DEF ServiceInv, DrainInv, Holds, Draining
<1>3. ASSUME NEW d \in RootIds, NEW e \in RootIds, NEW n \in RootIds,
             Holds(d, n), Holds(e, n)
      PROVE  d = e
  BY <1>1, <1>3 DEF DrainInv, Draining
<1> QED
  BY <1>2, <1>3

-----------------------------------------------------------------------------
(* Steps that the queue and the drain do not take part in. *)

\* A cascade goes on or ends, or its answer is received.
LocalStep ==
    /\ UNCHANGED << runtime, admitted >>
    /\ \A n \in RootIds :
          /\ root'[n].rt = root[n].rt
          /\ \/ root'[n].phase = root[n].phase
             \/ Executing(n) /\ root'[n].phase \in ExecutingPhases \cup {"finished"}
             \/ root[n].phase = "answered" /\ root'[n].phase = "returned"

ControlInv == QueueInv /\ ServiceInv /\ DrainInv /\ CountInv /\ FirstInFirstOut

\* Such a step leaves the queue, the drains and the count as they are.
LEMMA LocalStepKeeps ==
    ASSUME TypeInv, AdmissionInv, ControlInv, LocalStep
    PROVE  /\ ControlInv'
           /\ \A n \in RootIds : IF n > admitted'
                                 THEN root'[n].phase = None /\ drains'[n].pc = None
                                 ELSE root'[n].rt \in Runtimes
<1>1. /\ queue' = queue /\ running' = running /\ rootCount' = rootCount /\ drains' = drains
      /\ admitted' = admitted
      /\ \A n \in RootIds : root'[n].rt = root[n].rt
      /\ \A d, n \in RootIds : (Holds(d, n)' <=> Holds(d, n)) /\ (Answers(d, n)' <=> Answers(d, n))
      /\ \A d \in RootIds, r \in Runtimes : Draining(d, r)' <=> Draining(d, r)
  BY DEF LocalStep, runtime, Holds, Answers, Draining
<1>2. \A n \in RootIds :
        /\ (root'[n].phase = "queued") <=> (root[n].phase = "queued")
        /\ (root'[n].phase = None) <=> (root[n].phase = None)
        /\ (root'[n].phase = "removed") <=> (root[n].phase = "removed")
        /\ root[n].phase = "finished" => root'[n].phase = "finished"
        /\ Executing(n)' => Executing(n)
        /\ Executing(n) => Executing(n)' \/ root'[n].phase = "finished"
        /\ root'[n].phase = "finished" => Executing(n) \/ root[n].phase = "finished"
  BY DEF LocalStep, Executing, ExecutingPhases, None
<1>3. QueueInv'
  <2>1. \A r \in Runtimes : \A i \in 1 .. Len(queue[r]) : queue[r][i] \in RootIds
    BY DEF TypeInv
  <2> QED
    BY <1>1, <1>2, <2>1 DEF QueueInv, ControlInv
<1>4. ServiceInv'
  BY <1>1, <1>2 DEF ServiceInv, ControlInv
<1>5. DrainInv'
  BY <1>1 DEF DrainInv, ControlInv
<1>6. CountInv'
  <2>1. \A r \in Runtimes : Counted(r)' = Counted(r)
    BY <1>1, <1>2 DEF Counted
  <2> QED
    BY <1>1, <2>1 DEF CountInv, ControlInv
<1>7. FirstInFirstOut'
  BY <1>1, <1>2 DEF FirstInFirstOut, ControlInv
<1>8. \A n \in RootIds : IF n > admitted'
                         THEN root'[n].phase = None /\ drains'[n].pc = None
                         ELSE root'[n].rt \in Runtimes
  BY <1>1, <1>2 DEF AdmissionInv
<1> QED
  BY <1>3, <1>4, <1>5, <1>6, <1>7, <1>8 DEF ControlInv

\* A call that returns has no root.
LEMMA ReturnKeeps ==
    ASSUME TypeInv, AdmissionInv, NEW c \in Callers, calls' = Returned(c), admitted' = admitted
    PROVE  /\ calls' \in [Callers -> CallRecord]
           /\ \A d \in Callers : calls'[d].pc # "idle" => calls'[d].root \in 1 .. admitted'
<1>1. IdleCaller \in CallRecord /\ IdleCaller.pc = "idle"
  BY RootIdFacts DEF IdleCaller, CallRecord
<1> QED
  BY <1>1 DEF Returned, TypeInv, AdmissionInv

\* Only calls change: a refused Fire, a call that is held, a context that is handed out.
LEMMA CallStepKeeps ==
    ASSUME QueuedInv, UNCHANGED << machine, runtime, root, admitted >>,
           calls' \in [Callers -> CallRecord],
           \A c \in Callers : calls'[c].pc # "idle" => calls'[c].root \in 1 .. admitted
    PROVE  QueuedInv'
<1>1. LocalStep
  BY DEF LocalStep
<1>2. TypeInv'
  BY DEF QueuedInv, TypeInv, machine, runtime
<1>3. ControlInv' /\ AdmissionInv'
  BY <1>1, LocalStepKeeps DEF QueuedInv, ControlInv, AdmissionInv
<1>4. FlightInv' /\ CascadeInv'
  BY DEF QueuedInv, FlightInv, CascadeInv, Cascade, machine
<1> QED
  BY <1>2, <1>3, <1>4 DEF QueuedInv, ControlInv

\* Runtime.Fire is refused.
LEMMA RefusalKeeps ==
    ASSUME QueuedInv, NEW c \in Callers,
           \/ RefuseReentrant(c) \/ RefuseCancelled(c)
           \/ \E r \in Runtimes : RefuseRootLimit(c, r)
    PROVE  QueuedInv'
<1>1. calls' = Returned(c) /\ UNCHANGED << machine, runtime, root, admitted >>
  BY DEF RefuseReentrant, RefuseCancelled, RefuseRootLimit
<1>2. calls' \in [Callers -> CallRecord]
      /\ \A d \in Callers : calls'[d].pc # "idle" => calls'[d].root \in 1 .. admitted'
  BY <1>1, ReturnKeeps DEF QueuedInv
<1> QED
  BY <1>1, <1>2, CallStepKeeps

\* The call waits for the answer of a root that has left the queue.
LEMMA HoldKeeps ==
    ASSUME QueuedInv, NEW c \in Callers, HoldForOutcome(c)
    PROVE  QueuedInv'
<1>1. calls' \in [Callers -> CallRecord]
      /\ \A d \in Callers : calls'[d].pc # "idle" => calls'[d].root \in 1 .. admitted
  BY ZenonT(90) DEF HoldForOutcome, QueuedInv, TypeInv, AdmissionInv, CallRecord
<1> QED
  BY <1>1, CallStepKeeps DEF HoldForOutcome

\* A callback hands its context to code that is not in a call.
LEMMA HandOverKeeps ==
    ASSUME QueuedInv, NEW c \in Callers, NEW n \in RootIds, NEW joined \in BOOLEAN,
           HandOver(c, n, joined)
    PROVE  QueuedInv'
<1> DEFINE o == (root[n].phase = "observe")
           k == [IdleCaller EXCEPT !.ctx = n, !.joined = joined, !.obs = o]
<1>1. calls' = [calls EXCEPT ![c] = k] /\ o \in BOOLEAN
  BY DEF HandOver
<1> HIDE DEF o
<1>2. k \in CallRecord /\ k.pc = "idle"
  <2>1. 0 \in 0 .. MaxFires /\ n \in 0 .. MaxFires
    BY RootIdFacts DEF RootIds
  <2>2. IdleCaller \in CallRecord /\ IdleCaller.pc = "idle"
    BY <2>1 DEF IdleCaller, CallRecord
  <2> QED
    BY <1>1, <2>1, <2>2 DEF CallRecord
<1> HIDE DEF k
<1>3. calls' \in [Callers -> CallRecord]
      /\ \A d \in Callers : calls'[d].pc # "idle" => calls'[d].root \in 1 .. admitted
  BY <1>1, <1>2 DEF QueuedInv, TypeInv, AdmissionInv
<1> QED
  BY <1>3, CallStepKeeps DEF HandOver

-----------------------------------------------------------------------------
(* The goroutine of a root. *)

\* One root changes, in what its own goroutine decides.
LEMMA RootStepKeeps ==
    ASSUME QueuedInv, NEW n \in RootIds,
           root' \in [RootIds -> Root],
           \A m \in RootIds \ {n} : root'[m] = root[m],
           root'[n].rt = root[n].rt,
           \/ root'[n].phase = root[n].phase
           \/ Executing(n) /\ root'[n].phase \in ExecutingPhases \cup {"finished"}
           \/ root[n].phase = "answered" /\ root'[n].phase = "returned",
           Cascade(root'[n]),
           UNCHANGED << runtime, admitted >>,
           state' \in [Runtimes -> States],
           inFlight' \in [Runtimes -> BOOLEAN],
           \A r \in Runtimes : r # root[n].rt => inFlight'[r] = inFlight[r],
           \A r \in Runtimes : r = root[n].rt /\ inFlight'[r] =>
                \/ root'[n].phase = "callback"
                \/ inFlight[r] /\ root[n].phase # "callback",
           calls' \in [Callers -> CallRecord],
           \A c \in Callers : calls'[c].pc # "idle" => calls'[c].root \in 1 .. admitted'
    PROVE  QueuedInv'
<1>1. LocalStep
  BY DEF LocalStep
<1>2. TypeInv'
  BY DEF QueuedInv, TypeInv, runtime
<1>3. ControlInv' /\ AdmissionInv'
  BY <1>1, LocalStepKeeps DEF QueuedInv, ControlInv, AdmissionInv
<1>4. CascadeInv'
  BY DEF QueuedInv, CascadeInv, Cascade
<1>5. FlightInv'
  <2> SUFFICES ASSUME NEW r \in Runtimes, inFlight'[r]
               PROVE  \E m \in RootIds : root'[m].rt = r /\ root'[m].phase = "callback"
    BY DEF FlightInv
  <2>1. CASE root[n].rt = r /\ root'[n].phase = "callback"
    BY <2>1
  <2>2. CASE ~(root[n].rt = r /\ root'[n].phase = "callback")
    <3>1. inFlight[r] /\ (root[n].rt = r => root[n].phase # "callback")
      BY <2>2
    <3>2. PICK m \in RootIds : root[m].rt = r /\ root[m].phase = "callback"
      BY <3>1 DEF QueuedInv, FlightInv
    <3> QED
      BY <3>1, <3>2
  <2> QED
    BY <2>1, <2>2
<1> QED
  BY <1>2, <1>3, <1>4, <1>5 DEF QueuedInv, ControlInv

\* What the end of a cascade leaves of its root.
LEMMA FinishedFacts ==
    ASSUME TypeInv, NEW n \in RootIds, NEW err \in Errors
    PROVE  /\ Finished(n, err) \in [RootIds -> Root]
           /\ \A m \in RootIds \ {n} : Finished(n, err)[m] = root[m]
           /\ LET x == Finished(n, err)[n]
              IN  /\ x.rt = root[n].rt /\ x.phase = "finished" /\ ~x.active
                  /\ x.pending = << >> /\ x.err = err
                  /\ x.ran = root[n].ran /\ x.accepted = root[n].accepted
<1> DEFINE x == [root[n] EXCEPT !.phase = "finished", !.active = FALSE,
                               !.pending = << >>, !.err = err]
<1>1. Finished(n, err) = [root EXCEPT ![n] = x] /\ root[n] \in Root
  BY DEF TypeInv, Finished
<1>2. << >> \in Seq(Events) /\ FALSE \in BOOLEAN /\ "finished" \in Phases
  BY DEF Phases
<1>3. /\ x \in Root /\ x.rt = root[n].rt /\ x.phase = "finished" /\ ~x.active
      /\ x.pending = << >> /\ x.err = err
      /\ x.ran = root[n].ran /\ x.accepted = root[n].accepted
  BY <1>1, <1>2 DEF Root
<1> HIDE DEF x
<1> QED
  BY <1>1, <1>3 DEF TypeInv

\* A root whose cascade ends without its Runtime's Instance in flight for it.
LEMMA EndKeeps ==
    ASSUME QueuedInv, NEW n \in RootIds, NEW err \in Errors \ {"inFlight"},
           Executing(n), err = None => root[n].ran = root[n].accepted,
           root' = Finished(n, err),
           UNCHANGED << state, runtime, admitted, calls >>,
           \/ root[n].phase # "callback" /\ inFlight' = inFlight
           \/ inFlight' = [inFlight EXCEPT ![root[n].rt] = FALSE]
    PROVE  QueuedInv'
<1>1. /\ Finished(n, err) \in [RootIds -> Root]
      /\ \A m \in RootIds \ {n} : Finished(n, err)[m] = root[m]
      /\ LET x == Finished(n, err)[n]
         IN  /\ x.rt = root[n].rt /\ x.phase = "finished" /\ ~x.active
             /\ x.pending = << >> /\ x.err = err
             /\ x.ran = root[n].ran /\ x.accepted = root[n].accepted
  BY FinishedFacts DEF QueuedInv
<1>2. Cascade(root'[n])
  BY <1>1 DEF Cascade, ExecutingPhases
<1>3. /\ inFlight' \in [Runtimes -> BOOLEAN]
      /\ \A r \in Runtimes : r # root[n].rt => inFlight'[r] = inFlight[r]
      /\ \A r \in Runtimes : r = root[n].rt /\ inFlight'[r] =>
            inFlight[r] /\ root[n].phase # "callback"
  BY DEF QueuedInv, TypeInv
<1>4. root'[n].phase \in ExecutingPhases \cup {"finished"}
  BY <1>1
<1>5. /\ state' \in [Runtimes -> States] /\ calls' \in [Callers -> CallRecord]
      /\ \A c \in Callers : calls'[c].pc # "idle" => calls'[c].root \in 1 .. admitted'
  BY DEF QueuedInv, TypeInv, AdmissionInv
<1> QED
  BY <1>1, <1>2, <1>3, <1>4, <1>5, RootStepKeeps

\* The event is skipped because its context is done.
LEMMA SkipKeeps ==
    ASSUME QueuedInv, NEW n \in RootIds, SkipCancelled(n)
    PROVE  QueuedInv'
<1>1. "canceled" \in Errors \ {"inFlight"} /\ "canceled" # None
  BY DEF Errors, None
<1>2. Executing(n)
  BY DEF SkipCancelled, Executing
<1> QED
  BY <1>1, <1>2, EndKeeps DEF SkipCancelled, machine

\* The event is refused, its Do fails, a callback panics or ends its goroutine.
LEMMA FailKeeps ==
    ASSUME QueuedInv, NEW n \in RootIds,
           FailEvent(n) \/ \E panicked \in BOOLEAN : StopEvent(n, panicked)
    PROVE  QueuedInv'
<1>1. PICK err \in Errors \ {"inFlight", None} :
         /\ root[n].phase = "callback" /\ root' = Finished(n, err)
         /\ inFlight' = [inFlight EXCEPT ![root[n].rt] = FALSE]
         /\ UNCHANGED << state, runtime, admitted, calls >>
  BY DEF FailEvent, StopEvent, Errors, None
<1>2. Executing(n)
  BY <1>1 DEF Executing
<1> QED
  BY <1>1, <1>2, EndKeeps

\* Instance.Fire finds the Instance free, because only the drain's root fires it.
LEMMA BeginKeeps ==
    ASSUME QueuedInv, NEW n \in RootIds, BeginEvent(n)
    PROVE  QueuedInv'
<1>1. Executing(n) /\ root[n].phase = "begin" /\ n <= admitted /\ root[n].rt \in Runtimes
  BY RootIdFacts DEF BeginEvent, Executing, QueuedInv, AdmissionInv, TypeInv, None
<1>2. ~inFlight[root[n].rt]
  <2> SUFFICES ASSUME inFlight[root[n].rt] PROVE FALSE
    OBVIOUS
  <2>1. PICK m \in RootIds : root[m].rt = root[n].rt /\ root[m].phase = "callback"
    BY <1>1 DEF QueuedInv, FlightInv
  <2>2. Executing(m)
    BY <2>1 DEF Executing
  <2> QED
    BY <1>1, <2>1, <2>2, OneDrainOneRoot DEF QueuedInv
<1>3. root' = [root EXCEPT ![n].phase = "callback"]
  BY <1>2 DEF BeginEvent
<1>4. /\ root' \in [RootIds -> Root]
      /\ \A m \in RootIds \ {n} : root'[m] = root[m]
      /\ root'[n].rt = root[n].rt /\ root'[n].phase = "callback"
      /\ root'[n].active = root[n].active /\ root'[n].pending = root[n].pending
      /\ root'[n].accepted = root[n].accepted /\ root'[n].ran = root[n].ran
      /\ root'[n].err = root[n].err
  <2> DEFINE x == [root[n] EXCEPT !.phase = "callback"]
  <2>1. root' = [root EXCEPT ![n] = x] /\ root[n] \in Root /\ "callback" \in Phases
    BY <1>3 DEF QueuedInv, TypeInv, Phases, ExecutingPhases
  <2>2. /\ x \in Root /\ x.rt = root[n].rt /\ x.phase = "callback"
        /\ x.active = root[n].active /\ x.pending = root[n].pending
        /\ x.accepted = root[n].accepted /\ x.ran = root[n].ran /\ x.err = root[n].err
    BY <2>1 DEF Root
  <2> HIDE DEF x
  <2> QED
    BY <2>1, <2>2 DEF QueuedInv, TypeInv
<1>5. Cascade(root'[n]) /\ root'[n].phase \in ExecutingPhases
  BY <1>1, <1>4 DEF Cascade, ExecutingPhases, QueuedInv, CascadeInv
<1>6. /\ inFlight' \in [Runtimes -> BOOLEAN]
      /\ \A r \in Runtimes : r # root[n].rt => inFlight'[r] = inFlight[r]
      /\ UNCHANGED << state, runtime, admitted, calls >>
  BY DEF BeginEvent, QueuedInv, TypeInv
<1>7. /\ state' \in [Runtimes -> States] /\ calls' \in [Callers -> CallRecord]
      /\ \A c \in Callers : calls'[c].pc # "idle" => calls'[c].root \in 1 .. admitted'
  BY <1>6 DEF QueuedInv, TypeInv, AdmissionInv
<1> QED
  BY <1>1, <1>4, <1>5, <1>6, <1>7, RootStepKeeps

\* Do returned nil: the event has run.
LEMMA CommitKeeps ==
    ASSUME QueuedInv, NEW n \in RootIds, NEW t \in States, CommitEvent(n, t)
    PROVE  QueuedInv'
<1> DEFINE p == IF Observed /\ t # state[root[n].rt] THEN "observe" ELSE "next"
<1>1. /\ root[n].phase = "callback" /\ root' = [root EXCEPT ![n].phase = p, ![n].ran = @ + 1]
      /\ inFlight' = [inFlight EXCEPT ![root[n].rt] = FALSE]
      /\ state' = [state EXCEPT ![root[n].rt] = t]
      /\ UNCHANGED << runtime, admitted, calls >>
      /\ p \in {"observe", "next"}
  BY DEF CommitEvent
<1> HIDE DEF p
<1>2. /\ root' \in [RootIds -> Root]
      /\ \A m \in RootIds \ {n} : root'[m] = root[m]
      /\ root'[n].rt = root[n].rt /\ root'[n].phase = p
      /\ root'[n].active = root[n].active /\ root'[n].pending = root[n].pending
      /\ root'[n].accepted = root[n].accepted /\ root'[n].ran = root[n].ran + 1
      /\ root'[n].err = root[n].err
  <2> DEFINE x == [root[n] EXCEPT !.phase = p, !.ran = @ + 1]
  <2>1. root' = [root EXCEPT ![n] = x] /\ root[n] \in Root /\ p \in Phases
    BY <1>1 DEF QueuedInv, TypeInv, Phases, ExecutingPhases
  <2>2. root[n].ran + 1 \in Nat
    BY <2>1 DEF Root
  <2>3. /\ x \in Root /\ x.rt = root[n].rt /\ x.phase = p
        /\ x.active = root[n].active /\ x.pending = root[n].pending
        /\ x.accepted = root[n].accepted /\ x.ran = root[n].ran + 1 /\ x.err = root[n].err
    BY <2>1, <2>2 DEF Root
  <2> HIDE DEF x
  <2> QED
    BY <2>1, <2>3 DEF QueuedInv, TypeInv
<1>3. root[n] \in Root /\ Cascade(root[n])
  BY DEF QueuedInv, TypeInv, CascadeInv
<1>4. Len(root[n].pending) \in Nat /\ root[n].ran \in Nat /\ root[n].accepted \in Nat
  BY <1>3 DEF Root
<1>5. Cascade(root'[n]) /\ root'[n].phase \in ExecutingPhases
  BY SMTT(60), <1>1, <1>2, <1>3, <1>4 DEF Cascade, ExecutingPhases
<1>6. /\ inFlight' \in [Runtimes -> BOOLEAN]
      /\ \A r \in Runtimes : r # root[n].rt => inFlight'[r] = inFlight[r]
      /\ \A r \in Runtimes : r = root[n].rt => ~inFlight'[r]
      /\ state' \in [Runtimes -> States] /\ calls' \in [Callers -> CallRecord]
      /\ \A c \in Callers : calls'[c].pc # "idle" => calls'[c].root \in 1 .. admitted'
  BY <1>1 DEF QueuedInv, TypeInv, AdmissionInv
<1>7. Executing(n)
  BY <1>1 DEF Executing
<1> QED
  BY <1>1, <1>2, <1>5, <1>6, <1>7, RootStepKeeps

\* The observers of the change have returned.
LEMMA DeliverKeeps ==
    ASSUME QueuedInv, NEW n \in RootIds, DeliverObservations(n)
    PROVE  QueuedInv'
<1> DEFINE x == [root[n] EXCEPT !.phase = "next"]
<1>1. /\ root[n].phase = "observe" /\ root' = [root EXCEPT ![n] = x]
      /\ root[n] \in Root /\ "next" \in Phases /\ Cascade(root[n])
      /\ UNCHANGED << machine, runtime, admitted, calls >>
  BY DEF DeliverObservations, QueuedInv, TypeInv, Phases, ExecutingPhases, CascadeInv
<1>2. /\ x \in Root /\ x.rt = root[n].rt /\ x.phase = "next"
      /\ x.active = root[n].active /\ x.pending = root[n].pending
      /\ x.accepted = root[n].accepted /\ x.ran = root[n].ran /\ x.err = root[n].err
  BY <1>1 DEF Root
<1> HIDE DEF x
<1>3. /\ root' \in [RootIds -> Root] /\ root'[n] = x
      /\ \A m \in RootIds \ {n} : root'[m] = root[m]
  BY <1>1, <1>2 DEF QueuedInv, TypeInv
<1>4. Cascade(x) /\ Executing(n) /\ x.phase \in ExecutingPhases
  BY <1>1, <1>2 DEF Cascade, ExecutingPhases, Executing
<1>5. /\ state' \in [Runtimes -> States] /\ inFlight' \in [Runtimes -> BOOLEAN]
      /\ inFlight' = inFlight /\ calls' \in [Callers -> CallRecord]
      /\ \A c \in Callers : calls'[c].pc # "idle" => calls'[c].root \in 1 .. admitted'
  BY <1>1 DEF QueuedInv, TypeInv, AdmissionInv, machine
<1> QED
  BY <1>1, <1>2, <1>3, <1>4, <1>5, RootStepKeeps

\* The cascade takes its next event, or ends when everything accepted has run.
LEMMA NextKeeps ==
    ASSUME QueuedInv, NEW n \in RootIds, NextEvent(n)
    PROVE  QueuedInv'
<1>1. /\ root[n].phase = "next" /\ Executing(n) /\ root[n] \in Root /\ Cascade(root[n])
      /\ UNCHANGED << machine, runtime, admitted, calls >>
  BY DEF NextEvent, Executing, QueuedInv, TypeInv, CascadeInv
<1>2. root[n].pending \in Seq(Events) /\ root[n].ran \in Nat /\ root[n].accepted \in Nat
  BY <1>1 DEF Root
<1>3. CASE root[n].pending = << >>
  <2>1. root' = Finished(n, None) /\ None \in Errors \ {"inFlight"}
    BY <1>3 DEF NextEvent, Errors, None
  <2>2. root[n].ran = root[n].accepted
    BY <1>1, <1>2, <1>3 DEF Cascade, ExecutingPhases
  <2> QED
    BY <1>1, <2>1, <2>2, EndKeeps DEF machine
<1>4. CASE root[n].pending # << >>
  <2> DEFINE x == [root[n] EXCEPT !.phase = "begin", !.event = Head(root[n].pending),
                                  !.pending = Tail(root[n].pending)]
  <2>1. root' = [root EXCEPT ![n] = x]
    BY <1>4 DEF NextEvent, QueuedInv, TypeInv
  <2>2. /\ Head(root[n].pending) \in Events /\ Tail(root[n].pending) \in Seq(Events)
        /\ Len(Tail(root[n].pending)) = Len(root[n].pending) - 1
        /\ Len(root[n].pending) \in Nat
        /\ "begin" \in Phases
    BY <1>2, <1>4, HeadTailProperties DEF Phases, ExecutingPhases
  <2>3. /\ x \in Root /\ x.rt = root[n].rt /\ x.phase = "begin"
        /\ x.active = root[n].active /\ x.pending = Tail(root[n].pending)
        /\ x.accepted = root[n].accepted /\ x.ran = root[n].ran /\ x.err = root[n].err
    BY <1>1, <2>2 DEF Root
  <2> HIDE DEF x
  <2>4. /\ root' \in [RootIds -> Root] /\ root'[n] = x
        /\ \A m \in RootIds \ {n} : root'[m] = root[m]
    BY <2>1, <2>3 DEF QueuedInv, TypeInv
  <2>5. Cascade(x) /\ x.phase \in ExecutingPhases
    BY SMTT(60), <1>1, <1>2, <2>2, <2>3 DEF Cascade, ExecutingPhases
  <2>6. /\ state' \in [Runtimes -> States] /\ inFlight' \in [Runtimes -> BOOLEAN]
        /\ inFlight' = inFlight /\ calls' \in [Callers -> CallRecord]
        /\ \A c \in Callers : calls'[c].pc # "idle" => calls'[c].root \in 1 .. admitted'
    BY <1>1 DEF QueuedInv, TypeInv, AdmissionInv, machine
  <2> QED
    BY <1>1, <2>3, <2>4, <2>5, <2>6, RootStepKeeps
<1> QED
  BY <1>3, <1>4

\* Enqueue is refused, or adds a follow-up to a cascade that still runs.
LEMMA EnqueueKeeps ==
    ASSUME QueuedInv, NEW c \in Callers, NEW r \in Runtimes, NEW e \in Events, Enqueue(c, r, e)
    PROVE  QueuedInv'
<1> DEFINE n == calls[c].ctx
<1>1. /\ calls' = Returned(c) /\ UNCHANGED << machine, runtime, admitted >>
      /\ calls[c].ctx # 0
  BY DEF Enqueue
<1>2. /\ calls' \in [Callers -> CallRecord]
      /\ \A d \in Callers : calls'[d].pc # "idle" => calls'[d].root \in 1 .. admitted'
  BY <1>1, ReturnKeeps DEF QueuedInv
<1>3. CASE EnqueueError(c, r) # None
  <2>1. root' = root
    BY <1>3 DEF Enqueue
  <2> QED
    BY <1>1, <1>2, <2>1, CallStepKeeps
<1>4. CASE EnqueueError(c, r) = None
  <2> DEFINE x == [root[n] EXCEPT !.pending = Append(root[n].pending, e), !.accepted = @ + 1]
  <2>1. n \in RootIds /\ root[n].active
    <3>1. calls[c] \in CallRecord
      BY DEF QueuedInv, TypeInv
    <3>2. n \in (0 .. MaxFires) \ {0}
      BY <1>1, <3>1 DEF CallRecord
    <3> QED
      BY <1>4, <3>2, RootIdFacts DEF EnqueueError, InExecution, None
  <2>2. /\ root[n] \in Root /\ Cascade(root[n]) /\ root' = [root EXCEPT ![n] = x]
    BY <1>4, <2>1 DEF QueuedInv, TypeInv, CascadeInv, Enqueue
  <2>3. root[n].pending \in Seq(Events) /\ root[n].ran \in Nat /\ root[n].accepted \in Nat
    BY <2>2 DEF Root
  <2>4. /\ Append(root[n].pending, e) \in Seq(Events) /\ root[n].accepted + 1 \in Nat
        /\ Len(Append(root[n].pending, e)) = Len(root[n].pending) + 1
        /\ Len(root[n].pending) \in Nat
    BY SMTT(60), <2>3, AppendProperties
  <2>5. /\ x \in Root /\ x.rt = root[n].rt /\ x.phase = root[n].phase
        /\ x.active = root[n].active /\ x.pending = Append(root[n].pending, e)
        /\ x.accepted = root[n].accepted + 1 /\ x.ran = root[n].ran /\ x.err = root[n].err
    BY <2>2, <2>4 DEF Root
  <2> HIDE DEF x
  <2>6. /\ root' \in [RootIds -> Root] /\ root'[n] = x
        /\ \A m \in RootIds \ {n} : root'[m] = root[m]
    BY <2>1, <2>2, <2>5 DEF QueuedInv, TypeInv
  <2> HIDE DEF n
  <2>7. Cascade(x)
    <3>1. root[n].phase \in ExecutingPhases
      BY <2>1, <2>2 DEF Cascade
    <3>2. x.active
      BY <2>1, <2>5
    <3>3. x.accepted = x.ran + Len(x.pending) + (IF x.phase \in {"begin", "callback"} THEN 1 ELSE 0)
      <4> DEFINE b == IF root[n].phase \in {"begin", "callback"} THEN 1 ELSE 0
      <4>1. b \in Nat /\ root[n].accepted = root[n].ran + Len(root[n].pending) + b
        BY <2>2, <3>1 DEF Cascade
      <4> HIDE DEF b
      <4>2. x.accepted = x.ran + Len(x.pending) + b
        <5>1. Len(x.pending) = Len(root[n].pending) + 1
          BY <2>4, <2>5
        <5>2. root[n].accepted + 1 = root[n].ran + (Len(root[n].pending) + 1) + b
          <6>1. /\ root[n].accepted \in Nat /\ root[n].ran \in Nat
                /\ Len(root[n].pending) \in Nat
            BY <2>3, <2>4
          <6> QED
            BY SMTT(60), <4>1, <6>1
        <5> QED
          BY <2>5, <5>1, <5>2
      <4> QED
        BY <2>5, <4>2 DEF b
    <3>4. x.err = None
      BY <2>2, <2>5, <3>1 DEF Cascade
    <3> QED
      BY <2>5, <3>1, <3>2, <3>3, <3>4 DEF Cascade, ExecutingPhases, None
  <2>8. FlightInv' /\ TypeInv'
    <3>1. TypeInv'
      BY <1>1, <1>2, <2>6 DEF QueuedInv, TypeInv, machine, runtime
    <3>2. inFlight' = inFlight
          /\ \A m \in RootIds : root'[m].rt = root[m].rt /\ root'[m].phase = root[m].phase
      BY <1>1, <2>1, <2>5, <2>6 DEF machine
    <3> QED
      BY <3>1, <3>2 DEF QueuedInv, FlightInv
  <2>9. CascadeInv'
    BY <2>6, <2>7 DEF QueuedInv, CascadeInv, Cascade
  <2>10. LocalStep
    BY <1>1, <2>1, <2>5, <2>6 DEF LocalStep
  <2> QED
    BY <1>2, <2>8, <2>9, <2>10, LocalStepKeeps DEF QueuedInv, ControlInv, AdmissionInv
<1> QED
  BY <1>3, <1>4

\* The answer is received, and what remains of the root is its contexts.
LEMMA ReceiveKeeps ==
    ASSUME QueuedInv, NEW c \in Callers, ReceiveOutcome(c)
    PROVE  QueuedInv'
<1> DEFINE n == calls[c].root
           x == [NoRoot EXCEPT !.phase = "returned",
                    !.rt = root[n].rt, !.active = root[n].active,
                    !.above = root[n].above, !.cancelled = root[n].cancelled]
<1>1. /\ calls' = Returned(c) /\ UNCHANGED << machine, runtime, admitted >>
      /\ root[n].phase = "answered" /\ root' = [root EXCEPT ![n] = x]
      /\ n \in 1 .. admitted
  BY DEF ReceiveOutcome, QueuedInv, AdmissionInv
<1>2. n \in RootIds
  BY <1>1, RootIdFacts DEF RootIds, QueuedInv, TypeInv
<1>3. root[n] \in Root /\ Cascade(root[n])
  BY <1>2 DEF QueuedInv, TypeInv, CascadeInv
<1>4. /\ root[n].rt \in Runtimes \cup {None} /\ root[n].above \in SUBSET RootIds
      /\ root[n].active \in BOOLEAN /\ root[n].cancelled \in BOOLEAN
  BY <1>3 DEF Root
<1>5. /\ << >> \in Seq(Events) /\ None \in Events \cup {None} /\ None \in Errors
      /\ "returned" \in Phases /\ 0 \in Nat
  BY DEF Errors, Phases
<1>6. NoRoot \in Root
  BY <1>5, RootIdFacts DEF NoRoot, Root, Phases
<1>7. /\ x \in Root /\ x.rt = root[n].rt /\ x.phase = "returned" /\ x.active = root[n].active
      /\ x.err = None
  BY <1>4, <1>5, <1>6 DEF Root, NoRoot
<1> HIDE DEF x
<1>8. /\ root' \in [RootIds -> Root] /\ root'[n] = x
      /\ \A m \in RootIds \ {n} : root'[m] = root[m]
  BY <1>1, <1>2, <1>7 DEF QueuedInv, TypeInv
<1>9. Cascade(x)
  BY <1>1, <1>3, <1>7 DEF Cascade, ExecutingPhases, None
<1>10. /\ calls' \in [Callers -> CallRecord]
      /\ \A d \in Callers : calls'[d].pc # "idle" => calls'[d].root \in 1 .. admitted'
  BY <1>1, ReturnKeeps DEF QueuedInv
<1>11. /\ state' \in [Runtimes -> States] /\ inFlight' \in [Runtimes -> BOOLEAN]
       /\ inFlight' = inFlight
  BY <1>1 DEF QueuedInv, TypeInv, machine
<1> HIDE DEF n
<1> QED
  BY <1>1, <1>2, <1>7, <1>8, <1>9, <1>10, <1>11, RootStepKeeps

\* A cancelled context changes nothing of the roots but that.
LEMMA CancelKeeps ==
    ASSUME QueuedInv, NEW n \in RootIds, Cancel(n)
    PROVE  QueuedInv'
<1>1. /\ UNCHANGED << machine, runtime, admitted, calls >>
      /\ \A m \in RootIds : root'[m] = root[m] \/ root'[m] = [root[m] EXCEPT !.cancelled = TRUE]
      /\ DOMAIN root' = RootIds /\ root' = [m \in RootIds |-> root'[m]]
  BY DEF Cancel
<1>2. ASSUME NEW m \in RootIds
      PROVE  /\ root'[m] \in Root /\ Cascade(root'[m])
             /\ root'[m].rt = root[m].rt /\ root'[m].phase = root[m].phase
  <2>1. root[m] \in Root /\ Cascade(root[m]) /\ TRUE \in BOOLEAN
    BY DEF QueuedInv, TypeInv, CascadeInv
  <2>2. CASE root'[m] = root[m]
    BY <2>1, <2>2
  <2>3. CASE root'[m] = [root[m] EXCEPT !.cancelled = TRUE]
    <3> DEFINE x == [root[m] EXCEPT !.cancelled = TRUE]
    <3>1. /\ x \in Root /\ x.rt = root[m].rt /\ x.phase = root[m].phase
          /\ x.active = root[m].active /\ x.pending = root[m].pending
          /\ x.accepted = root[m].accepted /\ x.ran = root[m].ran /\ x.err = root[m].err
      BY <2>1 DEF Root
    <3> HIDE DEF x
    <3>2. Cascade(x)
      BY <2>1, <3>1 DEF Cascade
    <3> QED
      BY <2>3, <3>1, <3>2 DEF x
  <2> QED
    BY <1>1, <2>2, <2>3
<1>3. TypeInv'
  <2>1. root' \in [RootIds -> Root]
    BY <1>1, <1>2
  <2> QED
    BY <1>1, <2>1 DEF QueuedInv, TypeInv, machine, runtime
<1>4. CascadeInv' /\ LocalStep
  BY <1>1, <1>2 DEF CascadeInv, Cascade, LocalStep
<1>5. FlightInv'
  BY <1>1, <1>2 DEF QueuedInv, FlightInv, machine
<1>6. ControlInv' /\ AdmissionInv'
  BY <1>1, <1>4, LocalStepKeeps DEF QueuedInv, ControlInv, AdmissionInv
<1> QED
  BY <1>3, <1>4, <1>5, <1>6 DEF QueuedInv, ControlInv

-----------------------------------------------------------------------------
(* The drain goroutine. *)

\* A drain serves a Runtime, as a root that was admitted.
LEMMA DrainFacts ==
    ASSUME TypeInv, AdmissionInv, NEW d \in RootIds, drains[d].pc # None
    PROVE  d <= admitted /\ root[d].rt \in Runtimes /\ drains[d] \in DrainRecord
BY RootIdFacts DEF TypeInv, AdmissionInv

\* The drain ends when the queue is empty; nobody else serves the Runtime.
LEMMA ExitKeeps ==
    ASSUME QueuedInv, NEW d \in RootIds, NEW r \in Runtimes, ExitDrain(d, r)
    PROVE  QueuedInv'
<1>1. /\ drains[d].pc = "top" /\ root[d].rt = r /\ queue[r] = << >>
      /\ running' = [running EXCEPT ![r] = FALSE]
      /\ drains' = [drains EXCEPT ![d] = NoDrain]
      /\ state' = state /\ inFlight' = inFlight /\ queue' = queue /\ rootCount' = rootCount
      /\ root' = root /\ admitted' = admitted /\ calls' = calls
  BY DEF ExitDrain, machine
<1>2. NoDrain \in DrainRecord /\ NoDrain.pc = None
  BY RootIdFacts DEF NoDrain, DrainRecord, None
<1>3. /\ drains' \in [RootIds -> DrainRecord] /\ drains'[d].pc = None
      /\ \A e \in RootIds \ {d} : drains'[e] = drains[e]
      /\ running' \in [Runtimes -> BOOLEAN] /\ ~running'[r]
      /\ \A q \in Runtimes \ {r} : running'[q] = running[q]
  BY <1>1, <1>2 DEF QueuedInv, TypeInv
<1>4. /\ \A e, n \in RootIds : (Holds(e, n)' <=> Holds(e, n)) /\ (Answers(e, n)' <=> Answers(e, n))
      /\ \A e \in RootIds, q \in Runtimes : Draining(e, q)' <=> (e # d /\ Draining(e, q))
      /\ Draining(d, r)
  BY <1>1, <1>3 DEF Holds, Answers, Draining, None
<1>5. TypeInv' /\ CascadeInv' /\ FlightInv' /\ QueueInv' /\ FirstInFirstOut'
  BY <1>1, <1>3 DEF QueuedInv, TypeInv, CascadeInv, Cascade, FlightInv, QueueInv, FirstInFirstOut
<1>6. AdmissionInv'
  BY <1>1, <1>3 DEF QueuedInv, AdmissionInv, None
<1>7. ServiceInv'
  <2>1. \A e \in RootIds : drains'[e].pc \in {"executing", "answering"} => drains'[e].req # 0
    BY <1>3 DEF QueuedInv, ServiceInv, None
  <2>2. \A n \in RootIds : Executing(n)' <=> Executing(n)
    BY <1>1 DEF Executing
  <2>3. \A e, n \in RootIds : Holds(e, n)' =>
          root'[n].rt = root'[e].rt /\ (Executing(n)' \/ root'[n].phase = "finished")
    BY <1>1, <1>4, <2>2 DEF QueuedInv, ServiceInv
  <2>4. \A e, n \in RootIds : Answers(e, n)' =>
          root'[n].rt = root'[e].rt /\ root'[n].phase = "finished"
    BY <1>1, <1>4 DEF QueuedInv, ServiceInv
  <2>5. \A n \in RootIds : Executing(n)' => \E e \in RootIds : Holds(e, n)'
    BY <1>4, <2>2 DEF QueuedInv, ServiceInv
  <2>6. \A n \in RootIds : root'[n].phase = "finished" =>
          \E e \in RootIds : Holds(e, n)' \/ Answers(e, n)'
    BY <1>1, <1>4 DEF QueuedInv, ServiceInv
  <2> QED
    BY <2>1, <2>3, <2>4, <2>5, <2>6 DEF ServiceInv
<1>8. DrainInv'
  <2>1. \A e \in RootIds : Draining(e, r) => e = d
    BY <1>4 DEF QueuedInv, DrainInv
  <2>2. \A e \in RootIds, q \in Runtimes : Draining(e, q) => root[e].rt = q
    BY DEF Draining
  <2>3. \A e \in RootIds, q \in Runtimes : Draining(e, q)' => running'[q]
    BY <1>3, <1>4, <2>1 DEF QueuedInv, DrainInv
  <2>4. \A q \in Runtimes : running'[q] => \E e \in RootIds : Draining(e, q)'
    BY <1>1, <1>3, <1>4, <2>2 DEF QueuedInv, DrainInv
  <2>5. \A e, f \in RootIds, q \in Runtimes : Draining(e, q)' /\ Draining(f, q)' => e = f
    BY <1>4 DEF QueuedInv, DrainInv
  <2>6. \A q \in Runtimes : queue'[q] # << >> => running'[q]
    BY <1>1, <1>3 DEF QueuedInv, DrainInv
  <2> QED
    BY <2>3, <2>4, <2>5, <2>6 DEF DrainInv
<1>9. CountInv'
  <2>1. \A q \in Runtimes : Counted(q)' = Counted(q)
    BY <1>1, <1>4 DEF Counted
  <2> QED
    BY <1>1, <2>1 DEF QueuedInv, CountInv
<1> QED
  BY <1>5, <1>6, <1>7, <1>8, <1>9 DEF QueuedInv

\* The root that was executed no longer counts; no other drain holds it.
LEMMA SettleKeeps ==
    ASSUME QueuedInv, NEW d \in RootIds, NEW r \in Runtimes, SettleRoot(d, r)
    PROVE  QueuedInv'
<1>0. PICK n : n = drains[d].req
  OBVIOUS
<1> DEFINE x == [drains[d] EXCEPT !.pc = "answering"]
<1>1. /\ drains[d].pc = "executing" /\ root[d].rt = r /\ root[n].phase = "finished"
      /\ rootCount' = [rootCount EXCEPT ![r] = @ - 1]
      /\ drains' = [drains EXCEPT ![d] = x] /\ drains[d] \in DrainRecord
      /\ state' = state /\ inFlight' = inFlight /\ queue' = queue /\ running' = running
      /\ root' = root /\ admitted' = admitted /\ calls' = calls
  BY <1>0 DEF SettleRoot, machine, QueuedInv, TypeInv
<1>2. n \in RootIds /\ Holds(d, n)
  <2>1. n \in 0 .. MaxFires /\ n # 0
    BY <1>0, <1>1 DEF DrainRecord, QueuedInv, ServiceInv
  <2> QED
    BY <1>0, <1>1, <2>1, RootIdFacts DEF Holds
<1>3. x \in DrainRecord /\ x.pc = "answering" /\ x.req = n
  BY <1>0, <1>1 DEF DrainRecord
<1> HIDE DEF x
<1>4. /\ drains' \in [RootIds -> DrainRecord] /\ drains'[d] = x
      /\ \A e \in RootIds \ {d} : drains'[e] = drains[e]
      /\ rootCount' \in [Runtimes -> Int] /\ rootCount'[r] = rootCount[r] - 1
      /\ \A q \in Runtimes \ {r} : rootCount'[q] = rootCount[q]
  BY <1>1, <1>3 DEF QueuedInv, TypeInv
<1>5. /\ \A e, m \in RootIds : Holds(e, m)' <=> (e # d /\ Holds(e, m))
      /\ \A e, m \in RootIds : Answers(e, m)' <=> (Answers(e, m) \/ (e = d /\ m = n))
      /\ \A e \in RootIds, q \in Runtimes : Draining(e, q)' <=> Draining(e, q)
  BY <1>1, <1>3, <1>4 DEF Holds, Answers, Draining, None
<1>6. \A e, m \in RootIds : Holds(e, m) /\ (e = d \/ m = n) => e = d /\ m = n
  <2>1. \A e \in RootIds : Holds(e, n) => e = d
    BY <1>2, OneDrainOneRoot DEF QueuedInv
  <2> QED
    BY <1>2, <2>1 DEF Holds
<1>7. TypeInv' /\ CascadeInv' /\ FlightInv' /\ QueueInv' /\ FirstInFirstOut'
  <2>1. TypeInv'
    BY <1>1, <1>4 DEF QueuedInv, TypeInv
  <2>2. CascadeInv' /\ FlightInv'
    BY <1>1 DEF QueuedInv, CascadeInv, Cascade, FlightInv
  <2>3. QueueInv' /\ FirstInFirstOut'
    BY <1>1 DEF QueuedInv, QueueInv, FirstInFirstOut
  <2> QED
    BY <2>1, <2>2, <2>3
<1>8. AdmissionInv'
  BY <1>1, <1>4, DrainFacts DEF QueuedInv, AdmissionInv, None, RootIds, TypeInv
<1>9. ServiceInv'
  <2>1. \A e \in RootIds : drains'[e].pc \in {"executing", "answering"} => drains'[e].req # 0
    BY <1>2, <1>3, <1>4, RootIdFacts DEF QueuedInv, ServiceInv
  <2>2. \A m \in RootIds : Executing(m)' <=> Executing(m)
    BY <1>1 DEF Executing
  <2>3. ~Executing(n)
    BY <1>1 DEF Executing
  <2>4. root[n].rt = root[d].rt
    BY <1>2 DEF QueuedInv, ServiceInv
  <2>5. \A e, m \in RootIds : Answers(e, m)' =>
           root'[m].rt = root'[e].rt /\ root'[m].phase = "finished"
    BY <1>1, <1>5, <2>4 DEF QueuedInv, ServiceInv
  <2>6. \A m \in RootIds : Executing(m)' => \E e \in RootIds : Holds(e, m)'
    BY <1>5, <1>6, <2>2, <2>3 DEF QueuedInv, ServiceInv
  <2>7. \A m \in RootIds : root'[m].phase = "finished" =>
          \E e \in RootIds : Holds(e, m)' \/ Answers(e, m)'
    BY <1>1, <1>5, <1>6 DEF QueuedInv, ServiceInv
  <2>8. \A e, m \in RootIds : Holds(e, m)' =>
          root'[m].rt = root'[e].rt /\ (Executing(m)' \/ root'[m].phase = "finished")
    BY <1>1, <1>5, <2>2 DEF QueuedInv, ServiceInv
  <2> QED
    BY <2>1, <2>5, <2>6, <2>7, <2>8 DEF ServiceInv
<1>10. DrainInv'
  BY <1>1, <1>5 DEF QueuedInv, DrainInv
<1>11. CountInv'
  <2>1. /\ Counted(r)' = Counted(r) \ {n} /\ n \in Counted(r)
        /\ \A q \in Runtimes \ {r} : Counted(q)' = Counted(q)
    <3>1. root[n].rt = r /\ root[n].phase # "queued"
      BY <1>1, <1>2 DEF QueuedInv, ServiceInv
    <3> QED
      BY <1>1, <1>2, <1>5, <1>6, <3>1 DEF Counted
  <2>2. Cardinality(Counted(r)') = Cardinality(Counted(r)) - 1
        /\ Cardinality(Counted(r)) \in Nat
    BY ZenonT(90), <1>2, <2>1, RootCountFacts DEF Counted
  <2>3. rootCount[r] <= MaxRoots /\ rootCount[r] = Cardinality(Counted(r)) /\ MaxRoots \in Nat
    BY LimitsAssumption DEF QueuedInv, CountInv
  <2>4. rootCount'[r] <= MaxRoots /\ rootCount'[r] = Cardinality(Counted(r)')
    BY <1>4, <2>2, <2>3
  <2> QED
    BY <1>4, <2>1, <2>4 DEF QueuedInv, CountInv
<1> QED
  BY <1>7, <1>8, <1>9, <1>10, <1>11 DEF QueuedInv

\* The answer is sent, and the drain looks at its queue again.
LEMMA AnswerKeeps ==
    ASSUME QueuedInv, NEW d \in RootIds, NEW r \in Runtimes, AnswerRoot(d, r)
    PROVE  QueuedInv'
<1>0. PICK n : n = drains[d].req
  OBVIOUS
<1> DEFINE k == [pc |-> "top", req |-> 0]
           x == [root[n] EXCEPT !.phase = "answered"]
<1>1. /\ drains[d].pc = "answering" /\ root[d].rt = r
      /\ drains' = [drains EXCEPT ![d] = k] /\ drains[d] \in DrainRecord
      /\ state' = state /\ inFlight' = inFlight /\ queue' = queue /\ running' = running
      /\ rootCount' = rootCount /\ admitted' = admitted /\ calls' = calls
  BY DEF AnswerRoot, machine, QueuedInv, TypeInv
<1>2. n \in RootIds /\ Answers(d, n)
  <2>1. n \in 0 .. MaxFires /\ n # 0
    BY <1>0, <1>1 DEF DrainRecord, QueuedInv, ServiceInv
  <2> QED
    BY <1>0, <1>1, <2>1, RootIdFacts DEF Answers
<1>3. root[n].phase = "finished" /\ root[n].rt = r
  BY <1>1, <1>2 DEF QueuedInv, ServiceInv
<1>4. k \in DrainRecord /\ k.pc = "top"
  BY RootIdFacts DEF DrainRecord
<1>5. root' = [root EXCEPT ![n] = x] /\ root[n] \in Root /\ Cascade(root[n]) /\ "answered" \in Phases
  BY <1>0, <1>2 DEF AnswerRoot, QueuedInv, TypeInv, CascadeInv, Phases
<1>6. /\ x \in Root /\ x.rt = root[n].rt /\ x.phase = "answered"
      /\ x.active = root[n].active /\ x.pending = root[n].pending
      /\ x.accepted = root[n].accepted /\ x.ran = root[n].ran /\ x.err = root[n].err
  BY <1>5 DEF Root
<1> HIDE DEF x, k
<1>7. /\ root' \in [RootIds -> Root] /\ root'[n] = x
      /\ \A m \in RootIds \ {n} : root'[m] = root[m]
      /\ drains' \in [RootIds -> DrainRecord] /\ drains'[d] = k
      /\ \A e \in RootIds \ {d} : drains'[e] = drains[e]
  BY <1>1, <1>2, <1>4, <1>5, <1>6 DEF QueuedInv, TypeInv
<1>8. Cascade(x)
  BY <1>3, <1>5, <1>6 DEF Cascade, ExecutingPhases
<1>9. /\ \A m \in RootIds : root'[m].rt = root[m].rt
      /\ \A m \in RootIds : m # n => root'[m].phase = root[m].phase
      /\ \A m \in RootIds : Executing(m)' <=> Executing(m)
      /\ root'[n].phase = "answered"
  <2>1. root'[n].phase = "answered" /\ \A m \in RootIds : root'[m].rt = root[m].rt
    BY <1>2, <1>6, <1>7
  <2>2. \A m \in RootIds : m # n => root'[m].phase = root[m].phase
    BY <1>7
  <2>3. ~Executing(n)' /\ ~Executing(n)
    BY <1>3, <2>1 DEF Executing
  <2>4. \A m \in RootIds : m # n => (Executing(m)' <=> Executing(m))
    BY <2>2 DEF Executing
  <2> QED
    BY <2>1, <2>2, <2>3, <2>4
<1>10. /\ \A e, m \in RootIds : Holds(e, m)' <=> Holds(e, m)
       /\ \A e, m \in RootIds : Answers(e, m)' <=> (e # d /\ Answers(e, m))
       /\ \A e \in RootIds, q \in Runtimes : Draining(e, q)' <=> Draining(e, q)
  BY <1>1, <1>4, <1>7, <1>9 DEF Holds, Answers, Draining, None
<1>11. \A e, m \in RootIds : (Holds(e, m) \/ Answers(e, m)) /\ (e = d \/ m = n)
          => e = d /\ m = n /\ Answers(e, m)
  <2>1. \A e \in RootIds : Holds(e, n) \/ Answers(e, n) => e = d
    <3> SUFFICES ASSUME NEW e \in RootIds, Holds(e, n) \/ Answers(e, n) PROVE e = d
      OBVIOUS
    <3>1. root[e].rt = r /\ drains[e].pc # None
      BY <1>2, <1>3 DEF QueuedInv, ServiceInv, Holds, Answers, None
    <3> QED
      BY <1>1, <3>1 DEF QueuedInv, DrainInv, Draining, None
  <2>2. \A m \in RootIds : Holds(d, m) \/ Answers(d, m) => m = n /\ Answers(d, m)
    BY <1>1, <1>2 DEF Holds, Answers
  <2> QED
    BY <2>1, <2>2
<1>12. TypeInv'
  BY <1>1, <1>7 DEF QueuedInv, TypeInv
<1>13. CascadeInv'
  BY <1>7, <1>8 DEF QueuedInv, CascadeInv, Cascade
<1>14. FlightInv' /\ FirstInFirstOut'
  <2>1. FlightInv'
    BY <1>1, <1>3, <1>9 DEF QueuedInv, FlightInv
  <2>2. FirstInFirstOut'
    BY <1>3, <1>9 DEF QueuedInv, FirstInFirstOut, None
  <2> QED
    BY <2>1, <2>2
<1>15. QueueInv'
  <2>1. \A q \in Runtimes : \A i \in 1 .. Len(queue[q]) : queue[q][i] \in RootIds
    BY DEF QueuedInv, TypeInv
  <2>2. \A m \in RootIds : (root'[m].phase = "queued") <=> (root[m].phase = "queued")
    BY <1>3, <1>9
  <2>3. \A q \in Runtimes : \A i \in 1 .. Len(queue'[q]) :
          root'[queue'[q][i]].phase = "queued" /\ root'[queue'[q][i]].rt = q
    BY <1>1, <1>9, <2>1, <2>2 DEF QueuedInv, QueueInv
  <2>4. \A q \in Runtimes : \A i, j \in 1 .. Len(queue'[q]) : i < j => queue'[q][i] < queue'[q][j]
    BY <1>1 DEF QueuedInv, QueueInv
  <2>5. \A m \in RootIds : root'[m].phase = "queued" =>
          \E i \in 1 .. Len(queue'[root'[m].rt]) : queue'[root'[m].rt][i] = m
    BY <1>1, <1>9, <2>2 DEF QueuedInv, QueueInv
  <2> QED
    BY <2>3, <2>4, <2>5 DEF QueueInv
<1>16. AdmissionInv'
  <2>1. n <= admitted /\ d <= admitted
    BY <1>1, <1>2, <1>3, DrainFacts, RootIdFacts DEF QueuedInv, AdmissionInv, None, TypeInv
  <2>2. \A m \in RootIds : m > admitted => m # n /\ m # d
    BY <2>1, RootIdFacts DEF QueuedInv, TypeInv
  <2>3. \A m \in RootIds : IF m > admitted'
                            THEN root'[m].phase = None /\ drains'[m].pc = None
                            ELSE root'[m].rt \in Runtimes
    BY <1>1, <1>7, <1>9, <2>2 DEF QueuedInv, AdmissionInv
  <2> QED
    BY <1>1, <2>3 DEF QueuedInv, AdmissionInv
<1>17. ServiceInv'
  <2>1. \A e \in RootIds : drains'[e].pc \in {"executing", "answering"} => drains'[e].req # 0
    BY <1>4, <1>7 DEF QueuedInv, ServiceInv
  <2>2. \A e, m \in RootIds : Holds(e, m)' =>
          root'[m].rt = root'[e].rt /\ (Executing(m)' \/ root'[m].phase = "finished")
    BY <1>2, <1>9, <1>10, <1>11 DEF QueuedInv, ServiceInv, Holds, Answers
  <2>3. \A e, m \in RootIds : Answers(e, m)' =>
           root'[m].rt = root'[e].rt /\ root'[m].phase = "finished"
    BY <1>9, <1>10, <1>11 DEF QueuedInv, ServiceInv
  <2>4. \A m \in RootIds : Executing(m)' => \E e \in RootIds : Holds(e, m)'
    BY <1>9, <1>10 DEF QueuedInv, ServiceInv
  <2>5. \A m \in RootIds : root'[m].phase = "finished" =>
          \E e \in RootIds : Holds(e, m)' \/ Answers(e, m)'
    BY <1>9, <1>10, <1>11 DEF QueuedInv, ServiceInv
  <2> QED
    BY <2>1, <2>2, <2>3, <2>4, <2>5 DEF ServiceInv
<1>18. DrainInv'
  BY <1>1, <1>10 DEF QueuedInv, DrainInv
<1>19. CountInv'
  <2>1. \A q \in Runtimes : Counted(q)' = Counted(q)
    BY <1>3, <1>9, <1>10 DEF Counted
  <2> QED
    BY <1>1, <2>1 DEF QueuedInv, CountInv
<1> QED
  BY <1>12, <1>13, <1>14, <1>15, <1>16, <1>17, <1>18, <1>19 DEF QueuedInv

\* The oldest root is taken from the queue by the only drain of the Runtime.
LEMMA TakeKeeps ==
    ASSUME QueuedInv, NEW d \in RootIds, NEW r \in Runtimes, TakeRoot(d, r)
    PROVE  QueuedInv'
<1>0. PICK n : n = Head(queue[r])
  OBVIOUS
<1> DEFINE k == [pc |-> "executing", req |-> n]
           x == [root[n] EXCEPT !.phase = "begin", !.active = TRUE, !.accepted = 1]
<1>1. /\ drains[d].pc = "top" /\ root[d].rt = r /\ queue[r] # << >>
      /\ queue' = [queue EXCEPT ![r] = Tail(@)]
      /\ drains' = [drains EXCEPT ![d] = k]
      /\ state' = state /\ inFlight' = inFlight /\ running' = running
      /\ rootCount' = rootCount /\ admitted' = admitted /\ calls' = calls
      /\ queue[r] \in Seq(RootIds)
  BY <1>0 DEF TakeRoot, machine, QueuedInv, TypeInv
<1>2. /\ Len(queue[r]) \in Nat /\ Len(queue[r]) >= 1 /\ n = queue[r][1] /\ n \in RootIds
      /\ Tail(queue[r]) \in Seq(RootIds) /\ Len(Tail(queue[r])) = Len(queue[r]) - 1
      /\ \A i \in 1 .. Len(queue[r]) - 1 : Tail(queue[r])[i] = queue[r][i + 1]
  BY <1>0, <1>1, HeadTailProperties, EmptySeq, LenProperties
<1>3. root[n].phase = "queued" /\ root[n].rt = r
  BY <1>2 DEF QueuedInv, QueueInv
<1>4. k \in DrainRecord /\ k.pc = "executing" /\ k.req = n
  BY <1>2, RootIdFacts DEF DrainRecord, RootIds
<1>5. root' = [root EXCEPT ![n] = x] /\ root[n] \in Root /\ Cascade(root[n]) /\ "begin" \in Phases
      /\ TRUE \in BOOLEAN /\ 1 \in Nat
  BY ZenonT(90), <1>0, <1>2 DEF TakeRoot, QueuedInv, TypeInv, CascadeInv, Phases, ExecutingPhases
<1>6. /\ x \in Root /\ x.rt = root[n].rt /\ x.phase = "begin" /\ x.active
      /\ x.pending = root[n].pending /\ x.accepted = 1 /\ x.ran = root[n].ran
      /\ x.err = root[n].err
  BY <1>5 DEF Root
<1> HIDE DEF x, k
<1>7. /\ root' \in [RootIds -> Root] /\ root'[n] = x
      /\ \A m \in RootIds \ {n} : root'[m] = root[m]
      /\ drains' \in [RootIds -> DrainRecord] /\ drains'[d] = k
      /\ \A e \in RootIds \ {d} : drains'[e] = drains[e]
      /\ queue' \in [Runtimes -> Seq(RootIds)] /\ queue'[r] = Tail(queue[r])
      /\ \A q \in Runtimes \ {r} : queue'[q] = queue[q]
  BY <1>1, <1>2, <1>4, <1>5, <1>6 DEF QueuedInv, TypeInv
<1>8. Cascade(x)
  <2>1. x.ran = 0 /\ x.pending = << >> /\ x.err = None
    BY <1>3, <1>5, <1>6 DEF Cascade
  <2> QED
    BY <1>6, <2>1 DEF Cascade, ExecutingPhases, None
<1>9. /\ \A m \in RootIds : root'[m].rt = root[m].rt
      /\ \A m \in RootIds : m # n => root'[m].phase = root[m].phase
      /\ \A m \in RootIds : Executing(m)' <=> (m = n \/ Executing(m))
      /\ root'[n].phase = "begin" /\ ~Executing(n)
  <2>1. root'[n].phase = "begin" /\ \A m \in RootIds : root'[m].rt = root[m].rt
    BY <1>2, <1>6, <1>7
  <2>2. \A m \in RootIds : m # n => root'[m].phase = root[m].phase
    BY <1>7
  <2>3. Executing(n)' /\ ~Executing(n)
    BY <1>3, <2>1 DEF Executing
  <2>4. \A m \in RootIds : m # n => (Executing(m)' <=> Executing(m))
    BY <2>2 DEF Executing
  <2> QED
    BY <2>1, <2>2, <2>3, <2>4
<1>10. /\ \A e, m \in RootIds : Holds(e, m)' <=> (Holds(e, m) \/ (e = d /\ m = n))
       /\ \A e, m \in RootIds : Answers(e, m)' <=> Answers(e, m)
       /\ \A e \in RootIds, q \in Runtimes : Draining(e, q)' <=> Draining(e, q)
  BY <1>1, <1>4, <1>7, <1>9 DEF Holds, Answers, Draining, None
<1>11. \A e, m \in RootIds : (Holds(e, m) \/ Answers(e, m)) => e # d /\ m # n
  BY <1>1, <1>3, <1>9 DEF QueuedInv, ServiceInv, Holds, Answers
<1>12. TypeInv'
  BY <1>1, <1>7 DEF QueuedInv, TypeInv
<1>13. CascadeInv'
  BY <1>7, <1>8 DEF QueuedInv, CascadeInv, Cascade
<1>14. FlightInv'
  BY <1>1, <1>3, <1>9 DEF QueuedInv, FlightInv
<1>15. QueueInv'
  <2>1. \A q \in Runtimes : \A i \in 1 .. Len(queue[q]) : queue[q][i] \in RootIds
    BY DEF QueuedInv, TypeInv
  <2>2. \A i \in 1 .. Len(queue'[r]) : /\ i + 1 \in 1 .. Len(queue[r])
                                       /\ queue'[r][i] = queue[r][i + 1] /\ queue[r][i + 1] # n
    <3> SUFFICES ASSUME NEW i \in 1 .. Len(queue'[r])
                 PROVE  /\ i + 1 \in 1 .. Len(queue[r])
                        /\ queue'[r][i] = queue[r][i + 1] /\ queue[r][i + 1] # n
      OBVIOUS
    <3>1. /\ i + 1 \in 1 .. Len(queue[r]) /\ 1 \in 1 .. Len(queue[r]) /\ 1 < i + 1
          /\ queue'[r][i] = queue[r][i + 1]
      BY <1>2, <1>7
    <3>2. queue[r][1] < queue[r][i + 1]
      BY <3>1 DEF QueuedInv, QueueInv
    <3> QED
      BY <1>2, <2>1, <3>1, <3>2, RootIdFacts
  <2>3. ASSUME NEW q \in Runtimes, NEW i \in 1 .. Len(queue'[q])
        PROVE  root'[queue'[q][i]].phase = "queued" /\ root'[queue'[q][i]].rt = q
    <3>1. CASE q = r
      <4> DEFINE m == queue[r][i + 1]
      <4>1. i + 1 \in 1 .. Len(queue[r]) /\ queue'[q][i] = m /\ m # n
        BY <2>2, <2>3, <3>1
      <4>2. m \in RootIds /\ root[m].phase = "queued" /\ root[m].rt = r
        BY <2>1, <4>1 DEF QueuedInv, QueueInv
      <4> QED
        BY <1>9, <3>1, <4>1, <4>2
    <3>2. CASE q # r
      <4>1. /\ queue'[q][i] = queue[q][i] /\ i \in 1 .. Len(queue[q])
            /\ root[queue[q][i]].phase = "queued" /\ root[queue[q][i]].rt = q
        BY <1>7, <2>3, <3>2 DEF QueuedInv, QueueInv
      <4> QED
        BY <1>3, <1>9, <2>1, <3>2, <4>1
    <3> QED
      BY <3>1, <3>2
  <2>4. ASSUME NEW q \in Runtimes, NEW i \in 1 .. Len(queue'[q]), NEW j \in 1 .. Len(queue'[q]), i < j
        PROVE  queue'[q][i] < queue'[q][j]
    <3>1. CASE q = r
      <4>1. i + 1 < j + 1
        BY <1>2, <1>7, <2>4, <3>1
      <4> QED
        BY SMTT(60), <2>2, <3>1, <4>1 DEF QueuedInv, QueueInv
    <3>2. CASE q # r
      BY <1>7, <2>4, <3>2 DEF QueuedInv, QueueInv
    <3> QED
      BY <3>1, <3>2
  <2>5. ASSUME NEW m \in RootIds, root'[m].phase = "queued"
        PROVE  \E i \in 1 .. Len(queue'[root'[m].rt]) : queue'[root'[m].rt][i] = m
    <3>1. m # n /\ root[m].phase = "queued" /\ root'[m].rt = root[m].rt
      BY <1>9, <2>5
    <3>2. PICK i \in 1 .. Len(queue[root[m].rt]) : queue[root[m].rt][i] = m
      BY <3>1 DEF QueuedInv, QueueInv
    <3>3. root[m].rt \in Runtimes
      BY <3>1 DEF QueuedInv, AdmissionInv, None
    <3>4. CASE root[m].rt = r
      <4>1. i # 1
        BY <1>2, <3>1, <3>2, <3>4
      <4>2. i - 1 \in 1 .. Len(queue'[r]) /\ (i - 1) + 1 = i
        BY <1>2, <1>7, <3>2, <3>4, <4>1
      <4>3. queue'[r][i - 1] = m
        BY <2>2, <3>2, <3>4, <4>2
      <4> QED
        BY <3>1, <3>4, <4>2, <4>3
    <3>5. CASE root[m].rt # r
      BY <1>7, <3>1, <3>2, <3>3, <3>5
    <3> QED
      BY <3>4, <3>5
  <2> QED
    BY <2>3, <2>4, <2>5 DEF QueueInv
<1>16. AdmissionInv'
  <2>1. n <= admitted /\ d <= admitted
    BY <1>1, <1>2, <1>3, DrainFacts, RootIdFacts DEF QueuedInv, AdmissionInv, None, TypeInv
  <2>2. \A m \in RootIds : m > admitted => m # n /\ m # d
    BY <2>1, RootIdFacts DEF QueuedInv, TypeInv
  <2>3. \A m \in RootIds : IF m > admitted'
                            THEN root'[m].phase = None /\ drains'[m].pc = None
                            ELSE root'[m].rt \in Runtimes
    BY <1>1, <1>7, <1>9, <2>2 DEF QueuedInv, AdmissionInv
  <2> QED
    BY <1>1, <2>3 DEF QueuedInv, AdmissionInv
<1>17. ServiceInv'
  <2>1. \A e \in RootIds : drains'[e].pc \in {"executing", "answering"} => drains'[e].req # 0
    <3>1. drains'[d].req # 0
      BY <1>2, <1>4, <1>7, RootIdFacts
    <3> QED
      BY <1>7, <3>1 DEF QueuedInv, ServiceInv
  <2>2. \A e, m \in RootIds : Holds(e, m)' =>
          root'[m].rt = root'[e].rt /\ (Executing(m)' \/ root'[m].phase = "finished")
    <3> SUFFICES ASSUME NEW e \in RootIds, NEW m \in RootIds, Holds(e, m)'
                 PROVE  root'[m].rt = root'[e].rt /\ (Executing(m)' \/ root'[m].phase = "finished")
      OBVIOUS
    <3>1. CASE e = d /\ m = n
      BY <1>1, <1>3, <1>9, <3>1
    <3>2. CASE ~(e = d /\ m = n)
      <4>1. Holds(e, m) /\ m # n
        BY <1>10, <1>11, <3>2
      <4>2. root[m].rt = root[e].rt /\ (Executing(m) \/ root[m].phase = "finished")
        BY <4>1 DEF QueuedInv, ServiceInv
      <4> QED
        BY <1>9, <4>1, <4>2
    <3> QED
      BY <3>1, <3>2
  <2>3. \A e, m \in RootIds : Answers(e, m)' =>
           root'[m].rt = root'[e].rt /\ root'[m].phase = "finished"
    BY <1>9, <1>10, <1>11 DEF QueuedInv, ServiceInv
  <2>4. \A m \in RootIds : Executing(m)' => \E e \in RootIds : Holds(e, m)'
    BY <1>9, <1>10 DEF QueuedInv, ServiceInv
  <2>5. \A m \in RootIds : root'[m].phase = "finished" =>
          \E e \in RootIds : Holds(e, m)' \/ Answers(e, m)'
    BY <1>9, <1>10 DEF QueuedInv, ServiceInv
  <2> QED
    BY <2>1, <2>2, <2>3, <2>4, <2>5 DEF ServiceInv
<1>18. DrainInv'
  <2>1. \A q \in Runtimes : queue'[q] # << >> => running'[q]
    BY <1>1, <1>7 DEF QueuedInv, DrainInv
  <2> QED
    BY <1>1, <1>10, <2>1 DEF QueuedInv, DrainInv
<1>19. CountInv'
  <2>1. \A q \in Runtimes : Counted(q)' = Counted(q)
    BY <1>2, <1>3, <1>9, <1>10 DEF Counted
  <2> QED
    BY <1>1, <2>1 DEF QueuedInv, CountInv
<1>20. FirstInFirstOut'
  <2> SUFFICES ASSUME NEW m \in RootIds, NEW p \in RootIds, m < p, root'[m].rt = root'[p].rt,
                      root'[p].phase \notin {None, "queued", "removed"},
                      root'[m].phase = "queued"
               PROVE  FALSE
    BY DEF FirstInFirstOut
  <2>1. m # n /\ root[m].phase = "queued" /\ root[m].rt = root[p].rt
    BY <1>9
  <2>2. CASE p # n
    BY <1>9, <2>1, <2>2 DEF QueuedInv, FirstInFirstOut
  <2>3. CASE p = n
    <3>1. PICK i \in 1 .. Len(queue[r]) : queue[r][i] = m
      BY <1>3, <2>1, <2>3 DEF QueuedInv, QueueInv
    <3>2. 1 < i /\ 1 \in 1 .. Len(queue[r])
      BY <1>2, <2>1, <3>1
    <3>3. n < m
      BY <1>2, <3>1, <3>2 DEF QueuedInv, QueueInv
    <3> QED
      BY <2>3, <3>3, RootIdFacts
  <2> QED
    BY <2>2, <2>3
<1> QED
  BY <1>12, <1>13, <1>14, <1>15, <1>16, <1>17, <1>18, <1>19, <1>20 DEF QueuedInv

-----------------------------------------------------------------------------
(* Admission and removal. *)

\* Fire admits a root, and starts a drain when the Runtime has none.
LEMMA FireKeeps ==
    ASSUME QueuedInv, NEW c \in Callers, NEW r \in Runtimes, NEW e \in Events, Fire(c, r, e)
    PROVE  QueuedInv'
<1>0. PICK n : n = admitted + 1
  OBVIOUS
<1>1. PICK above : above = IF calls[c].ctx = 0 THEN {}
                           ELSE {calls[c].ctx} \cup root[calls[c].ctx].above
  OBVIOUS
<1> DEFINE x == [NoRoot EXCEPT !.phase = "queued", !.rt = r, !.event = e, !.above = above]
           k == [pc |-> "top", req |-> 0]
<1>2. /\ admitted < MaxFires /\ admitted \in 0 .. MaxFires /\ ~AtRootLimit(r)
      /\ admitted' = n /\ root' = [root EXCEPT ![n] = x]
      /\ queue' = [queue EXCEPT ![r] = Append(@, n)]
      /\ rootCount' = [rootCount EXCEPT ![r] = @ + 1]
      /\ running' = [running EXCEPT ![r] = TRUE]
      /\ drains' = IF ~running[r] THEN [drains EXCEPT ![n] = k] ELSE drains
      /\ calls' = [calls EXCEPT ![c].pc = "waiting", ![c].root = n]
      /\ state' = state /\ inFlight' = inFlight
      /\ queue[r] \in Seq(RootIds)
  BY <1>0, <1>1 DEF Fire, machine, QueuedInv, TypeInv, StartsDrain
<1>3. n \in RootIds /\ n \in 1 .. MaxFires /\ n > admitted
  BY <1>0, <1>2, RootIdFacts DEF RootIds
<1>4. root[n].phase = None /\ drains[n].pc = None
  BY <1>3 DEF QueuedInv, AdmissionInv
<1>5. above \in SUBSET RootIds
  <2>1. calls[c] \in CallRecord
    BY DEF QueuedInv, TypeInv
  <2>2. CASE calls[c].ctx = 0
    BY <1>1, <2>2
  <2>3. CASE calls[c].ctx # 0
    <3>1. calls[c].ctx \in RootIds
      BY <2>1, <2>3, RootIdFacts DEF CallRecord
    <3>2. root[calls[c].ctx] \in Root
      BY <3>1 DEF QueuedInv, TypeInv
    <3>3. root[calls[c].ctx].above \in SUBSET RootIds
      BY <3>2 DEF Root
    <3> QED
      BY <1>1, <2>3, <3>1, <3>3
  <2> QED
    BY <2>2, <2>3
<1>6. NoRoot \in Root /\ "queued" \in Phases
  <2>1. << >> \in Seq(Events) /\ None \in Errors /\ None \in Phases /\ "queued" \in Phases
        /\ FALSE \in BOOLEAN /\ 0 \in Nat
    BY DEF Errors, Phases
  <2> QED
    BY <2>1 DEF NoRoot, Root
<1>7. /\ x \in Root /\ x.rt = r /\ x.phase = "queued"
  BY <1>5, <1>6 DEF Root
<1>8. /\ x.pending = << >> /\ x.ran = 0 /\ x.err = None /\ ~x.active
  BY DEF NoRoot
<1>9. k \in DrainRecord /\ k.pc = "top"
  BY RootIdFacts DEF DrainRecord
<1> HIDE DEF x, k
<1>10. Cascade(x)
  BY <1>7, <1>8 DEF Cascade, ExecutingPhases, None
<1>11. /\ Append(queue[r], n) \in Seq(RootIds) /\ Len(queue[r]) \in Nat
       /\ Len(Append(queue[r], n)) = Len(queue[r]) + 1
       /\ \A i \in 1 .. Len(queue[r]) : Append(queue[r], n)[i] = queue[r][i]
       /\ Append(queue[r], n)[Len(queue[r]) + 1] = n
  BY <1>2, <1>3, AppendProperties, LenProperties
<1>12. /\ root' \in [RootIds -> Root] /\ root'[n] = x
       /\ \A m \in RootIds \ {n} : root'[m] = root[m]
  BY <1>2, <1>3, <1>7 DEF QueuedInv, TypeInv
<1>13. /\ drains' \in [RootIds -> DrainRecord]
       /\ \A d \in RootIds \ {n} : drains'[d] = drains[d]
       /\ drains'[n].pc = IF running[r] THEN None ELSE "top"
  BY <1>2, <1>3, <1>4, <1>9 DEF QueuedInv, TypeInv
<1>14. /\ queue' \in [Runtimes -> Seq(RootIds)] /\ queue'[r] = Append(queue[r], n)
       /\ \A q \in Runtimes \ {r} : queue'[q] = queue[q]
       /\ running' \in [Runtimes -> BOOLEAN] /\ running'[r]
       /\ \A q \in Runtimes \ {r} : running'[q] = running[q]
       /\ rootCount' \in [Runtimes -> Int] /\ rootCount'[r] = rootCount[r] + 1
       /\ \A q \in Runtimes \ {r} : rootCount'[q] = rootCount[q]
  BY <1>2, <1>11 DEF QueuedInv, TypeInv
<1>15. /\ calls' \in [Callers -> CallRecord]
       /\ \A b \in Callers : calls'[b].pc # "idle" => calls'[b].root \in 1 .. admitted'
  <2> DEFINE y == [calls[c] EXCEPT !.pc = "waiting", !.root = n]
  <2>1. calls[c] \in CallRecord /\ calls' = [calls EXCEPT ![c] = y] /\ n \in 0 .. MaxFires
    <3>1. calls[c] \in CallRecord /\ n \in 0 .. MaxFires
      BY <1>3, RootIdFacts DEF QueuedInv, TypeInv
    <3>2. calls' = [calls EXCEPT ![c] = y]
      BY <1>2
    <3> QED
      BY <3>1, <3>2
  <2>2. y \in CallRecord /\ y.root = n
    BY <2>1 DEF CallRecord
  <2> HIDE DEF y
  <2>3. calls' \in [Callers -> CallRecord] /\ calls'[c].root = n
        /\ \A b \in Callers \ {c} : calls'[b] = calls[b]
    BY <2>1, <2>2 DEF QueuedInv, TypeInv
  <2>4. n \in 1 .. n /\ \A i \in 1 .. admitted : i \in 1 .. n
    BY <1>0, <1>2, <1>3, RootIdFacts
  <2> QED
    BY <1>2, <2>3, <2>4 DEF QueuedInv, AdmissionInv
<1>16. /\ \A m \in RootIds : m # n => root'[m].phase = root[m].phase /\ root'[m].rt = root[m].rt
       /\ \A m \in RootIds : Executing(m)' <=> Executing(m)
       /\ root'[n].phase = "queued" /\ root'[n].rt = r
  <2>1. root'[n].phase = "queued" /\ root'[n].rt = r
    BY <1>3, <1>7, <1>12
  <2>2. \A m \in RootIds : m # n => root'[m].phase = root[m].phase /\ root'[m].rt = root[m].rt
    BY <1>12
  <2>3. ~Executing(n)' /\ ~Executing(n)
    BY <1>4, <2>1 DEF Executing, None
  <2>4. \A m \in RootIds : m # n => (Executing(m)' <=> Executing(m))
    BY <2>2 DEF Executing
  <2> QED
    BY <2>1, <2>2, <2>3, <2>4
<1>17. \A d, m \in RootIds : Holds(d, m) \/ Answers(d, m) => d # n /\ m # n
  BY <1>4 DEF QueuedInv, ServiceInv, Holds, Answers, Executing, None
<1>18. /\ \A d, m \in RootIds : Holds(d, m)' <=> Holds(d, m)
       /\ \A d, m \in RootIds : Answers(d, m)' <=> Answers(d, m)
  <2>1. \A m \in RootIds : ~Holds(n, m)' /\ ~Answers(n, m)'
    BY <1>13 DEF Holds, Answers, None
  <2>2. \A d, m \in RootIds : d # n => (Holds(d, m)' <=> Holds(d, m))
    BY <1>13 DEF Holds
  <2>3. \A d, m \in RootIds : d # n => (Answers(d, m)' <=> Answers(d, m))
    BY <1>13 DEF Answers
  <2> QED
    BY <1>17, <2>1, <2>2, <2>3
<1>19. /\ \A d \in RootIds, q \in Runtimes : d # n => (Draining(d, q)' <=> Draining(d, q))
       /\ \A q \in Runtimes : ~Draining(n, q) /\ (Draining(n, q)' <=> (q = r /\ ~running[r]))
  BY <1>4, <1>13, <1>16 DEF Draining, None
<1>20. TypeInv'
  <2>1. admitted' \in 0 .. MaxFires
    BY <1>2, <1>3
  <2> QED
    BY <1>2, <1>12, <1>13, <1>14, <1>15, <2>1 DEF QueuedInv, TypeInv
<1>21. CascadeInv'
  BY <1>10, <1>12 DEF QueuedInv, CascadeInv, Cascade
<1>22. FlightInv'
  BY <1>2, <1>4, <1>16 DEF QueuedInv, FlightInv, None
<1>23. AdmissionInv'
  <2>1. \A m \in RootIds : m > n => m > admitted /\ m # n
    BY <1>0, <1>2, RootIdFacts
  <2>2. \A m \in RootIds : ~(m > n) /\ m # n => ~(m > admitted)
    BY <1>0, <1>2, RootIdFacts
  <2>3. \A m \in RootIds : IF m > admitted'
                           THEN root'[m].phase = None /\ drains'[m].pc = None
                           ELSE root'[m].rt \in Runtimes
    BY <1>2, <1>12, <1>13, <1>16, <2>1, <2>2 DEF QueuedInv, AdmissionInv
  <2> QED
    BY <1>15, <2>3 DEF AdmissionInv
<1>24. QueueInv'
  <2>1. \A q \in Runtimes : \A i \in 1 .. Len(queue[q]) :
          queue[q][i] \in RootIds /\ queue[q][i] # n /\ queue[q][i] < n
    <3> SUFFICES ASSUME NEW q \in Runtimes, NEW i \in 1 .. Len(queue[q])
                 PROVE  queue[q][i] \in RootIds /\ queue[q][i] # n /\ queue[q][i] < n
      OBVIOUS
    <3>1. queue[q][i] \in RootIds /\ root[queue[q][i]].phase = "queued"
      BY DEF QueuedInv, TypeInv, QueueInv
    <3>2. ~(queue[q][i] > admitted)
      BY <3>1 DEF QueuedInv, AdmissionInv, None
    <3> QED
      BY <1>0, <1>2, <3>1, <3>2, RootIdFacts
  <2>2. ASSUME NEW q \in Runtimes, NEW i \in 1 .. Len(queue'[q])
        PROVE  \/ i \in 1 .. Len(queue[q]) /\ queue'[q][i] = queue[q][i]
               \/ q = r /\ i = Len(queue[r]) + 1 /\ queue'[q][i] = n
    <3>1. CASE q = r
      <4>1. i \in 1 .. Len(queue[r]) + 1 /\ queue'[q][i] = Append(queue[r], n)[i]
        BY <1>11, <1>14, <2>2, <3>1
      <4>2. CASE i \in 1 .. Len(queue[r])
        BY <1>11, <3>1, <4>1, <4>2
      <4>3. CASE i = Len(queue[r]) + 1
        BY <1>11, <3>1, <4>1, <4>3
      <4> QED
        BY <1>11, <4>1, <4>2, <4>3
    <3>2. CASE q # r
      BY <1>14, <2>2, <3>2
    <3> QED
      BY <3>1, <3>2
  <2>3. ASSUME NEW q \in Runtimes, NEW i \in 1 .. Len(queue'[q])
        PROVE  root'[queue'[q][i]].phase = "queued" /\ root'[queue'[q][i]].rt = q
    <3>1. CASE i \in 1 .. Len(queue[q]) /\ queue'[q][i] = queue[q][i]
      BY <1>16, <2>1, <3>1 DEF QueuedInv, QueueInv
    <3>2. CASE q = r /\ queue'[q][i] = n
      BY <1>16, <3>2
    <3> QED
      BY <2>2, <2>3, <3>1, <3>2
  <2>4. ASSUME NEW q \in Runtimes, NEW i \in 1 .. Len(queue'[q]), NEW j \in 1 .. Len(queue'[q]), i < j
        PROVE  queue'[q][i] < queue'[q][j]
    <3>1. CASE j \in 1 .. Len(queue[q]) /\ queue'[q][j] = queue[q][j]
      <4>1. i \in 1 .. Len(queue[q])
        BY <2>4, <3>1
      <4>2. queue'[q][i] = queue[q][i]
        <5>0. queue'[r] = Append(queue[r], n)
          BY <1>14
        <5>1. CASE q = r
          BY <1>11, <4>1, <5>0, <5>1
        <5>2. CASE q # r
          BY <1>14, <5>2
        <5> QED
          BY <5>1, <5>2
      <4>3. queue[q][i] < queue[q][j]
        BY <2>4, <3>1, <4>1 DEF QueuedInv, QueueInv
      <4> QED
        BY <3>1, <4>2, <4>3
    <3>2. CASE q = r /\ j = Len(queue[r]) + 1 /\ queue'[q][j] = n
      <4>1. i \in 1 .. Len(queue[r]) /\ queue'[q][i] = queue[r][i]
        <5>1. i \in 1 .. Len(queue[r])
          BY <1>11, <2>4, <3>2
        <5>2. queue'[r] = Append(queue[r], n)
          BY <1>14
        <5> QED
          BY <1>11, <3>2, <5>1, <5>2
      <4>2. queue[r][i] < n
        BY <2>1, <4>1
      <4> QED
        BY <3>2, <4>1, <4>2
    <3> QED
      BY <2>2, <2>4, <3>1, <3>2
  <2>5. ASSUME NEW m \in RootIds, root'[m].phase = "queued"
        PROVE  \E i \in 1 .. Len(queue'[root'[m].rt]) : queue'[root'[m].rt][i] = m
    <3>1. CASE m = n
      <4>1. Len(queue[r]) + 1 \in 1 .. Len(queue'[r]) /\ queue'[r][Len(queue[r]) + 1] = m
        BY <1>11, <1>14, <3>1
      <4> QED
        BY <1>16, <3>1, <4>1
    <3>2. CASE m # n
      <4>1. root[m].phase = "queued" /\ root'[m].rt = root[m].rt
        BY <1>16, <2>5, <3>2
      <4>2. PICK i \in 1 .. Len(queue[root[m].rt]) : queue[root[m].rt][i] = m
        BY <4>1 DEF QueuedInv, QueueInv
      <4>3. root[m].rt \in Runtimes
        BY <4>1 DEF QueuedInv, AdmissionInv, None
      <4>4. i \in 1 .. Len(queue'[root[m].rt]) /\ queue'[root[m].rt][i] = m
        <5>1. CASE root[m].rt = r
          <6>1. i \in 1 .. Len(queue[r]) /\ queue[r][i] = m
            BY <4>2, <5>1
          <6>2. i \in 1 .. Len(queue'[r]) /\ queue'[r][i] = m
            BY <1>11, <1>14, <6>1
          <6> QED
            BY <5>1, <6>2
        <5>2. CASE root[m].rt # r
          BY <1>14, <4>2, <4>3, <5>2
        <5> QED
          BY <5>1, <5>2
      <4> QED
        BY <4>1, <4>4
    <3> QED
      BY <3>1, <3>2
  <2> QED
    BY <2>3, <2>4, <2>5 DEF QueueInv
<1>25. ServiceInv'
  <2>1. \A d \in RootIds : drains'[d].pc \in {"executing", "answering"} => drains'[d].req # 0
    BY <1>13 DEF QueuedInv, ServiceInv, None
  <2>2. \A d, m \in RootIds : Holds(d, m)' =>
          root'[m].rt = root'[d].rt /\ (Executing(m)' \/ root'[m].phase = "finished")
    BY <1>16, <1>17, <1>18 DEF QueuedInv, ServiceInv
  <2>3. \A d, m \in RootIds : Answers(d, m)' =>
           root'[m].rt = root'[d].rt /\ root'[m].phase = "finished"
    BY <1>16, <1>17, <1>18 DEF QueuedInv, ServiceInv
  <2>4. \A m \in RootIds : Executing(m)' => \E d \in RootIds : Holds(d, m)'
    BY <1>16, <1>18 DEF QueuedInv, ServiceInv
  <2>5. \A m \in RootIds : root'[m].phase = "finished" =>
          \E d \in RootIds : Holds(d, m)' \/ Answers(d, m)'
    BY <1>16, <1>18 DEF QueuedInv, ServiceInv
  <2> QED
    BY <2>1, <2>2, <2>3, <2>4, <2>5 DEF ServiceInv
<1>26. DrainInv'
  <2>1. \A d \in RootIds, q \in Runtimes : Draining(d, q)' => running'[q]
    BY ZenonT(90), <1>14, <1>19 DEF QueuedInv, DrainInv
  <2>2. \A q \in Runtimes : running'[q] => \E d \in RootIds : Draining(d, q)'
    <3> SUFFICES ASSUME NEW q \in Runtimes, running'[q] PROVE \E d \in RootIds : Draining(d, q)'
      OBVIOUS
    <3>1. CASE running[q]
      BY <1>19, <3>1 DEF QueuedInv, DrainInv
    <3>2. CASE ~running[q]
      BY <1>3, <1>14, <1>19, <3>2
    <3> QED
      BY <3>1, <3>2
  <2>3. \A d, b \in RootIds, q \in Runtimes : Draining(d, q)' /\ Draining(b, q)' => d = b
    BY <1>19 DEF QueuedInv, DrainInv
  <2>4. \A q \in Runtimes : queue'[q] # << >> => running'[q]
    BY <1>14 DEF QueuedInv, DrainInv
  <2> QED
    BY <2>1, <2>2, <2>3, <2>4 DEF DrainInv
<1>27. CountInv'
  <2>1. /\ Counted(r)' = Counted(r) \cup {n} /\ n \notin Counted(r)
        /\ \A q \in Runtimes \ {r} : Counted(q)' = Counted(q)
    BY ZenonT(90), <1>3, <1>4, <1>16, <1>17, <1>18 DEF Counted, None
  <2>2. Cardinality(Counted(r)') = Cardinality(Counted(r)) + 1
        /\ Cardinality(Counted(r)) \in Nat
    BY ZenonT(90), <1>3, <2>1, RootCountFacts DEF Counted
  <2>3. rootCount[r] < MaxRoots /\ rootCount[r] = Cardinality(Counted(r)) /\ MaxRoots \in Nat
    BY <1>2, <2>2, LimitsAssumption DEF QueuedInv, CountInv, AtRootLimit
  <2>4. rootCount'[r] <= MaxRoots /\ rootCount'[r] = Cardinality(Counted(r)')
    BY <1>14, <2>2, <2>3
  <2> QED
    BY ZenonT(90), <1>14, <2>1, <2>4 DEF QueuedInv, CountInv
<1>28. FirstInFirstOut'
  <2>1. \A p \in RootIds : n < p => root[p].phase = None /\ p # n
    BY <1>0, <1>2, RootIdFacts DEF QueuedInv, AdmissionInv
  <2> QED
    BY <1>16, <2>1 DEF QueuedInv, FirstInFirstOut
<1> QED
  BY <1>20, <1>21, <1>22, <1>23, <1>24, <1>25, <1>26, <1>27, <1>28 DEF QueuedInv

\* A cancelled root leaves the queue before the drain has taken it.
LEMMA RemoveKeeps ==
    ASSUME QueuedInv, NEW c \in Callers, RemoveRoot(c)
    PROVE  QueuedInv'
<1>0. PICK n : n = calls[c].root
  OBVIOUS
<1>1. PICK r : r = root[n].rt
  OBVIOUS
<1>2. n \in RootIds /\ n <= admitted /\ r \in Runtimes
  <2>1. n \in 1 .. admitted /\ admitted \in 0 .. MaxFires
    BY <1>0 DEF RemoveRoot, QueuedInv, TypeInv, AdmissionInv
  <2>2. n \in RootIds /\ ~(n > admitted)
    BY SMTT(60), <2>1, RootIdFacts DEF RootIds
  <2> QED
    BY <1>1, <2>1, <2>2, RootIdFacts DEF QueuedInv, AdmissionInv
<1> DEFINE x == [root[n] EXCEPT !.phase = "removed"]
<1>3. PICK i \in 1 .. Len(queue[r]) :
        queue[r][i] = n /\ queue' = [queue EXCEPT ![r] = RemoveAt(@, i)]
  <2>1. queue[r] \in Seq(RootIds)
    BY <1>2 DEF QueuedInv, TypeInv
  <2>2. DOMAIN queue[r] = 1 .. Len(queue[r])
    BY <2>1, LenProperties
  <2> QED
    BY <1>0, <1>1, <2>2 DEF RemoveRoot
<1>4. /\ root' = [root EXCEPT ![n] = x] /\ root[n] \in Root /\ Cascade(root[n])
      /\ rootCount' = [rootCount EXCEPT ![r] = @ - 1] /\ calls' = Returned(c)
      /\ state' = state /\ inFlight' = inFlight /\ running' = running
      /\ drains' = drains /\ admitted' = admitted
      /\ queue[r] \in Seq(RootIds) /\ "removed" \in Phases
  BY <1>0, <1>1, <1>2 DEF RemoveRoot, machine, QueuedInv, TypeInv, CascadeInv, Phases
<1>5. root[n].phase = "queued" /\ root[n].rt = r
  BY <1>2, <1>3 DEF QueuedInv, QueueInv
<1>6. /\ x \in Root /\ x.rt = root[n].rt /\ x.phase = "removed"
      /\ x.active = root[n].active /\ x.err = root[n].err
  BY <1>4 DEF Root
<1> HIDE DEF x
<1>7. Cascade(x)
  BY <1>4, <1>5, <1>6 DEF Cascade, ExecutingPhases
<1>8. /\ RemoveAt(queue[r], i) \in Seq(RootIds) /\ Len(queue[r]) \in Nat
      /\ Len(RemoveAt(queue[r], i)) = Len(queue[r]) - 1
      /\ \A j \in 1 .. Len(queue[r]) - 1 :
            RemoveAt(queue[r], i)[j] = IF j < i THEN queue[r][j] ELSE queue[r][j + 1]
  BY <1>3, <1>4, RemoveAtFacts, LenProperties
<1>9. /\ root' \in [RootIds -> Root] /\ root'[n] = x
      /\ \A m \in RootIds \ {n} : root'[m] = root[m]
      /\ queue' \in [Runtimes -> Seq(RootIds)] /\ queue'[r] = RemoveAt(queue[r], i)
      /\ \A q \in Runtimes \ {r} : queue'[q] = queue[q]
      /\ rootCount' \in [Runtimes -> Int] /\ rootCount'[r] = rootCount[r] - 1
      /\ \A q \in Runtimes \ {r} : rootCount'[q] = rootCount[q]
  BY <1>2, <1>3, <1>4, <1>6, <1>8 DEF QueuedInv, TypeInv
<1>10. /\ calls' \in [Callers -> CallRecord]
       /\ \A d \in Callers : calls'[d].pc # "idle" => calls'[d].root \in 1 .. admitted'
  BY <1>4, ReturnKeeps DEF QueuedInv
<1>11. /\ \A m \in RootIds : root'[m].rt = root[m].rt
       /\ \A m \in RootIds : m # n => root'[m].phase = root[m].phase
       /\ \A m \in RootIds : Executing(m)' <=> Executing(m)
       /\ root'[n].phase = "removed" /\ ~Executing(n)
  <2>1. root'[n].phase = "removed" /\ \A m \in RootIds : root'[m].rt = root[m].rt
    BY <1>2, <1>6, <1>9
  <2>2. \A m \in RootIds : m # n => root'[m].phase = root[m].phase
    BY <1>9
  <2>3. ~Executing(n)' /\ ~Executing(n)
    BY <1>5, <2>1 DEF Executing
  <2>4. \A m \in RootIds : m # n => (Executing(m)' <=> Executing(m))
    BY <2>2 DEF Executing
  <2> QED
    BY <2>1, <2>2, <2>3, <2>4
<1>12. /\ \A d, m \in RootIds : Holds(d, m)' <=> Holds(d, m)
       /\ \A d, m \in RootIds : Answers(d, m)' <=> Answers(d, m)
       /\ \A d \in RootIds, q \in Runtimes : Draining(d, q)' <=> Draining(d, q)
       /\ \A d, m \in RootIds : Holds(d, m) \/ Answers(d, m) => m # n
  <2>1. \A d, m \in RootIds : Holds(d, m) \/ Answers(d, m) => m # n
    BY <1>5, <1>11 DEF QueuedInv, ServiceInv
  <2>2. \A d \in RootIds, q \in Runtimes : Draining(d, q)' <=> Draining(d, q)
    BY <1>4, <1>11 DEF Draining
  <2>3. \A d, m \in RootIds : (Holds(d, m)' <=> Holds(d, m)) /\ (Answers(d, m)' <=> Answers(d, m))
    BY <1>4 DEF Holds, Answers
  <2> QED
    BY <2>1, <2>2, <2>3
<1>13. TypeInv'
  BY <1>4, <1>9, <1>10 DEF QueuedInv, TypeInv
<1>14. CascadeInv'
  BY SMTT(60), <1>7, <1>9 DEF QueuedInv, CascadeInv, Cascade
<1>15. FlightInv'
  BY <1>4, <1>5, <1>11 DEF QueuedInv, FlightInv
<1>16. AdmissionInv'
  <2>1. \A m \in RootIds : m > admitted => m # n
    BY <1>2, RootIdFacts DEF QueuedInv, TypeInv
  <2>2. \A m \in RootIds : IF m > admitted'
                           THEN root'[m].phase = None /\ drains'[m].pc = None
                           ELSE root'[m].rt \in Runtimes
    BY <1>4, <1>9, <1>11, <2>1 DEF QueuedInv, AdmissionInv
  <2> QED
    BY <1>10, <2>2 DEF AdmissionInv
<1>17. QueueInv'
  <2>1. \A q \in Runtimes : \A j \in 1 .. Len(queue[q]) : queue[q][j] \in RootIds
    BY DEF QueuedInv, TypeInv
  <2> DEFINE at(j) == IF j < i THEN j ELSE j + 1
  <2>2. ASSUME NEW j \in 1 .. Len(queue'[r])
        PROVE  /\ at(j) \in 1 .. Len(queue[r]) /\ at(j) # i
               /\ queue'[r][j] = queue[r][at(j)] /\ queue[r][at(j)] # n
    <3>1. at(j) \in 1 .. Len(queue[r]) /\ at(j) # i /\ queue'[r][j] = queue[r][at(j)]
      <4>1. j \in 1 .. Len(queue[r]) - 1
        BY <1>8, <1>9, <2>2
      <4>2. CASE j < i
        BY <1>3, <1>8, <1>9, <4>1, <4>2
      <4>3. CASE ~(j < i)
        BY <1>3, <1>8, <1>9, <4>1, <4>3
      <4> QED
        BY <4>2, <4>3
    <3> HIDE DEF at
    <3>2. CASE at(j) < i
      <4>1. queue[r][at(j)] < queue[r][i]
        BY <1>2, <1>3, <3>1, <3>2 DEF QueuedInv, QueueInv
      <4> QED
        BY <1>2, <1>3, <2>1, <3>1, <4>1, RootIdFacts
    <3>3. CASE i < at(j)
      <4>1. queue[r][i] < queue[r][at(j)]
        BY <1>2, <1>3, <3>1, <3>3 DEF QueuedInv, QueueInv
      <4> QED
        BY <1>2, <1>3, <2>1, <3>1, <4>1, RootIdFacts
    <3>4. at(j) < i \/ i < at(j)
      BY <1>3, <1>8, <3>1
    <3> QED
      BY <3>1, <3>2, <3>3, <3>4
  <2>3. ASSUME NEW j \in 1 .. Len(queue'[r]), NEW k \in 1 .. Len(queue'[r]), j < k
        PROVE  at(j) < at(k)
    BY <1>3, <1>8, <1>9, <2>3
  <2>4. ASSUME NEW j \in 1 .. Len(queue[r]), j # i
        PROVE  \E k \in 1 .. Len(queue'[r]) : at(k) = j
    <3>1. CASE j < i
      <4>1. j \in 1 .. Len(queue'[r]) /\ at(j) = j
        BY <1>3, <1>8, <1>9, <2>4, <3>1
      <4> QED
        BY <4>1
    <3>2. CASE ~(j < i)
      <4>1. j - 1 \in 1 .. Len(queue'[r]) /\ at(j - 1) = j
        BY <1>3, <1>8, <1>9, <2>4, <3>2
      <4> QED
        BY <4>1
    <3> QED
      BY <3>1, <3>2
  <2> HIDE DEF at
  <2>5. ASSUME NEW q \in Runtimes, NEW j \in 1 .. Len(queue'[q])
        PROVE  root'[queue'[q][j]].phase = "queued" /\ root'[queue'[q][j]].rt = q
    <3>1. CASE q = r
      <4> DEFINE m == queue[r][at(j)]
      <4>1. at(j) \in 1 .. Len(queue[r]) /\ queue'[q][j] = m /\ m # n
        BY <2>2, <2>5, <3>1
      <4>2. m \in RootIds /\ root[m].phase = "queued" /\ root[m].rt = r
        BY <1>2, <2>1, <4>1 DEF QueuedInv, QueueInv
      <4> QED
        BY <1>11, <3>1, <4>1, <4>2
    <3>2. CASE q # r
      <4>1. /\ queue'[q][j] = queue[q][j] /\ j \in 1 .. Len(queue[q])
            /\ root[queue[q][j]].phase = "queued" /\ root[queue[q][j]].rt = q
        BY <1>9, <2>5, <3>2 DEF QueuedInv, QueueInv
      <4> QED
        BY <1>5, <1>11, <2>1, <3>2, <4>1
    <3> QED
      BY <3>1, <3>2
  <2>6. ASSUME NEW q \in Runtimes, NEW j \in 1 .. Len(queue'[q]), NEW k \in 1 .. Len(queue'[q]), j < k
        PROVE  queue'[q][j] < queue'[q][k]
    <3>1. CASE q = r
      <4>1. at(j) < at(k)
        BY <2>3, <2>6, <3>1
      <4> QED
        BY SMTT(60), <1>2, <2>2, <3>1, <4>1 DEF QueuedInv, QueueInv
    <3>2. CASE q # r
      BY <1>9, <2>6, <3>2 DEF QueuedInv, QueueInv
    <3> QED
      BY <3>1, <3>2
  <2>7. ASSUME NEW m \in RootIds, root'[m].phase = "queued"
        PROVE  \E j \in 1 .. Len(queue'[root'[m].rt]) : queue'[root'[m].rt][j] = m
    <3>1. m # n /\ root[m].phase = "queued" /\ root'[m].rt = root[m].rt
      BY <1>11, <2>7
    <3>2. PICK j \in 1 .. Len(queue[root[m].rt]) : queue[root[m].rt][j] = m
      BY <3>1 DEF QueuedInv, QueueInv
    <3>3. root[m].rt \in Runtimes
      BY <3>1 DEF QueuedInv, AdmissionInv, None
    <3>4. CASE root[m].rt = r
      <4>1. j # i
        BY <1>3, <3>1, <3>2, <3>4
      <4>2. PICK k \in 1 .. Len(queue'[r]) : at(k) = j
        BY <2>4, <3>2, <3>4, <4>1
      <4>3. queue'[r][k] = m
        BY <2>2, <3>2, <3>4, <4>2
      <4> QED
        BY <3>1, <3>4, <4>2, <4>3
    <3>5. CASE root[m].rt # r
      BY <1>9, <3>1, <3>2, <3>3, <3>5
    <3> QED
      BY <3>4, <3>5
  <2> QED
    BY <2>5, <2>6, <2>7 DEF QueueInv
<1>18. ServiceInv'
  <2>1. \A d \in RootIds : drains'[d].pc \in {"executing", "answering"} => drains'[d].req # 0
    BY <1>4 DEF QueuedInv, ServiceInv
  <2>2. \A d, m \in RootIds : Holds(d, m)' =>
          root'[m].rt = root'[d].rt /\ (Executing(m)' \/ root'[m].phase = "finished")
    BY <1>11, <1>12 DEF QueuedInv, ServiceInv
  <2>3. \A d, m \in RootIds : Answers(d, m)' =>
           root'[m].rt = root'[d].rt /\ root'[m].phase = "finished"
    BY <1>11, <1>12 DEF QueuedInv, ServiceInv
  <2>4. \A m \in RootIds : Executing(m)' => \E d \in RootIds : Holds(d, m)'
    BY <1>11, <1>12 DEF QueuedInv, ServiceInv
  <2>5. \A m \in RootIds : root'[m].phase = "finished" =>
          \E d \in RootIds : Holds(d, m)' \/ Answers(d, m)'
    BY <1>11, <1>12 DEF QueuedInv, ServiceInv
  <2> QED
    BY <2>1, <2>2, <2>3, <2>4, <2>5 DEF ServiceInv
<1>19. DrainInv'
  <2>1. \A q \in Runtimes : queue'[q] # << >> => running'[q]
    <3>1. queue[r] # << >>
      BY <1>3, <1>4
    <3> QED
      BY <1>4, <1>9, <3>1 DEF QueuedInv, DrainInv
  <2> QED
    BY <1>4, <1>12, <2>1 DEF QueuedInv, DrainInv
<1>20. CountInv'
  <2>1. /\ Counted(r)' = Counted(r) \ {n} /\ n \in Counted(r)
        /\ \A q \in Runtimes \ {r} : Counted(q)' = Counted(q)
    BY <1>2, <1>5, <1>11, <1>12 DEF Counted
  <2>2. Cardinality(Counted(r)') = Cardinality(Counted(r)) - 1
        /\ Cardinality(Counted(r)) \in Nat
    BY ZenonT(90), <1>2, <2>1, RootCountFacts DEF Counted
  <2>3. rootCount[r] <= MaxRoots /\ rootCount[r] = Cardinality(Counted(r)) /\ MaxRoots \in Nat
    BY <1>2, LimitsAssumption DEF QueuedInv, CountInv
  <2>4. rootCount'[r] <= MaxRoots /\ rootCount'[r] = Cardinality(Counted(r)')
    BY <1>9, <2>2, <2>3
  <2> QED
    BY <1>9, <2>1, <2>4 DEF QueuedInv, CountInv
<1>21. FirstInFirstOut'
  BY <1>11 DEF QueuedInv, FirstInFirstOut
<1> QED
  BY <1>13, <1>14, <1>15, <1>16, <1>17, <1>18, <1>19, <1>20, <1>21 DEF QueuedInv

-----------------------------------------------------------------------------
(* The theorems. *)

\* A Runtime is built with an empty queue and no drain.
LEMMA InitKeeps == Init => QueuedInv
<1> SUFFICES ASSUME Init PROVE QueuedInv
  OBVIOUS
<1>1. NoRoot \in Root /\ NoDrain \in DrainRecord /\ IdleCaller \in CallRecord
  <2>1. << >> \in Seq(Events) /\ None \in Errors /\ None \in Phases /\ FALSE \in BOOLEAN /\ 0 \in Nat
        /\ 0 \in 0 .. MaxFires
    BY RootIdFacts DEF Errors, Phases
  <2>2. NoRoot \in Root
    BY <2>1 DEF NoRoot, Root
  <2>3. NoDrain \in DrainRecord /\ IdleCaller \in CallRecord
    BY <2>1 DEF NoDrain, DrainRecord, IdleCaller, CallRecord
  <2> QED
    BY <2>2, <2>3
<1>2. \A n \in RootIds : root[n] = NoRoot /\ root[n].phase = None /\ drains[n].pc = None
  BY DEF Init, NoRoot, NoDrain
<1>3. \A n \in RootIds : ~Executing(n) /\ root[n].phase \notin {"queued", "finished", "callback"}
  BY <1>2 DEF Executing, None
<1>4. \A d, n \in RootIds : ~Holds(d, n) /\ ~Answers(d, n)
  BY <1>2 DEF Holds, Answers, None
<1>5. \A d \in RootIds, r \in Runtimes : ~Draining(d, r)
  BY <1>2 DEF Draining
<1>6. TypeInv
  <2>1. << >> \in Seq(RootIds)
    OBVIOUS
  <2> QED
    BY <1>1, <2>1, LimitsAssumption DEF Init, TypeInv
<1>7. AdmissionInv
  <2>1. \A n \in RootIds : n > admitted
    BY RootIdFacts DEF Init
  <2> QED
    BY <1>2, <2>1 DEF Init, AdmissionInv, IdleCaller
<1>8. QueueInv
  <2>1. \A r \in Runtimes : 1 .. Len(queue[r]) = {}
    BY DEF Init
  <2> QED
    BY <1>3, <2>1 DEF QueueInv
<1>9. ServiceInv
  BY <1>2, <1>3, <1>4 DEF ServiceInv, None
<1>10. DrainInv
  BY <1>5 DEF Init, DrainInv
<1>11. CountInv
  <2>1. \A r \in Runtimes : Counted(r) = {}
    BY <1>3, <1>4 DEF Counted
  <2>2. Cardinality({}) = 0
    BY FS_EmptySet
  <2> QED
    <3>1. 0 <= MaxRoots /\ \A r \in Runtimes : rootCount[r] = 0
      BY LimitsAssumption DEF Init
    <3> QED
      BY <2>1, <2>2, <3>1 DEF CountInv
<1>12. FlightInv
  BY DEF Init, FlightInv
<1>13. CascadeInv
  BY <1>2 DEF CascadeInv, Cascade, NoRoot, ExecutingPhases, None
<1>14. FirstInFirstOut
  BY <1>3 DEF FirstInFirstOut
<1> QED
  BY <1>6, <1>7, <1>8, <1>9, <1>10, <1>11, <1>12, <1>13, <1>14 DEF QueuedInv

\* Every step of a caller, of a drain, of a cascade or of the application keeps it.
LEMMA NextStepKeeps == QueuedInv /\ [Next]_vars => QueuedInv'
<1> SUFFICES ASSUME QueuedInv, [Next]_vars PROVE QueuedInv'
  OBVIOUS
<1>1. CASE UNCHANGED vars
  <2>1. /\ UNCHANGED << machine, runtime, root, admitted >> /\ calls' = calls
    BY <1>1 DEF vars
  <2>2. /\ calls' \in [Callers -> CallRecord]
        /\ \A c \in Callers : calls'[c].pc # "idle" => calls'[c].root \in 1 .. admitted
    BY <2>1 DEF QueuedInv, TypeInv, AdmissionInv
  <2> QED
    BY <2>1, <2>2, CallStepKeeps
<1>2. CASE Calls
  BY <1>2, RefusalKeeps, ReceiveKeeps, RemoveKeeps, HoldKeeps, FireKeeps, EnqueueKeeps DEF Calls
<1>3. ASSUME NEW n \in RootIds, Drain(n) PROVE QueuedInv'
  BY <1>3, TakeKeeps, ExitKeeps, SettleKeeps, AnswerKeeps DEF Drain
<1>4. ASSUME NEW n \in RootIds, Run(n) \/ CallbackReturns(n) PROVE QueuedInv'
  BY <1>4, SkipKeeps, BeginKeeps, NextKeeps, CommitKeeps, FailKeeps, DeliverKeeps
     DEF Run, CallbackReturns
<1>5. ASSUME NEW n \in RootIds,
             Cancel(n) \/ \E c \in Callers, joined \in BOOLEAN : HandOver(c, n, joined)
      PROVE  QueuedInv'
  BY <1>5, CancelKeeps, HandOverKeeps
<1> QED
  BY <1>1, <1>2, <1>3, <1>4, <1>5 DEF Next

\* Whatever the callers, the drains, the callbacks and the cancellations do, in any
\* order, a Runtime has one drain while it is running and none otherwise, and its
\* queue, its count and its cascades agree with what that drain has done.
THEOREM QueuedInductive == Spec => []QueuedInv
<1>1. Init => QueuedInv
  BY InitKeeps
<1>2. QueuedInv /\ [Next]_vars => QueuedInv'
  BY NextStepKeeps
<1> QED
  BY <1>1, <1>2, PTL DEF Spec

\* Runtime.drain never executes two roots of a Runtime at a time, and Instance.Fire
\* never refuses one because another is in flight.
THEOREM RootsSerialized == Spec => []Serialized
<1>1. QueuedInv => Serialized
  BY OneDrainOneRoot DEF QueuedInv, Serialized, CascadeInv, Cascade
<1> QED
  BY <1>1, QueuedInductive, PTL

\* Runtime.drain takes the roots of a Runtime in the order Fire admitted them,
\* although removeRootLocked takes roots out of the middle of the queue.
THEOREM AdmissionOrder == Spec => []FirstInFirstOut
<1>1. QueuedInv => FirstInFirstOut
  BY DEF QueuedInv
<1> QED
  BY <1>1, QueuedInductive, PTL

\* Runtime.rootCount is the number of roots that wait or are executed, and never
\* passes MaxRoots.
THEOREM RootsCounted == Spec => []OutstandingCounted
<1>1. QueuedInv => OutstandingCounted
  <2> SUFFICES ASSUME QueuedInv PROVE OutstandingCounted
    OBVIOUS
  <2>1. \A d, n \in RootIds : Holds(d, n) <=> drains[d] = [pc |-> "executing", req |-> n]
    <3> SUFFICES ASSUME NEW d \in RootIds, NEW n \in RootIds
                 PROVE  Holds(d, n) <=> drains[d] = [pc |-> "executing", req |-> n]
      OBVIOUS
    <3>1. drains[d] \in DrainRecord
      BY DEF QueuedInv, TypeInv
    <3> QED
      BY <3>1 DEF DrainRecord, Holds
  <2>2. \A n \in RootIds : Unsettled(n) <=> \E d \in RootIds : Holds(d, n)
    BY <2>1 DEF Unsettled, QueuedInv, ServiceInv
  <2>3. \A r \in Runtimes :
          Counted(r) = {n \in RootIds : root[n].rt = r /\ (root[n].phase = "queued" \/ Unsettled(n))}
    BY <2>2 DEF Counted
  <2> QED
    BY <2>3 DEF OutstandingCounted, QueuedInv, CountInv
<1> QED
  BY <1>1, QueuedInductive, PTL

\* cascade.next ends a cascade only when every event that cascade.enqueue accepted
\* has run.
THEOREM FollowUpsRun == Spec => []AcceptedEventsRun
<1>1. QueuedInv => AcceptedEventsRun
  BY DEF QueuedInv, CascadeInv, Cascade, AcceptedEventsRun
<1> QED
  BY <1>1, QueuedInductive, PTL

Settled(n) == root[n].phase \in {"removed", "returned"}

\* A step changes the phase only of a root that its Runtime still works for or that
\* its Fire still waits for.
LEMMA PhaseStep ==
    ASSUME QueuedInv, Next, NEW n \in RootIds, Settled(n)
    PROVE  root'[n].phase = root[n].phase
<1>1. ASSUME NEW c \in Callers,
             \/ RefuseReentrant(c) \/ RefuseCancelled(c) \/ HoldForOutcome(c)
             \/ \E r \in Runtimes : RefuseRootLimit(c, r)
      PROVE  root'[n].phase = root[n].phase
  BY <1>1 DEF RefuseReentrant, RefuseCancelled, HoldForOutcome, RefuseRootLimit
<1>2. ASSUME NEW c \in Callers, ReceiveOutcome(c) PROVE root'[n].phase = root[n].phase
  <2>1. calls[c].root # n
    BY <1>2 DEF ReceiveOutcome, Settled
  <2> QED
    BY <1>2, <2>1 DEF ReceiveOutcome, QueuedInv, TypeInv
<1>3. ASSUME NEW c \in Callers, RemoveRoot(c) PROVE root'[n].phase = root[n].phase
  <2>1. CASE calls[c].root = n
    <3>1. PICK i \in DOMAIN queue[root[n].rt] : queue[root[n].rt][i] = n
      BY <1>3, <2>1 DEF RemoveRoot
    <3>2. root[n].rt \in Runtimes
      BY DEF QueuedInv, AdmissionInv, Settled, None
    <3>3. i \in 1 .. Len(queue[root[n].rt])
      BY <3>1, <3>2, LenProperties DEF QueuedInv, TypeInv
    <3>4. root[n].phase = "queued"
      BY <3>1, <3>2, <3>3 DEF QueuedInv, QueueInv
    <3> QED
      BY <3>4 DEF Settled
  <2>2. CASE calls[c].root # n
    BY <1>3, <2>2 DEF RemoveRoot, QueuedInv, TypeInv
  <2> QED
    BY <2>1, <2>2
<1>4. ASSUME NEW c \in Callers, NEW r \in Runtimes, NEW e \in Events, Fire(c, r, e)
      PROVE  root'[n].phase = root[n].phase
  <2>1. n # admitted + 1
    BY RootIdFacts DEF QueuedInv, AdmissionInv, TypeInv, Settled, None
  <2> QED
    BY <1>4, <2>1 DEF Fire, QueuedInv, TypeInv
<1>5. ASSUME NEW c \in Callers, NEW r \in Runtimes, NEW e \in Events, Enqueue(c, r, e)
      PROVE  root'[n].phase = root[n].phase
  <2>1. CASE root' = root
    BY <2>1
  <2>2. CASE EnqueueError(c, r) = None
    <3>1. root[calls[c].ctx].active /\ calls[c].ctx # 0
      BY <1>5, <2>2 DEF EnqueueError, InExecution, Enqueue, None
    <3>2. calls[c].ctx # n
      BY <3>1 DEF QueuedInv, CascadeInv, Cascade, ExecutingPhases, Settled
    <3> QED
      BY <1>5, <2>2, <3>2 DEF Enqueue, QueuedInv, TypeInv
  <2> QED
    BY <1>5, <2>1, <2>2 DEF Enqueue
<1>6. ASSUME NEW d \in RootIds, NEW r \in Runtimes, TakeRoot(d, r)
      PROVE  root'[n].phase = root[n].phase
  <2>1. Len(queue[r]) \in Nat /\ Len(queue[r]) >= 1 /\ Head(queue[r]) = queue[r][1]
    BY <1>6, HeadTailProperties, EmptySeq, LenProperties DEF TakeRoot, QueuedInv, TypeInv
  <2>2. root[Head(queue[r])].phase = "queued"
    BY <2>1 DEF QueuedInv, QueueInv
  <2>3. Head(queue[r]) # n
    BY <2>2 DEF Settled
  <2> QED
    BY <1>6, <2>3 DEF TakeRoot, QueuedInv, TypeInv
<1>7. ASSUME NEW d \in RootIds, NEW r \in Runtimes, ExitDrain(d, r) \/ SettleRoot(d, r)
      PROVE  root'[n].phase = root[n].phase
  BY <1>7 DEF ExitDrain, SettleRoot
<1>8. ASSUME NEW d \in RootIds, NEW r \in Runtimes, AnswerRoot(d, r)
      PROVE  root'[n].phase = root[n].phase
  <2>1. drains[d].req # n
    BY <1>8 DEF AnswerRoot, QueuedInv, ServiceInv, Answers, Settled
  <2> QED
    BY <1>8, <2>1 DEF AnswerRoot, QueuedInv, TypeInv
<1>9. ASSUME NEW m \in RootIds, Run(m) \/ CallbackReturns(m)
      PROVE  root'[n].phase = root[n].phase
  <2>1. m # n
    BY <1>9 DEF Run, CallbackReturns, SkipCancelled, BeginEvent, NextEvent, CommitEvent,
                FailEvent, StopEvent, DeliverObservations, Settled
  <2>2. \A err : Finished(m, err)[n] = root[n]
    BY <2>1 DEF Finished, QueuedInv, TypeInv
  <2>3. CASE SkipCancelled(m) \/ FailEvent(m) \/ \E panicked \in BOOLEAN : StopEvent(m, panicked)
    BY <2>2, <2>3 DEF SkipCancelled, FailEvent, StopEvent
  <2>4. CASE BeginEvent(m)
    BY <2>1, <2>2, <2>4 DEF BeginEvent, QueuedInv, TypeInv
  <2>5. CASE NextEvent(m)
    BY <2>1, <2>2, <2>5 DEF NextEvent, QueuedInv, TypeInv
  <2>6. ASSUME NEW t \in States, CommitEvent(m, t) PROVE root'[n].phase = root[n].phase
    BY <2>1, <2>6 DEF CommitEvent, QueuedInv, TypeInv
  <2>7. CASE DeliverObservations(m)
    BY <2>1, <2>7 DEF DeliverObservations, QueuedInv, TypeInv
  <2> QED
    BY <1>9, <2>3, <2>4, <2>5, <2>6, <2>7 DEF Run, CallbackReturns
<1>10. ASSUME NEW m \in RootIds, Cancel(m) PROVE root'[n].phase = root[n].phase
  <2>1. root'[n] = root[n] \/ root'[n] = [root[n] EXCEPT !.cancelled = TRUE]
    BY <1>10 DEF Cancel
  <2>2. root[n] \in Root
    BY DEF QueuedInv, TypeInv
  <2> QED
    BY <2>1, <2>2 DEF Root
<1>11. ASSUME NEW m \in RootIds, NEW c \in Callers, NEW joined \in BOOLEAN, HandOver(c, m, joined)
       PROVE  root'[n].phase = root[n].phase
  BY <1>11 DEF HandOver
<1>12. Calls => root'[n].phase = root[n].phase
  BY <1>1, <1>2, <1>3, <1>4, <1>5 DEF Calls
<1>13. \A m \in RootIds : Drain(m) => root'[n].phase = root[n].phase
  BY <1>6, <1>7, <1>8 DEF Drain
<1> QED
  BY <1>9, <1>10, <1>11, <1>12, <1>13 DEF Next

\* A root whose Fire has returned, with its answer or cancelled before its start, is
\* not touched again: neither by the drain nor by contexts that are still about.
THEOREM NothingAfterReturn == Spec => SettledForGood
<1>1. QueuedInv /\ QueuedInv' /\ [Next]_vars =>
        [\A n \in RootIds :
            root[n].phase \in {"removed", "returned"}
            => root'[n].phase = root[n].phase /\ ~root'[n].active]_vars
  <2> SUFFICES ASSUME QueuedInv, QueuedInv', Next, NEW n \in RootIds, Settled(n)
               PROVE  root'[n].phase = root[n].phase /\ ~root'[n].active
    BY DEF Settled
  <2>1. root'[n].phase = root[n].phase
    BY PhaseStep
  <2>2. Cascade(root'[n])
    BY DEF QueuedInv, CascadeInv, Cascade
  <2> QED
    BY <2>1, <2>2 DEF Settled, Cascade, ExecutingPhases
<1> QED
  BY <1>1, QueuedInductive, PTL DEF Spec, SettledForGood

-----------------------------------------------------------------------------
(* No callback waits for a Fire. *)

\* A root in one of these phases has left the queue; in one of the others, it is over.
BegunPhases == Phases \ {None, "queued"}
OverPhases  == BegunPhases \ ExecutingPhases

\* A call that waits for its answer was made with a context whose root is over.
ContextInv ==
    \A c \in Callers : calls[c].ctx # 0 =>
        /\ root[calls[c].ctx].phase \in BegunPhases
        /\ calls[c].pc # "idle" => root[calls[c].ctx].phase \in OverPhases

\* The code that a callback or an observer waits for does not itself wait for the
\* answer of a root, of whichever Runtime: waiting never closes a circle.
CallbackAwaitsNoFire ==
    \A c \in Callers, n \in RootIds :
        /\ calls[c].joined /\ calls[c].ctx = n
        /\ root[n].phase \in {"callback", "observe"}
        => calls[c].pc = "idle"

\* A root that has been taken from the queue does not return there, and one that has
\* been executed is not executed again.
LEMMA LifeStep ==
    ASSUME QueuedInv, Next, NEW n \in RootIds, root[n].phase \in BegunPhases
    PROVE  /\ root'[n].phase \in BegunPhases
           /\ root[n].phase \in OverPhases => root'[n].phase \in OverPhases
<1> USE DEF BegunPhases, OverPhases, ExecutingPhases, Phases, None
<1> DEFINE Goal == /\ root'[n].phase \in BegunPhases
                   /\ root[n].phase \in OverPhases => root'[n].phase \in OverPhases
<1>1. root'[n].phase = root[n].phase => Goal
  OBVIOUS
<1>2. ASSUME NEW c \in Callers,
             \/ RefuseReentrant(c) \/ RefuseCancelled(c) \/ HoldForOutcome(c)
             \/ \E r \in Runtimes : RefuseRootLimit(c, r)
      PROVE  Goal
  BY <1>1, <1>2 DEF RefuseReentrant, RefuseCancelled, HoldForOutcome, RefuseRootLimit
<1>3. ASSUME NEW c \in Callers, ReceiveOutcome(c) \/ RemoveRoot(c) PROVE Goal
  <2>1. ReceiveOutcome(c) => root'[n] = root[n] \/ root'[n].phase = "returned"
    BY DEF ReceiveOutcome, QueuedInv, TypeInv
  <2>2. RemoveRoot(c) => root'[n] = root[n] \/ root'[n].phase = "removed"
    BY DEF RemoveRoot, QueuedInv, TypeInv, Root
  <2> QED
    BY <1>1, <1>3, <2>1, <2>2
<1>4. ASSUME NEW c \in Callers, NEW r \in Runtimes, NEW e \in Events,
             Fire(c, r, e) \/ Enqueue(c, r, e)
      PROVE  Goal
  <2>1. Fire(c, r, e) => n # admitted + 1
    BY RootIdFacts DEF QueuedInv, AdmissionInv, TypeInv
  <2>2. Fire(c, r, e) => root'[n] = root[n]
    BY <2>1 DEF Fire, QueuedInv, TypeInv
  <2>3. Enqueue(c, r, e) => root'[n].phase = root[n].phase
    BY SMTT(60) DEF Enqueue, QueuedInv, TypeInv, Root
  <2> QED
    BY <1>1, <1>4, <2>2, <2>3
<1>5. ASSUME NEW d \in RootIds, NEW r \in Runtimes, TakeRoot(d, r) PROVE Goal
  <2>1. Len(queue[r]) \in Nat /\ Len(queue[r]) >= 1 /\ Head(queue[r]) = queue[r][1]
    BY <1>5, HeadTailProperties, EmptySeq, LenProperties DEF TakeRoot, QueuedInv, TypeInv
  <2>2. root[Head(queue[r])].phase = "queued"
    BY <2>1 DEF QueuedInv, QueueInv
  <2> QED
    BY <1>1, <1>5, <2>2 DEF TakeRoot, QueuedInv, TypeInv
<1>6. ASSUME NEW d \in RootIds, NEW r \in Runtimes,
             ExitDrain(d, r) \/ SettleRoot(d, r) \/ AnswerRoot(d, r)
      PROVE  Goal
  <2>1. CASE ExitDrain(d, r) \/ SettleRoot(d, r)
    BY <1>1, <2>1 DEF ExitDrain, SettleRoot
  <2>2. CASE AnswerRoot(d, r)
    <3>1. root' = [root EXCEPT ![drains[d].req].phase = "answered"]
      BY <2>2 DEF AnswerRoot
    <3>2. root'[n].phase \in {root[n].phase, "answered"}
      BY <3>1 DEF QueuedInv, TypeInv, Root
    <3> QED
      BY <1>1, <3>2
  <2> QED
    BY <1>6, <2>1, <2>2
<1>7. ASSUME NEW m \in RootIds, Run(m) \/ CallbackReturns(m) PROVE Goal
  <2>1. root[m].phase \in ExecutingPhases
    BY <1>7 DEF Run, CallbackReturns, SkipCancelled, BeginEvent, NextEvent, CommitEvent,
                FailEvent, StopEvent, DeliverObservations
  <2>2. root'[n] # root[n] => n = m
    BY ZenonT(90), <1>7 DEF Run, CallbackReturns, SkipCancelled, BeginEvent, NextEvent, CommitEvent,
                FailEvent, StopEvent, DeliverObservations, Finished, QueuedInv, TypeInv
  <2>3. root'[m].phase \in ExecutingPhases \cup {"finished"}
    <3>1. \A err : Finished(m, err)[m].phase = "finished"
      BY DEF Finished, QueuedInv, TypeInv, Root
    <3>2. CASE SkipCancelled(m) \/ FailEvent(m) \/ \E panicked \in BOOLEAN : StopEvent(m, panicked)
      BY <3>1, <3>2 DEF SkipCancelled, FailEvent, StopEvent
    <3>3. CASE BeginEvent(m)
      BY <3>1, <3>3 DEF BeginEvent, QueuedInv, TypeInv, Root
    <3>4. CASE NextEvent(m)
      BY <3>1, <3>4 DEF NextEvent, QueuedInv, TypeInv, Root
    <3>5. ASSUME NEW t \in States, CommitEvent(m, t)
          PROVE  root'[m].phase \in ExecutingPhases \cup {"finished"}
      BY <3>5 DEF CommitEvent, QueuedInv, TypeInv, Root
    <3>6. CASE DeliverObservations(m)
      BY <3>6 DEF DeliverObservations, QueuedInv, TypeInv, Root
    <3> QED
      BY <1>7, <3>2, <3>3, <3>4, <3>5, <3>6 DEF Run, CallbackReturns
  <2> QED
    BY <1>1, <2>1, <2>2, <2>3
<1>8. ASSUME NEW m \in RootIds, Cancel(m) PROVE Goal
  <2>1. root'[n] = root[n] \/ root'[n] = [root[n] EXCEPT !.cancelled = TRUE]
    BY <1>8 DEF Cancel
  <2>2. root[n] \in Root
    BY DEF QueuedInv, TypeInv
  <2> QED
    BY <1>1, <2>1, <2>2 DEF Root
<1>9. ASSUME NEW m \in RootIds, NEW c \in Callers, NEW joined \in BOOLEAN, HandOver(c, m, joined)
      PROVE  Goal
  BY <1>1, <1>9 DEF HandOver
<1>10. Calls => Goal
  BY <1>2, <1>3, <1>4 DEF Calls
<1>11. \A m \in RootIds : Drain(m) => Goal
  BY <1>5, <1>6 DEF Drain
<1> QED
  BY <1>7, <1>8, <1>9, <1>10, <1>11 DEF Next

\* A step leaves a caller's context and whether it waits alone, or ends the call, or is
\* its Fire, or hands it the context of a callback.
LEMMA CallerStep ==
    ASSUME QueuedInv, Next, NEW c \in Callers
    PROVE  \/ calls'[c].ctx = 0
           \/ /\ calls'[c].ctx = calls[c].ctx
              /\ calls'[c].pc = "idle" \/ calls[c].pc # "idle"
           \/ calls'[c].ctx = calls[c].ctx /\ ~InExecution(c)
           \/ /\ calls'[c].pc = "idle" /\ calls'[c].ctx \in RootIds
              /\ root[calls'[c].ctx].phase \in BegunPhases
<1> DEFINE Goal == \/ calls'[c].ctx = 0
                   \/ /\ calls'[c].ctx = calls[c].ctx
                      /\ calls'[c].pc = "idle" \/ calls[c].pc # "idle"
                   \/ calls'[c].ctx = calls[c].ctx /\ ~InExecution(c)
                   \/ /\ calls'[c].pc = "idle" /\ calls'[c].ctx \in RootIds
                      /\ root[calls'[c].ctx].phase \in BegunPhases
<1>1. calls'[c] = calls[c] => Goal
  OBVIOUS
<1>2. ASSUME NEW d \in Callers, calls' = Returned(d) PROVE Goal
  BY <1>1, <1>2 DEF Returned, IdleCaller, QueuedInv, TypeInv
<1>3. ASSUME NEW d \in Callers, HoldForOutcome(d) PROVE Goal
  <2>1. calls[c] \in CallRecord
    BY DEF QueuedInv, TypeInv
  <2> QED
    BY <1>1, <1>3, <2>1 DEF HoldForOutcome, CallRecord, QueuedInv, TypeInv
<1>4. ASSUME NEW d \in Callers, NEW r \in Runtimes, NEW e \in Events, Fire(d, r, e)
      PROVE  Goal
  <2>1. calls[c] \in CallRecord
    BY DEF QueuedInv, TypeInv
  <2> QED
    BY <1>1, <1>4, <2>1 DEF Fire, NotReentrant, CallRecord, QueuedInv, TypeInv
<1>5. ASSUME NEW d \in Callers, NEW n \in RootIds, NEW joined \in BOOLEAN, HandOver(d, n, joined)
      PROVE  Goal
  BY <1>1, <1>5 DEF HandOver, IdleCaller, QueuedInv, TypeInv, BegunPhases, Phases,
                     ExecutingPhases, None
<1>6. Calls => Goal
  BY ZenonT(90), <1>2, <1>3, <1>4 DEF Calls, RefuseReentrant, RefuseCancelled, RefuseRootLimit,
                          ReceiveOutcome, RemoveRoot, Enqueue
<1>7. \A n \in RootIds : Drain(n) \/ Run(n) \/ CallbackReturns(n) \/ Cancel(n) => Goal
  BY ZenonT(90), <1>1 DEF Drain, TakeRoot, ExitDrain, SettleRoot, AnswerRoot, Run, SkipCancelled,
              BeginEvent, NextEvent, CallbackReturns, CommitEvent, FailEvent, StopEvent,
              DeliverObservations, Cancel
<1> QED
  BY <1>5, <1>6, <1>7 DEF Next

\* A callback that fires synchronously is refused by Runtime.Fire whichever Runtime it
\* fires, and so is the code it waits for: no chain of callbacks and Runtimes closes a
\* circle in which everyone waits.
THEOREM NoCircularWait == Spec => []CallbackAwaitsNoFire
<1>1. QueuedInv /\ ContextInv /\ [Next]_vars => ContextInv'
  <2>1. ASSUME QueuedInv, ContextInv, UNCHANGED vars PROVE ContextInv'
    BY <2>1 DEF ContextInv, vars
  <2>2. ASSUME QueuedInv, ContextInv, Next, NEW c \in Callers, calls'[c].ctx # 0
        PROVE  /\ root'[calls'[c].ctx].phase \in BegunPhases
               /\ calls'[c].pc # "idle" => root'[calls'[c].ctx].phase \in OverPhases
    <3> DEFINE n == calls[c].ctx
               m == calls'[c].ctx
    <3>1. CASE m = n
      <4>1. n \in RootIds
        BY <2>2, <3>1, RootIdFacts DEF QueuedInv, TypeInv, CallRecord, RootIds
      <4>2. root[n].phase \in BegunPhases /\ (calls[c].pc # "idle" => root[n].phase \in OverPhases)
        BY <2>2, <3>1 DEF ContextInv
      <4>3. ~InExecution(c) => root[n].phase \in OverPhases
        BY <2>2, <3>1, <4>1, <4>2 DEF InExecution, OverPhases, QueuedInv, CascadeInv, Cascade
      <4>4. calls'[c].pc # "idle" => root[n].phase \in OverPhases
        BY <2>2, <4>2, <4>3, CallerStep
      <4> QED
        BY <2>2, <3>1, <4>1, <4>2, <4>4, LifeStep
    <3>2. CASE m # n
      <4>1. calls'[c].pc = "idle" /\ m \in RootIds /\ root[m].phase \in BegunPhases
        BY <2>2, <3>2, CallerStep
      <4> QED
        BY <2>2, <4>1, LifeStep
    <3> QED
      BY <3>1, <3>2
  <2>3. QueuedInv /\ ContextInv /\ Next => ContextInv'
    BY <2>2 DEF ContextInv
  <2> QED
    BY <2>1, <2>3
<1>2. Init => ContextInv
  BY DEF Init, ContextInv, IdleCaller
<1>3. QueuedInv /\ ContextInv => CallbackAwaitsNoFire
  BY DEF ContextInv, CallbackAwaitsNoFire, OverPhases, ExecutingPhases, RootIds
<1> QED
  BY <1>1, <1>2, <1>3, QueuedInductive, PTL DEF Spec
=============================================================================
