---------------------------- MODULE PersistProofs ---------------------------
(***************************************************************************)
(* Theorems about Persist.  The inductive invariant relates what a running  *)
(* Update of the MemoryStore remembers (the snapshot it loaded, the row its *)
(* step took) to the aggregate it is going to commit to, and what apply's    *)
(* three flags say to what the invocations of the step have done.           *)
(***************************************************************************)
EXTENDS Persist, FiniteSetTheorems, TLAPS

\* An invocation that won the compare-and-swap.
Claimed(call, i) == call.step[i] \in {"running", "ok", "error", "stopped"}

\* What apply knows of the invocations: one claimed the step at most, started
\* and completed and repeated say so, and a step that ended well took a row.
FlagsInv(call) ==
    /\ \A i, j \in Invocations : i # j => ~(Claimed(call, i) /\ Claimed(call, j))
    /\ call.started <=> \E i \in Invocations : Claimed(call, i)
    /\ \A i \in Invocations :
        call.step[i] = "repeated" => call.repeated /\ call.started
    /\ \A i \in Invocations : call.step[i] = "error" => call.failed
    /\ \A i \in Invocations :
        call.step[i] = "ok" => << call.before.state, call.to >> \in Rows
    /\ call.completed => \E i \in Invocations : call.step[i] \in {"ok", "error"}

\* How far the call is.
PhaseInv(call) ==
    /\ call.pc # "idle" => call.key \in Keys
    /\ call.pc = "idle" => ~call.started
    /\ call.pc = "updating" => call.err = None /\ ~call.confirmed
                               /\ (call.key \notin Foreign => ~call.started)
    /\ call.pc \in {"stepping", "committing"} => call.started /\ ~call.confirmed
    /\ call.pc = "committing" => call.step["first"] = "ok"
    /\ call.pc = "checking" => ~call.confirmed
    /\ call.pc = "returned" =>
        /\ \A i \in Invocations : call.step[i] # "running"
        /\ call.confirmed <=> call.err = None
        /\ call.err = None => /\ call.started
                              /\ call.completed
                              /\ ~call.repeated
                              /\ ~call.failed
                              /\ call.state = call.to

\* The snapshot of a running Update is the aggregate's state for as long as the
\* revision has not moved.
SnapshotInv(call) ==
    call.pc \in {"stepping", "committing"} =>
        /\ call.before.revision <= entries[call.key].revision
        /\ call.before.revision = entries[call.key].revision
           => call.before.state = entries[call.key].state

CallInv(call) ==
    /\ call \in CallType
    /\ FlagsInv(call)
    /\ PhaseInv(call)
    /\ SnapshotInv(call)

\* The inductive invariant.
PInv ==
    /\ entries \in [Keys -> [state : States, revision : 0 .. MaxRevision]]
    /\ calls \in [Callers -> CallType]
    /\ \A c \in Callers : CallInv(calls[c])

-----------------------------------------------------------------------------

\* The local state of a call that has not begun.
LEMMA IdleTyped == Idle \in CallType
<1>1. [i \in Invocations |-> "unused"] \in [Invocations -> StepPhases]
    BY DEF StepPhases
<1>2. [state |-> None, revision |-> 0]
        \in [state : States \cup {None}, revision : 0 .. MaxRevision]
    BY PersistAssumption
<1> QED
    BY <1>1, <1>2 DEF Idle, CallType, Errors

\* Every call is idle and every aggregate is in its initial state.
LEMMA InitPInv == Init => PInv
<1> SUFFICES ASSUME Init PROVE PInv
    OBVIOUS
<1>1. Idle \in CallType
    BY IdleTyped
<1>2. entries \in [Keys -> [state : States, revision : 0 .. MaxRevision]]
    BY PersistAssumption DEF Init
<1>3. ASSUME NEW c \in Callers PROVE CallInv(calls[c])
  <2>1. calls[c] = Idle
      BY DEF Init
  <2>2. FlagsInv(Idle)
      BY DEF FlagsInv, Claimed, Idle, Invocations
  <2>3. PhaseInv(Idle) /\ SnapshotInv(Idle)
      BY DEF PhaseInv, SnapshotInv, Idle
  <2> QED
      BY <1>1, <2>1, <2>2, <2>3 DEF CallInv
<1> QED
    BY <1>1, <1>2, <1>3 DEF PInv, Init

\* A step of one call that leaves the aggregates alone needs to look after the
\* invariant of that call only.
LEMMA SetPInv ==
    ASSUME PInv, NEW c \in Callers, NEW call, CallInv(call),
           Set(c, call), UNCHANGED entries
    PROVE  PInv'
<1>1. calls' = [calls EXCEPT ![c] = call] /\ entries' = entries
    BY DEF Set
<1>2. calls' \in [Callers -> CallType]
    BY <1>1 DEF PInv, CallInv
<1>3. ASSUME NEW d \in Callers PROVE CallInv(calls[d])'
  <2>1. CallInv(calls'[d])
      BY <1>1 DEF PInv
  <2> QED
      BY <1>1, <2>1 DEF CallInv, CallType, FlagsInv, Claimed, PhaseInv, SnapshotInv
<1> QED
    BY <1>1, <1>2, <1>3 DEF PInv

\* An invocation of the step, the first or a repeated one.
LEMMA InvokedFlags ==
    ASSUME NEW call \in CallType, FlagsInv(call), NEW i \in Invocations,
           call.step[i] = "unused", NEW from \in States
    PROVE  /\ Invoked(call, i, from) \in CallType
           /\ FlagsInv(Invoked(call, i, from))
           /\ Invoked(call, i, from).started
           /\ \A f \in {"pc", "key", "err", "confirmed"} :
                Invoked(call, i, from)[f] = call[f]
           /\ Invoked(call, i, from).before.revision = call.before.revision
           /\ ~call.started => Invoked(call, i, from).before.state = from
<1> DEFINE new == Invoked(call, i, from)
<1>1. CASE call.started
  <2> DEFINE step == [call.step EXCEPT ![i] = "repeated"]
  <2>1. new = [call EXCEPT !.repeated = TRUE, !.step = step]
      BY <1>1 DEF Invoked, ClaimsStep
  <2>a. step \in [Invocations -> StepPhases]
      BY DEF CallType, StepPhases
  <2> HIDE DEF step, new
  <2>2. new \in CallType
      BY <2>1, <2>a DEF CallType
  <2> USE DEF step
  <2>3. /\ new.step = [call.step EXCEPT ![i] = "repeated"]
        /\ new.repeated /\ new.started
        /\ new.completed = call.completed /\ new.failed = call.failed
        /\ new.before = call.before /\ new.to = call.to
        /\ new.pc = call.pc /\ new.key = call.key
        /\ new.err = call.err /\ new.confirmed = call.confirmed
      BY <1>1, <2>1 DEF CallType
  <2>4. FlagsInv(new)
      BY <1>1, <2>3 DEF CallType, FlagsInv, Claimed
  <2> QED
      BY <1>1, <2>2, <2>3, <2>4 DEF new
<1>2. CASE ~call.started
  <2> DEFINE step == [call.step EXCEPT ![i] = "running"]
             before == [call.before EXCEPT !.state = from]
  <2>1. new = [call EXCEPT !.started = TRUE, !.step = step,
                           !.before = before, !.to = from]
      BY <1>2 DEF Invoked, ClaimsStep
  <2>a. step \in [Invocations -> StepPhases]
      BY DEF CallType, StepPhases
  <2>b. before \in [state : States \cup {None}, revision : 0 .. MaxRevision]
      BY DEF CallType
  <2> HIDE DEF step, before, new
  <2>2. new \in CallType
      BY <2>1, <2>a, <2>b DEF CallType
  <2> USE DEF step
  <2>3. /\ new.step = [call.step EXCEPT ![i] = "running"]
        /\ new.started
        /\ new.completed = call.completed /\ new.failed = call.failed
        /\ new.repeated = call.repeated
        /\ new.before.revision = call.before.revision
        /\ new.before.state = from
        /\ new.pc = call.pc /\ new.key = call.key
        /\ new.err = call.err /\ new.confirmed = call.confirmed
      BY <2>1 DEF CallType, before
  <2>4. \A j \in Invocations : ~Claimed(call, j)
      BY <1>2 DEF FlagsInv
  <2>5. \A j \in Invocations : call.step[j] # "ok" /\ call.step[j] # "error"
      BY <2>4 DEF Claimed
  <2>6. ~call.completed
      BY <2>5 DEF FlagsInv
  <2>7. FlagsInv(new)
      BY <2>3, <2>4, <2>5, <2>6 DEF CallType, FlagsInv, Claimed
  <2> QED
      BY <2>2, <2>3, <2>7 DEF new
<1> QED
    BY <1>1, <1>2

\* Fire or Step starts a call with nothing known of its invocations.
LEMMA FirePInv ==
    ASSUME PInv, NEW c \in Callers, NEW k \in Keys, Fire(c, k)
    PROVE  PInv'
<1> DEFINE new == [Idle EXCEPT !.pc = "updating", !.key = k]
<1>1. new \in CallType
    BY IdleTyped DEF CallType
<1>2. FlagsInv(new)
    BY DEF FlagsInv, Claimed, Idle, Invocations
<1>3. PhaseInv(new) /\ SnapshotInv(new)
    BY DEF PhaseInv, SnapshotInv, Idle
<1> QED
    BY <1>1, <1>2, <1>3, SetPInv DEF CallInv, Fire

\* The cancellation of the caller's context only sets a flag.
LEMMA CancelPInv ==
    ASSUME PInv, NEW c \in Callers, Cancel(c)
    PROVE  PInv'
<1> DEFINE new == [calls[c] EXCEPT !.cancelled = TRUE]
<1>1. CallInv(calls[c])
    BY DEF PInv
<1>2. new \in CallType
    BY <1>1 DEF CallInv, CallType
<1>3. FlagsInv(new) /\ PhaseInv(new) /\ SnapshotInv(new)
    BY <1>1 DEF CallInv, CallType, FlagsInv, Claimed, PhaseInv, SnapshotInv
<1> QED
    BY <1>2, <1>3, SetPInv DEF CallInv, Cancel

\* The running invocation ends, in any of the three ways.
LEMMA EndStepPInv ==
    ASSUME PInv, NEW c \in Callers, EndStep(c)
    PROVE  PInv'
<1> DEFINE call == calls[c]
<1>1. CallInv(call)
    BY DEF PInv
<1>a. PICK i \in Invocations :
        /\ call.step[i] = "running"
        /\ \E new \in StepEnds(call, i) : Set(c, new)
        /\ UNCHANGED entries
    BY DEF EndStep
<1>b. PICK new \in StepEnds(call, i) : Set(c, new)
    BY <1>a
<1>2. call.step[i] = "running" /\ Set(c, new) /\ UNCHANGED entries
    BY <1>a, <1>b
<1>3. /\ call.started
      /\ ~call.completed
      /\ \A j \in Invocations : j # i => ~Claimed(call, j)
    BY <1>1, <1>2 DEF CallInv, FlagsInv, Claimed
<1>4. call.pc # "committing" /\ call.pc # "returned"
    BY <1>1, <1>2, <1>3 DEF CallInv, PhaseInv, Claimed, Invocations
<1>5. CASE \E t \in States : /\ << call.before.state, t >> \in Rows
                             /\ new = StepSucceeds(call, i, t)
  <2>1. PICK t \in States : /\ << call.before.state, t >> \in Rows
                            /\ new = StepSucceeds(call, i, t)
      BY <1>5
  <2>2. new = [call EXCEPT !.step[i] = "ok", !.to = t, !.completed = TRUE]
      BY <2>1 DEF StepSucceeds
  <2>3. new \in CallType
      BY <1>1, <2>2 DEF CallInv, CallType, StepPhases
  <2>4. FlagsInv(new)
      BY <1>1, <1>2, <1>3, <2>1, <2>2 DEF CallInv, CallType, FlagsInv, Claimed
  <2>5. PhaseInv(new) /\ SnapshotInv(new)
      BY <1>1, <1>4, <2>2 DEF CallInv, CallType, PhaseInv, SnapshotInv
  <2> QED
      BY <1>2, <2>3, <2>4, <2>5, SetPInv DEF CallInv
<1>6. CASE new = StepErrs(call, i)
  <2>2. new = [call EXCEPT !.step[i] = "error", !.failed = TRUE, !.completed = TRUE]
      BY <1>6 DEF StepErrs
  <2>3. new \in CallType
      BY <1>1, <2>2 DEF CallInv, CallType, StepPhases
  <2>4. FlagsInv(new)
      BY <1>1, <1>2, <1>3, <2>2 DEF CallInv, CallType, FlagsInv, Claimed
  <2>5. PhaseInv(new) /\ SnapshotInv(new)
      BY <1>1, <1>4, <2>2 DEF CallInv, CallType, PhaseInv, SnapshotInv
  <2> QED
      BY <1>2, <2>3, <2>4, <2>5, SetPInv DEF CallInv
<1>7. CASE new = StepStops(call, i)
  <2>2. new = [call EXCEPT !.step[i] = "stopped"]
      BY <1>7 DEF StepStops
  <2>3. new \in CallType
      BY <1>1, <2>2 DEF CallInv, CallType, StepPhases
  <2>4. FlagsInv(new)
      BY <1>1, <1>2, <1>3, <2>2 DEF CallInv, CallType, FlagsInv, Claimed
  <2>5. PhaseInv(new) /\ SnapshotInv(new)
      BY <1>1, <1>4, <2>2 DEF CallInv, CallType, PhaseInv, SnapshotInv
  <2> QED
      BY <1>2, <2>3, <2>4, <2>5, SetPInv DEF CallInv
<1> QED
    BY <1>b, <1>5, <1>6, <1>7 DEF StepEnds

\* Load either refuses a cancelled call or hands the snapshot to the step.
LEMMA LoadPInv ==
    ASSUME PInv, NEW c \in Callers, Load(c)
    PROVE  PInv'
<1> DEFINE call == calls[c]
           snapshot == entries[call.key]
           loaded == [call EXCEPT !.before = snapshot]
           invoked == Invoked(loaded, "first", snapshot.state)
<1>1. CallInv(call) /\ call.pc = "updating" /\ ~call.started
    BY DEF PInv, CallInv, PhaseInv, Load
<1>2. call.key \in Keys /\ snapshot \in [state : States, revision : 0 .. MaxRevision]
    BY <1>1 DEF PInv, CallInv, PhaseInv
<1>3. CASE call.cancelled
  <2> DEFINE new == Updated(call, None, "canceled")
  <2>1. new = [call EXCEPT !.pc = "checking", !.state = None, !.err = "canceled"]
      BY DEF Updated
  <2>2. new \in CallType
      BY ZenonT(90), <1>1, <2>1 DEF CallInv, CallType, Errors
  <2>3. FlagsInv(new)
    <3>1. /\ new.step = call.step /\ new.started = call.started
          /\ new.repeated = call.repeated /\ new.failed = call.failed
          /\ new.completed = call.completed /\ new.before = call.before
          /\ new.to = call.to
        BY <1>1, <2>1 DEF CallInv, CallType
    <3>2. FlagsInv(call)
        BY <1>1 DEF CallInv
    <3> HIDE DEF new, call
    <3> QED
        BY <3>1, <3>2 DEF FlagsInv, Claimed
  <2>4. PhaseInv(new) /\ SnapshotInv(new)
      BY <1>1, <2>1 DEF CallInv, CallType, PhaseInv, SnapshotInv
  <2> QED
      BY <1>3, <2>2, <2>3, <2>4, SetPInv DEF CallInv, Load
<1>4. CASE ~call.cancelled
  <2> DEFINE new == [invoked EXCEPT !.pc = "stepping"]
  <2>1. \A i \in Invocations : ~Claimed(call, i)
      BY <1>1 DEF CallInv, FlagsInv
  <2>2. loaded \in CallType /\ FlagsInv(loaded)
    <3>1. loaded \in CallType
        BY <1>1, <1>2 DEF CallInv, CallType
    <3>2. /\ loaded.step = call.step /\ loaded.started = call.started
          /\ loaded.repeated = call.repeated /\ loaded.failed = call.failed
          /\ loaded.completed = call.completed
        BY <1>1 DEF CallInv, CallType
    <3> QED
        BY <1>1, <2>1, <3>1, <3>2 DEF CallInv, FlagsInv, Claimed
  <2>3. loaded.step["first"] = "unused" /\ ~loaded.started
    <3>1. loaded.step = call.step /\ loaded.started = call.started
        BY <1>1 DEF CallInv, CallType
    <3>2. call.step["first"] \in StepPhases
        BY <1>1 DEF CallInv, CallType, Invocations
    <3>3. /\ call.step["first"] # "repeated"
          /\ ~Claimed(call, "first")
        BY <1>1, <2>1 DEF CallInv, FlagsInv, Invocations
    <3> QED
        BY <1>1, <3>1, <3>2, <3>3 DEF Claimed, StepPhases
  <2>4. /\ loaded.pc = call.pc /\ loaded.key = call.key
        /\ loaded.confirmed = call.confirmed
        /\ loaded.before = snapshot
      BY <1>1 DEF CallInv, CallType
  <2>5. /\ invoked \in CallType /\ FlagsInv(invoked) /\ invoked.started
        /\ invoked.key = call.key /\ ~invoked.confirmed
        /\ invoked.before.revision = snapshot.revision
        /\ invoked.before.state = snapshot.state
    <3>1. "first" \in Invocations /\ snapshot.state \in States
        BY <1>2 DEF Invocations
    <3>2. ~call.confirmed
        BY <1>1 DEF CallInv, PhaseInv
    <3> HIDE DEF loaded, snapshot, call
    <3> QED
        BY <2>2, <2>3, <2>4, <3>1, <3>2, InvokedFlags
  <2> HIDE DEF invoked
  <2>6. new \in CallType /\ FlagsInv(new)
      BY <2>5 DEF CallType, FlagsInv, Claimed
  <2>7. PhaseInv(new) /\ SnapshotInv(new)
      BY <1>2, <2>5 DEF CallType, PhaseInv, SnapshotInv
  <2>8. Set(c, new) /\ UNCHANGED entries
      BY <1>4 DEF Load, invoked
  <2> QED
      BY <2>6, <2>7, <2>8, SetPInv DEF CallInv
<1> QED
    BY <1>3, <1>4

\* The step returns to MemoryStore.Update, which commits next or gives up.
LEMMA StepReturnsPInv ==
    ASSUME PInv, NEW c \in Callers, StepReturns(c)
    PROVE  PInv'
<1> DEFINE call == calls[c]
<1>1. CallInv(call) /\ call.pc = "stepping"
    BY DEF PInv, StepReturns
<1>2. \A s \in States \cup {None}, err \in {"refused", "canceled"} :
        CallInv(Updated(call, s, err))
  <2> TAKE s \in States \cup {None}, err \in {"refused", "canceled"}
  <2> DEFINE new == Updated(call, s, err)
  <2>1. new = [call EXCEPT !.pc = "checking", !.state = s, !.err = err]
      BY DEF Updated
  <2>2. new \in CallType
      BY ZenonT(90), <1>1, <2>1 DEF CallInv, CallType, Errors
  <2>3. FlagsInv(new) /\ PhaseInv(new) /\ SnapshotInv(new)
      BY <1>1, <2>1 DEF CallInv, CallType, FlagsInv, Claimed, PhaseInv, SnapshotInv
  <2> QED
      BY <2>2, <2>3 DEF CallInv
<1>3. ASSUME call.step["first"] = "stopped"
      PROVE  CallInv([call EXCEPT !.pc = "returned", !.err = "panic"])
  <2> DEFINE new == [call EXCEPT !.pc = "returned", !.err = "panic"]
  <2>3. \A i \in Invocations : call.step[i] # "running"
      BY <1>1, <1>3 DEF CallInv, FlagsInv, Claimed, Invocations
  <2>1. new \in CallType
      BY <1>1 DEF CallInv, CallType, Errors
  <2>2. FlagsInv(new) /\ PhaseInv(new) /\ SnapshotInv(new)
      BY <1>1, <2>3
      DEF CallInv, CallType, FlagsInv, Claimed, PhaseInv, SnapshotInv, None
  <2> QED
      BY <2>1, <2>2 DEF CallInv
<1>4. ASSUME call.step["first"] = "ok"
      PROVE  CallInv([call EXCEPT !.pc = "committing"])
  <2> DEFINE new == [call EXCEPT !.pc = "committing"]
  <2>1. new \in CallType
      BY <1>1 DEF CallInv, CallType
  <2>2. FlagsInv(new) /\ PhaseInv(new) /\ SnapshotInv(new)
      BY <1>1, <1>4 DEF CallInv, CallType, FlagsInv, Claimed, PhaseInv, SnapshotInv
  <2> QED
      BY <2>1, <2>2 DEF CallInv
<1>5. call.before.state \in States \cup {None}
    BY <1>1 DEF CallInv, CallType
<1>6. UNCHANGED entries
    BY DEF StepReturns
<1>7. CASE Set(c, Updated(call, call.before.state, "refused"))
    BY <1>2, <1>5, <1>6, <1>7, SetPInv
<1>8. CASE /\ call.step["first"] = "stopped"
           /\ Set(c, [call EXCEPT !.pc = "returned", !.err = "panic"])
    BY <1>3, <1>6, <1>8, SetPInv
<1>9. CASE Set(c, Updated(call, call.before.state, "canceled"))
    BY <1>2, <1>5, <1>6, <1>9, SetPInv
<1>10. CASE /\ call.step["first"] = "ok"
            /\ Set(c, [call EXCEPT !.pc = "committing"])
    BY <1>4, <1>6, <1>10, SetPInv
<1> QED
    BY <1>7, <1>8, <1>9, <1>10 DEF StepReturns

\* The commit moves the revision past every snapshot that was loaded before.
LEMMA CommitPInv ==
    ASSUME PInv, NEW c \in Callers, Commit(c)
    PROVE  PInv'
<1> DEFINE call == calls[c]
           k == call.key
<1>1. CallInv(call) /\ call.pc = "committing"
    BY DEF PInv, Commit
<1>2. k \in Keys /\ entries[k] \in [state : States, revision : 0 .. MaxRevision]
    BY <1>1 DEF PInv, CallInv, PhaseInv
<1>3. << call.before.state, call.to >> \in Rows
    BY <1>1 DEF CallInv, PhaseInv, FlagsInv, Invocations
<1>4. call.to \in States
    BY <1>3, PersistAssumption
<1>5. \A s \in States, err \in {None, "conflict"} :
        /\ Updated(call, s, err).pc = "checking"
        /\ Updated(call, s, err) \in CallType
        /\ FlagsInv(Updated(call, s, err))
        /\ PhaseInv(Updated(call, s, err))
  <2> TAKE s \in States, err \in {None, "conflict"}
  <2> DEFINE new == Updated(call, s, err)
  <2>1. new = [call EXCEPT !.pc = "checking", !.state = s, !.err = err]
      BY DEF Updated
  <2>2. new \in CallType /\ new.pc = "checking"
      BY ZenonT(90), <1>1, <2>1 DEF CallInv, CallType, Errors
  <2>3. FlagsInv(new) /\ PhaseInv(new)
      BY <1>1, <2>1 DEF CallInv, CallType, FlagsInv, Claimed, PhaseInv
  <2> QED
      BY <2>2, <2>3
<1>6. CASE RevisionUnchanged(call)
  <2> DEFINE new == Updated(call, call.to, None)
             snapshot == [state |-> call.to, revision |-> call.before.revision + 1]
  <2>1. /\ entries' = [entries EXCEPT ![k] = snapshot]
        /\ calls' = [calls EXCEPT ![c] = new]
        /\ call.before.revision = entries[k].revision
        /\ call.before.revision < MaxRevision
      BY <1>6 DEF Commit, RevisionUnchanged, Set
  <2>2. snapshot \in [state : States, revision : 0 .. MaxRevision]
      BY <1>2, <1>4, <2>1, PersistAssumption
  <2>3. /\ entries' \in [Keys -> [state : States, revision : 0 .. MaxRevision]]
        /\ calls' \in [Callers -> CallType]
      BY <1>4, <1>5, <2>1, <2>2 DEF PInv
  <2>4. ASSUME NEW d \in Callers PROVE CallInv(calls[d])'
    <3>1. CASE d = c
      <4>1. calls'[d] = new
          BY <2>1, <3>1 DEF PInv
      <4>2. /\ new.pc = "checking" /\ new \in CallType
            /\ FlagsInv(new) /\ PhaseInv(new)
          BY <1>4, <1>5
      <4> HIDE DEF new
      <4>3. CallType' = CallType
          BY DEF CallType
      <4>4. FlagsInv(calls[d])' /\ PhaseInv(calls[d])'
          BY <4>1, <4>2 DEF FlagsInv, Claimed, PhaseInv
      <4>5. SnapshotInv(calls[d])'
          BY <4>1, <4>2 DEF SnapshotInv
      <4> QED
          BY <4>1, <4>2, <4>3, <4>4, <4>5 DEF CallInv
    <3>2. CASE d # c
      <4>1. calls'[d] = calls[d] /\ CallInv(calls[d])
          BY <2>1, <3>2 DEF PInv
      <4>2. FlagsInv(calls[d])' /\ PhaseInv(calls[d])'
          BY <4>1 DEF CallInv, FlagsInv, Claimed, PhaseInv
      <4>3. SnapshotInv(calls[d])'
        <5>1. SUFFICES ASSUME calls[d].pc \in {"stepping", "committing"}
                       PROVE  /\ calls[d].before.revision <= entries'[calls[d].key].revision
                              /\ calls[d].before.revision = entries'[calls[d].key].revision
                                 => calls[d].before.state = entries'[calls[d].key].state
            BY <4>1 DEF SnapshotInv
        <5>2. /\ calls[d].key \in Keys
              /\ calls[d].before.revision \in 0 .. MaxRevision
              /\ calls[d].before.revision <= entries[calls[d].key].revision
              /\ calls[d].before.revision = entries[calls[d].key].revision
                 => calls[d].before.state = entries[calls[d].key].state
            BY <4>1, <5>1 DEF CallInv, CallType, PhaseInv, SnapshotInv
        <5>3. CASE calls[d].key = k
          <6>1. entries'[k].revision = entries[k].revision + 1
              BY <1>2, <2>1 DEF PInv
          <6> QED
              BY <1>2, <5>2, <5>3, <6>1, PersistAssumption
        <5>4. CASE calls[d].key # k
          <6>1. entries'[calls[d].key] = entries[calls[d].key]
              BY <2>1, <5>2, <5>4 DEF PInv
          <6> QED
              BY <5>2, <6>1
        <5> QED
            BY <5>3, <5>4
      <4> QED
          BY <4>1, <4>2, <4>3 DEF CallInv, CallType
    <3> QED
        BY <3>1, <3>2
  <2> QED
      BY <2>3, <2>4 DEF PInv
<1>7. CASE ~RevisionUnchanged(call)
  <2> DEFINE new == Updated(call, entries[k].state, "conflict")
  <2>1. Set(c, new) /\ UNCHANGED entries
      BY SMTT(60), <1>7 DEF Commit
  <2>2. CallInv(new)
      BY <1>2, <1>5 DEF CallInv, SnapshotInv
  <2> QED
      BY <2>1, <2>2, SetPInv
<1> QED
    BY <1>6, <1>7

\* A foreign Store invokes the step: apply claims it or notes the repetition.
LEMMA ForeignInvokesPInv ==
    ASSUME PInv, NEW c \in Callers, ForeignInvokes(c)
    PROVE  PInv'
<1> DEFINE call == calls[c]
<1>1. CallInv(call) /\ call.pc = "updating" /\ call.key \in Foreign
      /\ UNCHANGED entries
    BY DEF PInv, ForeignInvokes
<1>2. PICK i \in Invocations, from \in States :
        call.step[i] = "unused" /\ Set(c, Invoked(call, i, from))
    BY DEF ForeignInvokes
<1> DEFINE new == Invoked(call, i, from)
<1>3. /\ new \in CallType /\ FlagsInv(new)
      /\ new.pc = call.pc /\ new.key = call.key
      /\ new.err = call.err /\ new.confirmed = call.confirmed
    BY <1>1, <1>2, InvokedFlags DEF CallInv
<1> HIDE DEF new
<1>4. PhaseInv(new) /\ SnapshotInv(new)
    BY <1>1, <1>3 DEF CallInv, CallType, PhaseInv, SnapshotInv
<1> QED
    BY <1>1, <1>2, <1>3, <1>4, SetPInv DEF CallInv, new

\* A foreign Store returns whatever it likes: the call only keeps what it was told.
LEMMA ForeignReturnsPInv ==
    ASSUME PInv, NEW c \in Callers, ForeignReturns(c)
    PROVE  PInv'
<1> DEFINE call == calls[c]
<1>1. CallInv(call) /\ call.pc = "updating" /\ UNCHANGED entries
    BY DEF PInv, ForeignReturns
<1>2. PICK s \in States \cup {None}, err \in {None, "foreign"} :
        Set(c, Updated(call, s, err))
    BY DEF ForeignReturns
<1> DEFINE new == Updated(call, s, err)
<1>3. new = [call EXCEPT !.pc = "checking", !.state = s, !.err = err]
    BY DEF Updated
<1>4. new \in CallType
    BY ZenonT(90), <1>1, <1>3 DEF CallInv, CallType, Errors
<1>5. FlagsInv(new)
    BY <1>1, <1>3 DEF CallInv, CallType, FlagsInv, Claimed
<1>6. PhaseInv(new) /\ SnapshotInv(new)
    BY <1>1, <1>3 DEF CallInv, CallType, PhaseInv, SnapshotInv
<1> QED
    BY <1>1, <1>2, <1>4, <1>5, <1>6, SetPInv DEF CallInv

\* A foreign Store panics only after a step that stopped.
LEMMA ForeignPanicsPInv ==
    ASSUME PInv, NEW c \in Callers, ForeignPanics(c)
    PROVE  PInv'
<1> DEFINE call == calls[c]
           new == [call EXCEPT !.pc = "returned", !.err = "panic"]
<1>1. CallInv(call) /\ call.pc = "updating" /\ UNCHANGED entries
    BY DEF PInv, ForeignPanics
<1>2. new \in CallType
    BY <1>1 DEF CallInv, CallType, Errors
<1>3. FlagsInv(new)
    BY <1>1 DEF CallInv, CallType, FlagsInv, Claimed
<1>4. \A i \in Invocations : call.step[i] # "running"
    BY <1>1 DEF CallInv, FlagsInv, Claimed, ForeignPanics
<1>5. PhaseInv(new) /\ SnapshotInv(new)
    BY <1>1, <1>4 DEF CallInv, CallType, PhaseInv, SnapshotInv, None
<1> QED
    BY <1>1, <1>2, <1>3, <1>5, SetPInv DEF CallInv, ForeignPanics

\* The checks of apply: success is reported only when every one of them passes.
LEMMA ReturnPInv ==
    ASSUME PInv, NEW c \in Callers, Return(c)
    PROVE  PInv'
<1> DEFINE call == calls[c]
           verdict == Verdict(call)
           new == [call EXCEPT !.pc = "returned", !.err = verdict,
                               !.confirmed = (verdict = None)]
<1>1. CallInv(call) /\ call.pc = "checking" /\ UNCHANGED entries
    BY DEF PInv, Return
<1>2. verdict \in Errors
    BY <1>1 DEF CallInv, CallType, Verdict, Errors
<1>3. verdict = None => /\ call.started /\ call.completed /\ ~call.repeated
                        /\ ~call.failed /\ call.state = call.to
    BY DEF Verdict, None
<1>a. \A i \in Invocations : call.step[i] # "running"
    BY <1>1 DEF CallInv, FlagsInv, Claimed, Return, FirstDone
<1> HIDE DEF verdict
<1>4. new \in CallType
    BY ZenonT(90), <1>1, <1>2 DEF CallInv, CallType
<1>5. FlagsInv(new)
    BY <1>1 DEF CallInv, CallType, FlagsInv, Claimed
<1>6. PhaseInv(new) /\ SnapshotInv(new)
    BY <1>1, <1>3, <1>a DEF CallInv, CallType, PhaseInv, SnapshotInv
<1> QED
    BY <1>1, <1>4, <1>5, <1>6, SetPInv DEF CallInv, Return, verdict

-----------------------------------------------------------------------------

\* Every step preserves the invariant.
LEMMA NextPInv == PInv /\ [Next]_vars => PInv'
<1> SUFFICES ASSUME PInv, [Next]_vars PROVE PInv'
    OBVIOUS
<1>1. CASE UNCHANGED vars
    BY <1>1 DEF vars, PInv, CallInv, CallType, FlagsInv, Claimed, PhaseInv, SnapshotInv
<1>2. CASE Next
  <2>1. PICK c \in Callers :
            \/ \E k \in Keys : Fire(c, k)
            \/ Cancel(c) \/ EndStep(c) \/ StoreProceeds(c)
            \/ ForeignInvokes(c) \/ ForeignPanics(c) \/ Return(c)
      BY <1>2, PersistAssumption DEF Next
  <2> QED
      BY <2>1, FirePInv, CancelPInv, EndStepPInv, LoadPInv, StepReturnsPInv,
         CommitPInv, ForeignReturnsPInv, ForeignInvokesPInv, ForeignPanicsPInv,
         ReturnPInv
      DEF StoreProceeds
<1> QED
    BY <1>1, <1>2

\* The invariant holds in every reachable state, for every number of callers,
\* aggregates and revisions, whichever Store keeps which aggregate.
THEOREM PersistInductive == Spec => []PInv
    BY InitPInv, NextPInv, PTL DEF Spec

\* The state of the calls and of the MemoryStore is always well typed, and a
\* running Update never remembers a snapshot newer than the aggregate.
THEOREM PersistTypeCorrect == Spec => []TypeOK
<1>1. PInv => TypeOK
    BY DEF PInv, TypeOK, CallInv, SnapshotInv
<1> QED
    BY <1>1, PersistInductive, PTL

\* A commit is a step of the abstract register: the state the step of the Machine
\* started from is, by the unchanged revision, the state it replaces.
THEOREM MemoryStoreImplements == Spec => ImplementsVersioned
<1> DEFINE aggregate == [k \in Keys |-> entries[k].state]
<1>1. Init => Abstract!Init
    BY DEF Init, Abstract!Init
<1>2. PInv /\ [Next]_vars => [Abstract!Next]_aggregate
  <2> SUFFICES ASSUME PInv, [Next]_vars PROVE [Abstract!Next]_aggregate
      OBVIOUS
  <2>1. CASE entries' = entries
      BY <2>1
  <2>2. CASE \E c \in Callers : Commit(c)
    <3>1. PICK c \in Callers : Commit(c)
        BY <2>2
    <3> DEFINE call == calls[c]
               k == call.key
    <3>2. CASE ~RevisionUnchanged(call)
        BY <3>1, <3>2 DEF Commit
    <3>3. CASE RevisionUnchanged(call)
      <4>1. call.pc = "committing" /\ CallInv(call)
          BY <3>1 DEF Commit, PInv
      <4>2. /\ k \in Keys
            /\ call.before.state = entries[k].state
            /\ << call.before.state, call.to >> \in Rows
          BY <3>3, <4>1
          DEF CallInv, PhaseInv, FlagsInv, SnapshotInv, RevisionUnchanged, Invocations
      <4>3. call.to \in States
          BY <4>2, PersistAssumption
      <4>4. aggregate' = [aggregate EXCEPT ![k] = call.to]
        <5>1. entries' = [entries EXCEPT ![k] =
                  [state |-> call.to, revision |-> call.before.revision + 1]]
            BY <3>1, <3>3 DEF Commit
        <5>2. \A j \in Keys :
                entries'[j].state = IF j = k THEN call.to ELSE entries[j].state
            BY <5>1 DEF PInv
        <5>3. aggregate' = [j \in Keys |-> entries'[j].state]
            OBVIOUS
        <5> QED
            BY ZenonT(60), <5>2, <5>3
      <4>5. << aggregate[k], call.to >> \in Rows
          BY <4>2
      <4> QED
          BY <4>2, <4>3, <4>4, <4>5 DEF Abstract!Next, Abstract!Transition
    <3> QED
        BY <3>2, <3>3
  <2>3. Next => entries' = entries \/ \E c \in Callers : Commit(c)
      BY ZenonT(90) DEF Next, StoreProceeds, Fire, Cancel, EndStep, Load, StepReturns,
             ForeignReturns, ForeignInvokes, ForeignPanics, Return
  <2> QED
      BY <2>1, <2>2, <2>3 DEF vars
<1> QED
    BY <1>1, <1>2, PersistInductive, PTL
    DEF Spec, ImplementsVersioned, Abstract!Spec

\* Each change of an aggregate is a commit and moves its revision on by one.
THEOREM RevisionsOnlyAdvance == Spec => RevisionsAdvance
<1>1. PInv /\ [Next]_vars
      => [\A k \in Keys : entries'[k] # entries[k]
            => entries'[k].revision = entries[k].revision + 1]_vars
  <2> SUFFICES ASSUME PInv, Next, NEW k \in Keys, entries'[k] # entries[k]
               PROVE  entries'[k].revision = entries[k].revision + 1
      OBVIOUS
  <2>1. PICK c \in Callers : Commit(c)
      BY DEF Next, StoreProceeds, Fire, Cancel, EndStep, Load, StepReturns,
             ForeignReturns, ForeignInvokes, ForeignPanics, Return
  <2>2. RevisionUnchanged(calls[c]) /\ calls[c].key = k
      BY <2>1 DEF Commit, PInv
  <2> QED
      BY <2>1, <2>2 DEF Commit, RevisionUnchanged, PInv
<1> QED
    BY <1>1, PersistInductive, PTL DEF Spec, RevisionsAdvance

\* Whatever the Store does, one invocation claims the step, and apply returns
\* only when that one has ended.
THEOREM StepOnce == Spec => []StepExecutedOnce
<1>1. PInv => StepExecutedOnce
  <2> SUFFICES ASSUME PInv, NEW c \in Callers
               PROVE  /\ Cardinality({i \in Invocations :
                            calls[c].step[i] \notin {"unused", "repeated"}}) <= 1
                      /\ calls[c].pc = "returned"
                         => \A i \in Invocations : calls[c].step[i] # "running"
      BY DEF StepExecutedOnce
  <2> DEFINE S == {i \in Invocations : calls[c].step[i] \notin {"unused", "repeated"}}
  <2>1. FlagsInv(calls[c]) /\ PhaseInv(calls[c]) /\ calls[c] \in CallType
      BY DEF PInv, CallInv
  <2>2. \A i \in S : Claimed(calls[c], i)
      BY <2>1 DEF CallType, StepPhases, Claimed
  <2>3. \A i, j \in S : i = j
      BY <2>1, <2>2 DEF FlagsInv
  <2>4. Cardinality(S) <= 1
    <3>1. CASE S = {}
      <4>1. Cardinality({}) = 0
          BY FS_EmptySet
      <4> HIDE DEF S
      <4> QED
          BY <3>1, <4>1
    <3>2. CASE S # {}
      <4>1. PICK i \in S : S = {i}
          BY <2>3, <3>2
      <4>2. Cardinality({i}) = 1
          BY FS_Singleton
      <4> HIDE DEF S
      <4> QED
          BY <4>1, <4>2
    <3> QED
        BY <3>1, <3>2
  <2> QED
      BY <2>1, <2>4 DEF PhaseInv
<1> QED
    BY <1>1, PersistInductive, PTL

\* Success stands for one call of the step, which took a row of the Machine to the
\* state that the Store reported.
THEOREM SuccessMeansOneStep == Spec => []SuccessConfirmed
<1>1. PInv => SuccessConfirmed
  <2> SUFFICES ASSUME PInv, NEW c \in Callers, calls[c].pc = "returned",
                      calls[c].err = None \/ calls[c].confirmed
               PROVE  /\ \E i \in Invocations :
                          /\ calls[c].step[i] = "ok"
                          /\ \A j \in Invocations \ {i} : calls[c].step[j] = "unused"
                      /\ calls[c].state = calls[c].to
                      /\ calls[c].confirmed
      BY DEF SuccessConfirmed
  <2> DEFINE call == calls[c]
  <2>1. /\ FlagsInv(call) /\ call \in CallType
        /\ call.confirmed /\ call.completed
        /\ ~call.repeated /\ ~call.failed /\ call.state = call.to
      BY DEF PInv, CallInv, PhaseInv
  <2>2. PICK i \in Invocations : call.step[i] \in {"ok", "error"}
      BY <2>1 DEF FlagsInv
  <2>3. call.step[i] = "ok" /\ Claimed(call, i)
      BY <2>1, <2>2 DEF FlagsInv, Claimed
  <2>4. ASSUME NEW j \in Invocations \ {i} PROVE call.step[j] = "unused"
    <3>1. ~Claimed(call, j) /\ call.step[j] # "repeated"
        BY <2>1, <2>3 DEF FlagsInv
    <3>2. call.step[j] \in StepPhases
        BY <2>1 DEF CallType
    <3> QED
        BY <3>1, <3>2 DEF Claimed, StepPhases
  <2> QED
      BY <2>1, <2>3, <2>4
<1> QED
    BY <1>1, PersistInductive, PTL

-----------------------------------------------------------------------------

\* A call on an aggregate of the MemoryStore.
OfMemoryStore(call) == call.pc # "idle" /\ call.key \notin Foreign

\* What is true of a call on the MemoryStore besides: Update invokes the step once,
\* as the first, and returns to apply only when that has ended, with success only
\* for a step that succeeded and with the state the step led to.
MemoryInv(call) ==
    OfMemoryStore(call) =>
        /\ ~call.repeated /\ call.step["second"] = "unused"
        /\ call.failed => call.step["first"] = "error"
        /\ call.step["first"] \in {"ok", "error"} => call.completed
        /\ call.pc = "committing" => ~call.failed
        /\ call.pc = "checking" =>
            /\ call.started => call.completed
            /\ call.err \notin Contract
            /\ call.err = None => /\ call.started /\ ~call.failed
                                  /\ call.state = call.to
        /\ call.pc = "returned" => call.err \notin Contract

\* The invariant of all calls.
MInv == \A c \in Callers : MemoryInv(calls[c])

\* A step of one call needs to look after that call only.
LEMMA SetMInv ==
    ASSUME PInv, MInv, NEW c \in Callers, NEW call, MemoryInv(call), Set(c, call)
    PROVE  MInv'
<1>1. \A d \in Callers : calls'[d] = IF d = c THEN call ELSE calls[d]
    BY DEF Set, PInv
<1>2. ASSUME NEW d \in Callers PROVE MemoryInv(calls[d])'
  <2>1. MemoryInv(calls'[d])
      BY <1>1 DEF MInv
  <2> QED
      BY <2>1 DEF MemoryInv, OfMemoryStore
<1> QED
    BY <1>2 DEF MInv

\* The running invocation is the first, and says how it ended.
LEMMA EndStepMInv ==
    ASSUME PInv, MInv, NEW c \in Callers, EndStep(c)
    PROVE  MInv'
<1> DEFINE call == calls[c]
<1>1. call \in CallType /\ FlagsInv(call) /\ PhaseInv(call) /\ MemoryInv(call)
    BY DEF PInv, CallInv, MInv
<1>2. PICK i \in Invocations :
        call.step[i] = "running" /\ \E new \in StepEnds(call, i) : Set(c, new)
    BY DEF EndStep
<1>3. PICK new \in StepEnds(call, i) : Set(c, new)
    BY <1>2
<1>4. /\ call.started /\ ~call.completed
      /\ call.pc # "returned" /\ call.pc # "committing" /\ call.pc # "idle"
    BY <1>1, <1>2 DEF FlagsInv, PhaseInv, Claimed, Invocations
<1>5. CASE call.key \in Foreign
  <2>1. new.key = call.key
      BY <1>1, <1>3 DEF StepEnds, StepSucceeds, StepErrs, StepStops, CallType
  <2> QED
      BY <1>3, <1>5, <2>1, SetMInv DEF MemoryInv, OfMemoryStore
<1>6. CASE call.key \notin Foreign
  <2>1. i = "first" /\ ~call.failed /\ ~call.repeated /\ call.step["second"] = "unused"
      BY <1>1, <1>2, <1>4, <1>6 DEF MemoryInv, OfMemoryStore, Invocations
  <2>2. call.pc # "checking"
      BY <1>1, <1>4, <1>6 DEF MemoryInv, OfMemoryStore
  <2>3. CASE \E t \in States : new = StepSucceeds(call, i, t)
    <3>1. PICK t \in States : new = StepSucceeds(call, i, t)
        BY <2>3
    <3>2. new = [call EXCEPT !.step["first"] = "ok", !.to = t, !.completed = TRUE]
        BY <2>1, <3>1 DEF StepSucceeds
    <3>3. MemoryInv(new)
        BY <1>1, <1>4, <2>1, <2>2, <3>2
        DEF MemoryInv, OfMemoryStore, CallType, Invocations
    <3> QED
        BY <1>3, <3>3, SetMInv
  <2>4. CASE new = StepErrs(call, i)
    <3>2. new = [call EXCEPT !.step["first"] = "error", !.failed = TRUE,
                             !.completed = TRUE]
        BY <2>1, <2>4 DEF StepErrs
    <3>3. MemoryInv(new)
        BY <1>1, <1>4, <2>1, <2>2, <3>2
        DEF MemoryInv, OfMemoryStore, CallType, Invocations
    <3> QED
        BY <1>3, <3>3, SetMInv
  <2>5. CASE new = StepStops(call, i)
    <3>2. new = [call EXCEPT !.step["first"] = "stopped"]
        BY <2>1, <2>5 DEF StepStops
    <3>3. MemoryInv(new)
        BY <1>1, <1>4, <2>1, <2>2, <3>2
        DEF MemoryInv, OfMemoryStore, CallType, Invocations
    <3> QED
        BY <1>3, <3>3, SetMInv
  <2> QED
      BY <1>3, <2>3, <2>4, <2>5 DEF StepEnds
<1> QED
    BY <1>5, <1>6

\* Update loads, and invokes the step once unless the caller gave up.
LEMMA LoadMInv ==
    ASSUME PInv, MInv, NEW c \in Callers, Load(c)
    PROVE  MInv'
<1> DEFINE call == calls[c]
           loaded == [call EXCEPT !.before = entries[call.key]]
           from == entries[call.key].state
           new == [Invoked(loaded, "first", from) EXCEPT !.pc = "stepping"]
<1>1. /\ call \in CallType /\ FlagsInv(call) /\ MemoryInv(call)
      /\ call.pc = "updating" /\ call.key \notin Foreign
      /\ ~call.started
    BY DEF PInv, CallInv, PhaseInv, MInv, Load
<1>2. ~call.failed /\ ~call.repeated /\ call.step["second"] = "unused"
      /\ ~call.completed
    BY <1>1 DEF FlagsInv, Claimed, MemoryInv, OfMemoryStore, Invocations
<1>3. CASE call.cancelled
  <2> DEFINE refused == Updated(call, None, "canceled")
  <2>1. MemoryInv(refused)
      BY <1>1, <1>2
      DEF MemoryInv, OfMemoryStore, Updated, CallType, Contract, None
  <2> QED
      BY <1>3, <2>1, SetMInv DEF Load
<1>4. CASE ~call.cancelled
  <2>1. /\ loaded.step = call.step /\ loaded.started = call.started
        /\ loaded.repeated = call.repeated /\ loaded.failed = call.failed
        /\ loaded.completed = call.completed /\ loaded.key = call.key
        /\ DOMAIN loaded = DOMAIN call
      BY <1>1 DEF CallType
  <2>2. Invoked(loaded, "first", from) =
            [loaded EXCEPT !.started = TRUE, !.step["first"] = "running",
                           !.before.state = from, !.to = from]
      BY <1>1, <2>1 DEF Invoked, ClaimsStep
  <2>3. /\ new.pc = "stepping" /\ new.repeated = call.repeated
        /\ new.failed = call.failed
        /\ new.step = [call.step EXCEPT !["first"] = "running"]
      BY <1>1, <2>1, <2>2 DEF CallType
  <2> HIDE DEF new
  <2>4. MemoryInv(new)
      BY <1>1, <1>2, <2>3 DEF MemoryInv, OfMemoryStore, CallType, Invocations
  <2> QED
      BY <1>4, <2>4, SetMInv DEF Load, new
<1> QED
    BY <1>3, <1>4

\* Update returns the step's error, lets its panic through, or goes on to commit.
LEMMA StepReturnsMInv ==
    ASSUME PInv, MInv, NEW c \in Callers, StepReturns(c)
    PROVE  MInv'
<1> DEFINE call == calls[c]
<1>1. /\ call \in CallType /\ FlagsInv(call) /\ PhaseInv(call) /\ MemoryInv(call)
      /\ call.pc = "stepping" /\ call.started
    BY DEF PInv, CallInv, PhaseInv, MInv, StepReturns
<1>2. CASE call.step["first"] \in {"ok", "error"}
           /\ \E err \in {"refused", "canceled"} :
                Set(c, Updated(call, call.before.state, err))
  <2>1. PICK err \in {"refused", "canceled"} :
            Set(c, Updated(call, call.before.state, err))
      BY <1>2
  <2>2. MemoryInv(Updated(call, call.before.state, err))
      BY <1>1, <1>2
      DEF MemoryInv, OfMemoryStore, Updated, CallType, Contract, None
  <2> QED
      BY <2>1, <2>2, SetMInv
<1>3. CASE call.step["first"] = "stopped"
           /\ Set(c, [call EXCEPT !.pc = "returned", !.err = "panic"])
  <2>1. MemoryInv([call EXCEPT !.pc = "returned", !.err = "panic"])
      BY <1>1, <1>3 DEF MemoryInv, OfMemoryStore, CallType, Contract
  <2> QED
      BY <1>3, <2>1, SetMInv
<1>4. CASE call.step["first"] = "ok" /\ Set(c, [call EXCEPT !.pc = "committing"])
  <2>1. MemoryInv([call EXCEPT !.pc = "committing"])
      BY <1>1, <1>4 DEF MemoryInv, OfMemoryStore, CallType
  <2> QED
      BY <1>4, <2>1, SetMInv
<1> QED
    BY <1>2, <1>3, <1>4 DEF StepReturns

\* The commit reports the state the step led to, or the conflict.
LEMMA CommitMInv ==
    ASSUME PInv, MInv, NEW c \in Callers, Commit(c)
    PROVE  MInv'
<1> DEFINE call == calls[c]
<1>1. /\ call \in CallType /\ PhaseInv(call) /\ MemoryInv(call)
      /\ call.pc = "committing" /\ call.started /\ call.step["first"] = "ok"
    BY DEF PInv, CallInv, PhaseInv, MInv, Commit
<1>2. MemoryInv(Updated(call, call.to, None))
    BY <1>1 DEF MemoryInv, OfMemoryStore, Updated, CallType, Contract, None
<1>3. \A s : MemoryInv(Updated(call, s, "conflict"))
    BY <1>1 DEF MemoryInv, OfMemoryStore, Updated, CallType, Contract, None
<1> QED
    BY <1>2, <1>3, SetMInv DEF Commit

\* The verdict of apply on what Update of the MemoryStore returned.
LEMMA ReturnMInv ==
    ASSUME PInv, MInv, NEW c \in Callers, Return(c)
    PROVE  MInv'
<1> DEFINE call == calls[c]
           verdict == Verdict(call)
           new == [call EXCEPT !.pc = "returned", !.err = verdict,
                               !.confirmed = (verdict = None)]
<1>1. call \in CallType /\ MemoryInv(call) /\ call.pc = "checking" /\ Set(c, new)
    BY DEF PInv, CallInv, MInv, Return
<1>2. call.key \notin Foreign => verdict \notin Contract
  <2>1. CASE call.err = None
      BY <1>1, <2>1 DEF MemoryInv, OfMemoryStore, Verdict, Contract, None
  <2>2. CASE call.err # None
      BY <1>1, <2>2 DEF MemoryInv, OfMemoryStore, Verdict
  <2> QED
      BY <2>1, <2>2
<1> HIDE DEF verdict
<1>3. MemoryInv(new)
    BY <1>1, <1>2 DEF MemoryInv, OfMemoryStore, CallType
<1> QED
    BY <1>1, <1>3, SetMInv

\* The actions of a call that is Foreign, and those that only set a flag or begin.
LEMMA OtherMInv ==
    ASSUME PInv, MInv, NEW c \in Callers,
           \/ \E k \in Keys : Fire(c, k)
           \/ Cancel(c)
           \/ ForeignInvokes(c) \/ ForeignReturns(c) \/ ForeignPanics(c)
    PROVE  MInv'
<1> DEFINE call == calls[c]
<1>1. call \in CallType /\ MemoryInv(call)
    BY DEF PInv, CallInv, MInv
<1>2. CASE \E k \in Keys : Fire(c, k)
  <2>1. PICK k \in Keys : Fire(c, k)
      BY <1>2
  <2> DEFINE new == [Idle EXCEPT !.pc = "updating", !.key = k]
  <2>2. MemoryInv(new)
      BY DEF MemoryInv, OfMemoryStore, Idle, Invocations
  <2> QED
      BY <2>1, <2>2, SetMInv DEF Fire
<1>3. CASE Cancel(c)
  <2>1. MemoryInv([call EXCEPT !.cancelled = TRUE])
      BY <1>1 DEF MemoryInv, OfMemoryStore, CallType
  <2> QED
      BY <1>3, <2>1, SetMInv DEF Cancel
<1>4. ASSUME NEW new, new.key = call.key, call.key \in Foreign PROVE MemoryInv(new)
    BY <1>4 DEF MemoryInv, OfMemoryStore
<1>5. CASE ForeignInvokes(c)
  <2>1. PICK i \in Invocations, from \in States : Set(c, Invoked(call, i, from))
      BY SMTT(60), <1>5 DEF ForeignInvokes
  <2>2. Invoked(call, i, from).key = call.key /\ call.key \in Foreign
      BY <1>1, <1>5 DEF Invoked, CallType, ForeignInvokes
  <2> QED
      BY <1>4, <2>1, <2>2, SetMInv
<1>6. CASE ForeignReturns(c)
  <2>1. PICK s \in States \cup {None}, err \in {None, "foreign"} :
            Set(c, Updated(call, s, err))
      BY SMTT(60), <1>6 DEF ForeignReturns
  <2>2. Updated(call, s, err).key = call.key /\ call.key \in Foreign
      BY <1>1, <1>6 DEF Updated, CallType, ForeignReturns
  <2> QED
      BY <1>4, <2>1, <2>2, SetMInv
<1>7. CASE ForeignPanics(c)
  <2> DEFINE new == [call EXCEPT !.pc = "returned", !.err = "panic"]
  <2>1. new.key = call.key /\ call.key \in Foreign
      BY <1>1, <1>7 DEF CallType, ForeignPanics
  <2> QED
      BY <1>4, <1>7, <2>1, SetMInv DEF ForeignPanics
<1> QED
    BY <1>2, <1>3, <1>5, <1>6, <1>7

\* apply never accuses the MemoryStore: for every call on it the step was invoked
\* once, had ended, and led to the state that Update reported.
THEOREM MemoryStoreNotAccused == Spec => []MemoryStoreKeepsContract
<1>1. Init => MInv
    BY DEF Init, MInv, MemoryInv, OfMemoryStore, Idle
<1>2. PInv /\ MInv /\ [Next]_vars => MInv'
  <2> SUFFICES ASSUME PInv, MInv, [Next]_vars PROVE MInv'
      OBVIOUS
  <2>1. CASE UNCHANGED vars
      BY <2>1 DEF vars, MInv, MemoryInv, OfMemoryStore
  <2>2. CASE Next
    <3>1. PICK c \in Callers :
              \/ \E k \in Keys : Fire(c, k)
              \/ Cancel(c) \/ EndStep(c) \/ StoreProceeds(c)
              \/ ForeignInvokes(c) \/ ForeignPanics(c) \/ Return(c)
        BY <2>2, PersistAssumption DEF Next
    <3> QED
        BY <3>1, EndStepMInv, LoadMInv, StepReturnsMInv, CommitMInv, ReturnMInv,
           OtherMInv
        DEF StoreProceeds
  <2> QED
      BY <2>1, <2>2
<1>3. MInv => MemoryStoreKeepsContract
    BY DEF MInv, MemoryInv, OfMemoryStore, MemoryStoreKeepsContract
<1> QED
    BY <1>1, <1>2, <1>3, PersistInductive, PTL DEF Spec
=============================================================================
