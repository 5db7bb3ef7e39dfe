------------------------------ MODULE Observers ------------------------------
(***************************************************************************)
(* Delivery of observations (internal/observer/delivery.go, observer.go;     *)
(* observe.go; statechart/observe.go): after a commit the goroutine of Fire  *)
(* hands each observation of the batch, in order, to each observer, in the   *)
(* order they were attached.  Every callback runs on a goroutine of its own, *)
(* and Fire waits for it: to its end, or, for a TimeoutObserver, until the   *)
(* timer fires, after which the goroutine runs on by itself.                *)
(*                                                                         *)
(* An observer is what its wrappers make of it: timed (TimeoutObserver),     *)
(* contained (ContainedObserver, outside the timeout if there is one).       *)
(* Observers(...) attaches its members one by one: they are called in the    *)
(* same order either way, and the error it builds of theirs is left out, as  *)
(* are the value, the stack and the kind (panic or Goexit) of a failure.     *)
(***************************************************************************)
EXTENDS Integers, Sequences, FiniteSets

CONSTANTS
    Callers,     \* the goroutines that call Fire
    Attached,    \* the observers in attachment order, nil ones included
    MaxSeq       \* bound: the observations of a behaviour

None == "none"

ASSUME ObserversAssumption ==
    /\ MaxSeq \in Nat
    /\ Attached \in Seq([nil : BOOLEAN, timed : BOOLEAN, contained : BOOLEAN])

VARIABLES
    delivery,     \* [Callers -> delivery], the progress of Deliver
    callback,     \* [Observer \X 1..MaxSeq -> phase], the callback goroutines
    published     \* history: the observations numbered so far

observing == << delivery, callback, published >>

\* Copy: nil observers are dropped.
Kept(observers, o) == IF o.nil THEN observers ELSE Append(observers, o)

Observers ==
    LET kept[i \in 0 .. Len(Attached)] ==
            IF i = 0 THEN << >> ELSE Kept(kept[i - 1], Attached[i])
    IN  kept[Len(Attached)]

Observer == 1 .. Len(Observers)

Seqs == 1 .. MaxSeq

NoDelivery == [batch |-> << >>, at |-> 0, observer |-> 0, phase |-> None,
               failures |-> {}]

InitObserving ==
    /\ delivery = [c \in Callers |-> NoDelivery]
    /\ callback = [os \in Observer \X Seqs |-> None]
    /\ published = << >>

\* Deliver is entered; without observations or observers it returns at once.
Delivering(batch) ==
    [NoDelivery EXCEPT !.batch = batch, !.at = 1, !.observer = 1, !.phase = "next"]

\* The callback that the delivery of a caller has come to.
Current(c) == << delivery[c].observer, delivery[c].batch[delivery[c].at].seq >>

\* Mutant of Advanced: one observer gets the whole batch before the next one.
AdvancedObserverFirst(d) ==
    CASE d.at < Len(d.batch) -> [d EXCEPT !.at = @ + 1, !.phase = "next"]
      [] d.at = Len(d.batch) /\ d.observer < Len(Observers) ->
             [d EXCEPT !.at = 1, !.observer = @ + 1, !.phase = "next"]
      [] OTHER -> [d EXCEPT !.phase = "done"]

\* The two loops of Deliver: observations outside, observers inside.
Advanced(d) ==
    CASE d.observer < Len(Observers) -> [d EXCEPT !.observer = @ + 1, !.phase = "next"]
      [] d.observer = Len(Observers) /\ d.at < Len(d.batch) ->
             [d EXCEPT !.at = @ + 1, !.observer = 1, !.phase = "next"]
      [] OTHER -> [d EXCEPT !.phase = "done"]

\* Mutant of Failed: a failure ends the delivery.
FailureStops(d) ==
    IF Observers[d.observer].contained THEN [d EXCEPT !.phase = "reporting"]
    ELSE [d EXCEPT !.phase = "done",
                   !.failures = @ \cup {<< d.observer, d.batch[d.at].seq >>}]

\* Mutant of Failed: the failure is not kept.
FailureForgotten(d) == Advanced(d)

\* A failed callback: a contained one is reported first, the failure of another
\* is kept, and either way the deliveries that follow are made.
Failed(d) ==
    IF Observers[d.observer].contained THEN [d EXCEPT !.phase = "reporting"]
    ELSE Advanced([d EXCEPT !.failures = @ \cup {<< d.observer, d.batch[d.at].seq >>}])

-----------------------------------------------------------------------------
\* Call and Start: the callback gets a goroutine, which has not run yet.
StartCallback(c) ==
    /\ delivery[c].phase = "next"
    /\ callback' = [callback EXCEPT ![Current(c)] = "ready"]
    /\ delivery' = [delivery EXCEPT ![c].phase = "waiting"]
    /\ UNCHANGED published

\* The goroutine runs, and calls the observer.
CallbackBegins(o, n) ==
    /\ callback[<< o, n >>] = "ready"
    /\ callback' = [callback EXCEPT ![<< o, n >>] = "running"]
    /\ UNCHANGED << delivery, published >>

\* The observer returns, panics or calls Goexit; the outcome goes to the
\* channel, whether or not anyone waits for it.
CallbackEnds(o, n) ==
    /\ callback[<< o, n >>] = "running"
    /\ \E outcome \in {"ok", "failed"} :
           callback' = [callback EXCEPT ![<< o, n >>] = outcome]
    /\ UNCHANGED << delivery, published >>

\* Mutant of Collect: the outcome of the callback is not awaited.
CollectUnfinished(c) ==
    /\ delivery[c].phase = "waiting"
    /\ delivery' = [delivery EXCEPT ![c] = Advanced(@)]
    /\ UNCHANGED << callback, published >>

\* Fire receives the outcome of the callback it waits for.
Collect(c) ==
    /\ delivery[c].phase = "waiting"
    /\ \/ /\ callback[Current(c)] = "ok"
          /\ delivery' = [delivery EXCEPT ![c] = Advanced(@)]
       \/ /\ callback[Current(c)] = "failed"
          /\ delivery' = [delivery EXCEPT ![c] = Failed(@)]
    /\ UNCHANGED << callback, published >>

\* Mutant of Expire: the timer is looked at only once the callback has ended.
ExpireAfterEnd(c) ==
    /\ delivery[c].phase = "waiting"
    /\ Observers[delivery[c].observer].timed
    /\ callback[Current(c)] \in {"ok", "failed"}
    /\ delivery' = [delivery EXCEPT ![c] = Failed(@)]
    /\ UNCHANGED << callback, published >>

\* The timer of a TimeoutObserver fires; select may prefer it to an outcome that
\* is there already.
Expire(c) ==
    /\ delivery[c].phase = "waiting"
    /\ Observers[delivery[c].observer].timed
    /\ delivery' = [delivery EXCEPT ![c] = Failed(@)]
    /\ UNCHANGED << callback, published >>

\* The isolated call of a ContainedObserver's report ends, however it does.
ReportEnds(c) ==
    /\ delivery[c].phase = "reporting"
    /\ delivery' = [delivery EXCEPT ![c] = Advanced(@)]
    /\ UNCHANGED << callback, published >>

Deliver(c) ==
    \/ StartCallback(c)
    \/ Collect(c)
    \/ Expire(c)
    \/ ReportEnds(c)

Callback == \E o \in Observer, n \in Seqs : CallbackBegins(o, n) \/ CallbackEnds(o, n)

-----------------------------------------------------------------------------
Offered(o, n) == callback[<< o, n >>] # None

Ended(o, n) == callback[<< o, n >>] \in {"ok", "failed"}

\* Observation m at observer p comes before observation n at observer o.
Before(p, m, o, n) == m < n \/ (m = n /\ p < o)

(* Observations are delivered by Seq and then by attachment order, across    *)
(* all Fires of the execution: no callback is started before every earlier   *)
(* one was, whatever failed meanwhile, and an observer without a timeout has *)
(* finished first (internal/observer/delivery.go, Deliver; observe.go,       *)
(* Observer).                                                              *)
DeliveredInOrder ==
    \A o \in Observer, p \in Observer, n \in Seqs, m \in Seqs :
        Offered(o, n) /\ Before(p, m, o, n) =>
            /\ Offered(p, m)
            /\ Observers[p].timed \/ Ended(p, m)
=============================================================================
