------------------------------- MODULE Records --------------------------------
(***************************************************************************)
(* The lifecycle Records of a Supervisor (supervised/record.go): every       *)
(* outcome is stamped with a sequence number under the lock at the instant   *)
(* it is decided, and published later, by then perhaps behind younger ones;  *)
(* a bounded history keeps the newest.  The counter is saved in snapshots    *)
(* and restored from them, and work is refused below its ceiling.            *)
(*                                                                         *)
(* A caller is a goroutine that calls the Supervisor, or that publishes for  *)
(* it: the timer of a verification, a callback that fails late.  Of an       *)
(* outcome the module keeps its stamp, of a snapshot the counter; a closure  *)
(* writes it in one step here (Supervisor has the steps), and which mode     *)
(* allows which operation is left out.                                      *)
(***************************************************************************)
EXTENDS Integers, Sequences, SequencesExt, FiniteSets

CONSTANTS
    Callers,
    Ceiling,         \* math.MaxUint64
    Margin,          \* recordSeqMargin
    MaxRecords,      \* Limits.MaxRecords, resolved
    MaxRestarts,     \* bound: restarts of a behaviour
    MaxDecisions     \* bound: outcomes of a behaviour

None == "none"

ASSUME RecordsAssumption ==
    /\ None \notin Callers
    /\ Ceiling \in Nat /\ Margin \in 1 .. Ceiling
    /\ MaxRecords \in Nat \ {0}
    /\ MaxRestarts \in Nat /\ MaxDecisions \in Nat

VARIABLES
    nextRecord,     \* Supervisor.nextRecord
    records,        \* Supervisor.records, as the Seq of each
    dropped,        \* Supervisor.droppedRecords
    operation,      \* the caller of Supervisor.operation, or None
    incarnation,    \* Supervisor.incarnationID; fresh at every restoration
    disk,           \* Snapshot.Records of the last snapshot saved; 0 if none is
    calls,          \* [Callers -> the call in progress]
    decisions,      \* history: the outcomes of all incarnations as decided
    published       \* history: the Seqs that this incarnation published

vars == << nextRecord, records, dropped, operation, incarnation, disk, calls,
           decisions, published >>

\* todo are the stamps a call has to publish; 0 is one marked exhausted.
IdleCall == [pc |-> "idle", todo |-> << >>]

Init ==
    /\ nextRecord = 0
    /\ records = << >>
    /\ dropped = 0
    /\ operation = None
    /\ incarnation = 0
    /\ disk = 0
    /\ calls = [c \in Callers |-> IdleCall]
    /\ decisions = << >>
    /\ published = {}

-----------------------------------------------------------------------------
\* stampLocked: the number of the next outcome; at the ceiling it is exhausted.
Stamp == IF nextRecord = Ceiling THEN 0 ELSE nextRecord + 1

\* countersExhaustedLocked and the test of restoration, for this counter.
Exhausted(counter) == counter >= Ceiling - Margin

\* An outcome is decided and stamped under the lock.
Decide(admitted) ==
    /\ Len(decisions) < MaxDecisions
    /\ nextRecord' = IF Stamp = 0 THEN nextRecord ELSE Stamp
    /\ decisions' = Append(decisions, [incarnation |-> incarnation, seq |-> Stamp,
                                       admitted |-> admitted])

\* What follows a decision: a durable one is written before it is published.
Following(durable) == IF durable THEN "closing" ELSE "publishing"

\* A call that begins no operation: it is refused, or it is a Trip, an expiry or
\* a late cause, of which the first two may have latched a Fault.
DecideAtOnce(c) ==
    /\ calls[c].pc = "idle"
    /\ Decide(FALSE)
    /\ \E durable \in BOOLEAN :
           calls' = [calls EXCEPT ![c] = [pc |-> Following(durable), todo |-> << Stamp >>]]
    /\ UNCHANGED << records, dropped, operation, incarnation, disk, published >>

\* Start, Issue, Verify or Recover begins an operation.
Begin(c) ==
    /\ calls[c].pc = "idle"
    /\ operation = None
    /\ ~Exhausted(nextRecord)
    /\ operation' = c
    /\ calls' = [calls EXCEPT ![c].pc = "running"]
    /\ UNCHANGED << nextRecord, records, dropped, incarnation, disk, decisions, published >>

\* With the counter exhausted the operation only latches a Fault.
BeginExhausted(c) ==
    /\ calls[c].pc = "idle"
    /\ operation = None
    /\ Exhausted(nextRecord)
    /\ operation' = c
    /\ Decide(FALSE)
    /\ calls' = [calls EXCEPT ![c] = [pc |-> "closing", todo |-> << Stamp >>]]
    /\ UNCHANGED << records, dropped, incarnation, disk, published >>

\* The operation of a call commits, ends or faults.
DecideOperation(c) ==
    /\ calls[c].pc = "running"
    /\ Decide(TRUE)
    /\ \E durable \in BOOLEAN :
           calls' = [calls EXCEPT ![c] = [pc |-> Following(durable), todo |-> << Stamp >>]]
    /\ UNCHANGED << records, dropped, operation, incarnation, disk, published >>

\* closeJournal: the write succeeds, or it fails or times out, saved or not, which
\* is an outcome of its own and published before the one that it is about.
CloseJournal(c) ==
    /\ calls[c].pc = "closing"
    /\ \/ /\ disk' = nextRecord
          /\ calls' = [calls EXCEPT ![c].pc = "publishing"]
          /\ UNCHANGED << nextRecord, decisions >>
       \/ /\ disk' \in {disk, nextRecord}
          /\ Decide(FALSE)
          /\ calls' = [calls EXCEPT ![c].pc = "publishing", ![c].todo = << Stamp >> \o @]
    /\ UNCHANGED << records, dropped, operation, incarnation, published >>

-----------------------------------------------------------------------------
\* What the binary search finds in the sorted history: how many records are older.
Older(history, seq) ==
    CHOOSE k \in 0 .. Len(history) :
        /\ \A i \in 1 .. k : history[i] < seq
        /\ \A i \in k + 1 .. Len(history) : history[i] > seq

\* The history with a record behind those that are older.
Inserted(history, seq) == InsertAt(history, Older(history, seq) + 1, seq)

\* Mutant of Retain: records are kept by arrival.
RetainLast(history, seq) ==
    Append(IF Len(history) = MaxRecords THEN Tail(history) ELSE history, seq)

\* appendRecordLocked: a full history loses its oldest, which may be the new one.
Retain(history, seq) ==
    IF seq \in ToSet(history) THEN history
    ELSE IF Len(history) < MaxRecords THEN Inserted(history, seq)
    ELSE Tail(Inserted(history, seq))

\* Mutant of Drops: a record that comes too late is not counted.
DropsEvicted(history, seq) == seq # 0 /\ Len(history) = MaxRecords /\ seq > history[1]

\* Publishing costs a record: one of the history, or one without a number.
Drops(history, seq) ==
    seq = 0 \/ (seq \notin ToSet(history) /\ Len(history) = MaxRecords)

\* recordResult, the delivery to the Recorder aside.
Publish(c) ==
    LET seq == Head(calls[c].todo)
    IN
    /\ calls[c].pc = "publishing"
    /\ calls[c].todo # << >>
    /\ records' = IF seq = 0 THEN records ELSE Retain(records, seq)
    /\ dropped' = IF Drops(records, seq) /\ dropped < Ceiling THEN dropped + 1 ELSE dropped
    /\ published' = IF seq = 0 THEN published ELSE published \cup {seq}
    /\ calls' = [calls EXCEPT ![c].todo = Tail(@)]
    /\ UNCHANGED << nextRecord, operation, incarnation, disk, decisions >>

\* The call returns and releases its operation.
Return(c) ==
    /\ calls[c].pc = "publishing"
    /\ calls[c].todo = << >>
    /\ operation' = IF operation = c THEN None ELSE operation
    /\ calls' = [calls EXCEPT ![c] = IdleCall]
    /\ UNCHANGED << nextRecord, records, dropped, incarnation, disk, decisions, published >>

\* Mutant of NextIncarnation: a restoration goes on with the old identity.
SameIncarnation == incarnation

\* The identity of the next incarnation: crypto/rand, never one used before.
NextIncarnation == incarnation + 1

\* The process ends and Restore builds a Supervisor from the snapshot saved last,
\* unless its counter is exhausted; with no snapshot, New builds one.
Restart ==
    /\ incarnation < MaxRestarts
    /\ ~Exhausted(disk)
    /\ nextRecord' = disk
    /\ incarnation' = NextIncarnation
    /\ records' = << >>
    /\ dropped' = 0
    /\ operation' = None
    /\ calls' = [c \in Callers |-> IdleCall]
    /\ published' = {}
    /\ UNCHANGED << disk, decisions >>

Next ==
    \/ \E c \in Callers :
          \/ DecideAtOnce(c)
          \/ Begin(c)
          \/ BeginExhausted(c)
          \/ DecideOperation(c)
          \/ CloseJournal(c)
          \/ Publish(c)
          \/ Return(c)
    \/ Restart

Spec == Init /\ [][Next]_vars

-----------------------------------------------------------------------------
(* (IncarnationID, Seq) identifies an outcome for good, and Seq orders the   *)
(* outcomes of an incarnation as they were decided: no number is given       *)
(* twice, not at the ceiling and not by an incarnation that was restored     *)
(* from a snapshot older than what the last one had stamped (record.go,      *)
(* Record, stampLocked; execution.go, RestoreWithOptions).                  *)
IdentitiesNeverReused ==
    \A i \in DOMAIN decisions, j \in DOMAIN decisions :
        /\ i < j
        /\ decisions[i].incarnation = decisions[j].incarnation
        /\ decisions[j].seq # 0
        => decisions[i].seq \in 1 .. decisions[j].seq - 1

(* The history holds the newest of the Records published, oldest first, in   *)
(* whatever order they were published (record.go, appendRecordLocked).       *)
HistoryKeepsNewest ==
    /\ ToSet(records) \subseteq published
    /\ Len(records) = (IF Cardinality(published) < MaxRecords THEN Cardinality(published)
                                                              ELSE MaxRecords)
    /\ \A i \in 1 .. Len(records) - 1 : records[i] < records[i + 1]
    /\ \A seq \in published \ ToSet(records) : seq < records[1]

(* Every outcome of this incarnation is in the history, counted as dropped,  *)
(* or still with the call that publishes it (record.go, recordResult,        *)
(* appendRecordLocked; Status.RecordsDropped).                              *)
OutcomesAccounted ==
    LET decided == {i \in DOMAIN decisions : decisions[i].incarnation = incarnation}
        waiting == UNION {{<< c, j >> : j \in DOMAIN calls[c].todo} : c \in Callers}
    IN  dropped < Ceiling =>
            Cardinality(decided) = Len(records) + dropped + Cardinality(waiting)

(* The margin kept below the ceiling leaves a number for the outcome of      *)
(* every operation that was admitted (execution.go, recordSeqMargin: the     *)
(* stamps an operation in flight can still produce never exhaust the         *)
(* counter).                                                               *)
AdmittedOutcomesNumbered ==
    \A i \in DOMAIN decisions : decisions[i].admitted => decisions[i].seq # 0
=============================================================================
