---------------------------- MODULE RecordsProofs ----------------------------
(***************************************************************************)
(* That the identities of Records are never reused, that the history keeps    *)
(* the newest and that no outcome is lost unaccounted (Records), proved for  *)
(* all callers, ceilings, margins, histories and restarts.                  *)
(***************************************************************************)
EXTENDS Records, FiniteSetTheorems, SequenceTheorems, TLAPS

Outcome == [incarnation : Nat, seq : 0 .. Ceiling, admitted : BOOLEAN]

\* The types that the order of numbers depends on.
CounterTypes ==
    /\ nextRecord \in 0 .. Ceiling
    /\ disk \in 0 .. Ceiling
    /\ incarnation \in Nat
    /\ decisions \in Seq(Outcome)

\* The counter is the last number that this incarnation gave; a number was
\* refused to an outcome only at the ceiling, where the counter stays.
CounterCovers ==
    \A i \in 1 .. Len(decisions) :
        /\ decisions[i].incarnation <= incarnation
        /\ decisions[i].incarnation = incarnation =>
              /\ decisions[i].seq <= nextRecord
              /\ decisions[i].seq = 0 => nextRecord = Ceiling

\* Earlier outcomes of an incarnation have smaller numbers.
NumbersRise ==
    \A i, j \in 1 .. Len(decisions) :
        /\ i < j
        /\ decisions[i].incarnation = decisions[j].incarnation
        /\ decisions[j].seq # 0
        => decisions[i].seq \in 1 .. decisions[j].seq - 1

RInv == CounterTypes /\ CounterCovers /\ NumbersRise

-----------------------------------------------------------------------------
(* What a decision appends is numbered by the counter it leaves, or not at   *)
(* all at the ceiling (record.go, stampLocked).                              *)
LEMMA StampFollowsCounter ==
    ASSUME CounterTypes
    PROVE  /\ Stamp \in 0 .. Ceiling
           /\ Stamp = 0 => nextRecord = Ceiling
           /\ Stamp # 0 => Stamp = nextRecord + 1
BY RecordsAssumption DEF CounterTypes, Stamp

(* A decision keeps the numbers of its incarnation rising (record.go,        *)
(* stampLocked).                                                            *)
LEMMA DecideKeeps ==
    ASSUME RInv, NEW admitted \in BOOLEAN, Decide(admitted),
           disk' \in {disk, nextRecord}, UNCHANGED incarnation
    PROVE  RInv'
<1> DEFINE outcome == [incarnation |-> incarnation, seq |-> Stamp, admitted |-> admitted]
           n == Len(decisions)
<1>1. /\ Stamp \in 0 .. Ceiling
      /\ Stamp = 0 => nextRecord = Ceiling
      /\ Stamp # 0 => Stamp = nextRecord + 1
    BY StampFollowsCounter DEF RInv
<1>2. outcome \in Outcome
    BY <1>1 DEF RInv, CounterTypes, Outcome
<1>3. decisions' = Append(decisions, outcome) /\ decisions \in Seq(Outcome)
    BY DEF Decide, RInv, CounterTypes
<1> HIDE DEF outcome
<1>4. /\ decisions' \in Seq(Outcome)
      /\ n \in Nat
      /\ Len(decisions') = n + 1
      /\ \A i \in 1 .. n : decisions'[i] = decisions[i]
      /\ decisions'[n + 1] = outcome
    BY <1>2, <1>3
<1>5. /\ outcome.incarnation = incarnation
      /\ outcome.seq = Stamp
    BY DEF outcome
<1>6. nextRecord' = IF Stamp = 0 THEN nextRecord ELSE Stamp
    BY DEF Decide
<1>7. CounterTypes'
    BY <1>1, <1>4, <1>6 DEF RInv, CounterTypes
<1> HIDE DEF n
<1>8. \A i \in 1 .. n : decisions[i] \in Outcome
    BY <1>3 DEF n
<1>9. CounterCovers'
  <2> SUFFICES ASSUME NEW i \in 1 .. n + 1
               PROVE  /\ decisions'[i].incarnation <= incarnation
                      /\ decisions'[i].incarnation = incarnation =>
                            /\ decisions'[i].seq <= nextRecord'
                            /\ decisions'[i].seq = 0 => nextRecord' = Ceiling
    BY <1>4 DEF CounterCovers
  <2>1. CASE i = n + 1
    BY <2>1, <1>1, <1>4, <1>5, <1>6 DEF RInv, CounterTypes
  <2>2. CASE i \in 1 .. n
    <3>1. decisions'[i] = decisions[i] /\ decisions[i] \in Outcome
        BY <2>2, <1>4, <1>8
    <3>2. /\ decisions[i].incarnation <= incarnation
          /\ decisions[i].incarnation = incarnation =>
                /\ decisions[i].seq <= nextRecord
                /\ decisions[i].seq = 0 => nextRecord = Ceiling
        BY <2>2 DEF RInv, CounterCovers, n
    <3> QED
        BY <3>1, <3>2, <1>1, <1>6 DEF RInv, CounterTypes, Outcome
  <2> QED
    BY <2>1, <2>2, <1>4
<1>10. NumbersRise'
  <2> SUFFICES ASSUME NEW i \in 1 .. n + 1, NEW j \in 1 .. n + 1,
                      i < j,
                      decisions'[i].incarnation = decisions'[j].incarnation,
                      decisions'[j].seq # 0
               PROVE  decisions'[i].seq \in 1 .. decisions'[j].seq - 1
    BY <1>4 DEF NumbersRise
  <2>1. i \in 1 .. n /\ decisions'[i] = decisions[i] /\ decisions[i] \in Outcome
    BY <1>4, <1>8
  <2>2. CASE j = n + 1
    <3>1. decisions[i].incarnation = incarnation
        BY <2>1, <2>2, <1>4, <1>5
    <3>2. Stamp # 0 /\ decisions'[j].seq = Stamp
        BY <2>2, <1>4, <1>5
    <3>3. decisions[i].seq <= nextRecord /\ (decisions[i].seq = 0 => nextRecord = Ceiling)
        BY <2>1, <3>1 DEF RInv, CounterCovers, n
    <3>4. nextRecord # Ceiling
        BY <3>2, <1>1, RecordsAssumption DEF RInv, CounterTypes
    <3> QED
        BY <2>1, <3>2, <3>3, <3>4, <1>1 DEF Outcome, RInv, CounterTypes
  <2>3. CASE j \in 1 .. n
    <3>1. decisions'[j] = decisions[j]
        BY <2>3, <1>4
    <3> QED
        BY <2>1, <2>3, <3>1 DEF RInv, NumbersRise, n
  <2> QED
    BY <2>2, <2>3, <1>4
<1> QED
    BY <1>7, <1>9, <1>10 DEF RInv

(* What decides nothing keeps the numbers, also when it saves the counter.   *)
LEMMA OthersKeep ==
    ASSUME RInv, UNCHANGED << nextRecord, incarnation, decisions >>,
           disk' \in {disk, nextRecord}
    PROVE  RInv'
BY DEF RInv, CounterTypes, CounterCovers, NumbersRise

(* An incarnation begins with no outcome of its own, whatever counter it is  *)
(* restored with (execution.go, RestoreWithOptions).                        *)
LEMMA RestartKeeps ==
    ASSUME RInv, Restart
    PROVE  RInv'
<1>1. /\ nextRecord' = disk /\ disk' = disk
      /\ incarnation' = incarnation + 1
      /\ decisions' = decisions
    BY DEF Restart, NextIncarnation
<1>2. CounterTypes'
    BY <1>1 DEF RInv, CounterTypes
<1>3. CounterCovers'
  <2> SUFFICES ASSUME NEW i \in 1 .. Len(decisions)
               PROVE  /\ decisions[i].incarnation <= incarnation + 1
                      /\ decisions[i].incarnation # incarnation + 1
    BY <1>1 DEF CounterCovers
  <2>1. decisions[i].incarnation <= incarnation
    BY DEF RInv, CounterCovers
  <2>2. decisions[i] \in Outcome /\ incarnation \in Nat
    BY DEF RInv, CounterTypes
  <2> QED
    BY <2>1, <2>2 DEF Outcome
<1>4. NumbersRise'
    BY <1>1 DEF RInv, NumbersRise
<1> QED
    BY <1>2, <1>3, <1>4 DEF RInv

-----------------------------------------------------------------------------
(* The first Supervisor has given no number (execution.go, New).             *)
LEMMA RecordsInit == Init => RInv
BY RecordsAssumption DEF Init, RInv, CounterTypes, CounterCovers, NumbersRise

(* Every step keeps the numbers of an incarnation rising (record.go,         *)
(* stampLocked).                                                            *)
LEMMA RecordsStep == RInv /\ [Next]_vars => RInv'
<1> SUFFICES ASSUME RInv, [Next]_vars
             PROVE  RInv'
    OBVIOUS
<1>1. ASSUME NEW c \in Callers, DecideAtOnce(c)
      PROVE  RInv'
    BY <1>1, DecideKeeps DEF DecideAtOnce
<1>2. ASSUME NEW c \in Callers, Begin(c)
      PROVE  RInv'
    BY <1>2, OthersKeep DEF Begin
<1>3. ASSUME NEW c \in Callers, BeginExhausted(c)
      PROVE  RInv'
    BY <1>3, DecideKeeps DEF BeginExhausted
<1>4. ASSUME NEW c \in Callers, DecideOperation(c)
      PROVE  RInv'
    BY <1>4, DecideKeeps DEF DecideOperation
<1>5. ASSUME NEW c \in Callers, CloseJournal(c)
      PROVE  RInv'
  <2>1. CASE UNCHANGED << nextRecord, decisions >> /\ disk' = nextRecord
    BY <1>5, <2>1, OthersKeep DEF CloseJournal
  <2>2. CASE Decide(FALSE) /\ disk' \in {disk, nextRecord}
    BY <1>5, <2>2, DecideKeeps DEF CloseJournal
  <2> QED
    BY <1>5, <2>1, <2>2 DEF CloseJournal
<1>6. ASSUME NEW c \in Callers, Publish(c)
      PROVE  RInv'
    BY <1>6, OthersKeep DEF Publish
<1>7. ASSUME NEW c \in Callers, Return(c)
      PROVE  RInv'
    BY <1>7, OthersKeep DEF Return
<1>8. CASE Restart
    BY <1>8, RestartKeeps
<1>9. CASE UNCHANGED vars
    BY <1>9, OthersKeep DEF vars
<1> QED
    BY <1>1, <1>2, <1>3, <1>4, <1>5, <1>6, <1>7, <1>8, <1>9 DEF Next

(* The counter covers the numbers its incarnation gave, in every reachable   *)
(* state (record.go, stampLocked; execution.go, RestoreWithOptions).         *)
THEOREM RecordsInductive == Spec => []RInv
BY RecordsInit, RecordsStep, PTL DEF Spec

(* A number is never given twice in one incarnation, and numbers follow the  *)
(* order of the decisions, however often the process is restored from an old *)
(* snapshot (record.go, Record).                                            *)
THEOREM IdentitiesUnique == Spec => []IdentitiesNeverReused
<1>1. RInv => IdentitiesNeverReused
    BY DEF RInv, CounterTypes, NumbersRise, IdentitiesNeverReused
<1> QED
    BY <1>1, RecordsInductive, PTL

-----------------------------------------------------------------------------
(* History.                                                                 *)

\* The invariant of a history h of the published numbers.
History(h, numbers) ==
    /\ h \in Seq(Nat) /\ Len(h) <= MaxRecords
    /\ numbers \in SUBSET Nat /\ IsFiniteSet(numbers)
    /\ \A i \in 1 .. Len(h) : h[i] \in numbers
    /\ \A i, j \in 1 .. Len(h) : i < j => h[i] < h[j]
    /\ \A s \in numbers :
          \/ \E i \in 1 .. Len(h) : h[i] = s
          \/ Len(h) = MaxRecords /\ s < h[1]
    /\ Len(h) = IF Cardinality(numbers) < MaxRecords THEN Cardinality(numbers)
                                                     ELSE MaxRecords

CallType == [pc : {"idle", "running", "closing", "publishing"}, todo : Seq(0 .. Ceiling)]

\* The numbers that wait for publication are of this incarnation, given once, and
\* not published yet.
Pending ==
    \A c \in Callers, i \in Nat :
        i \in 1 .. Len(calls[c].todo) /\ calls[c].todo[i] # 0 =>
            /\ calls[c].todo[i] <= nextRecord /\ calls[c].todo[i] \notin published
            /\ \A d \in Callers, j \in Nat :
                  j \in 1 .. Len(calls[d].todo) /\ calls[d].todo[j] = calls[c].todo[i]
                  => d = c /\ j = i

CallsInv ==
    /\ calls \in [Callers -> CallType]
    /\ \A c \in Callers : calls[c].pc \in {"idle", "running"} => calls[c].todo = << >>

PublishedInv == \A s \in published : s \in 1 .. nextRecord

HInv == CallsInv /\ Pending /\ PublishedInv /\ History(records, published)

Decided == {i \in DOMAIN decisions : decisions[i].incarnation = incarnation}

Waiting == UNION {{<< c, j >> : j \in DOMAIN calls[c].todo} : c \in Callers}

\* The outcomes of the incarnation, as far as dropped can count.
AInv ==
    /\ IsFiniteSet(Decided) /\ IsFiniteSet(Waiting) /\ dropped \in 0 .. Ceiling
    /\ dropped < Ceiling =>
          Cardinality(Decided) = Len(records) + dropped + Cardinality(Waiting)

\* Only the lemma Least of the module is used, which has no charts in it.
Search == INSTANCE OperatorLemmas WITH Invalid <- {}

(* In a sorted history without the number, the binary search finds how many  *)
(* are smaller (record.go, appendRecordLocked).                              *)
LEMMA OlderFacts ==
    ASSUME NEW h \in Seq(Nat), NEW s \in Nat,
           \A i, j \in 1 .. Len(h) : i < j => h[i] < h[j],
           \A i \in 1 .. Len(h) : h[i] # s
    PROVE  /\ Older(h, s) \in 0 .. Len(h)
           /\ \A i \in 1 .. Older(h, s) : h[i] < s
           /\ \A i \in Older(h, s) + 1 .. Len(h) : h[i] > s
<1> DEFINE T == {m \in 1 .. Len(h) + 1 : m = Len(h) + 1 \/ h[m] > s}
<1>1. Len(h) \in Nat /\ \A i \in 1 .. Len(h) : h[i] \in Nat
    BY LenProperties
<1>2. PICK m \in T : \A i \in T : m <= i
  <2>1. T \in SUBSET Nat /\ Len(h) + 1 \in T
      BY <1>1
  <2> HIDE DEF T
  <2> QED
      BY <2>1, Search!Least
<1> DEFINE k == m - 1
<1>3. k \in 0 .. Len(h) /\ k + 1 = m
    BY <1>1
<1>4. ASSUME NEW i \in 1 .. k PROVE h[i] < s
  <2>1. i \in 1 .. Len(h) /\ i < m
      BY <1>1, <1>3
  <2>2. i \notin T
    <3> HIDE DEF T
    <3> QED
        BY <1>2, <1>3, <2>1
  <2>3. ~(h[i] > s) /\ h[i] # s /\ h[i] \in Nat
      BY <1>1, <2>1, <2>2
  <2> QED
      BY <2>3
<1>5. ASSUME NEW i \in k + 1 .. Len(h) PROVE h[i] > s
  <2>1. m \in 1 .. Len(h) /\ i \in 1 .. Len(h) /\ m <= i
      BY <1>1, <1>3
  <2>2. h[m] > s /\ h[m] \in Nat /\ h[i] \in Nat
      BY <1>1, <2>1
  <2>3. m = i \/ h[m] < h[i]
      BY <1>1, <2>1
  <2> QED
      BY <2>2, <2>3
<1> HIDE DEF k
<1> QED
    BY <1>3, <1>4, <1>5, Zenon DEF Older

(* A record goes behind the older ones and before the newer ones (record.go,  *)
(* appendRecordLocked).                                                     *)
LEMMA InsertedFacts ==
    ASSUME NEW h \in Seq(Nat), NEW s \in Nat,
           \A i, j \in 1 .. Len(h) : i < j => h[i] < h[j],
           \A i \in 1 .. Len(h) : h[i] # s
    PROVE  /\ Inserted(h, s) \in Seq(Nat) /\ Len(Inserted(h, s)) = Len(h) + 1
           /\ \A i, j \in 1 .. Len(h) + 1 : i < j => Inserted(h, s)[i] < Inserted(h, s)[j]
           /\ \E i \in 1 .. Len(h) + 1 : Inserted(h, s)[i] = s
           /\ \A i \in 1 .. Len(h) : \E j \in 1 .. Len(h) + 1 : Inserted(h, s)[j] = h[i]
           /\ \A j \in 1 .. Len(h) + 1 :
                 Inserted(h, s)[j] = s \/ \E i \in 1 .. Len(h) : Inserted(h, s)[j] = h[i]
           /\ \A i \in 1 .. Len(h) : h[i] <= Inserted(h, s)[i + 1]
<1>1. PICK k \in 0 .. Len(h) : /\ k = Older(h, s)
                               /\ \A i \in 1 .. k : h[i] < s
                               /\ \A i \in k + 1 .. Len(h) : h[i] > s
    BY OlderFacts
<1> DEFINE a == SubSeq(h, 1, k)
           b == SubSeq(h, k + 1, Len(h))
           t == Inserted(h, s)
<1>2. Len(h) \in Nat /\ k \in Nat /\ \A i \in 1 .. Len(h) : h[i] \in Nat
    BY LenProperties
<1>3. a \in Seq(Nat) /\ Len(a) = k /\ \A i \in 1 .. k : a[i] = h[i]
    BY <1>2, SubSeqProperties
<1>4. b \in Seq(Nat) /\ Len(b) = Len(h) - k /\ \A i \in 1 .. Len(h) - k : b[i] = h[k + i]
    BY <1>2, SubSeqProperties
<1>5. t = a \o << s >> \o b
  <2>1. (k + 1) - 1 = k
      BY <1>2
  <2>2. InsertAt(h, k + 1, s) = SubSeq(h, 1, (k + 1) - 1) \o << s >> \o SubSeq(h, k + 1, Len(h))
      BY DEF InsertAt
  <2>3. t = InsertAt(h, k + 1, s)
      BY <1>1 DEF Inserted
  <2> QED
      BY <2>1, <2>2, <2>3
<1> HIDE DEF a, b, t
<1> DEFINE c == a \o << s >>
<1>6. c \in Seq(Nat) /\ Len(c) = k + 1 /\ c[k + 1] = s /\ \A i \in 1 .. k : c[i] = h[i]
  <2>1. << s >> \in Seq(Nat) /\ Len(<< s >>) = 1 /\ << s >>[1] = s
      OBVIOUS
  <2>2. /\ c \in Seq(Nat) /\ Len(c) = Len(a) + Len(<< s >>)
        /\ \A i \in 1 .. Len(a) + Len(<< s >>) :
              c[i] = IF i <= Len(a) THEN a[i] ELSE << s >>[i - Len(a)]
      BY <1>3, <2>1, ConcatProperties
  <2>3. Len(c) = k + 1 /\ \A i \in 1 .. k + 1 : c[i] = IF i <= k THEN a[i] ELSE << s >>[i - k]
      BY <1>3, <2>1, <2>2
  <2>4. (k + 1) - k = 1 /\ ~(k + 1 <= k) /\ k + 1 \in 1 .. k + 1
      BY <1>2
  <2>5. c[k + 1] = s
      BY <2>1, <2>3, <2>4
  <2>6. ASSUME NEW i \in 1 .. k PROVE c[i] = h[i]
    <3>1. i \in 1 .. k + 1 /\ i <= k
        BY <1>2
    <3> QED
        BY <1>3, <2>3, <3>1
  <2> QED
      BY <2>2, <2>3, <2>5, <2>6
<1> HIDE DEF c
<1>7. /\ t \in Seq(Nat) /\ Len(t) = Len(h) + 1
      /\ \A i \in 1 .. k : t[i] = h[i]
      /\ t[k + 1] = s
      /\ \A i \in k + 1 .. Len(h) : t[i + 1] = h[i]
  <2>1. t = c \o b
      BY <1>5 DEF c
  <2>2. /\ t \in Seq(Nat) /\ Len(t) = Len(c) + Len(b)
        /\ \A i \in 1 .. Len(c) + Len(b) : t[i] = IF i <= Len(c) THEN c[i] ELSE b[i - Len(c)]
    <3>1. c \in Seq(Nat) /\ b \in Seq(Nat)
        BY <1>4, <1>6
    <3>2. /\ c \o b \in Seq(Nat) /\ Len(c \o b) = Len(c) + Len(b)
          /\ \A i \in 1 .. Len(c) + Len(b) :
                (c \o b)[i] = IF i <= Len(c) THEN c[i] ELSE b[i - Len(c)]
        BY <3>1, ConcatProperties
    <3> QED
        BY <2>1, <3>2
  <2>3. Len(c) + Len(b) = Len(h) + 1 /\ Len(c) = k + 1
      BY <1>2, <1>4, <1>6
  <2>4. \A i \in 1 .. Len(h) + 1 : t[i] = IF i <= k + 1 THEN c[i] ELSE b[i - (k + 1)]
      BY <2>2, <2>3
  <2>5. ASSUME NEW i \in 1 .. k PROVE t[i] = h[i]
    <3>1. i \in 1 .. Len(h) + 1 /\ i <= k + 1
        BY <1>2
    <3> QED
        BY <1>6, <2>4, <3>1
  <2>6. t[k + 1] = s
    <3>1. k + 1 \in 1 .. Len(h) + 1 /\ k + 1 <= k + 1
        BY <1>2
    <3> QED
        BY <1>6, <2>4, <3>1
  <2>7. ASSUME NEW i \in k + 1 .. Len(h) PROVE t[i + 1] = h[i]
    <3>1. /\ i + 1 \in 1 .. Len(h) + 1 /\ ~(i + 1 <= k + 1)
          /\ (i + 1) - (k + 1) = i - k /\ i - k \in 1 .. Len(h) - k /\ k + (i - k) = i
        BY <1>2
    <3>2. t[i + 1] = b[i - k]
        BY <2>4, <3>1
    <3>3. b[i - k] = h[k + (i - k)]
        BY <1>4, <3>1
    <3> QED
        BY <3>1, <3>2, <3>3
  <2> QED
      BY <2>2, <2>3, <2>5, <2>6, <2>7
<1>8. ASSUME NEW i \in 1 .. Len(h) + 1, NEW j \in 1 .. Len(h) + 1, i < j
      PROVE  t[i] < t[j]
  <2>1. CASE j <= k
    <3>1. i \in 1 .. k /\ j \in 1 .. k /\ i \in 1 .. Len(h) /\ j \in 1 .. Len(h)
        BY <1>2, <1>8, <2>1
    <3> QED
        BY <1>7, <1>8, <3>1
  <2>2. CASE j = k + 1
    <3>1. i \in 1 .. k
        BY <1>2, <1>8, <2>2
    <3> QED
        BY <1>1, <1>7, <2>2, <3>1
  <2>3. CASE j > k + 1
    <3> DEFINE m == j - 1
    <3>1. m \in k + 1 .. Len(h) /\ m + 1 = j /\ m \in 1 .. Len(h)
        BY <1>2, <2>3
    <3> HIDE DEF m
    <3>2. t[j] = h[m]
        BY <1>7, <3>1
    <3>3. CASE i <= k
      <4>1. i \in 1 .. k /\ i \in 1 .. Len(h) /\ i < m
          BY <1>2, <3>1, <3>3
      <4>2. t[i] = h[i] /\ h[i] < h[m]
          BY <1>7, <3>1, <4>1
      <4> QED
          BY <3>2, <4>2
    <3>4. CASE i = k + 1
      <4>1. t[i] = s /\ h[m] > s /\ h[m] \in Nat
          BY <1>1, <1>2, <1>7, <3>1, <3>4
      <4> QED
          BY <3>2, <4>1
    <3>5. CASE i > k + 1
      <4> DEFINE l == i - 1
      <4>1. l \in k + 1 .. Len(h) /\ l + 1 = i /\ l \in 1 .. Len(h) /\ l < m
          BY <1>2, <1>8, <3>1, <3>5
      <4> HIDE DEF l
      <4>2. t[i] = h[l] /\ h[l] < h[m]
          BY <1>7, <3>1, <4>1
      <4> QED
          BY <3>2, <4>2
    <3> QED
        BY <1>2, <3>3, <3>4, <3>5
  <2> QED
      BY <1>2, <2>1, <2>2, <2>3
<1>9. \E i \in 1 .. Len(h) + 1 : t[i] = s
  <2>1. k + 1 \in 1 .. Len(h) + 1
      BY <1>2
  <2> QED
      BY <1>7, <2>1
<1>10. ASSUME NEW i \in 1 .. Len(h)
       PROVE  \E j \in 1 .. Len(h) + 1 : t[j] = h[i]
  <2>1. CASE i <= k
    <3>1. i \in 1 .. k /\ i \in 1 .. Len(h) + 1
        BY <1>2, <2>1
    <3> QED
        BY <1>7, <3>1
  <2>2. CASE i > k
    <3>1. i \in k + 1 .. Len(h) /\ i + 1 \in 1 .. Len(h) + 1
        BY <1>2, <2>2
    <3>2. t[i + 1] = h[i]
        BY <1>7, <3>1
    <3> QED
        BY <3>1, <3>2, Zenon
  <2> QED
      BY <1>2, <2>1, <2>2
<1>11. ASSUME NEW j \in 1 .. Len(h) + 1
       PROVE  t[j] = s \/ \E i \in 1 .. Len(h) : t[j] = h[i]
  <2>1. CASE j <= k
    <3>1. j \in 1 .. k /\ j \in 1 .. Len(h)
        BY <1>2, <2>1
    <3> QED
        BY <1>7, <3>1
  <2>2. CASE j = k + 1
      BY <1>7, <2>2
  <2>3. CASE j > k + 1
    <3> DEFINE m == j - 1
    <3>1. m \in k + 1 .. Len(h) /\ m + 1 = j /\ m \in 1 .. Len(h)
        BY <1>2, <2>3
    <3> HIDE DEF m
    <3>2. t[j] = h[m]
        BY <1>7, <3>1
    <3> QED
        BY <3>1, <3>2
  <2> QED
      BY <1>2, <2>1, <2>2, <2>3
<1>12. ASSUME NEW i \in 1 .. Len(h)
       PROVE  h[i] <= t[i + 1]
  <2>1. CASE i <= k
    <3>1. i \in 1 .. k /\ i \in 1 .. Len(h) + 1 /\ i + 1 \in 1 .. Len(h) + 1 /\ i < i + 1
        BY <1>2, <2>1
    <3>2. t[i] = h[i] /\ h[i] \in Nat
        BY <1>2, <1>7, <3>1
    <3>3. t[i] < t[i + 1]
        BY <1>8, <3>1
    <3>4. t[i + 1] \in Nat
      <4>1. \A j \in 1 .. Len(t) : t[j] \in Nat
          BY <1>7, LenProperties
      <4> QED
          BY <1>7, <3>1, <4>1
    <3> QED
        BY <3>2, <3>3, <3>4
  <2>2. CASE i > k
    <3>1. i \in k + 1 .. Len(h)
        BY <1>2, <2>2
    <3>2. t[i + 1] = h[i] /\ h[i] \in Nat
        BY <1>2, <1>7, <3>1
    <3> QED
        BY <3>2
  <2> QED
      BY <1>2, <2>1, <2>2
<1> QED
    BY <1>7, <1>8, <1>9, <1>10, <1>11, <1>12 DEF t

(* A record that was not published enters the history, which keeps the       *)
(* newest ones in order (record.go, appendRecordLocked).                     *)
LEMMA RetainKeeps ==
    ASSUME NEW h, NEW numbers, History(h, numbers), NEW s \in Nat, s \notin numbers
    PROVE  /\ s \notin ToSet(h)
           /\ Len(Retain(h, s)) = IF Len(h) < MaxRecords THEN Len(h) + 1 ELSE Len(h)
           /\ History(Retain(h, s), numbers \cup {s})
<1>1. h \in Seq(Nat) /\ Len(h) \in Nat /\ DOMAIN h = 1 .. Len(h)
    BY LenProperties DEF History
<1>len. /\ MaxRecords \in Nat /\ MaxRecords > 0
      /\ Len(h) \in Nat /\ Len(h) <= MaxRecords
    BY <1>1, RecordsAssumption DEF History
<1>2. \A i \in 1 .. Len(h) : h[i] # s
    BY DEF History
<1>3. s \notin ToSet(h)
    BY <1>1, <1>2 DEF ToSet
<1> DEFINE u == Inserted(h, s)
           all == numbers \cup {s}
<1>4. \A i, j \in 1 .. Len(h) : i < j => h[i] < h[j]
    BY DEF History
<1>5. /\ u \in Seq(Nat) /\ Len(u) = Len(h) + 1
      /\ \A i, j \in 1 .. Len(h) + 1 : i < j => u[i] < u[j]
      /\ \E i \in 1 .. Len(h) + 1 : u[i] = s
      /\ \A i \in 1 .. Len(h) : \E j \in 1 .. Len(h) + 1 : u[j] = h[i]
      /\ \A j \in 1 .. Len(h) + 1 : u[j] = s \/ \E i \in 1 .. Len(h) : u[j] = h[i]
      /\ \A i \in 1 .. Len(h) : h[i] <= u[i + 1]
    BY <1>1, <1>2, <1>4, InsertedFacts, Zenon
<1> HIDE DEF u
<1>6. /\ all \in SUBSET Nat /\ IsFiniteSet(all)
      /\ Cardinality(all) = Cardinality(numbers) + 1 /\ Cardinality(numbers) \in Nat
    BY FS_AddElement, FS_CardinalityType DEF History
<1>7. \A j \in 1 .. Len(h) + 1 : u[j] \in all /\ u[j] \in Nat
  <2> SUFFICES ASSUME NEW j \in 1 .. Len(h) + 1 PROVE u[j] \in all
      BY <1>6
  <2>1. CASE u[j] = s
      BY <2>1
  <2>2. CASE \E i \in 1 .. Len(h) : u[j] = h[i]
      BY <2>2 DEF History
  <2> QED
      BY <1>5, <2>1, <2>2
<1>8. Len(h) = IF Cardinality(numbers) < MaxRecords THEN Cardinality(numbers) ELSE MaxRecords
    BY DEF History
<1>9. ASSUME NEW x \in all
      PROVE  \/ \E j \in 1 .. Len(h) + 1 : u[j] = x
             \/ Len(h) = MaxRecords /\ x < h[1]
  <2>1. CASE x = s
      BY <1>5, <2>1
  <2>2. CASE x \in numbers
    <3>1. (\E i \in 1 .. Len(h) : h[i] = x) \/ (Len(h) = MaxRecords /\ x < h[1])
        BY <2>2 DEF History
    <3>2. CASE \E i \in 1 .. Len(h) : h[i] = x
      <4>1. PICK i \in 1 .. Len(h) : h[i] = x
          BY <3>2
      <4> QED
          BY <1>5, <4>1
    <3> QED
        BY <3>1, <3>2
  <2> QED
      BY <2>1, <2>2
<1>10. CASE Len(h) < MaxRecords
  <2>1. Retain(h, s) = u
      BY <1>3, <1>10 DEF Retain, u
  <2>2. Len(u) <= MaxRecords /\ Len(u) = Len(h) + 1
      BY <1>len, <1>5, <1>10
  <2>3. \A x \in all : \E j \in 1 .. Len(u) : u[j] = x
    <3>1. Len(h) # MaxRecords
        BY <1>len, <1>10
    <3> QED
        BY <1>9, <2>2, <3>1, Zenon
  <2>4. Len(u) = IF Cardinality(all) < MaxRecords THEN Cardinality(all) ELSE MaxRecords
      BY <1>len, <1>6, <1>8, <1>10, <2>2
  <2>5. History(u, all)
    <3>1. /\ \A i \in 1 .. Len(u) : u[i] \in all
          /\ \A i, j \in 1 .. Len(u) : i < j => u[i] < u[j]
        BY <1>5, <1>7, <2>2
    <3> HIDE DEF all
    <3> QED
        BY <1>5, <1>6, <2>2, <2>3, <2>4, <3>1, Zenon DEF History
  <2> QED
      BY <1>3, <1>10, <2>1, <2>2, <2>5
<1>11. CASE ~(Len(h) < MaxRecords)
  <2> DEFINE t == Tail(u)
  <2>1. Retain(h, s) = t
      BY <1>3, <1>11 DEF Retain, u
  <2>2. Len(h) = MaxRecords /\ 1 \in 1 .. Len(h) /\ 2 \in 1 .. Len(h) + 1
      BY <1>len, <1>11
  <2>3. u # << >>
      BY <1>1, <1>5
  <2>4. /\ t \in Seq(Nat) /\ Len(t) = Len(u) - 1
        /\ \A i \in 1 .. Len(u) - 1 : t[i] = u[i + 1]
      BY <1>5, <2>3, HeadTailProperties
  <2> HIDE DEF t
  <2>5. Len(t) = Len(h) /\ \A i \in 1 .. Len(h) : t[i] = u[i + 1]
      BY <1>1, <1>5, <2>4
  <2>6. \A i \in 1 .. Len(h) : t[i] \in all
    <3> SUFFICES ASSUME NEW i \in 1 .. Len(h) PROVE t[i] \in all
        OBVIOUS
    <3>1. i + 1 \in 1 .. Len(h) + 1
        BY <1>1
    <3> QED
        BY <1>7, <2>5, <3>1
  <2>7. ASSUME NEW i \in 1 .. Len(h), NEW j \in 1 .. Len(h), i < j
        PROVE  t[i] < t[j]
    <3>1. i + 1 \in 1 .. Len(h) + 1 /\ j + 1 \in 1 .. Len(h) + 1 /\ i + 1 < j + 1
        BY <1>1, <2>7
    <3> QED
        BY <1>5, <2>5, <3>1
  <2>8. ASSUME NEW x \in all
        PROVE  (\E i \in 1 .. Len(h) : t[i] = x) \/ x < t[1]
    <3>1. t[1] = u[2] /\ u[2] \in Nat
        BY <1>7, <2>2, <2>5
    <3>2. CASE \E j \in 1 .. Len(h) + 1 : u[j] = x
      <4>1. PICK j \in 1 .. Len(h) + 1 : u[j] = x
          BY <3>2
      <4>2. CASE j = 1
        <5>1. 1 \in 1 .. Len(h) + 1 /\ 1 < 2
            BY <1>1
        <5>2. u[1] < u[2]
            BY <1>5, <2>2, <5>1
        <5> QED
            BY <3>1, <4>1, <4>2, <5>2
      <4>3. CASE j # 1
        <5> DEFINE i == j - 1
        <5>1. i \in 1 .. Len(h) /\ i + 1 = j
            BY <1>1, <4>3
        <5> HIDE DEF i
        <5>2. t[i] = x
            BY <2>5, <4>1, <5>1
        <5> QED
            BY <5>1, <5>2
      <4> QED
          BY <4>2, <4>3
    <3>3. CASE x < h[1]
      <4>1. h[1] <= u[2] /\ h[1] \in Nat /\ x \in Nat
        <5>1. 1 + 1 = 2
            OBVIOUS
        <5>2. h[1] <= u[1 + 1]
            BY <1>5, <2>2
        <5> QED
            BY <1>1, <1>6, <2>2, <5>1, <5>2
      <4> QED
          BY <3>1, <3>3, <4>1
    <3> QED
        BY <1>9, <3>2, <3>3
  <2>9. Len(t) = IF Cardinality(all) < MaxRecords THEN Cardinality(all) ELSE MaxRecords
      BY <1>len, <1>6, <1>8, <2>2, <2>5
  <2>10. History(t, all)
    <3> HIDE DEF all
    <3>1. Len(t) <= MaxRecords /\ Len(t) = MaxRecords
        BY <1>len, <2>2, <2>5
    <3>2. \A i, j \in 1 .. Len(t) : i < j => t[i] < t[j]
        BY <2>5, <2>7
    <3>3. \A x \in all : (\E i \in 1 .. Len(t) : t[i] = x) \/ (Len(t) = MaxRecords /\ x < t[1])
        BY <2>5, <2>8, <3>1, Zenon
    <3> QED
        BY <1>6, <2>4, <2>5, <2>6, <2>9, <3>1, <3>2, <3>3, Zenon DEF History
  <2> QED
      BY <1>3, <1>11, <2>1, <2>5, <2>10
<1> QED
    BY <1>10, <1>11

(* A stamp goes before the ones that a call has to publish already           *)
(* (delivery.go, closeJournal).                                             *)
LEMMA PushFacts ==
    ASSUME NEW S, NEW q \in Seq(S), NEW x \in S
    PROVE  /\ << x >> \o q \in Seq(S) /\ Len(<< x >> \o q) = Len(q) + 1
           /\ (<< x >> \o q)[1] = x
           /\ \A i \in 1 .. Len(q) : (<< x >> \o q)[i + 1] = q[i]
<1> DEFINE p == << x >> \o q
<1>1. << x >> \in Seq(S) /\ Len(<< x >>) = 1 /\ << x >>[1] = x /\ Len(q) \in Nat
    BY LenProperties
<1>2. /\ p \in Seq(S) /\ Len(p) = Len(<< x >>) + Len(q)
      /\ \A i \in 1 .. Len(<< x >>) + Len(q) :
            p[i] = IF i <= Len(<< x >>) THEN << x >>[i] ELSE q[i - Len(<< x >>)]
    BY <1>1, ConcatProperties
<1> HIDE DEF p
<1>3. Len(p) = Len(q) + 1 /\ \A i \in 1 .. Len(q) + 1 : p[i] = IF i <= 1 THEN << x >>[i] ELSE q[i - 1]
  <2>1. 1 + Len(q) = Len(q) + 1
      BY <1>1
  <2> QED
      BY <1>1, <1>2, <2>1
<1>4. p[1] = x
  <2>1. 1 \in 1 .. Len(q) + 1
      BY <1>1
  <2> QED
      BY <1>1, <1>3, <2>1
<1>5. ASSUME NEW i \in 1 .. Len(q) PROVE p[i + 1] = q[i]
  <2>1. i + 1 \in 1 .. Len(q) + 1 /\ ~(i + 1 <= 1) /\ (i + 1) - 1 = i
      BY <1>1
  <2> QED
      BY <1>3, <2>1
<1> QED
    BY <1>2, <1>3, <1>4, <1>5 DEF p

(* What a call has to publish are stamps (record.go, stampLocked).           *)
LEMMA ElementOf ==
    ASSUME NEW S, NEW q \in Seq(S), NEW i \in 1 .. Len(q)
    PROVE  q[i] \in S
OBVIOUS

(* A step that stamps and publishes nothing keeps the history and what waits *)
(* for it (execution.go, Start, Issue, Verify and Recover).                  *)
LEMMA SameTodo ==
    ASSUME HInv, CallsInv', UNCHANGED << nextRecord, records, published >>,
           \A c \in Callers : calls'[c].todo = calls[c].todo
    PROVE  HInv'
<1>1. Pending'
  <2> SUFFICES ASSUME NEW c \in Callers, NEW i \in Nat,
                      i \in 1 .. Len(calls'[c].todo), calls'[c].todo[i] # 0
               PROVE  /\ calls'[c].todo[i] <= nextRecord'
                      /\ calls'[c].todo[i] \notin published'
                      /\ \A d \in Callers, j \in Nat :
                            j \in 1 .. Len(calls'[d].todo) /\ calls'[d].todo[j] = calls'[c].todo[i]
                            => d = c /\ j = i
      BY DEF Pending
  <2> DEFINE s == calls[c].todo[i]
  <2>1. i \in 1 .. Len(calls[c].todo) /\ s # 0 /\ calls'[c].todo[i] = s
      OBVIOUS
  <2>2. /\ s <= nextRecord /\ s \notin published
        /\ \A d \in Callers, j \in Nat :
              j \in 1 .. Len(calls[d].todo) /\ calls[d].todo[j] = s => d = c /\ j = i
      BY <2>1 DEF HInv, Pending
  <2>3. ASSUME NEW d \in Callers, NEW j \in Nat,
               j \in 1 .. Len(calls'[d].todo), calls'[d].todo[j] = s
        PROVE  d = c /\ j = i
    <3>1. calls'[d].todo = calls[d].todo
        OBVIOUS
    <3> QED
        BY <2>2, <2>3, <3>1
  <2> HIDE DEF s
  <2> QED
      BY <2>1, <2>2, <2>3
<1> QED
    BY <1>1 DEF HInv, PublishedInv

(* What is decided waits for publication under a number that no other has    *)
(* (record.go, stampLocked).                                                *)
LEMMA DecideHistory ==
    ASSUME RInv, HInv, NEW c \in Callers, NEW admitted \in BOOLEAN, Decide(admitted),
           NEW p \in {"closing", "publishing"},
           calls' = [calls EXCEPT ![c] = [pc |-> p, todo |-> << Stamp >> \o calls[c].todo]],
           UNCHANGED << records, published >>
    PROVE  HInv'
<1>1. /\ Stamp \in 0 .. Ceiling
      /\ Stamp # 0 => Stamp = nextRecord + 1
      /\ nextRecord \in 0 .. Ceiling /\ Ceiling \in Nat
      /\ nextRecord' = IF Stamp = 0 THEN nextRecord ELSE Stamp
    BY StampFollowsCounter, RecordsAssumption DEF RInv, CounterTypes, Decide
<1> DEFINE old == calls[c].todo
           new == << Stamp >> \o old
<1>2. calls \in [Callers -> CallType] /\ old \in Seq(0 .. Ceiling) /\ Len(old) \in Nat
    BY LenProperties DEF HInv, CallsInv, CallType
<1>3. /\ new \in Seq(0 .. Ceiling) /\ Len(new) = Len(old) + 1 /\ new[1] = Stamp
      /\ \A i \in 1 .. Len(old) : new[i + 1] = old[i]
    BY <1>1, <1>2, PushFacts
<1> HIDE DEF new
<1>4. calls' = [calls EXCEPT ![c] = [pc |-> p, todo |-> new]]
    BY DEF new
<1>5. /\ calls'[c].todo = new /\ calls'[c].pc = p
      /\ \A d \in Callers : d # c => calls'[d] = calls[d]
    BY <1>2, <1>4
<1>6. CallsInv'
  <2>1. [pc |-> p, todo |-> new] \in CallType
      BY <1>3 DEF CallType
  <2>2. calls' \in [Callers -> CallType]
      BY <1>2, <1>4, <2>1
  <2> QED
      BY <1>5, <2>2 DEF HInv, CallsInv
<1>7. \A s \in published : s \in Nat /\ s <= nextRecord
    BY <1>1 DEF HInv, PublishedInv
<1> DEFINE Old(d, i, s) == i \in 1 .. Len(calls[d].todo) /\ calls[d].todo[i] = s
           New(d, i, s) == i \in 1 .. Len(calls'[d].todo) /\ calls'[d].todo[i] = s
           Place(d, i) == IF d = c THEN i - 1 ELSE i
<1>8. ASSUME NEW d \in Callers, NEW i \in Nat, NEW s, New(d, i, s)
      PROVE  \/ d = c /\ i = 1 /\ s = Stamp
             \/ Place(d, i) \in Nat /\ Old(d, Place(d, i), s)
  <2>1. CASE d # c
      BY <1>5, <1>8, <2>1
  <2>2. CASE d = c /\ i = 1
      BY <1>3, <1>5, <1>8, <2>2
  <2>3. CASE d = c /\ i # 1
    <3>1. i \in 1 .. Len(old) + 1
        BY <1>3, <1>5, <1>8, <2>3
    <3> DEFINE j == i - 1
    <3>2. j \in 1 .. Len(old) /\ j + 1 = i /\ j \in Nat
        BY <1>2, <2>3, <3>1
    <3>3. new[j + 1] = old[j]
        BY <1>3, <3>2
    <3>4. old[j] = s
        BY <1>5, <1>8, <2>3, <3>2, <3>3
    <3> QED
        BY <2>3, <3>2, <3>4
  <2> QED
      BY <2>1, <2>2, <2>3
<1>9. ASSUME NEW d \in Callers, NEW i \in Nat, NEW s, Old(d, i, s), s # 0
      PROVE  /\ s \in Nat /\ s <= nextRecord /\ s \notin published
             /\ \A e \in Callers, j \in Nat : Old(e, j, s) => e = d /\ j = i
  <2>1. s \in Nat
    <3> DEFINE q == calls[d].todo
    <3>1. q \in Seq(0 .. Ceiling) /\ i \in 1 .. Len(q) /\ q[i] = s
        BY <1>2, <1>9 DEF CallType
    <3> HIDE DEF q
    <3>2. q[i] \in 0 .. Ceiling
        BY <3>1, ElementOf
    <3> QED
        BY <1>1, <3>1, <3>2
  <2> QED
      BY <1>9, <2>1 DEF HInv, Pending
<1>10. ASSUME NEW d \in Callers, NEW i \in Nat, NEW s, New(d, i, s), s # 0
       PROVE  /\ s <= nextRecord' /\ s \notin published
              /\ \A e \in Callers, j \in Nat : New(e, j, s) => e = d /\ j = i
  <2> HIDE DEF Old, New, Place
  <2>1. CASE d = c /\ i = 1 /\ s = Stamp
    <3>1. s = nextRecord + 1 /\ s \notin published /\ s = nextRecord'
        BY <1>1, <1>7, <1>10, <2>1
    <3>2. ASSUME NEW e \in Callers, NEW j \in Nat, New(e, j, s)
          PROVE  e = d /\ j = i
      <4>1. CASE Place(e, j) \in Nat /\ Old(e, Place(e, j), s)
        <5>1. s \in Nat /\ s <= nextRecord
            BY <1>9, <1>10, <4>1
        <5> QED
            BY <1>1, <3>1, <5>1
      <4> QED
          BY <1>8, <2>1, <3>2, <4>1
    <3> QED
        BY <1>1, <3>1, <3>2
  <2>2. CASE Place(d, i) \in Nat /\ Old(d, Place(d, i), s)
    <3>1. s \in Nat /\ s <= nextRecord /\ s \notin published
        BY <1>9, <1>10, <2>2
    <3>2. ASSUME NEW e \in Callers, NEW j \in Nat, New(e, j, s)
          PROVE  e = d /\ j = i
      <4>1. CASE e = c /\ j = 1 /\ s = Stamp
          BY <1>1, <1>10, <3>1, <4>1
      <4>2. CASE Place(e, j) \in Nat /\ Old(e, Place(e, j), s)
        <5>1. e = d /\ Place(e, j) = Place(d, i)
            BY <1>9, <1>10, <2>2, <4>2
        <5> QED
            BY <5>1 DEF Place
      <4> QED
          BY <1>8, <3>2, <4>1, <4>2
    <3>3. s <= nextRecord'
        BY <1>1, <3>1
    <3> QED
        BY <3>1, <3>2, <3>3
  <2> QED
      BY <1>8, <1>10, <2>1, <2>2
<1>11. Pending'
    BY SMTT(60), <1>10 DEF Pending
<1>12. PublishedInv'
    BY <1>1 DEF HInv, PublishedInv
<1> QED
    BY <1>6, <1>11, <1>12 DEF HInv

(* Publishing takes the first stamp of a call and keeps the newest of what   *)
(* was published (record.go, recordResult, appendRecordLocked).              *)
LEMMA PublishHistory ==
    ASSUME RInv, HInv, NEW c \in Callers, Publish(c)
    PROVE  /\ HInv'
           /\ LET seq == Head(calls[c].todo)
              IN  seq # 0 =>
                     /\ seq \notin ToSet(records)
                     /\ Len(records') = IF Len(records) < MaxRecords THEN Len(records) + 1
                                                                     ELSE Len(records)
<1> DEFINE old == calls[c].todo
           new == Tail(old)
           seq == Head(old)
<1>1. nextRecord \in 0 .. Ceiling /\ Ceiling \in Nat /\ nextRecord' = nextRecord
    BY RecordsAssumption DEF RInv, CounterTypes, Publish
<1>2. calls \in [Callers -> CallType] /\ old \in Seq(0 .. Ceiling) /\ old # << >>
    BY DEF HInv, CallsInv, CallType, Publish
<1>3. /\ new \in Seq(0 .. Ceiling) /\ Len(new) = Len(old) - 1 /\ Len(new) \in Nat
      /\ \A i \in 1 .. Len(old) - 1 : new[i] = old[i + 1]
    BY <1>2, HeadTailProperties, LenProperties
<1>4. seq = old[1] /\ seq \in 0 .. Ceiling /\ 1 \in 1 .. Len(old) /\ Len(old) \in Nat
  <2>1. Len(old) \in Nat /\ Len(old) # 0 /\ seq = old[1]
      BY <1>2, HeadTailProperties, LenProperties
  <2>2. 1 \in 1 .. Len(old)
      BY <2>1
  <2> HIDE DEF old, seq
  <2>3. old[1] \in 0 .. Ceiling
      BY <1>2, <2>2, ElementOf
  <2> QED
      BY <2>1, <2>2, <2>3
<1>5. calls' = [calls EXCEPT ![c] = [calls[c] EXCEPT !.todo = new]]
    BY DEF Publish
<1> HIDE DEF new, seq
<1>6. /\ calls'[c].todo = new /\ calls'[c].pc = "publishing"
      /\ \A d \in Callers : d # c => calls'[d] = calls[d]
    BY <1>2, <1>5 DEF CallType, Publish
<1>7. CallsInv'
  <2>1. [calls[c] EXCEPT !.todo = new] \in CallType
      BY <1>2, <1>3 DEF CallType
  <2>2. calls' \in [Callers -> CallType]
      BY <1>2, <1>5, <2>1
  <2> QED
      BY <1>6, <2>2 DEF HInv, CallsInv
<1>8. seq # 0 => /\ seq <= nextRecord /\ seq \notin published
                 /\ \A d \in Callers, j \in Nat :
                       j \in 1 .. Len(calls[d].todo) /\ calls[d].todo[j] = seq => d = c /\ j = 1
    BY <1>4 DEF HInv, Pending
<1>9. /\ published' = IF seq = 0 THEN published ELSE published \cup {seq}
      /\ records' = IF seq = 0 THEN records ELSE Retain(records, seq)
    BY DEF Publish, seq
<1>10. ASSUME NEW d \in Callers, NEW i \in Nat, i \in 1 .. Len(calls'[d].todo)
       PROVE  \E j \in Nat : /\ j \in 1 .. Len(calls[d].todo)
                              /\ calls[d].todo[j] = calls'[d].todo[i]
                              /\ j = (IF d = c THEN i + 1 ELSE i)
  <2>1. CASE d # c
      BY <1>6, <1>10, <2>1
  <2>2. CASE d = c
    <3>1. i \in 1 .. Len(old) - 1
        BY <1>3, <1>6, <1>10, <2>2
    <3>2. i + 1 \in 1 .. Len(old) /\ i + 1 \in Nat
        BY <1>4, <3>1
    <3>3. calls'[d].todo[i] = old[i + 1]
        BY <1>3, <1>6, <2>2, <3>1
    <3> QED
        BY <2>2, <3>2, <3>3
  <2> QED
      BY <2>1, <2>2
<1>11. Pending'
  <2> SUFFICES ASSUME NEW d \in Callers, NEW i \in Nat,
                      i \in 1 .. Len(calls'[d].todo), calls'[d].todo[i] # 0
               PROVE  /\ calls'[d].todo[i] <= nextRecord'
                      /\ calls'[d].todo[i] \notin published'
                      /\ \A e \in Callers, j \in Nat :
                            j \in 1 .. Len(calls'[e].todo) /\ calls'[e].todo[j] = calls'[d].todo[i]
                            => e = d /\ j = i
      BY DEF Pending
  <2> DEFINE s == calls'[d].todo[i]
  <2>1. PICK k \in Nat : /\ k \in 1 .. Len(calls[d].todo) /\ calls[d].todo[k] = s
                         /\ k = (IF d = c THEN i + 1 ELSE i)
      BY <1>10
  <2>2. /\ s <= nextRecord /\ s \notin published
        /\ \A e \in Callers, j \in Nat :
              j \in 1 .. Len(calls[e].todo) /\ calls[e].todo[j] = s => e = d /\ j = k
      BY SMTT(60), <2>1 DEF HInv, Pending
  <2>3. seq # 0 => s # seq
    <3> SUFFICES ASSUME seq # 0, s = seq PROVE FALSE
        OBVIOUS
    <3>1. d = c /\ k = 1
        BY <1>8, <2>1
    <3> QED
        BY <2>1, <3>1
  <2>4. ASSUME NEW e \in Callers, NEW j \in Nat,
               j \in 1 .. Len(calls'[e].todo), calls'[e].todo[j] = s
        PROVE  e = d /\ j = i
    <3>1. PICK l \in Nat : /\ l \in 1 .. Len(calls[e].todo) /\ calls[e].todo[l] = s
                           /\ l = (IF e = c THEN j + 1 ELSE j)
        BY <1>10, <2>4
    <3>2. e = d /\ l = k
        BY <2>2, <3>1
    <3> QED
        BY <2>1, <3>1, <3>2
  <2> HIDE DEF s
  <2>5. s <= nextRecord' /\ s \notin published'
      BY <1>1, <1>9, <2>2, <2>3
  <2> QED
      BY <2>4, <2>5 DEF s
<1>12. PublishedInv'
    BY <1>1, <1>4, <1>8, <1>9 DEF HInv, PublishedInv
<1>13. seq # 0 =>
         /\ seq \notin ToSet(records)
         /\ Len(records') = IF Len(records) < MaxRecords THEN Len(records) + 1 ELSE Len(records)
         /\ History(records', published')
  <2> SUFFICES ASSUME seq # 0
               PROVE  /\ seq \notin ToSet(records)
                      /\ Len(records') = IF Len(records) < MaxRecords THEN Len(records) + 1
                                                                      ELSE Len(records)
                      /\ History(records', published')
      OBVIOUS
  <2>1. seq \in Nat /\ seq \notin published /\ History(records, published)
      BY <1>1, <1>4, <1>8 DEF HInv
  <2>2. /\ seq \notin ToSet(records)
        /\ Len(Retain(records, seq)) = IF Len(records) < MaxRecords THEN Len(records) + 1
                                                                    ELSE Len(records)
        /\ History(Retain(records, seq), published \cup {seq})
      BY <2>1, RetainKeeps
  <2> QED
      BY <1>9, <2>2
<1>14. History(records', published')
    BY <1>9, <1>13 DEF HInv
<1> QED
    BY <1>7, <1>11, <1>12, <1>13, <1>14 DEF HInv, seq

(* A restoration begins with an empty history and no calls (execution.go,    *)
(* RestoreWithOptions).                                                     *)
LEMMA EmptyHistory ==
    ASSUME records' = << >>, published' = {}, calls' = [c \in Callers |-> IdleCall]
    PROVE  HInv'
<1>1. History(<< >>, {})
  <2>1. IsFiniteSet({}) /\ Cardinality({}) = 0
      BY FS_EmptySet
  <2>2. << >> \in Seq(Nat) /\ Len(<< >>) = 0 /\ MaxRecords > 0 /\ MaxRecords \in Nat
      BY RecordsAssumption
  <2> QED
      BY <2>1, <2>2 DEF History
<1>2. \A c \in Callers : calls'[c] = IdleCall /\ calls'[c].todo = << >>
    BY DEF IdleCall
<1>3. CallsInv'
    BY <1>2 DEF CallsInv, CallType, IdleCall
<1>4. Pending' /\ PublishedInv'
    BY <1>2 DEF Pending, PublishedInv
<1> QED
    BY <1>1, <1>3, <1>4 DEF HInv

\* What the steps that decide an outcome have in common: its stamp is the first
\* that the call has to publish.
Decides(c) ==
    /\ \E admitted \in BOOLEAN : Decide(admitted)
    /\ \E p \in {"closing", "publishing"} :
          calls' = [calls EXCEPT ![c] = [pc |-> p, todo |-> << Stamp >> \o calls[c].todo]]
    /\ UNCHANGED << records, published, dropped, incarnation >>

\* What the steps that neither decide nor publish have in common.
Passes ==
    /\ CallsInv'
    /\ \A c \in Callers : calls'[c].todo = calls[c].todo
    /\ UNCHANGED << nextRecord, records, published, dropped, incarnation, decisions >>

(* Every step decides an outcome, publishes one, does neither, or restarts   *)
(* the process (record.go and delivery.go under the lock).                   *)
LEMMA KindsOfSteps ==
    ASSUME HInv, Next
    PROVE  \/ \E c \in Callers : Decides(c) \/ Publish(c)
           \/ Passes
           \/ Restart
<1>1. calls \in [Callers -> CallType]
    BY DEF HInv, CallsInv
<1>2. << Stamp >> \o << >> = << Stamp >>
  <2>1. << Stamp >> \in Seq({Stamp})
      OBVIOUS
  <2> QED
      BY <2>1, ConcatEmptySeq
<1>3. ASSUME NEW c \in Callers, DecideAtOnce(c) \/ DecideOperation(c) \/ BeginExhausted(c)
      PROVE  Decides(c)
  <2>1. calls[c].todo = << >>
      BY <1>3 DEF HInv, CallsInv, DecideAtOnce, DecideOperation, BeginExhausted
  <2>2. \E p \in {"closing", "publishing"} :
           calls' = [calls EXCEPT ![c] = [pc |-> p, todo |-> << Stamp >>]]
      BY <1>3 DEF DecideAtOnce, DecideOperation, BeginExhausted, Following
  <2>3. \E admitted \in BOOLEAN : Decide(admitted)
      BY <1>3 DEF DecideAtOnce, DecideOperation, BeginExhausted
  <2>4. UNCHANGED << records, published, dropped, incarnation >>
      BY <1>3 DEF DecideAtOnce, DecideOperation, BeginExhausted
  <2> QED
      BY <1>2, <2>1, <2>2, <2>3, <2>4 DEF Decides
<1>4. ASSUME NEW c \in Callers, CloseJournal(c)
      PROVE  Decides(c) \/ Passes
  <2>1. CASE /\ calls' = [calls EXCEPT ![c].pc = "publishing"]
             /\ UNCHANGED << nextRecord, decisions >>
    <3>1. calls' \in [Callers -> CallType] /\ calls'[c].pc = "publishing"
        BY <1>1, <2>1 DEF CallType
    <3>2. \A d \in Callers : calls'[d].todo = calls[d].todo
        BY <1>1, <2>1 DEF CallType
    <3>3. \A d \in Callers : d # c => calls'[d] = calls[d]
        BY <1>1, <2>1
    <3>4. CallsInv'
        BY <3>1, <3>2, <3>3 DEF HInv, CallsInv
    <3> QED
        BY <1>4, <2>1, <3>2, <3>4 DEF Passes, CloseJournal
  <2>2. CASE /\ Decide(FALSE)
             /\ calls' = [calls EXCEPT ![c].pc = "publishing", ![c].todo = << Stamp >> \o @]
    <3>1. calls[c] \in CallType
        BY <1>1
    <3>2. calls' = [calls EXCEPT ![c] = [pc |-> "publishing", todo |-> << Stamp >> \o calls[c].todo]]
      <4> DEFINE two == [calls EXCEPT ![c].pc = "publishing", ![c].todo = << Stamp >> \o @]
                 one == [calls EXCEPT ![c] = [pc |-> "publishing", todo |-> << Stamp >> \o calls[c].todo]]
      <4>1. DOMAIN two = Callers /\ DOMAIN one = Callers
          BY <1>1
      <4>2. ASSUME NEW d \in Callers PROVE two[d] = one[d]
        <5>1. CASE d # c
            BY <1>1, <5>1
        <5>2. CASE d = c
          <6>1. one[c] = [pc |-> "publishing", todo |-> << Stamp >> \o calls[c].todo]
              BY <1>1
          <6>2. /\ two[c].pc = "publishing" /\ two[c].todo = << Stamp >> \o calls[c].todo
                /\ two[c] = [pc |-> two[c].pc, todo |-> two[c].todo]
              BY <1>1, <3>1 DEF CallType
          <6> HIDE DEF one, two
          <6> QED
              BY <5>2, <6>1, <6>2
        <5> QED
            BY <5>1, <5>2
      <4>3. two = one
        <5>1. two = [d \in Callers |-> two[d]] /\ one = [d \in Callers |-> one[d]]
            BY <1>1
        <5> HIDE DEF one, two
        <5> QED
            BY <4>2, <5>1
      <4> QED
          BY <2>2, <4>3
    <3> QED
        BY <1>4, <2>2, <3>2 DEF Decides, CloseJournal
  <2> QED
      BY <1>4, <2>1, <2>2 DEF CloseJournal
<1>5. ASSUME NEW c \in Callers, Begin(c)
      PROVE  Passes
  <2>1. calls' = [calls EXCEPT ![c].pc = "running"] /\ calls[c].todo = << >>
      BY <1>5 DEF Begin, HInv, CallsInv
  <2>2. calls' \in [Callers -> CallType]
      BY <1>1, <2>1 DEF CallType
  <2>3. \A d \in Callers : calls'[d].todo = calls[d].todo
      BY <1>1, <2>1 DEF CallType
  <2>4. \A d \in Callers : d # c => calls'[d] = calls[d]
      BY <1>1, <2>1
  <2>5. CallsInv'
      BY <2>1, <2>2, <2>3, <2>4 DEF HInv, CallsInv
  <2> QED
      BY <1>5, <2>3, <2>5 DEF Passes, Begin
<1>6. ASSUME NEW c \in Callers, Return(c)
      PROVE  Passes
  <2>1. calls' = [calls EXCEPT ![c] = IdleCall] /\ calls[c].todo = << >>
      BY <1>6 DEF Return
  <2>2. IdleCall \in CallType /\ IdleCall.todo = << >>
      BY DEF CallType, IdleCall
  <2>3. /\ calls' \in [Callers -> CallType] /\ calls'[c] = IdleCall
        /\ \A d \in Callers : d # c => calls'[d] = calls[d]
      BY <1>1, <2>1, <2>2
  <2>4. \A d \in Callers : calls'[d].todo = calls[d].todo
      BY <2>1, <2>2, <2>3
  <2>5. CallsInv'
      BY <2>2, <2>3 DEF HInv, CallsInv
  <2> QED
      BY <1>6, <2>4, <2>5 DEF Passes, Return
<1> QED
    BY <1>3, <1>4, <1>5, <1>6 DEF Next

(* A Supervisor begins with an empty history (execution.go, New).            *)
LEMMA HistoryInit == Init => HInv
<1> SUFFICES ASSUME Init PROVE HInv
    OBVIOUS
<1>1. IsFiniteSet({}) /\ Cardinality({}) = 0
    BY FS_EmptySet
<1>2. << >> \in Seq(Nat) /\ Len(<< >>) = 0 /\ MaxRecords > 0 /\ MaxRecords \in Nat
    BY RecordsAssumption
<1>3. History(records, published)
    BY <1>1, <1>2 DEF Init, History
<1>4. \A c \in Callers : calls[c] = IdleCall /\ calls[c].todo = << >>
    BY DEF Init, IdleCall
<1>5. CallsInv
    BY <1>4 DEF Init, CallsInv, CallType, IdleCall
<1>6. Pending /\ PublishedInv
    BY <1>4 DEF Init, Pending, PublishedInv
<1> QED
    BY <1>3, <1>5, <1>6 DEF HInv

(* Every step keeps the newest records, and the numbers that wait distinct   *)
(* (record.go, recordResult).                                               *)
LEMMA HistoryStep == RInv /\ HInv /\ [Next]_vars => HInv'
<1> SUFFICES ASSUME RInv, HInv, [Next]_vars PROVE HInv'
    OBVIOUS
<1>1. ASSUME NEW c \in Callers, Decides(c) PROVE HInv'
    BY <1>1, DecideHistory DEF Decides
<1>2. ASSUME NEW c \in Callers, Publish(c) PROVE HInv'
    BY <1>2, PublishHistory
<1>3. CASE Passes
    BY <1>3, SameTodo DEF Passes
<1>4. CASE Restart
    BY <1>4, EmptyHistory DEF Restart
<1>5. CASE UNCHANGED vars
    BY <1>5 DEF vars, HInv, CallsInv, Pending, PublishedInv
<1> QED
    BY <1>1, <1>2, <1>3, <1>4, <1>5, KindsOfSteps

(* What the history, the published numbers and those that wait have to do    *)
(* with each other, in every reachable state (record.go, appendRecordLocked).*)
THEOREM HistoryInductive == Spec => [](RInv /\ HInv)
BY RecordsInit, RecordsStep, HistoryInit, HistoryStep, PTL DEF Spec

(* In whatever order the calls publish, the history holds the newest of the  *)
(* Records published, oldest first, and no more than its limit (record.go,   *)
(* appendRecordLocked).                                                     *)
THEOREM HistoryIsNewest == Spec => []HistoryKeepsNewest
<1>1. HInv => HistoryKeepsNewest
  <2> SUFFICES ASSUME History(records, published) PROVE HistoryKeepsNewest
      BY DEF HInv
  <2>1. records \in Seq(Nat) /\ DOMAIN records = 1 .. Len(records) /\ Len(records) \in Nat
      BY LenProperties DEF History
  <2>2. ToSet(records) \subseteq published
      BY <2>1 DEF History, ToSet
  <2>3. \A i \in 1 .. Len(records) - 1 : records[i] < records[i + 1]
    <3> SUFFICES ASSUME NEW i \in 1 .. Len(records) - 1
                 PROVE  records[i] < records[i + 1]
        OBVIOUS
    <3>1. i \in 1 .. Len(records) /\ i + 1 \in 1 .. Len(records) /\ i < i + 1
        BY <2>1
    <3> QED
        BY <3>1 DEF History
  <2>4. \A seq \in published \ ToSet(records) : seq < records[1]
    <3> SUFFICES ASSUME NEW seq \in published, seq \notin ToSet(records)
                 PROVE  seq < records[1]
        OBVIOUS
    <3>1. ~ \E i \in 1 .. Len(records) : records[i] = seq
        BY <2>1 DEF ToSet
    <3> QED
        BY <3>1 DEF History
  <2> QED
      BY <2>2, <2>3, <2>4 DEF History, HistoryKeepsNewest
<1> QED
    BY <1>1, HistoryInductive, PTL

-----------------------------------------------------------------------------
\* The places of the stamps that wait in f, as in Waiting.
Places(f) == UNION {{<< c, j >> : j \in DOMAIN f[c].todo} : c \in Callers}

(* A stamp more to publish is one place more (delivery.go, closeJournal).    *)
LEMMA PlacesGrow ==
    ASSUME NEW f \in [Callers -> CallType], NEW g \in [Callers -> CallType], NEW c \in Callers,
           Len(g[c].todo) = Len(f[c].todo) + 1,
           \A d \in Callers : d # c => g[d].todo = f[d].todo,
           IsFiniteSet(Places(f)) \/ IsFiniteSet(Places(g))
    PROVE  /\ IsFiniteSet(Places(f)) /\ IsFiniteSet(Places(g))
           /\ Cardinality(Places(g)) = Cardinality(Places(f)) + 1
<1> DEFINE n == Len(f[c].todo)
           new == << c, n + 1 >>
<1>1. \A d \in Callers : f[d].todo \in Seq(0 .. Ceiling) /\ g[d].todo \in Seq(0 .. Ceiling)
    BY DEF CallType
<1>2. /\ n \in Nat
      /\ \A d \in Callers : DOMAIN f[d].todo = 1 .. Len(f[d].todo)
                            /\ DOMAIN g[d].todo = 1 .. Len(g[d].todo)
    BY <1>1, LenProperties
<1> HIDE DEF n
<1>3. /\ DOMAIN g[c].todo = 1 .. n + 1 /\ DOMAIN f[c].todo = 1 .. n
      /\ 1 .. n + 1 = (1 .. n) \cup {n + 1} /\ n + 1 \notin 1 .. n
    BY <1>2 DEF n
<1>4. Places(g) = Places(f) \cup {new}
  <2>1. ASSUME NEW x \in Places(g) PROVE x \in Places(f) \cup {new}
    <3>1. PICK d \in Callers : \E j \in DOMAIN g[d].todo : x = << d, j >>
        BY <2>1 DEF Places
    <3>2. PICK j \in DOMAIN g[d].todo : x = << d, j >>
        BY <3>1
    <3>3. CASE j \in DOMAIN f[d].todo
        BY <3>2, <3>3 DEF Places
    <3>4. CASE j \notin DOMAIN f[d].todo
      <4>1. d = c
          BY <3>2, <3>4
      <4>2. j = n + 1
          BY <1>3, <3>2, <3>4, <4>1
      <4> QED
          BY <3>2, <4>1, <4>2
    <3> QED
        BY <3>3, <3>4
  <2>2. ASSUME NEW x \in Places(f) PROVE x \in Places(g)
    <3>1. PICK d \in Callers : \E j \in DOMAIN f[d].todo : x = << d, j >>
        BY <2>2 DEF Places
    <3>2. PICK j \in DOMAIN f[d].todo : x = << d, j >>
        BY <3>1
    <3>3. j \in DOMAIN g[d].todo
        BY <1>3, <3>2
    <3> QED
        BY <3>2, <3>3 DEF Places
  <2>3. new \in Places(g)
    <3>1. n + 1 \in DOMAIN g[c].todo
        BY <1>3
    <3> QED
        BY <3>1 DEF Places
  <2> QED
      BY <2>1, <2>2, <2>3
<1>5. new \notin Places(f)
  <2> SUFFICES ASSUME new \in Places(f) PROVE FALSE
      OBVIOUS
  <2>1. PICK d \in Callers : \E j \in DOMAIN f[d].todo : new = << d, j >>
      BY DEF Places
  <2>2. PICK j \in DOMAIN f[d].todo : new = << d, j >>
      BY <2>1
  <2>3. d = c /\ j = n + 1
      BY <2>2
  <2> QED
      BY <1>3, <2>2, <2>3
<1> HIDE DEF new
<1>6. IsFiniteSet(Places(f))
  <2>1. CASE IsFiniteSet(Places(g))
    <3>1. Places(f) \subseteq Places(g)
        BY <1>4
    <3> QED
        BY <2>1, <3>1, FS_Subset
  <2> QED
      BY <2>1
<1> QED
    BY <1>4, <1>5, <1>6, FS_AddElement

(* A decision is an outcome more of the incarnation, and a stamp more to     *)
(* publish (record.go, stampLocked).                                        *)
LEMMA DecideAccounts ==
    ASSUME RInv, HInv, AInv, HInv', NEW c \in Callers, Decides(c)
    PROVE  AInv'
<1>1. /\ decisions \in Seq(Outcome) /\ calls \in [Callers -> CallType]
      /\ calls' \in [Callers -> CallType]
    BY DEF RInv, CounterTypes, HInv, CallsInv
<1> DEFINE n == Len(decisions)
<1>2. PICK outcome : /\ decisions' = Append(decisions, outcome)
                     /\ outcome.incarnation = incarnation
    BY DEF Decides, Decide
<1>3. n \in Nat /\ DOMAIN decisions = 1 .. n
    BY <1>1, LenProperties
<1>4. /\ DOMAIN decisions' = 1 .. n + 1 /\ decisions'[n + 1] = outcome
      /\ \A i \in 1 .. n : decisions'[i] = decisions[i]
    BY <1>1, <1>2, <1>3, AppendProperties
<1> HIDE DEF n
<1>5. Decided' = Decided \cup {n + 1} /\ n + 1 \notin Decided
  <2>1. 1 .. n + 1 = (1 .. n) \cup {n + 1} /\ n + 1 \notin 1 .. n
      BY <1>3
  <2>2. incarnation' = incarnation
      BY DEF Decides
  <2> QED
      BY <1>2, <1>3, <1>4, <2>1, <2>2 DEF Decided
<1>6. /\ IsFiniteSet(Decided') /\ Cardinality(Decided') = Cardinality(Decided) + 1
      /\ Cardinality(Decided) \in Nat
    BY <1>5, FS_AddElement, FS_CardinalityType DEF AInv
<1>7. /\ IsFiniteSet(Waiting') /\ Cardinality(Waiting') = Cardinality(Waiting) + 1
      /\ Cardinality(Waiting) \in Nat
  <2>1. PICK p : calls' = [calls EXCEPT ![c] = [pc |-> p, todo |-> << Stamp >> \o calls[c].todo]]
      BY DEF Decides
  <2>2. \A d \in Callers : d # c => calls'[d].todo = calls[d].todo
      BY <1>1, <2>1
  <2>3. Len(calls'[c].todo) = Len(calls[c].todo) + 1
    <3>1. calls[c].todo \in Seq(0 .. Ceiling) /\ Stamp \in 0 .. Ceiling
        BY <1>1, StampFollowsCounter DEF CallType, RInv
    <3>2. calls'[c].todo = << Stamp >> \o calls[c].todo
        BY <1>1, <2>1
    <3> QED
        BY <3>1, <3>2, PushFacts
  <2>4. Waiting = Places(calls) /\ Waiting' = Places(calls')
      BY DEF Waiting, Places
  <2> QED
      BY <1>1, <2>2, <2>3, <2>4, PlacesGrow, FS_CardinalityType DEF AInv
<1>8. UNCHANGED << records, dropped >> /\ Len(records) \in Nat /\ dropped \in Nat
    BY RecordsAssumption, LenProperties DEF Decides, HInv, History, AInv
<1> QED
    BY <1>6, <1>7, <1>8 DEF AInv

(* What is published is in the history or counted, or takes a place there    *)
(* from one that is counted (record.go, appendRecordLocked).                 *)
LEMMA PublishAccounts ==
    ASSUME RInv, HInv, AInv, HInv', NEW c \in Callers, Publish(c)
    PROVE  AInv'
<1> DEFINE seq == Head(calls[c].todo)
<1>1. /\ calls \in [Callers -> CallType] /\ calls' \in [Callers -> CallType]
      /\ UNCHANGED << incarnation, decisions >>
    BY DEF HInv, CallsInv, Publish
<1>2. Decided' = Decided
    BY <1>1 DEF Decided
<1>3. /\ IsFiniteSet(Waiting') /\ Cardinality(Waiting) = Cardinality(Waiting') + 1
      /\ Cardinality(Waiting') \in Nat
  <2>1. calls' = [calls EXCEPT ![c] = [calls[c] EXCEPT !.todo = Tail(calls[c].todo)]]
      BY DEF Publish
  <2>2. \A d \in Callers : d # c => calls[d].todo = calls'[d].todo
      BY <1>1, <2>1
  <2>3. Len(calls[c].todo) = Len(calls'[c].todo) + 1
    <3>1. calls[c].todo \in Seq(0 .. Ceiling) /\ calls[c].todo # << >>
        BY <1>1 DEF CallType, Publish
    <3>2. calls'[c].todo = Tail(calls[c].todo)
        BY <1>1, <2>1 DEF CallType
    <3>3. Len(calls'[c].todo) = Len(calls[c].todo) - 1 /\ Len(calls[c].todo) \in Nat
        BY <3>1, <3>2, HeadTailProperties, LenProperties
    <3> QED
        BY <3>3
  <2>4. Waiting = Places(calls) /\ Waiting' = Places(calls')
      BY DEF Waiting, Places
  <2> QED
      BY <1>1, <2>2, <2>3, <2>4, PlacesGrow, FS_CardinalityType DEF AInv
<1>4. Cardinality(Decided) \in Nat /\ Len(records) \in Nat
    BY FS_CardinalityType, LenProperties DEF AInv, HInv, History
<1>5. dropped \in Nat /\ Ceiling \in Nat /\ dropped \in 0 .. Ceiling
    BY RecordsAssumption DEF AInv
<1>6. dropped' = IF Drops(records, seq) /\ dropped < Ceiling THEN dropped + 1 ELSE dropped
    BY DEF Publish
<1>7. /\ Drops(records, seq) => Len(records') = Len(records)
      /\ ~Drops(records, seq) => Len(records') = Len(records) + 1
  <2>1. CASE seq = 0
      BY <2>1 DEF Publish, Drops
  <2>2. CASE seq # 0
    <3>1. /\ seq \notin ToSet(records)
          /\ Len(records') = IF Len(records) < MaxRecords THEN Len(records) + 1
                                                          ELSE Len(records)
        BY <2>2, PublishHistory
    <3>2. Len(records) <= MaxRecords /\ MaxRecords \in Nat
        BY RecordsAssumption DEF HInv, History
    <3>3. Len(records) < MaxRecords <=> Len(records) # MaxRecords
        BY <1>4, <3>2
    <3> QED
        BY <2>2, <3>1, <3>3 DEF Drops
  <2> QED
      BY <2>1, <2>2
<1>8. dropped < Ceiling => Cardinality(Decided) = Len(records) + dropped + Cardinality(Waiting)
    BY DEF AInv
<1>9. dropped' \in 0 .. Ceiling
    BY <1>5, <1>6
<1>10. dropped' < Ceiling =>
          Cardinality(Decided) = Len(records') + dropped' + Cardinality(Waiting')
  <2>1. CASE Drops(records, seq)
      BY <1>3, <1>4, <1>5, <1>6, <1>7, <1>8, <2>1
  <2>2. CASE ~Drops(records, seq)
      BY <1>3, <1>4, <1>5, <1>6, <1>7, <1>8, <2>2
  <2> QED
      BY <2>1, <2>2
<1> QED
    BY <1>2, <1>3, <1>9, <1>10 DEF AInv

(* A new incarnation has no outcomes yet, and nothing to account for         *)
(* (execution.go, RestoreWithOptions).                                      *)
LEMMA EmptyAccounts ==
    ASSUME RInv, Restart
    PROVE  AInv'
<1>1. /\ incarnation' = incarnation + 1 /\ decisions' = decisions
      /\ records' = << >> /\ dropped' = 0
      /\ calls' = [c \in Callers |-> IdleCall]
    BY DEF Restart, NextIncarnation
<1>2. Decided' = {}
  <2>1. decisions \in Seq(Outcome) /\ incarnation \in Nat /\ DOMAIN decisions = 1 .. Len(decisions)
      BY LenProperties DEF RInv, CounterTypes
  <2>2. ASSUME NEW i \in DOMAIN decisions PROVE decisions[i].incarnation # incarnation + 1
    <3>1. decisions[i].incarnation <= incarnation
        BY <2>1 DEF RInv, CounterCovers
    <3>2. decisions[i] \in Outcome
        BY <2>1
    <3> QED
        BY <2>1, <3>1, <3>2 DEF Outcome
  <2> QED
      BY <1>1, <2>2 DEF Decided
<1>3. Waiting' = {}
  <2>1. \A c \in Callers : calls'[c].todo = << >> /\ DOMAIN calls'[c].todo = {}
      BY <1>1 DEF IdleCall
  <2> QED
      BY <2>1 DEF Waiting
<1>4. IsFiniteSet({}) /\ Cardinality({}) = 0 /\ Len(<< >>) = 0 /\ 0 \in 0 .. Ceiling
    BY FS_EmptySet, RecordsAssumption
<1> QED
    BY <1>1, <1>2, <1>3, <1>4 DEF AInv

(* A Supervisor begins with nothing to account for (execution.go, New).      *)
LEMMA AccountsInit == Init => AInv
<1> SUFFICES ASSUME Init PROVE AInv
    OBVIOUS
<1>1. Decided = {}
    BY DEF Init, Decided
<1>2. Waiting = {}
  <2>1. \A c \in Callers : calls[c].todo = << >> /\ DOMAIN calls[c].todo = {}
      BY DEF Init, IdleCall
  <2> QED
      BY <2>1 DEF Waiting
<1>3. IsFiniteSet({}) /\ Cardinality({}) = 0 /\ Len(<< >>) = 0 /\ 0 \in 0 .. Ceiling
    BY FS_EmptySet, RecordsAssumption
<1> QED
    BY <1>1, <1>2, <1>3 DEF AInv, Init

(* Every step accounts for the outcome that it decides or publishes          *)
(* (record.go, recordResult).                                               *)
LEMMA AccountsStep == RInv /\ HInv /\ AInv /\ HInv' /\ [Next]_vars => AInv'
<1> SUFFICES ASSUME RInv, HInv, AInv, HInv', [Next]_vars PROVE AInv'
    OBVIOUS
<1>1. ASSUME NEW c \in Callers, Decides(c) PROVE AInv'
    BY <1>1, DecideAccounts
<1>2. ASSUME NEW c \in Callers, Publish(c) PROVE AInv'
    BY <1>2, PublishAccounts
<1>3. CASE Passes
  <2>1. Decided' = Decided
      BY <1>3 DEF Decided, Passes
  <2>2. Waiting' = Waiting
      BY <1>3 DEF Waiting, Passes
  <2> QED
      BY <1>3, <2>1, <2>2 DEF AInv, Passes
<1>4. CASE Restart
    BY <1>4, EmptyAccounts
<1>5. CASE UNCHANGED vars
    BY <1>5 DEF vars, AInv, Decided, Waiting
<1> QED
    BY <1>1, <1>2, <1>3, <1>4, <1>5, KindsOfSteps

(* No outcome of an incarnation is lost without being counted: each is in    *)
(* the history, dropped, or with the call that will publish it (record.go,   *)
(* recordResult, appendRecordLocked).                                        *)
THEOREM OutcomesAreAccounted == Spec => []OutcomesAccounted
<1>1. Spec => []AInv
  <2>1. RInv /\ HInv /\ AInv /\ [Next]_vars => (RInv /\ HInv /\ AInv)'
      BY RecordsStep, HistoryStep, AccountsStep
  <2>2. Init => RInv /\ HInv /\ AInv
      BY RecordsInit, HistoryInit, AccountsInit
  <2> QED
      BY <2>1, <2>2, PTL DEF Spec
<1>2. AInv => OutcomesAccounted
    BY DEF AInv, Decided, Waiting, OutcomesAccounted
<1> QED
    BY <1>1, <1>2, PTL
=============================================================================
