-------------------------- MODULE DefinitionsProofs --------------------------
(***************************************************************************)
(* TLAPS proofs about module Definitions: what the three compilers accept    *)
(* and what they answer, for every definition that is made of lists and      *)
(* grows, however long it is.                                               *)
(***************************************************************************)
EXTENDS Definitions, OperatorLemmas

-----------------------------------------------------------------------------
(* Strict definitions (supervised/definition.go).                           *)

StrictInv ==
    asked = "strict" => IsStrict(strict) /\ problems = Strict!Compile(strict)

(* A definition with one refusal more is still made of lists (definition.go, *)
(* State.Refuse).                                                           *)
LEMMA RefusalAdded ==
    ASSUME NEW d, IsStrict(d), NEW i \in DOMAIN d.states, NEW e
    PROVE  IsStrict([d EXCEPT !.states[i].refuse = Append(@, e)])
<1> DEFINE s == d.states[i]
           t == [name |-> s.name, terminal |-> s.terminal, refuse |-> Append(s.refuse, e)]
           new == [d EXCEPT !.states[i].refuse = Append(@, e)]
<1>1. s = [name |-> s.name, terminal |-> s.terminal, refuse |-> s.refuse]
    BY DEF IsStrict
<1>2. IsList(d.states) /\ IsList(s.refuse) /\ s.terminal \in BOOLEAN
    BY DEF IsStrict
<1>3. [s EXCEPT !.refuse = Append(@, e)] = t
  <2> HIDE DEF s
  <2> QED
      BY SMTT(60), <1>1
<1>4. new = [d EXCEPT !.states = [d.states EXCEPT ![i] = t]]
    BY <1>3
<1> DEFINE ss == [d.states EXCEPT ![i] = t]
<1>5. /\ Len(d.states) \in Nat /\ DOMAIN d.states = 1 .. Len(d.states)
      /\ d.states = [k \in 1 .. Len(d.states) |-> d.states[k]]
    BY <1>2, ListFacts
<1>6. /\ IsList(ss) /\ DOMAIN ss = DOMAIN d.states
  <2>1. ss = [k \in 1 .. Len(d.states) |-> ss[k]]
      BY <1>5
  <2> HIDE DEF ss
  <2> QED
      BY <1>5, <2>1, ListAgain
<1>7. \A k \in DOMAIN ss : ss[k] = IF k = i THEN t ELSE d.states[k]
    BY <1>5
<1>8. d = [id |-> d.id, initial |-> d.initial, states |-> d.states, events |-> d.events,
           transitions |-> d.transitions, checks |-> d.checks]
    BY DEF IsStrict
<1>9. new = [id |-> d.id, initial |-> d.initial, states |-> ss, events |-> d.events,
             transitions |-> d.transitions, checks |-> d.checks]
  <2> HIDE DEF ss, new
  <2> QED
      BY <1>4, <1>8 DEF ss
<1>10. IsList(t.refuse)
    BY <1>2, ListGrows
<1>11. \A k \in DOMAIN ss :
          /\ ss[k] = [name |-> ss[k].name, terminal |-> ss[k].terminal, refuse |-> ss[k].refuse]
          /\ ss[k].terminal \in BOOLEAN /\ IsList(ss[k].refuse)
  <2> SUFFICES ASSUME NEW k \in DOMAIN ss
               PROVE  /\ ss[k] = [name |-> ss[k].name, terminal |-> ss[k].terminal,
                                  refuse |-> ss[k].refuse]
                      /\ ss[k].terminal \in BOOLEAN /\ IsList(ss[k].refuse)
      OBVIOUS
  <2>1. CASE k = i
    <3>1. t = [name |-> t.name, terminal |-> t.terminal, refuse |-> t.refuse]
          /\ t.terminal \in BOOLEAN /\ IsList(t.refuse)
        BY <1>2, <1>10
    <3>2. ss[k] = t
        BY <1>7, <2>1
    <3> HIDE DEF t, ss
    <3> QED
        BY <3>1, <3>2
  <2>2. CASE k # i
    <3>1. ss[k] = d.states[k] /\ k \in DOMAIN d.states
        BY <1>6, <1>7, <2>2
    <3> HIDE DEF t, ss
    <3> QED
        BY <3>1 DEF IsStrict
  <2> QED
      BY <2>1, <2>2
<1>12. /\ new.states = ss /\ new.events = d.events /\ new.transitions = d.transitions
       /\ new.checks = d.checks /\ new.id = d.id /\ new.initial = d.initial
  <2> HIDE DEF ss, new
  <2> QED
      BY <1>9
<1> HIDE DEF new, ss, t, s
<1>13. IsStrict(new)
    BY <1>6, <1>9, <1>11, <1>12 DEF IsStrict
<1> QED
    BY <1>13 DEF new

(* A definition with one row more is still made of lists (definition.go,     *)
(* Transition).                                                             *)
LEMMA StrictRowAdded ==
    ASSUME NEW d, IsStrict(d), NEW t, {t.guarded, t.issue, t.verify} \subseteq BOOLEAN,
           t.preconditions \in Seq(BOOLEAN)
    PROVE  IsStrict([d EXCEPT !.transitions = Append(@, t)])
<1> DEFINE new == [d EXCEPT !.transitions = Append(@, t)]
           ts == Append(d.transitions, t)
<1>1. IsList(d.transitions)
    BY DEF IsStrict
<1>2. d = [id |-> d.id, initial |-> d.initial, states |-> d.states, events |-> d.events,
           transitions |-> d.transitions, checks |-> d.checks]
    BY DEF IsStrict
<1>3. new = [id |-> d.id, initial |-> d.initial, states |-> d.states, events |-> d.events,
             transitions |-> ts, checks |-> d.checks]
  <2>1. new = [d EXCEPT !.transitions = ts]
      OBVIOUS
  <2> HIDE DEF ts, new
  <2> QED
      BY <1>2, <2>1
<1>4. /\ new.states = d.states /\ new.events = d.events /\ new.transitions = ts
      /\ new.checks = d.checks /\ new.id = d.id /\ new.initial = d.initial
  <2> HIDE DEF ts, new
  <2> QED
      BY <1>3
<1>5. IsList(ts) /\ DOMAIN ts = 1 .. Len(d.transitions) + 1 /\ Len(d.transitions) \in Nat
      /\ ts[Len(d.transitions) + 1] = t
      /\ \A k \in 1 .. Len(d.transitions) : ts[k] = d.transitions[k] /\ k \in DOMAIN d.transitions
  <2>1. IsList(ts) /\ Len(ts) = Len(d.transitions) + 1
      BY <1>1, ListGrows
  <2>2. DOMAIN ts = 1 .. Len(ts)
      BY <2>1, ListFacts
  <2>3. Len(d.transitions) \in Nat /\ DOMAIN d.transitions = 1 .. Len(d.transitions)
      BY <1>1, ListFacts
  <2> QED
      BY <1>1, <2>1, <2>2, <2>3, ListGrows
<1>6. \A k \in DOMAIN ts : {ts[k].guarded, ts[k].issue, ts[k].verify} \subseteq BOOLEAN
                           /\ ts[k].preconditions \in Seq(BOOLEAN)
  <2> SUFFICES ASSUME NEW k \in DOMAIN ts
               PROVE  {ts[k].guarded, ts[k].issue, ts[k].verify} \subseteq BOOLEAN
                      /\ ts[k].preconditions \in Seq(BOOLEAN)
      OBVIOUS
  <2> HIDE DEF ts
  <2>1. k \in 1 .. Len(d.transitions) \/ k = Len(d.transitions) + 1
      BY <1>5
  <2> QED
      BY <1>5, <2>1 DEF IsStrict
<1> HIDE DEF new, ts
<1>7. IsStrict(new)
    BY <1>3, <1>4, <1>5, <1>6 DEF IsStrict
<1> QED
    BY <1>7 DEF new

(* The definition that Compile is asked about is made of lists, and the      *)
(* problems are those that it reports (definition.go, Compile).              *)
LEMMA StrictStays == Spec => []StrictInv
<1>1. Init => StrictInv
    BY StrictAssumption DEF Init, StrictInv, Strict!Init
<1>2. StrictInv /\ [Next]_vars => StrictInv'
  <2> SUFFICES ASSUME StrictInv, Next \/ UNCHANGED vars PROVE StrictInv'
      OBVIOUS
  <2>1. CASE UNCHANGED vars
      BY <2>1 DEF StrictInv, vars, strictVars
  <2>2. CASE asked = "strict" /\ asked' = asked /\ Strict!Next
    <3>1. IsStrict(strict)
        BY <2>2 DEF StrictInv
    <3>2. ASSUME NEW i \in DOMAIN strict.states, NEW e, Strict!AddRefusal(i, e)
          PROVE  StrictInv'
        BY <3>1, <3>2, RefusalAdded DEF StrictInv, Strict!AddRefusal
    <3>3. ASSUME NEW t \in StrictRows, NEW id, Strict!AddTransition(t, id)
          PROVE  StrictInv'
      <4> DEFINE row == [from |-> t.from, event |-> t.event, to |-> t.to, id |-> id,
                         guarded |-> t.guarded, issue |-> t.issue, verify |-> t.verify,
                         preconditions |-> t.preconditions]
      <4>1. {row.guarded, row.issue, row.verify} \subseteq BOOLEAN
            /\ row.preconditions \in Seq(BOOLEAN)
          BY StrictAssumption
      <4>2. strict' = [strict EXCEPT !.transitions = Append(@, row)]
            /\ problems' = Strict!Compile(strict')
          BY <3>3 DEF Strict!AddTransition
      <4> HIDE DEF row
      <4>3. IsStrict([strict EXCEPT !.transitions = Append(@, row)])
          BY <3>1, <4>1, StrictRowAdded
      <4> QED
          BY <4>2, <4>3 DEF StrictInv
    <3> QED
        BY <2>2, <3>2, <3>3 DEF Strict!Next
  <2>3. CASE asked # "strict" /\ asked' = asked
      BY <2>3 DEF StrictInv
  <2> QED
      BY <2>1, <2>2, <2>3 DEF Next
<1> QED
    BY <1>1, <1>2, PTL DEF Spec

\* Row k of the definition answers the event in the state.
Answering(d, k, s, e) ==
    Strict!Known(d, d.transitions[k]) /\ Strict!KeyOf(d.transitions[k]) = << s, e >>

(* A state has rows for an event when a row of the definition answers it     *)
(* (definition.go, Compile).                                                *)
LEMMA RowsOfFacts ==
    ASSUME NEW d, IsStrict(d), NEW s, NEW e
    PROVE  Strict!RowsOf(d, s, e) = << >> <=> \A k \in DOMAIN d.transitions : ~Answering(d, k, s, e)
<1> DEFINE n == Len(d.transitions)
           T == ToSet(d.transitions)
           one(k) == IF Answering(d, k, s, e) THEN << d.transitions[k] >> ELSE << >>
           ss == [k \in DOMAIN d.transitions |-> one(k)]
<1>1. n \in Nat /\ DOMAIN d.transitions = 1 .. n /\ \A k \in 1 .. n : d.transitions[k] \in T
    BY ListFacts DEF IsStrict
<1>2. ss \in Seq(Seq(T)) /\ Len(ss) = n /\ \A k \in 1 .. n : ss[k] = one(k)
  <2> DEFINE S == Seq(T)
  <2>1. \A k \in 1 .. n : one(k) \in S
    <3>1. << >> \in S /\ \A x \in T : << x >> \in S
      <4> HIDE DEF T
      <4> QED
          OBVIOUS
    <3> HIDE DEF S, T, n
    <3> QED
        BY <1>1, <3>1
  <2>2. ss = [k \in 1 .. n |-> one(k)]
      BY <1>1
  <2> HIDE DEF one, n, S
  <2>3. ss \in [1 .. n -> S]
      BY <2>1, <2>2
  <2> HIDE DEF ss
  <2>4. ss \in Seq(S) /\ Len(ss) = n
      BY <1>1, <2>3, ListOf
  <2> QED
      BY <1>1, <2>2, <2>4 DEF S, ss
<1>3. Strict!RowsOf(d, s, e) = FlattenSeq(ss)
  <2>1. Strict!RowsOf(d, s, e) = Strict!FlattenSeq(ss)
      BY DEF Strict!RowsOf, Answering
  <2> HIDE DEF ss
  <2>2. Strict!FlattenSeq(ss) = FlattenSeq(ss)
      BY DEF Strict!FlattenSeq, FlattenSeq
  <2> QED
      BY <2>1, <2>2
<1> HIDE DEF ss, T
<1>4. /\ FlattenSeq(ss) \in Seq(T)
      /\ \A x : x \in ToSet(FlattenSeq(ss)) <=> \E k \in 1 .. Len(ss) : x \in ToSet(ss[k])
    BY <1>2, FlattenFacts
<1>5. ASSUME NEW k \in 1 .. n, Answering(d, k, s, e) PROVE FlattenSeq(ss) # << >>
  <2>1. ss[k] = << d.transitions[k] >>
      BY <1>2, <1>5
  <2>2. d.transitions[k] \in ToSet(ss[k])
      BY <2>1 DEF ToSet
  <2>3. d.transitions[k] \in ToSet(FlattenSeq(ss))
      BY <1>2, <1>4, <2>2
  <2> QED
      BY <2>3 DEF ToSet
<1>6. ASSUME \A k \in 1 .. n : ~Answering(d, k, s, e) PROVE FlattenSeq(ss) = << >>
  <2>1. \A k \in 1 .. n : ss[k] = << >>
      BY <1>2, <1>6
  <2>2. \A x : x \notin ToSet(FlattenSeq(ss))
    <3>1. \A x : x \notin ToSet(<< >>)
        BY DEF ToSet
    <3> HIDE DEF n
    <3> QED
        BY <1>2, <1>4, <2>1, <3>1
  <2>3. FlattenSeq(ss) \in Seq(T) /\ \A j \in 1 .. Len(FlattenSeq(ss)) : FALSE
      BY <1>4, <2>2 DEF ToSet
  <2> QED
      BY <2>3
<1> QED
    BY <1>1, <1>3, <1>5, <1>6

\* What Compile looks at, one after the other.
NothingReported(d) ==
    /\ Strict!Keys(d) \cap Invalid = {}
    /\ d.id # 0
    /\ Strict!CallbackProblems(d) = {} /\ Strict!StateProblems(d) = {}
    /\ Strict!EventProblems(d) = {} /\ Strict!RefusalProblems(d) = {}
    /\ Strict!TransitionProblems(d) = {} /\ Strict!CoverageProblems(d) = {}
    /\ Strict!ReachabilityProblems(d) = {}

(* Compile reports nothing when nothing that it looks at is wrong            *)
(* (definition.go, Compile).                                                *)
LEMMA StrictCompiles ==
    ASSUME NEW d
    PROVE  Strict!Compile(d) = {} <=> NothingReported(d)
<1>1. CASE Strict!Keys(d) \cap Invalid # {}
    BY <1>1 DEF Strict!Compile, NothingReported
<1>2. CASE Strict!Keys(d) \cap Invalid = {}
  <2>1. {<< "id", 0 >> : x \in {d.id} \cap {0}} = {} <=> d.id # 0
      OBVIOUS
  <2> QED
      BY <1>2, <2>1 DEF Strict!Compile, NothingReported
<1> QED
    BY <1>1, <1>2

\* What Compile asks of row k.
RowSound(d, k) ==
    LET t == d.transitions[k]
    IN  /\ t.id # 0 /\ \A j \in 1 .. k - 1 : d.transitions[j].id # t.id
        /\ Strict!Known(d, t)
        /\ t.issue = t.verify
        /\ FALSE \notin ToSet(t.preconditions)
        /\ ~Strict!Hidden(d, k)
        /\ Strict!KeyOf(t) \notin Strict!RefusedKeys(d)
        /\ ~Strict!IsTerminal(d, t.from)

(* Every row is looked at, one after the other (definition.go, Compile).     *)
LEMMA StrictRowsSound ==
    ASSUME NEW d, IsStrict(d)
    PROVE  Strict!TransitionProblems(d) = {} <=> \A k \in DOMAIN d.transitions : RowSound(d, k)
<1> DEFINE Bad(k) == ~RowSound(d, k)
<1>1. Strict!TransitionProblems(d)
      = {<< "transitions", i >> : i \in {k \in DOMAIN d.transitions : Bad(k)}}
  <2>1. \A x : Strict!ToSet(x) = ToSet(x)
      BY DEF Strict!ToSet, ToSet
  <2> QED
      BY <2>1 DEF Strict!TransitionProblems, RowSound
<1> HIDE DEF Bad
<1>2. Strict!TransitionProblems(d) = {} <=> \A k \in DOMAIN d.transitions : ~Bad(k)
    BY <1>1
<1> QED
    BY <1>2 DEF Bad

(* A compiled Machine has rows for a declared event in a declared state, or  *)
(* refuses it (definition.go, Compile and Refused).                         *)
LEMMA AnsweredOnce ==
    ASSUME NEW d, IsStrict(d), NothingReported(d),
           NEW s \in Strict!Names(d), NEW e \in Strict!Declared(d)
    PROVE  Strict!Refused(d, s, e) <=> Strict!RowsOf(d, s, e) = << >>
<1>1. \A k \in DOMAIN d.transitions : RowSound(d, k)
    BY StrictRowsSound DEF NothingReported
<1>2. ASSUME Strict!Refused(d, s, e), NEW k \in DOMAIN d.transitions, Answering(d, k, s, e)
      PROVE  FALSE
  <2>1. d.transitions[k].from = s /\ Strict!KeyOf(d.transitions[k]) = << s, e >>
      BY <1>2 DEF Answering, Strict!KeyOf
  <2> QED
      BY <1>1, <1>2, <2>1 DEF RowSound, Strict!Refused
<1>3. ASSUME Strict!RowsOf(d, s, e) = << >> PROVE Strict!Refused(d, s, e)
  <2>1. CASE Strict!IsTerminal(d, s)
      BY <2>1 DEF Strict!Refused
  <2>2. CASE ~Strict!IsTerminal(d, s)
    <3>1. ~Strict!Unanswered(d, s, e)
      <4> DEFINE open == {x \in Strict!Names(d) : ~Strict!IsTerminal(d, x)}
                 bad == {y \in open \X Strict!Declared(d) : Strict!Unanswered(d, y[1], y[2])}
      <4>1. bad = {}
          BY ZenonT(90) DEF NothingReported, Strict!CoverageProblems
      <4>2. << s, e >> \in open \X Strict!Declared(d)
          BY <2>2
      <4> QED
          BY <4>1, <4>2
    <3> QED
        BY <1>3, <3>1 DEF Strict!Unanswered, Strict!Refused
  <2> QED
      BY <2>1, <2>2
<1> QED
    BY <1>2, <1>3, RowsOfFacts

(* A compiled supervised Machine has one answer to every declared event in   *)
(* every state, rows or a refusal (definition.go, Compile and Refused).      *)
THEOREM EventsAreAnswered == Spec => []EveryEventAnswered
<1>1. StrictInv => EveryEventAnswered
  <2> SUFFICES ASSUME StrictInv, asked = "strict", Strict!Accepted,
                      NEW s \in Strict!NameSet, NEW e \in Strict!EventSet
               PROVE  Strict!Refused(strict, s, e) <=> Strict!RowsOf(strict, s, e) = << >>
      BY DEF EveryEventAnswered, Strict!EveryEventAnswered
  <2>1. IsStrict(strict) /\ NothingReported(strict)
      BY StrictCompiles DEF StrictInv, Strict!Accepted
  <2>2. s \in Strict!Names(strict) /\ e \in Strict!Declared(strict)
      BY DEF Strict!NameSet, Strict!EventSet, Strict!Names, Strict!Declared, Strict!ToSet
  <2> QED
      BY <2>1, <2>2, AnsweredOnce
<1> QED
    BY <1>1, StrictStays, PTL

-----------------------------------------------------------------------------
(* Transition tables (statemachine.go).                                     *)

FlatMachines ==
    [rows : [Flat!Group -> Seq(Nat)], events : [TableStates -> Seq(TableEvents)],
     unguarded : SUBSET Flat!Group, rejected : Nat]

Rising(p) == \A j, k \in 1 .. Len(p) : j < k => p[j] < p[k]

\* The rows of table t in group g.
RowsIn(t, g) == {i \in 1 .. Len(t) : Flat!GroupOf(t[i]) = g}

GroupsListed(t, m) ==
    \A g \in Flat!Group : Rising(m.rows[g]) /\ ToSet(m.rows[g]) = RowsIn(t, g)

UnguardedKept(t, m) == m.unguarded = {g \in Flat!Group : \E i \in RowsIn(t, g) : ~t[i].guarded}

EventsListed(t, m) ==
    \A s \in TableStates :
        /\ Distinct(m.events[s])
        /\ ToSet(m.events[s]) = {e \in TableEvents : RowsIn(t, << s, e >>) # {}}

\* Row i follows a row of its group that has no Guard.
Follows(t, i) ==
    \E j \in 1 .. i - 1 : Flat!GroupOf(t[j]) = Flat!GroupOf(t[i]) /\ ~t[j].guarded

FlatBuilt(t, m) ==
    /\ GroupsListed(t, m) /\ UnguardedKept(t, m) /\ EventsListed(t, m)
    /\ \A i \in 1 .. Len(t) : ~Flat!InvalidKeys(t[i]) /\ ~Follows(t, i)

\* The last row ended the loop of Compile.
FlatRefused(t, m) ==
    /\ m.rejected = Len(t)
    /\ Flat!InvalidKeys(t[Len(t)]) \/ Follows(t, Len(t))

FlatInv ==
    asked = "flat" =>
        /\ table \in Seq(Flat!Row) /\ machine \in FlatMachines
        /\ IF machine.rejected = 0 THEN FlatBuilt(table, machine) ELSE FlatRefused(table, machine)

(* Only the empty list has no elements (statemachine.go, Compile).           *)
LEMMA EmptyList ==
    ASSUME NEW S, NEW p \in Seq(S)
    PROVE  p = << >> <=> ToSet(p) = {}
<1>1. CASE p = << >>
    BY <1>1 DEF ToSet
<1>2. CASE p # << >>
  <2>1. 1 \in DOMAIN p
      BY <1>2
  <2> QED
      BY <1>2, <2>1 DEF ToSet
<1> QED
    BY <1>1, <1>2

(* A greater number at the end (statemachine.go, Compile).                   *)
LEMMA RisingGrows ==
    ASSUME NEW n \in Nat, NEW p \in Seq(Nat), Rising(p), ToSet(p) \subseteq 1 .. n
    PROVE  Rising(Append(p, n + 1)) /\ ToSet(Append(p, n + 1)) = ToSet(p) \cup {n + 1}
<1> DEFINE q == Append(p, n + 1)
<1>1. /\ Len(p) \in Nat /\ Len(q) = Len(p) + 1 /\ q[Len(p) + 1] = n + 1
      /\ \A k \in 1 .. Len(p) : q[k] = p[k] /\ q[k] \in 1 .. n
    BY DEF ToSet
<1>2. Rising(q)
  <2> SUFFICES ASSUME NEW j \in 1 .. Len(q), NEW k \in 1 .. Len(q), j < k PROVE q[j] < q[k]
      BY DEF Rising
  <2> HIDE DEF q
  <2>1. j \in 1 .. Len(p) /\ (k \in 1 .. Len(p) \/ k = Len(p) + 1)
      BY <1>1
  <2> QED
      BY <1>1, <2>1 DEF Rising
<1> QED
    BY <1>2, OneMore

(* Row by row: the groups of a table with one row more (statemachine.go,     *)
(* Compile).                                                                *)
LEMMA GroupGrows ==
    ASSUME NEW t \in Seq(Flat!Row), NEW r \in Flat!Row
    PROVE  LET new == Append(t, r)
           IN  /\ Len(t) \in Nat /\ Len(new) = Len(t) + 1 /\ new \in Seq(Flat!Row)
               /\ new[Len(t) + 1] = r /\ \A i \in 1 .. Len(t) : new[i] = t[i]
               /\ Flat!GroupOf(r) \in Flat!Group
               /\ \A i \in 1 .. Len(t) : Flat!GroupOf(t[i]) \in Flat!Group
               /\ \A g : RowsIn(t, g) \subseteq 1 .. Len(t)
               /\ \A g : RowsIn(new, g) = IF g = Flat!GroupOf(r) THEN RowsIn(t, g) \cup {Len(t) + 1}
                                          ELSE RowsIn(t, g)
<1> DEFINE new == Append(t, r)
<1>1. /\ Len(t) \in Nat /\ Len(new) = Len(t) + 1 /\ new \in Seq(Flat!Row)
      /\ new[Len(t) + 1] = r /\ \A i \in 1 .. Len(t) : new[i] = t[i]
    OBVIOUS
<1>2. \A x \in Flat!Row : Flat!GroupOf(x) \in Flat!Group
    BY DEF Flat!Row, Flat!GroupOf, Flat!Group
<1>3. \A i \in 1 .. Len(t) : t[i] \in Flat!Row
    OBVIOUS
<1> HIDE DEF new
<1>4. ASSUME NEW g
      PROVE  RowsIn(new, g) = IF g = Flat!GroupOf(r) THEN RowsIn(t, g) \cup {Len(t) + 1}
                              ELSE RowsIn(t, g)
  <2>1. 1 .. Len(new) = (1 .. Len(t)) \cup {Len(t) + 1}
      BY <1>1
  <2>2. Len(t) + 1 \notin 1 .. Len(t)
      BY <1>1
  <2> QED
      BY <1>1, <2>1, <2>2 DEF RowsIn
<1>5. \A g : RowsIn(t, g) \subseteq 1 .. Len(t)
    BY DEF RowsIn
<1> QED
    BY <1>1, <1>2, <1>3, <1>4, <1>5 DEF new

(* Compile reads the next row: it is added to its group, or it is refused    *)
(* for an invalid key or an earlier row without a Guard (statemachine.go,    *)
(* Compile).                                                               *)
LEMMA FlatRowAdded ==
    ASSUME NEW t \in Seq(Flat!Row), NEW m \in FlatMachines, m.rejected = 0, FlatBuilt(t, m),
           NEW r \in Flat!Row
    PROVE  LET new == Append(t, r)
               made == Flat!AddRow(m, Len(t) + 1, r)
           IN  /\ new \in Seq(Flat!Row) /\ made \in FlatMachines
               /\ IF made.rejected = 0 THEN FlatBuilt(new, made) ELSE FlatRefused(new, made)
<1> DEFINE n == Len(t)
           new == Append(t, r)
           made == Flat!AddRow(m, n + 1, r)
           g == Flat!GroupOf(r)
<1>1. /\ n \in Nat /\ Len(new) = n + 1 /\ new \in Seq(Flat!Row)
      /\ new[n + 1] = r /\ \A i \in 1 .. n : new[i] = t[i]
      /\ g \in Flat!Group
      /\ \A i \in 1 .. n : Flat!GroupOf(t[i]) \in Flat!Group
      /\ \A h : RowsIn(t, h) \subseteq 1 .. n
      /\ \A h : RowsIn(new, h) = IF h = g THEN RowsIn(t, h) \cup {n + 1} ELSE RowsIn(t, h)
    BY GroupGrows
<1>2. /\ r.from \in TableStates /\ r.event \in TableEvents /\ g = << r.from, r.event >>
      /\ r.guarded \in BOOLEAN
    BY DEF Flat!Row, Flat!GroupOf
<1>3. g \in m.unguarded <=> Follows(new, n + 1)
  <2>1. g \in m.unguarded <=> \E i \in RowsIn(t, g) : ~t[i].guarded
      BY <1>1 DEF FlatBuilt, UnguardedKept
  <2>2. (n + 1) - 1 = n
      BY <1>1
  <2> HIDE DEF new, n
  <2> QED
      BY <1>1, <2>1, <2>2 DEF Follows, RowsIn, n
<1>4. CASE Flat!InvalidKeys(r) \/ g \in m.unguarded
  <2>1. made = [m EXCEPT !.rejected = n + 1]
      BY <1>4 DEF Flat!AddRow
  <2>2. made \in FlatMachines /\ made.rejected = n + 1
    <3>1. n + 1 \in Nat
        BY <1>1
    <3> HIDE DEF made, n
    <3> QED
        BY <2>1, <3>1 DEF FlatMachines
  <2>3. FlatRefused(new, made)
    <3> HIDE DEF made, new, n, g
    <3> QED
        BY <1>1, <1>3, <1>4, <2>2 DEF FlatRefused
  <2> HIDE DEF made, new, n
  <2>4. made.rejected # 0
      BY <1>1, <2>2
  <2> QED
      BY <1>1, <2>2, <2>3, <2>4 DEF made, new, n
<1>5. CASE ~(Flat!InvalidKeys(r) \/ g \in m.unguarded)
  <2> DEFINE events == Flat!EventsWith(m, r)
             unguarded == Flat!Unguarded(m, n + 1, r)
  <2>1. made = [m EXCEPT !.unguarded = unguarded,
                         !.events = [m.events EXCEPT ![r.from] = events],
                         !.rows = [m.rows EXCEPT ![g] = Append(m.rows[g], n + 1)]]
      BY <1>5 DEF Flat!AddRow
  <2>2. m.rows[g] \in Seq(Nat) /\ m.events[r.from] \in Seq(TableEvents)
      BY <1>1, <1>2 DEF FlatMachines
  <2>3. events \in Seq(TableEvents)
      BY <1>2, <2>2 DEF Flat!EventsWith
  <2>4. Append(m.rows[g], n + 1) \in Seq(Nat)
      BY <1>1, <2>2
  <2>5. unguarded \in SUBSET Flat!Group
      BY <1>1, <1>2 DEF Flat!Unguarded, FlatMachines
  <2> HIDE DEF made, events, unguarded, n, g
  <2>6. /\ made \in FlatMachines /\ made.rejected = 0
        /\ made.rows = [m.rows EXCEPT ![g] = Append(m.rows[g], n + 1)]
        /\ made.events = [m.events EXCEPT ![r.from] = events]
        /\ made.unguarded = unguarded
      BY <1>1, <1>2, <2>1, <2>3, <2>4, <2>5 DEF FlatMachines
  <2>7. /\ made.rows[g] = Append(m.rows[g], n + 1)
        /\ \A h \in Flat!Group : h # g => made.rows[h] = m.rows[h]
        /\ made.events[r.from] = events
        /\ \A s \in TableStates : s # r.from => made.events[s] = m.events[s]
      BY SMTT(60), <1>1, <1>2, <2>6 DEF FlatMachines
  <2>8. GroupsListed(new, made)
    <3> SUFFICES ASSUME NEW h \in Flat!Group
                 PROVE  Rising(made.rows[h]) /\ ToSet(made.rows[h]) = RowsIn(new, h)
        BY DEF GroupsListed
    <3> HIDE DEF new
    <3>1. Rising(m.rows[h]) /\ ToSet(m.rows[h]) = RowsIn(t, h)
        BY DEF FlatBuilt, GroupsListed
    <3>2. CASE h # g
        BY <1>1, <2>7, <3>1, <3>2
    <3>3. CASE h = g
      <4>1. Rising(Append(m.rows[g], n + 1))
            /\ ToSet(Append(m.rows[g], n + 1)) = ToSet(m.rows[g]) \cup {n + 1}
        <5>1. ToSet(m.rows[g]) \subseteq 1 .. n /\ Rising(m.rows[g])
            BY <1>1, <3>1, <3>3
        <5> QED
            BY <1>1, <2>2, <5>1, RisingGrows
      <4> QED
          BY <1>1, <2>7, <3>1, <3>3, <4>1
    <3> QED
        BY <3>2, <3>3
  <2>9. UnguardedKept(new, made)
    <3>1. \A h \in Flat!Group : (h \in unguarded) <=> h \in m.unguarded \/ (h = g /\ ~r.guarded)
        BY <1>1, <1>2 DEF unguarded, Flat!Unguarded, g
    <3>2. \A h \in Flat!Group : (h \in m.unguarded) <=> \E i \in RowsIn(t, h) : ~t[i].guarded
        BY DEF FlatBuilt, UnguardedKept
    <3>3. ASSUME NEW h \in Flat!Group
          PROVE  (\E i \in RowsIn(new, h) : ~new[i].guarded)
                 <=> (\E i \in RowsIn(t, h) : ~t[i].guarded) \/ (h = g /\ ~r.guarded)
      <4> HIDE DEF new
      <4> QED
          BY <1>1
    <3> HIDE DEF new
    <3>4. \A h \in Flat!Group : h \in made.unguarded <=> \E i \in RowsIn(new, h) : ~new[i].guarded
        BY <2>6, <3>1, <3>2, <3>3
    <3>5. made.unguarded \subseteq Flat!Group
        BY <2>5, <2>6
    <3> QED
        BY <3>4, <3>5 DEF UnguardedKept
  <2>10. EventsListed(new, made)
    <3> SUFFICES ASSUME NEW s \in TableStates
                 PROVE  /\ Distinct(made.events[s])
                        /\ ToSet(made.events[s]) = {e \in TableEvents : RowsIn(new, << s, e >>) # {}}
        BY DEF EventsListed
    <3> HIDE DEF new
    <3>1. /\ Distinct(m.events[s]) /\ m.events[s] \in Seq(TableEvents)
          /\ ToSet(m.events[s]) = {e \in TableEvents : RowsIn(t, << s, e >>) # {}}
        BY DEF FlatBuilt, EventsListed, FlatMachines
    <3>2. \A e \in TableEvents : RowsIn(new, << s, e >>) # {} <=> RowsIn(t, << s, e >>) # {}
                                                            \/ (s = r.from /\ e = r.event)
      <4>1. \A e : << s, e >> = g <=> s = r.from /\ e = r.event
          BY <1>2
      <4> QED
          BY <1>1, <4>1
    <3>3. m.rows[g] = << >> <=> RowsIn(t, g) = {}
      <4>1. ToSet(m.rows[g]) = RowsIn(t, g)
          BY <1>1 DEF FlatBuilt, GroupsListed
      <4> QED
          BY <2>2, <4>1, EmptyList
    <3>4. events = IF RowsIn(t, g) = {} THEN Append(m.events[r.from], r.event) ELSE m.events[r.from]
        BY <3>3 DEF events, Flat!EventsWith, g
    <3>5. CASE s # r.from \/ RowsIn(t, g) # {}
      <4>1. made.events[s] = m.events[s]
          BY <2>7, <3>4, <3>5
      <4>2. \A e \in TableEvents : RowsIn(new, << s, e >>) # {} <=> RowsIn(t, << s, e >>) # {}
          BY SMTT(60), <1>2, <3>2, <3>5
      <4> QED
          BY <3>1, <4>1, <4>2
    <3>6. CASE s = r.from /\ RowsIn(t, g) = {}
      <4> DEFINE p == m.events[s]
      <4>1. made.events[s] = Append(p, r.event)
          BY <2>7, <3>4, <3>6
      <4>2. r.event \notin ToSet(p)
          BY <1>2, <3>1, <3>6
      <4>3. Distinct(p) /\ p \in Seq(TableEvents)
          BY <3>1
      <4> HIDE DEF p
      <4>4. /\ ToSet(Append(p, r.event)) = ToSet(p) \cup {r.event}
            /\ Len(Append(p, r.event)) = Len(p) + 1
          BY <1>2, <4>3, OneMore
      <4>5. Distinct(Append(p, r.event))
        <5> DEFINE q == Append(p, r.event)
        <5>1. /\ Len(p) \in Nat /\ Len(q) = Len(p) + 1 /\ q[Len(p) + 1] = r.event
              /\ \A k \in 1 .. Len(p) : q[k] = p[k] /\ q[k] # r.event
            BY <4>2, <4>3 DEF ToSet
        <5> HIDE DEF q
        <5> SUFFICES ASSUME NEW j \in 1 .. Len(q), NEW k \in 1 .. Len(q), q[j] = q[k]
                     PROVE  j = k
            BY DEF Distinct, q
        <5>2. (j \in 1 .. Len(p) \/ j = Len(p) + 1) /\ (k \in 1 .. Len(p) \/ k = Len(p) + 1)
            BY <5>1
        <5> QED
            BY <4>3, <5>1, <5>2 DEF Distinct
      <4> QED
          BY <1>2, <3>1, <3>2, <3>6, <4>1, <4>4, <4>5 DEF p
    <3> QED
        BY <3>5, <3>6
  <2>11. ASSUME NEW i \in 1 .. Len(new) PROVE ~Flat!InvalidKeys(new[i]) /\ ~Follows(new, i)
    <3> HIDE DEF new
    <3>1. i \in 1 .. n \/ i = n + 1
        BY <1>1
    <3>2. CASE i = n + 1
        BY <1>1, <1>3, <1>5, <3>2
    <3>3. CASE i \in 1 .. n
      <4>1. ~Flat!InvalidKeys(t[i]) /\ ~Follows(t, i)
          BY <3>3 DEF FlatBuilt, n
      <4>2. \A j \in 1 .. i - 1 : j \in 1 .. n
          BY <1>1, <3>3
      <4> QED
          BY <1>1, <3>3, <4>1, <4>2 DEF Follows
    <3> QED
        BY <3>1, <3>2, <3>3
  <2>12. FlatBuilt(new, made)
    <3> HIDE DEF new
    <3> QED
        BY <2>8, <2>9, <2>10, <2>11 DEF FlatBuilt
  <2> QED
      BY <1>1, <2>6, <2>12 DEF made, n
<1> QED
    BY <1>4, <1>5

(* What holds of the table read so far and of what Compile has built of it   *)
(* (statemachine.go, Compile).                                              *)
LEMMA FlatStays == Spec => []FlatInv
<1>1. Init => FlatInv
  <2> SUFFICES ASSUME Init, asked = "flat" PROVE FlatInv
      BY DEF FlatInv
  <2>1. table = << >> /\ machine = Flat!EmptyMachine
      BY DEF Init, Flat!Init
  <2>2. machine \in FlatMachines /\ machine.rejected = 0
      BY <2>1 DEF FlatMachines, Flat!EmptyMachine
  <2>3. \A g \in Flat!Group : machine.rows[g] = << >>
      BY <2>1 DEF Flat!EmptyMachine
  <2>4. \A s \in TableStates : machine.events[s] = << >>
      BY <2>1 DEF Flat!EmptyMachine
  <2>5. machine.unguarded = {}
      BY <2>1 DEF Flat!EmptyMachine
  <2>6. Len(table) = 0 /\ \A i \in 1 .. Len(table) : FALSE
      BY <2>1
  <2>7. \A g : RowsIn(table, g) = {}
      BY <2>6 DEF RowsIn
  <2>8. Rising(<< >>) /\ Distinct(<< >>) /\ ToSet(<< >>) = {}
      BY DEF Rising, Distinct, ToSet
  <2>9. FlatBuilt(table, machine)
    <3>1. GroupsListed(table, machine)
        BY <2>3, <2>7, <2>8 DEF GroupsListed
    <3>2. UnguardedKept(table, machine)
        BY <2>5, <2>7 DEF UnguardedKept
    <3>3. EventsListed(table, machine)
        BY <2>4, <2>7, <2>8 DEF EventsListed
    <3> QED
        BY <2>6, <3>1, <3>2, <3>3 DEF FlatBuilt
  <2> QED
      BY <2>1, <2>2, <2>9 DEF FlatInv
<1>2. FlatInv /\ [Next]_vars => FlatInv'
  <2> SUFFICES ASSUME FlatInv, Next \/ UNCHANGED vars PROVE FlatInv'
      OBVIOUS
  <2>1. CASE UNCHANGED vars
      BY <2>1 DEF FlatInv, vars, flatVars
  <2>2. CASE asked = "flat" /\ asked' = asked /\ Flat!Next
    <3>1. PICK r \in Flat!Row : Flat!CompileRow(r)
        BY <2>2 DEF Flat!Next
    <3>2. /\ machine.rejected = 0 /\ table' = Append(table, r)
          /\ machine' = Flat!AddRow(machine, Len(table) + 1, r)
        BY <3>1 DEF Flat!CompileRow
    <3>3. table \in Seq(Flat!Row) /\ machine \in FlatMachines /\ FlatBuilt(table, machine)
        BY <2>2, <3>2 DEF FlatInv
    <3>4. /\ table' \in Seq(Flat!Row) /\ machine' \in FlatMachines
          /\ IF machine'.rejected = 0 THEN FlatBuilt(table', machine')
             ELSE FlatRefused(table', machine')
        BY <3>2, <3>3, FlatRowAdded
    <3> QED
        BY <3>4 DEF FlatInv
  <2>3. CASE asked # "flat" /\ asked' = asked
      BY <2>3 DEF FlatInv
  <2> QED
      BY <2>1, <2>2, <2>3 DEF Next
<1> QED
    BY <1>1, <1>2, PTL DEF Spec

\* The rows of the table for a state and an event that apply.
ApplyingRows(from, event, passing) ==
    {i \in RowsIn(table, << from, event >>) : Flat!Applies(table, i, passing)}

(* The first row of a table that applies is one that applies, and none does  *)
(* before it (statemachine.go, selectTransition).                           *)
LEMMA FirstRow ==
    ASSUME table \in Seq(Flat!Row), NEW from, NEW event, NEW passing
    PROVE  LET first == Flat!FirstOfTable(from, event, passing)
               rows == ApplyingRows(from, event, passing)
           IN  IF rows = {} THEN first = 0
               ELSE first \in rows /\ \A i \in rows : first <= i
<1> DEFINE rows == ApplyingRows(from, event, passing)
<1>1. rows = {i \in Flat!Indices : /\ table[i].from = from /\ table[i].event = event
                                   /\ Flat!Applies(table, i, passing)}
    BY DEF ApplyingRows, RowsIn, Flat!Indices, Flat!GroupOf
<1>2. Flat!FirstOfTable(from, event, passing)
      = IF rows = {} THEN 0 ELSE CHOOSE i \in rows : \A j \in rows : i <= j
    BY <1>1 DEF Flat!FirstOfTable
<1>3. rows \in SUBSET Nat
    BY DEF ApplyingRows, RowsIn
<1> HIDE DEF rows
<1>4. rows # {} => \E i \in rows : \A j \in rows : i <= j
    BY <1>3, Least
<1> QED
    BY <1>2, <1>4 DEF rows

(* Going through the group of a state and an event finds the first row of    *)
(* the table that applies (statemachine.go, selectTransition).               *)
LEMMA GroupSelects ==
    ASSUME table \in Seq(Flat!Row), machine \in FlatMachines, FlatBuilt(table, machine),
           NEW from \in TableStates, NEW event \in TableEvents, NEW passing
    PROVE  LET first == Flat!FirstOfTable(from, event, passing)
               group == machine.rows[<< from, event >>]
               position == Flat!FirstThatApplies(table, group, passing)
           IN  /\ group \in Seq(Nat) /\ ToSet(group) = RowsIn(table, << from, event >>)
               /\ first = 0 <=> position = 0
               /\ first # 0 => /\ position \in DOMAIN group /\ group[position] = first
                               /\ first \in ApplyingRows(from, event, passing)
<1> DEFINE first == Flat!FirstOfTable(from, event, passing)
           group == machine.rows[<< from, event >>]
           rows == ApplyingRows(from, event, passing)
           places == {j \in DOMAIN group : Flat!Applies(table, group[j], passing)}
           position == Flat!FirstThatApplies(table, group, passing)
<1>1. /\ group \in Seq(Nat) /\ Rising(group)
      /\ ToSet(group) = RowsIn(table, << from, event >>)
    BY DEF FlatMachines, Flat!Group, FlatBuilt, GroupsListed
<1>2. position = IF places = {} THEN 0 ELSE Flat!Min(places)
    BY DEF Flat!FirstThatApplies
<1>3. IF rows = {} THEN first = 0 ELSE first \in rows /\ \A i \in rows : first <= i
    BY FirstRow
<1>4. \A i \in rows : i \in Nat \ {0}
    BY DEF ApplyingRows, RowsIn
<1>5. \A i : i \in rows <=> \E j \in places : group[j] = i
  <2> HIDE DEF group
  <2> QED
      BY <1>1 DEF ToSet, ApplyingRows
<1>6. places \subseteq 1 .. Len(group) /\ Len(group) \in Nat /\ DOMAIN group = 1 .. Len(group)
  <2> HIDE DEF group
  <2> QED
      BY <1>1
<1>7. places # {} => Flat!Min(places) \in places /\ \A j \in places : Flat!Min(places) <= j
  <2> SUFFICES ASSUME places # {}
               PROVE  Flat!Min(places) \in places /\ \A j \in places : Flat!Min(places) <= j
      OBVIOUS
  <2>1. places \in SUBSET Nat
      BY <1>6
  <2> HIDE DEF places
  <2>2. \E i \in places : \A j \in places : i <= j
      BY <2>1, Least
  <2> QED
      BY <2>2 DEF Flat!Min
<1> HIDE DEF first, group, rows, places, position
<1>8. CASE places = {}
    BY <1>1, <1>2, <1>3, <1>5, <1>8 DEF first, group, rows, places, position
<1>9. CASE places # {}
  <2>1. position \in places /\ \A j \in places : position <= j
      BY <1>2, <1>7, <1>9
  <2>2. position \in 1 .. Len(group)
      BY <1>6, <2>1
  <2>3. rows # {} /\ first \in rows /\ \A i \in rows : first <= i
      BY <1>3, <1>5, <2>1
  <2>4. PICK j \in places : group[j] = first
      BY <1>5, <2>3
  <2>5. j \in 1 .. Len(group) /\ position <= j
      BY <1>6, <2>1, <2>4
  <2>6. group[position] \in rows /\ first <= group[position]
      BY <1>5, <2>1, <2>3
  <2>7. group[position] = first
    <3>1. CASE position = j
        BY <2>4, <3>1
    <3>2. CASE position # j
      <4>1. position < j
          BY <1>6, <2>2, <2>5, <3>2
      <4>2. group[position] < group[j]
          BY <1>1, <2>2, <2>5, <4>1 DEF Rising
      <4>3. first \in Nat /\ group[position] \in Nat
          BY <1>4, <2>3, <2>6
      <4> QED
          BY <2>4, <2>6, <4>2, <4>3
    <3> QED
        BY <3>1, <3>2
  <2>8. first # 0 /\ position # 0
      BY <1>4, <1>6, <2>2, <2>3
  <2> QED
      BY <1>1, <1>6, <2>2, <2>3, <2>7, <2>8 DEF first, group, rows, places, position
<1> QED
    BY <1>8, <1>9

(* Compile accepts a table exactly when its keys are valid and every row of  *)
(* it is selected for some data (statemachine.go, Compile).                  *)
LEMMA FlatRejects ==
    ASSUME FlatInv, asked = "flat" PROVE Flat!RejectsDeadRows
<1>1. table \in Seq(Flat!Row) /\ machine \in FlatMachines /\ Len(table) \in Nat
      /\ Flat!Indices = 1 .. Len(table)
    BY DEF FlatInv, Flat!Indices
<1>2. ASSUME machine.rejected = 0, NEW i \in Flat!Indices
      PROVE  /\ ~Flat!InvalidKeys(table[i])
             /\ \E passing \in SUBSET Flat!Indices :
                    Flat!FirstOfTable(table[i].from, table[i].event, passing) = i
  <2> DEFINE passing == {i}
             rows == ApplyingRows(table[i].from, table[i].event, passing)
             first == Flat!FirstOfTable(table[i].from, table[i].event, passing)
  <2>1. FlatBuilt(table, machine) /\ i \in 1 .. Len(table)
      BY <1>1, <1>2 DEF FlatInv
  <2>2. ~Flat!InvalidKeys(table[i]) /\ ~Follows(table, i)
      BY <2>1 DEF FlatBuilt
  <2>3. i \in rows
      BY <2>1 DEF ApplyingRows, RowsIn, Flat!Applies, Flat!GroupOf
  <2>4. ASSUME NEW j \in rows PROVE ~(j < i)
    <3>1. j \in 1 .. Len(table) /\ Flat!GroupOf(table[j]) = Flat!GroupOf(table[i])
          /\ (table[j].guarded => j = i)
        BY <2>4 DEF ApplyingRows, RowsIn, Flat!Applies, Flat!GroupOf
    <3>2. j < i => j \in 1 .. i - 1 /\ j # i
        BY <1>1, <2>1, <3>1
    <3> QED
        BY <2>2, <3>1, <3>2 DEF Follows
  <2>5. first \in rows /\ first <= i
      BY <1>1, <2>3, FirstRow
  <2>6. first \in Nat /\ i \in Nat /\ ~(first < i)
    <3>1. rows \subseteq Nat
        BY DEF ApplyingRows, RowsIn
    <3> HIDE DEF rows, first
    <3> QED
        BY <2>1, <2>4, <2>5, <3>1
  <2>7. first = i
      BY <2>5, <2>6
  <2> QED
      BY <1>2, <2>2, <2>7
<1>3. ASSUME machine.rejected # 0
      PROVE  \E i \in Flat!Indices :
                Flat!InvalidKeys(table[i])
                \/ \A passing : Flat!FirstOfTable(table[i].from, table[i].event, passing) # i
  <2> DEFINE n == Len(table)
  <2>1. /\ n = machine.rejected
        /\ Flat!InvalidKeys(table[n]) \/ Follows(table, n)
      BY <1>3 DEF FlatInv, FlatRefused
  <2>2. n \in Flat!Indices
      BY <1>1, <1>3, <2>1
  <2>3. ASSUME Follows(table, n), NEW passing
        PROVE  Flat!FirstOfTable(table[n].from, table[n].event, passing) # n
    <3>1. PICK j \in 1 .. n - 1 : Flat!GroupOf(table[j]) = Flat!GroupOf(table[n])
                                  /\ ~table[j].guarded
        BY SMTT(60), <2>3 DEF Follows
    <3>2. j \in 1 .. n /\ j < n
        BY SMTT(60), <1>1, <2>2
    <3>3. j \in ApplyingRows(table[n].from, table[n].event, passing)
        BY SMTT(60), <3>1, <3>2 DEF ApplyingRows, RowsIn, Flat!Applies, Flat!GroupOf
    <3>4. Flat!FirstOfTable(table[n].from, table[n].event, passing) <= j
        BY <1>1, <3>3, FirstRow
    <3> QED
        BY <1>1, <3>2, <3>4
  <2> QED
      BY <2>1, <2>2, <2>3
<1> QED
    BY <1>2, <1>3 DEF Flat!RejectsDeadRows

\* The event is accepted in the state: keys are valid and a row applies.
FlatAccepts(from, event, passing) ==
    /\ {from, event} \cap Invalid = {}
    /\ Flat!FirstOfTable(from, event, passing) # 0

(* Next accepts an event when some row of the table for it applies, and      *)
(* moves to where the first of them leads (statemachine.go, Next).           *)
LEMMA NextFacts ==
    ASSUME table \in Seq(Flat!Row), machine \in FlatMachines, FlatBuilt(table, machine),
           NEW from \in TableStates, NEW event \in TableEvents, NEW passing
    PROVE  LET next == Flat!NextState(table, machine, from, event, passing)
               first == Flat!FirstOfTable(from, event, passing)
           IN  /\ next.err = "none" <=> FlatAccepts(from, event, passing)
               /\ FlatAccepts(from, event, passing) =>
                     next = [state |-> table[first].to, err |-> "none", reasons |-> << >>]
               /\ {from, event} \cap Invalid = {} /\ first = 0 =>
                     next = [state |-> from, err |-> "notPermitted",
                             reasons |-> machine.rows[<< from, event >>]]
<1> DEFINE next == Flat!NextState(table, machine, from, event, passing)
           first == Flat!FirstOfTable(from, event, passing)
           group == machine.rows[<< from, event >>]
           position == Flat!FirstThatApplies(table, group, passing)
<1>1. /\ first = 0 <=> position = 0
      /\ first # 0 => position \in DOMAIN group /\ group[position] = first
    BY GroupSelects
<1>2. next = CASE {from, event} \cap Invalid # {} ->
                      [state |-> from, err |-> "invalidKey", reasons |-> << >>]
               [] {from, event} \cap Invalid = {} /\ position = 0 ->
                      [state |-> from, err |-> "notPermitted", reasons |-> group]
               [] OTHER ->
                      [state |-> table[group[position]].to, err |-> "none", reasons |-> << >>]
    BY DEF Flat!NextState
<1> DEFINE invalid == {from, event} \cap Invalid # {}
<1> HIDE DEF next, first, group, position
<1>3. CASE invalid
    BY <1>2, <1>3 DEF FlatAccepts, next, first
<1>4. CASE ~invalid /\ position = 0
    BY <1>1, <1>2, <1>4 DEF FlatAccepts, first, group, next
<1>5. CASE ~invalid /\ position # 0
    BY <1>1, <1>2, <1>5 DEF FlatAccepts, first, group, next
<1> QED
    BY <1>3, <1>4, <1>5 DEF first, group, next

(* Next selects the first row of the table that matches and applies, and     *)
(* refuses with the reasons of all matching rows otherwise (statemachine.go, *)
(* Next and selectTransition).                                              *)
LEMMA FlatSelects ==
    ASSUME FlatInv, asked = "flat" PROVE Flat!NextSelectsFirst
<1> SUFFICES ASSUME machine.rejected = 0,
                    NEW from \in TableStates \ Invalid, NEW event \in TableEvents \ Invalid,
                    NEW passing \in SUBSET Flat!Indices
             PROVE  LET first == Flat!FirstOfTable(from, event, passing)
                        next == Flat!NextState(table, machine, from, event, passing)
                        declined == {i \in Flat!Indices :
                                        table[i].from = from /\ table[i].event = event}
                    IN  IF first = 0
                        THEN /\ next.state = from
                             /\ next.err = "notPermitted"
                             /\ Flat!ToSet(next.reasons) = declined
                        ELSE next = [state |-> table[first].to, err |-> "none",
                                     reasons |-> << >>]
    BY DEF Flat!NextSelectsFirst
<1>1. table \in Seq(Flat!Row) /\ machine \in FlatMachines /\ FlatBuilt(table, machine)
    BY DEF FlatInv
<1> DEFINE first == Flat!FirstOfTable(from, event, passing)
           next == Flat!NextState(table, machine, from, event, passing)
           group == machine.rows[<< from, event >>]
<1>2. {from, event} \cap Invalid = {}
    OBVIOUS
<1>3. /\ FlatAccepts(from, event, passing) =>
            next = [state |-> table[first].to, err |-> "none", reasons |-> << >>]
      /\ first = 0 => next = [state |-> from, err |-> "notPermitted", reasons |-> group]
    BY <1>1, <1>2, NextFacts
<1>4. ToSet(group) = RowsIn(table, << from, event >>)
    BY <1>1, GroupSelects
<1>5. ToSet(group) = {i \in Flat!Indices : table[i].from = from /\ table[i].event = event}
    BY <1>4 DEF RowsIn, Flat!Indices, Flat!GroupOf
<1>6. Flat!ToSet(group) = ToSet(group)
    BY DEF Flat!ToSet, ToSet
<1> HIDE DEF first, next, group
<1>7. CASE first = 0
  <2>1. next.state = from /\ next.err = "notPermitted" /\ next.reasons = group
      BY <1>3, <1>7
  <2> QED
      BY <1>5, <1>6, <1>7, <2>1 DEF first, next
<1>8. CASE first # 0
  <2>1. FlatAccepts(from, event, passing)
      BY <1>2, <1>8 DEF FlatAccepts, first
  <2> QED
      BY <1>3, <1>8, <2>1 DEF first, next
<1> QED
    BY <1>7, <1>8

\* What Permitted yields for an event.
Choice(from, event, passing) ==
    LET first == Flat!FirstOfTable(from, event, passing)
    IN  IF first = 0 THEN << >> ELSE << << event, table[first].to >> >>

(* Permitted yields an event exactly when Next accepts it for the same data, *)
(* once, with the state Next reports (statemachine.go, Permitted).          *)
LEMMA FlatPermits ==
    ASSUME FlatInv, asked = "flat" PROVE Flat!PermittedAgreesWithNext
<1> SUFFICES ASSUME machine.rejected = 0,
                    NEW from \in TableStates, NEW passing \in SUBSET Flat!Indices
             PROVE  LET permitted == Flat!Permitted(table, machine, from, passing)
                        accepted == {e \in TableEvents :
                            Flat!NextState(table, machine, from, e, passing).err = "none"}
                    IN  /\ {permitted[j][1] : j \in DOMAIN permitted} = accepted
                        /\ Len(permitted) = Cardinality(accepted)
                        /\ \A j \in DOMAIN permitted :
                               permitted[j][2]
                               = Flat!NextState(table, machine, from, permitted[j][1], passing).state
    BY DEF Flat!PermittedAgreesWithNext, Flat!Cardinality, Cardinality
<1>1. table \in Seq(Flat!Row) /\ machine \in FlatMachines /\ FlatBuilt(table, machine)
    BY DEF FlatInv
<1> DEFINE permitted == Flat!Permitted(table, machine, from, passing)
           accepted == {e \in TableEvents :
                            Flat!NextState(table, machine, from, e, passing).err = "none"}
           first(e) == Flat!FirstOfTable(from, e, passing)
<1>2. accepted = {e \in TableEvents : FlatAccepts(from, e, passing)}
    BY <1>1, NextFacts
<1>3. CASE from \in Invalid
  <2>1. accepted = {}
      BY <1>2, <1>3 DEF FlatAccepts
  <2>2. permitted = << >>
      BY <1>3 DEF Flat!Permitted
  <2>3. Cardinality({}) = 0
      BY FS_EmptySet
  <2> HIDE DEF permitted, accepted
  <2> QED
      BY SMTT(60), <2>1, <2>2, <2>3 DEF permitted, accepted
<1>4. CASE from \notin Invalid
  <2> DEFINE events == machine.events[from]
             n == Len(events)
             choices == [j \in DOMAIN events |-> Choice(from, events[j], passing)]
             S == TableEvents \X TableStates
  <2>1. /\ events \in Seq(TableEvents) /\ Distinct(events) /\ n \in Nat /\ DOMAIN events = 1 .. n
        /\ ToSet(events) = {e \in TableEvents : RowsIn(table, << from, e >>) # {}}
    <3>1. events \in Seq(TableEvents)
        BY <1>1 DEF FlatMachines
    <3>2. /\ Distinct(events)
          /\ ToSet(events) = {e \in TableEvents : RowsIn(table, << from, e >>) # {}}
        BY <1>1 DEF FlatBuilt, EventsListed
    <3> QED
        BY <3>1, <3>2
  <2>2. permitted = FlattenSeq(choices)
    <3>1. ASSUME NEW e \in TableEvents
          PROVE  LET group == machine.rows[<< from, e >>]
                     position == Flat!FirstThatApplies(table, group, passing)
                 IN  (IF position = 0 THEN << >>
                      ELSE << << e, table[group[position]].to >> >>) = Choice(from, e, passing)
        BY <1>1, GroupSelects DEF Choice
    <3> DEFINE given(e) == LET group == machine.rows[<< from, e >>]
                               position == Flat!FirstThatApplies(table, group, passing)
                           IN  IF position = 0 THEN << >>
                               ELSE << << e, table[group[position]].to >> >>
               givens == [j \in DOMAIN events |-> given(events[j])]
    <3>2. permitted = Flat!FlattenSeq(givens)
        BY <1>4 DEF Flat!Permitted
    <3>3. \A j \in DOMAIN events : given(events[j]) = Choice(from, events[j], passing)
      <4>1. \A j \in DOMAIN events : events[j] \in TableEvents
        <5> HIDE DEF events
        <5> QED
            BY <2>1
      <4> HIDE DEF events
      <4> QED
          BY <3>1, <4>1
    <3>4. givens = choices
      <4> HIDE DEF given, events
      <4> QED
          BY <3>3
    <3> HIDE DEF givens, choices
    <3>5. Flat!FlattenSeq(choices) = FlattenSeq(choices)
        BY DEF Flat!FlattenSeq, FlattenSeq
    <3> QED
        BY <3>2, <3>4, <3>5
  <2>3. ASSUME NEW e \in TableEvents, first(e) # 0
        PROVE  /\ table[first(e)].to \in TableStates /\ e \notin Invalid
               /\ e \in ToSet(events) /\ FlatAccepts(from, e, passing)
    <3>1. first(e) \in RowsIn(table, << from, e >>)
        BY <1>1, <2>3, GroupSelects DEF ApplyingRows
    <3>2. first(e) \in 1 .. Len(table) /\ table[first(e)].event = e
        BY <3>1 DEF RowsIn, Flat!GroupOf
    <3>3. table[first(e)] \in Flat!Row /\ ~Flat!InvalidKeys(table[first(e)])
        BY <1>1, <3>2 DEF FlatBuilt
    <3>4. table[first(e)].to \in TableStates /\ e \notin Invalid
        BY <3>2, <3>3 DEF Flat!Row, Flat!InvalidKeys
    <3>5. e \in ToSet(events)
        BY <2>1, <3>1
    <3> QED
        BY <1>4, <2>3, <3>4, <3>5 DEF FlatAccepts
  <2> HIDE DEF events, n, permitted, accepted, first
  <2>4. ASSUME NEW j \in 1 .. n
        PROVE  /\ events[j] \in TableEvents
               /\ choices[j] = IF first(events[j]) = 0 THEN << >>
                               ELSE << << events[j], table[first(events[j])].to >> >>
               /\ choices[j] \in Seq(S)
               /\ Distinct(choices[j])
               /\ \A x : x \in ToSet(choices[j])
                         <=> first(events[j]) # 0
                             /\ x = << events[j], table[first(events[j])].to >>
    <3>1. events[j] \in TableEvents
        BY <2>1
    <3>2. choices[j] = IF first(events[j]) = 0 THEN << >>
                       ELSE << << events[j], table[first(events[j])].to >> >>
        BY <2>1 DEF Choice, first
    <3> DEFINE x == << events[j], table[first(events[j])].to >>
    <3>3. first(events[j]) # 0 => x \in S
        BY <2>3, <3>1
    <3>4. \A y : ToSet(<< y >>) = {y} /\ Distinct(<< y >>)
        BY DEF ToSet, Distinct
    <3>5. ToSet(<< >>) = {} /\ Distinct(<< >>) /\ << >> \in Seq(S)
        BY DEF ToSet, Distinct
    <3>6. \A y \in S : << y >> \in Seq(S)
      <4> HIDE DEF S
      <4> QED
          OBVIOUS
    <3> HIDE DEF x, choices, S
    <3>7. CASE first(events[j]) = 0
        BY <3>1, <3>2, <3>5, <3>7
    <3>8. CASE first(events[j]) # 0
        BY <3>1, <3>2, <3>3, <3>4, <3>6, <3>8 DEF x
    <3> QED
        BY <3>7, <3>8
  <2>5. choices \in Seq(Seq(S)) /\ Len(choices) = n
    <3> DEFINE Q == Seq(S)
    <3>1. choices = [j \in 1 .. n |-> choices[j]]
        BY <2>1
    <3> HIDE DEF choices, Q
    <3>2. choices \in [1 .. n -> Q]
        BY <2>4, <3>1 DEF Q
    <3>3. choices \in Seq(Q) /\ Len(choices) = n
        BY <2>1, <3>2, ListOf
    <3> QED
        BY <3>3 DEF Q
  <2> HIDE DEF choices, S
  <2>6. ASSUME NEW i \in 1 .. n, NEW j \in 1 .. n, i # j
        PROVE  ToSet(choices[i]) \cap ToSet(choices[j]) = {}
    <3>1. events[i] # events[j]
        BY <2>1, <2>6 DEF Distinct, n
    <3>2. ASSUME NEW x, x \in ToSet(choices[i]), x \in ToSet(choices[j]) PROVE FALSE
      <4>1. /\ x = << events[i], table[first(events[i])].to >>
            /\ x = << events[j], table[first(events[j])].to >>
          BY <2>4, <3>2
      <4> QED
          BY <3>1, <4>1
    <3> QED
        BY <3>2
  <2>7. permitted \in Seq(S) /\ Distinct(permitted)
        /\ \A x : x \in ToSet(permitted) <=> \E j \in 1 .. n : x \in ToSet(choices[j])
    <3>1. Distinct(FlattenSeq(choices))
        BY SMTT(60), <2>4, <2>5, <2>6, FlattenDistinct
    <3> QED
        BY <2>2, <2>5, <3>1, FlattenFacts
  <2>8. \A x : x \in ToSet(permitted)
               <=> \E e \in accepted : x = << e, table[first(e)].to >>
    <3>1. ASSUME NEW x, x \in ToSet(permitted)
          PROVE  \E e \in accepted : x = << e, table[first(e)].to >>
      <4>1. PICK j \in 1 .. n : x \in ToSet(choices[j])
          BY <2>7, <3>1
      <4>2. first(events[j]) # 0 /\ x = << events[j], table[first(events[j])].to >>
            /\ events[j] \in TableEvents
          BY <2>4, <4>1
      <4> QED
          BY SMTT(60), <1>2, <2>3, <4>2 DEF accepted
    <3>2. ASSUME NEW e \in accepted PROVE << e, table[first(e)].to >> \in ToSet(permitted)
      <4>1. e \in TableEvents /\ first(e) # 0
          BY <1>2, <3>2 DEF FlatAccepts, accepted, first
      <4>2. e \in ToSet(events)
          BY <2>3, <4>1
      <4>3. PICK j \in 1 .. n : events[j] = e
          BY <2>1, <4>2 DEF ToSet
      <4> QED
          BY <2>4, <2>7, <4>1, <4>3
    <3> QED
        BY <3>1, <3>2
  <2> DEFINE h == [j \in 1 .. Len(permitted) |-> permitted[j][1]]
  <2>9. /\ Len(permitted) \in Nat /\ DOMAIN permitted = 1 .. Len(permitted)
        /\ \A j \in 1 .. Len(permitted) : \E e \in accepted :
              permitted[j] = << e, table[first(e)].to >>
    <3>1. \A j \in 1 .. Len(permitted) : permitted[j] \in ToSet(permitted)
        BY <2>7 DEF ToSet
    <3> QED
        BY <2>7, <2>8, <3>1
  <2>10. {h[j] : j \in 1 .. Len(permitted)} = accepted
    <3>1. \A j \in 1 .. Len(permitted) : h[j] = permitted[j][1]
        OBVIOUS
    <3> HIDE DEF h
    <3>2. \A j \in 1 .. Len(permitted) : h[j] \in accepted
        BY <2>9, <3>1
    <3>3. ASSUME NEW e \in accepted PROVE \E j \in 1 .. Len(permitted) : h[j] = e
      <4>1. << e, table[first(e)].to >> \in ToSet(permitted)
          BY <2>8
      <4>2. PICK j \in 1 .. Len(permitted) : permitted[j] = << e, table[first(e)].to >>
          BY <2>9, <4>1 DEF ToSet
      <4> QED
          BY <3>1, <4>2
    <3> QED
        BY <3>2, <3>3
  <2>11. \A i, j \in 1 .. Len(permitted) : h[i] = h[j] => i = j
    <3>1. \A j \in 1 .. Len(permitted) : permitted[j] = << h[j], table[first(h[j])].to >>
        BY <2>9
    <3> HIDE DEF h
    <3> QED
        BY SMTT(60), <2>7, <3>1 DEF Distinct
  <2>12. Cardinality(accepted) = Len(permitted)
    <3>1. h = [j \in 1 .. Len(permitted) |-> h[j]]
        OBVIOUS
    <3> HIDE DEF h
    <3> QED
        BY SMTT(60), <2>9, <2>10, <2>11, <3>1, CountList
  <2>13. {permitted[j][1] : j \in DOMAIN permitted} = accepted
      BY <2>9, <2>10
  <2>14. ASSUME NEW j \in DOMAIN permitted
         PROVE  permitted[j][2]
                = Flat!NextState(table, machine, from, permitted[j][1], passing).state
    <3>1. PICK e \in accepted : permitted[j] = << e, table[first(e)].to >>
        BY <2>9, <2>14
    <3>2. e \in TableEvents /\ FlatAccepts(from, e, passing)
        BY <1>2 DEF accepted
    <3>3. Flat!NextState(table, machine, from, e, passing)
          = [state |-> table[first(e)].to, err |-> "none", reasons |-> << >>]
        BY <1>1, <3>2, NextFacts DEF first
    <3>4. Flat!NextState(table, machine, from, e, passing).state = table[first(e)].to
        BY <3>3
    <3> QED
        BY <3>1, <3>4
  <2> QED
      BY <2>12, <2>13, <2>14 DEF permitted, accepted
<1> QED
    BY <1>3, <1>4

-----------------------------------------------------------------------------
(* Hierarchies (statechart/position.go).                                   *)

\* What compileShape has been given, and what it has made of it.
ForestGiven ==
    /\ HierarchyCycles(Order, parents) = {}
    /\ initials \in InitialFunctions(parents)
    /\ shape = CompileShape(Order, parents, initials)
    /\ lineage = [i \in NodeSet |-> Closure({i})]

ShapesInv ==
    asked = "shapes" =>
        /\ parents \in ParentFunctions
        /\ \/ shape.state = << >> /\ active = 0
           \/ ForestGiven /\ active \in 0 .. Len(Order)

\* The compiled hierarchy of the lemmas about compileShape.
ForestBuilt ==
    Built(Order, parents, initials, Len(Order), ParentNodes(Order, parents),
          Visited(ParentNodes(Order, parents)).preorder, shape)

ForestStanding ==
    Standing(Order, initials, Len(Order), ParentNodes(Order, parents),
             Visited(ParentNodes(Order, parents)).preorder, shape)

(* Declared parents are declared states (statechart.go, Compile).            *)
LEMMA ParentsDeclared ==
    ASSUME parents \in ParentFunctions
    PROVE  DOMAIN parents \subseteq States /\ \A s \in DOMAIN parents : parents[s] \in States
BY DEF ParentFunctions

(* A hierarchy that is not refused is compiled (position.go, compileShape).  *)
LEMMA ForestIsBuilt ==
    ASSUME parents \in ParentFunctions, ForestGiven PROVE ForestBuilt /\ ForestStanding
<1> DEFINE V == States
<1>1. /\ Order \in Seq(V) /\ V = ToSet(Order)
      /\ \A i, j \in 1 .. Len(Order) : Order[i] = Order[j] => i = j
    BY OrderAssumption DEF States
<1>2. DOMAIN parents \subseteq V /\ \A s \in DOMAIN parents : parents[s] \in V
    BY ParentsDeclared
<1> HIDE DEF V
<1>3. \A U \in SUBSET V : Unfounded(parents, U) => U = {}
    BY <1>1, <1>2, CyclesAreFound DEF ForestGiven
<1>4. ASSUME NEW s \in DOMAIN initials
      PROVE  initials[s] \in V /\ initials[s] \in DOMAIN parents /\ parents[initials[s]] = s
  <2>1. initials[s] \in DOMAIN parents /\ parents[initials[s]] = s
      BY <1>4 DEF ForestGiven, InitialFunctions
  <2> QED
      BY <1>2, <2>1
<1>5. Compilable(Order, parents, initials)
    BY <1>1, <1>2, <1>3, <1>4, ForestCompilable
<1>6. ForestBuilt
    BY <1>5 DEF ForestBuilt, Built, ForestGiven
<1> QED
    BY <1>6, BuiltFacts DEF ForestBuilt, ForestStanding

(* The hierarchy that is compiled stays the declared one, and the active     *)
(* state is one of its states (statechart.go, Compile; position.go,          *)
(* compileShape).                                                           *)
LEMMA ShapesStay == Spec => []ShapesInv
<1>1. Init => ShapesInv
    BY DEF Init, ForestInit, ShapesInv
<1>2. ASSUME ShapesInv, [Next]_vars PROVE ShapesInv'
  <2>1. SUFFICES ASSUME asked = "shapes", ForestNext PROVE ShapesInv'
    <3>1. CASE asked' = asked /\ UNCHANGED shapeVars
        BY <1>2, <3>1 DEF ShapesInv, shapeVars, ForestGiven, InitialFunctions, ParentFunctions,
              Closure, ParentOf
    <3>2. CASE asked # "shapes" /\ Next
        BY <3>2 DEF Next, ShapesInv
    <3> QED
        BY <1>2, <2>1, <3>1, <3>2 DEF Next, vars
  <2>2. CASE CompileForest
    <3>1. active = 0 \/ active \in 0 .. Len(Order)
        BY <1>2, <2>1 DEF ShapesInv
    <3>2. parents' = parents /\ active' = active /\ parents \in ParentFunctions
        BY <1>2, <2>1, <2>2 DEF CompileForest, ShapesInv
    <3>3. active' \in 0 .. Len(Order)
        BY <3>1, <3>2, OrderAssumption
    <3>4. ForestGiven'
        BY <2>2, <3>2 DEF CompileForest, ForestGiven, Closure, ParentOf, InitialFunctions
    <3>5. (parents \in ParentFunctions)'
        BY <3>2 DEF ParentFunctions
    <3> QED
        BY <3>3, <3>4, <3>5 DEF ShapesInv
  <2>3. CASE \E target \in NodeSet : Move(target)
    <3>1. PICK target \in NodeSet : Move(target)
        BY <2>3
    <3>2. /\ shape.state # << >> /\ active' = shape.destination[target]
          /\ UNCHANGED << parents, initials, shape, lineage >>
        BY <3>1 DEF Move
    <3>3. parents \in ParentFunctions /\ ForestGiven
        BY <1>2, <2>1, <3>2 DEF ShapesInv
    <3>4. ForestStanding
        BY <3>3, ForestIsBuilt
    <3>5. active' \in 0 .. Len(Order)
      <4>1. target \in 1 .. Len(Order)
          BY OrderAssumption DEF NodeSet
      <4>2. ChainEnds(Order, initials, Len(Order), shape, target, shape.destination[target])
          BY <3>4, <4>1, DestinationFacts DEF ForestStanding
      <4> QED
          BY <3>2, <4>2, OrderAssumption DEF ChainEnds
    <3>6. (parents \in ParentFunctions)' /\ ForestGiven'
        BY <3>2, <3>3 DEF ForestGiven, Closure, ParentOf, InitialFunctions, ParentFunctions
    <3> QED
        BY <3>5, <3>6 DEF ShapesInv
  <2> QED
      BY <2>1, <2>2, <2>3 DEF ForestNext
<1> QED
    BY <1>1, <1>2, PTL DEF Spec

(* The lineage that the declarations give a state is that of the compiled    *)
(* hierarchy (position.go, compileShape and Path).                           *)
LEMMA LineagesAgree ==
    ASSUME parents \in ParentFunctions, ForestGiven, NEW i \in NodeSet
    PROVE  lineage[i] = Aboves(shape, i)
<1> DEFINE n == Len(Order)
           parent == ParentNodes(Order, parents)
           A == Aboves(shape, i)
<1>1. n \in Nat /\ NodeSet = 1 .. n /\ Order \in Seq(States) /\ States = ToSet(Order)
      /\ \A j, k \in 1 .. n : Order[j] = Order[k] => j = k
    BY OrderAssumption DEF NodeSet, States
<1>2. /\ DOMAIN parents \subseteq States
      /\ \A s \in DOMAIN parents : parents[s] \in States
    BY ParentsDeclared
<1>3. /\ parent \in [1 .. n -> 0 .. n]
      /\ \A j \in 1 .. n :
            \/ Order[j] \notin DOMAIN parents /\ parent[j] = 0
            \/ /\ Order[j] \in DOMAIN parents
               /\ parent[j] \in 1 .. n
               /\ Order[parent[j]] = parents[Order[j]]
    BY <1>1, <1>2, ParentNodesFacts
<1>4. /\ Hierarchy(shape) /\ Size(shape) = n /\ Nodes(shape) = 1 .. n /\ shape.parent = parent
    BY ForestIsBuilt DEF ForestStanding, Standing
<1>5. lineage[i] = Closure({i})
    BY DEF ForestGiven
<1> HIDE DEF n, parent
<1>6. \A j \in 1 .. n : ParentOf(j) = IF parent[j] = 0 THEN {} ELSE {parent[j]}
  <2> TAKE j \in 1 .. n
  <2>1. CASE Order[j] \notin DOMAIN parents
      BY <1>3, <2>1 DEF ParentOf
  <2>2. CASE Order[j] \in DOMAIN parents
    <3>1. parent[j] \in 1 .. n /\ Order[parent[j]] = parents[Order[j]] /\ parent[j] # 0
        BY <1>1, <1>3, <2>2
    <3>2. ParentOf(j) = {k \in 1 .. n : Order[parent[j]] = Order[k]}
        BY <1>1, <2>2, <3>1 DEF ParentOf
    <3>3. ParentOf(j) = {parent[j]}
        BY <1>1, <3>1, <3>2
    <3> QED
        BY <3>1, <3>3
  <2> QED
      BY <2>1, <2>2
<1>7. i \in Nodes(shape) /\ A \subseteq 1 .. n
    BY <1>1, <1>4 DEF Aboves
<1>8. i \in A /\ \A j \in A : ParentOf(j) \subseteq A
  <2>1. i \in A
      BY <1>4, <1>7, AbovesFacts
  <2>2. ASSUME NEW j \in A, parent[j] # 0 PROVE parent[j] \in A
    <3>1. j \in 1 .. n /\ parent[j] \in 1 .. n
        BY <1>1, <1>3, <1>7, <2>2
    <3>2. j \in Nodes(shape) /\ parent[j] \in Nodes(shape) /\ i \in 0 .. Size(shape)
        BY <1>1, <1>4, <3>1
    <3>3. Aboves(shape, j) = {j} \cup Aboves(shape, parent[j]) /\ parent[j] \in Aboves(shape, parent[j])
        BY <1>4, <3>2, AbovesFacts
    <3>4. AtOrAbove(shape, j, i) /\ AtOrAbove(shape, parent[j], j)
        BY <3>3 DEF Aboves
    <3>5. AtOrAbove(shape, parent[j], i)
        BY <1>4, <3>2, <3>4, AboveAbove
    <3> QED
        BY <3>2, <3>5 DEF Aboves
  <2> QED
      BY <1>6, <1>7, <2>1, <2>2
<1>9. ASSUME NEW S \in SUBSET NodeSet, i \in S, \A j \in S : ParentOf(j) \subseteq S
      PROVE  A \subseteq S
  <2>1. \A j \in S : j \in Nodes(shape) /\ shape.parent[j] # 0 => shape.parent[j] \in S
      BY <1>1, <1>4, <1>6, <1>9
  <2> QED
      BY <1>4, <1>7, <1>9, <2>1, AbovesAreClosure
<1> HIDE DEF A
<1>10. Closure({i}) = A
  <2> DEFINE closed == {S \in SUBSET NodeSet : {i} \subseteq S /\ \A j \in S : ParentOf(j) \subseteq S}
  <2>1. Closure({i}) = {k \in NodeSet : \A S \in closed : k \in S}
      BY DEF Closure
  <2>2. A \in closed
      BY <1>1, <1>7, <1>8
  <2>3. \A S \in closed : A \subseteq S
      BY <1>9
  <2> HIDE DEF closed
  <2> QED
      BY <1>1, <1>7, <2>1, <2>2, <2>3
<1> QED
    BY <1>5, <1>10 DEF A

\* The compiled hierarchy with an Instance in it, and the lineages of its states.
Situated ==
    /\ ForestStanding
    /\ Hierarchy(shape) /\ NodeSet = Nodes(shape) /\ Nodes(shape) = 1 .. Size(shape)
    /\ Size(shape) \in Nat /\ Size(shape) = Len(Order)
    /\ lineage = [i \in NodeSet |-> Aboves(shape, i)]
    /\ \A i \in NodeSet : shape.parent[i] \in 0 .. Size(shape)
    /\ \A i \in NodeSet :
          ChainEnds(Order, initials, Len(Order), shape, i, shape.destination[i])

(* What is known of the hierarchy once it is compiled (position.go,          *)
(* compileShape).                                                           *)
LEMMA ForestIsSituated ==
    ASSUME ShapesInv, asked = "shapes", shape.state # << >> \/ active # 0
    PROVE  Situated /\ active \in 0 .. Size(shape)
<1>1. parents \in ParentFunctions /\ ForestGiven /\ active \in 0 .. Len(Order)
    BY DEF ShapesInv
<1>2. ForestStanding
    BY <1>1, ForestIsBuilt
<1>3. /\ Hierarchy(shape) /\ Size(shape) = Len(Order) /\ Nodes(shape) = 1 .. Size(shape)
      /\ Size(shape) \in Nat /\ NodeSet = 1 .. Len(Order)
    BY <1>2 DEF ForestStanding, Standing, NodeSet
<1>4. lineage = [i \in NodeSet |-> Aboves(shape, i)]
  <2>1. lineage = [i \in NodeSet |-> Closure({i})]
      BY <1>1 DEF ForestGiven
  <2>2. \A i \in NodeSet : lineage[i] = Aboves(shape, i)
      BY <1>1, LineagesAgree
  <2> QED
      BY <2>1, <2>2
<1>5. \A i \in NodeSet : shape.parent[i] \in 0 .. Size(shape)
    BY <1>3 DEF Hierarchy
<1>6. \A i \in NodeSet :
          ChainEnds(Order, initials, Len(Order), shape, i, shape.destination[i])
    BY <1>2, <1>3, DestinationFacts DEF ForestStanding
<1> QED
    BY <1>1, <1>2, <1>3, <1>4, <1>5, <1>6 DEF Situated

(* Above none of the nodes is none (position.go, leastCommonAncestor).       *)
LEMMA NoneAboveNone ==
    ASSUME NEW h, Hierarchy(h), NEW i \in Nodes(h)
    PROVE  /\ Aboves(h, 0) = {}
           /\ \A a \in 0 .. Size(h) : AtOrAbove(h, a, i) /\ a # 0 => a \in Aboves(h, i) /\ a \in Nodes(h)
           /\ \A a \in Nodes(h) : a \in Aboves(h, a)
           /\ \A a \in Aboves(h, i) : a \in Nodes(h) /\ AtOrAbove(h, a, i)
<1>1. Aboves(h, 0) = {} /\ \A a \in Nodes(h) : a \in Aboves(h, a)
    BY AbovesFacts
<1>2. \A a \in 0 .. Size(h) : a # 0 => a \in Nodes(h)
    BY DEF Nodes, Hierarchy
<1> QED
    BY <1>1, <1>2 DEF Aboves

(* The common ancestor at which the paths of an external transition stop is  *)
(* the lowest that both lineages share (position.go, leastCommonAncestor).   *)
LEMMA StopsAtLowestShared ==
    ASSUME Situated, active \in 0 .. Size(shape) PROVE LCAIsLowestShared
<1> SUFFICES ASSUME active # 0, NEW i \in NodeSet
             PROVE  LET lca == LeastCommonAncestor(shape, active, i)
                        shared == lineage[active] \cap lineage[i]
                    IN  IF shared = {} THEN lca = 0
                        ELSE lca \in shared /\ shared = lineage[lca]
    BY DEF LCAIsLowestShared
<1> DEFINE lca == LeastCommonAncestor(shape, active, i)
           shared == lineage[active] \cap lineage[i]
<1>1. Hierarchy(shape) /\ active \in Nodes(shape) /\ i \in Nodes(shape)
    BY DEF Situated
<1>2. lineage[active] = Aboves(shape, active) /\ lineage[i] = Aboves(shape, i)
    BY <1>1 DEF Situated
<1>3. Aboves(shape, lca) = shared
    BY <1>1, <1>2, CommonAncestorIsLowest
<1>4. AtOrAbove(shape, lca, active) /\ AtOrAbove(shape, lca, i)
    BY <1>1, CommonAncestorIsAbove
<1>5. lca \in 0 .. Size(shape)
    BY <1>4 DEF AtOrAbove
<1>6. lca # 0 => /\ lca \in Aboves(shape, active) /\ lca \in Aboves(shape, i) /\ lca \in Nodes(shape)
    BY <1>1, <1>4, <1>5, NoneAboveNone
<1>7. lca # 0 => lca \in shared /\ shared = lineage[lca]
    BY <1>2, <1>3, <1>6 DEF Situated
<1>8. lca = 0 => shared = {}
    BY <1>1, <1>3, NoneAboveNone
<1> HIDE DEF lca, shared
<1>9. IF shared = {} THEN lca = 0 ELSE lca \in shared /\ shared = lineage[lca]
    BY SMTT(60), <1>7, <1>8
<1> QED
    BY <1>9 DEF lca, shared

(* Exits and entries take the active lineage to the lineage of the           *)
(* destination (position.go, paths).                                         *)
LEMMA PathsTakeLineages ==
    ASSUME Situated, active \in 0 .. Size(shape) PROVE PathsChangeLineage
<1> SUFFICES ASSUME active # 0, NEW target \in NodeSet, NEW reentry \in BOOLEAN,
                    reentry => target \in lineage[active]
             PROVE  LET destination == shape.destination[target]
                        p == Paths(shape, active, target, destination, reentry)
                        kept == IF reentry THEN lineage[target] \ {target}
                                ELSE lineage[active] \cap lineage[target]
                    IN  /\ ToSet(p.exits) = lineage[active] \ kept
                        /\ ToSet(p.entries) = lineage[destination] \ kept
                        /\ \A j, k \in DOMAIN p.exits :
                               j < k => p.exits[k] \in lineage[p.exits[j]] \ {p.exits[j]}
                        /\ \A j, k \in DOMAIN p.entries :
                               j < k => p.entries[j] \in lineage[p.entries[k]] \ {p.entries[k]}
    BY DEF PathsChangeLineage
<1> DEFINE destination == shape.destination[target]
           p == Paths(shape, active, target, destination, reentry)
           kept == IF reentry THEN lineage[target] \ {target}
                   ELSE lineage[active] \cap lineage[target]
           stop == Stop(shape, active, target, reentry)
<1>1. /\ Hierarchy(shape) /\ active \in Nodes(shape) /\ target \in Nodes(shape)
      /\ NodeSet = Nodes(shape)
    BY DEF Situated
<1>2. destination \in Nodes(shape) /\ AtOrAbove(shape, target, destination)
  <2>1. ChainEnds(Order, initials, Len(Order), shape, target, destination)
      BY DEF Situated
  <2>2. destination \in 1 .. Len(Order) /\ target \in Aboves(shape, destination)
      BY <2>1 DEF ChainEnds
  <2> QED
      BY <2>2 DEF Situated, Aboves
<1> HIDE DEF destination
<1>3. \A i \in Nodes(shape) : lineage[i] = Aboves(shape, i)
    BY DEF Situated
<1>4. reentry => AtOrAbove(shape, target, active)
    BY <1>1, <1>3 DEF Aboves
<1>5. Leads(shape, active, destination, p.exits, p.entries, stop)
    BY <1>1, <1>2, <1>4, PathsLead
<1>6. Aboves(shape, stop) = kept
  <2>1. CASE reentry
    <3>1. stop = shape.parent[target]
        BY <2>1 DEF Stop
    <3>2. /\ Aboves(shape, target) = {target} \cup Aboves(shape, shape.parent[target])
          /\ target \notin Aboves(shape, shape.parent[target])
        BY <1>1, AbovesFacts
    <3>3. kept = Aboves(shape, target) \ {target}
        BY <1>1, <1>3, <2>1
    <3> HIDE DEF kept, stop
    <3> QED
        BY <3>1, <3>2, <3>3
  <2>2. CASE ~reentry
    <3>1. stop = LeastCommonAncestor(shape, active, target)
        BY <2>2 DEF Stop
    <3>2. kept = Aboves(shape, active) \cap Aboves(shape, target)
        BY <1>1, <1>3, <2>2
    <3> HIDE DEF kept, stop
    <3> QED
        BY <1>1, <3>1, <3>2, CommonAncestorIsLowest
  <2> QED
      BY <2>1, <2>2
<1> DEFINE exits == p.exits
           entries == p.entries
<1> HIDE DEF p, kept, stop
<1>7. Leads(shape, active, destination, exits, entries, stop)
    BY <1>5
<1> HIDE DEF exits, entries
<1>8. /\ ToSet(exits) = Aboves(shape, active) \ Aboves(shape, stop)
      /\ ToSet(entries) = Aboves(shape, destination) \ Aboves(shape, stop)
      /\ \A j, k \in DOMAIN exits :
            j < k => exits[k] \in Aboves(shape, exits[j]) \ {exits[j]}
      /\ \A j, k \in DOMAIN entries :
            j < k => entries[j] \in Aboves(shape, entries[k]) \ {entries[k]}
    BY <1>1, <1>2, <1>7, PathsCover
<1>9. /\ \A j \in DOMAIN exits : exits[j] \in Nodes(shape)
      /\ \A j \in DOMAIN entries : entries[j] \in Nodes(shape)
  <2>1. ToSet(exits) \subseteq Nodes(shape) /\ ToSet(entries) \subseteq Nodes(shape)
      BY <1>8 DEF Aboves
  <2> QED
      BY <2>1 DEF ToSet
<1>10. /\ ToSet(exits) = lineage[active] \ kept
       /\ ToSet(entries) = lineage[destination] \ kept
    BY <1>1, <1>2, <1>3, <1>6, <1>8
<1>11. /\ \A j, k \in DOMAIN exits : j < k => exits[k] \in lineage[exits[j]] \ {exits[j]}
       /\ \A j, k \in DOMAIN entries : j < k => entries[j] \in lineage[entries[k]] \ {entries[k]}
    BY <1>3, <1>8, <1>9
<1> QED
    BY SMTT(60), <1>10, <1>11 DEF p, kept, exits, entries, destination

(* Path and Status tell the lineage of the active state (position.go, Path   *)
(* and Status).                                                             *)
LEMMA StatusTellsLineage ==
    ASSUME Situated, active \in 0 .. Size(shape) PROVE StatusIsAncestry
<1> SUFFICES ASSUME active # 0 PROVE StatusIsAncestry
    BY DEF StatusIsAncestry
<1>1. /\ Hierarchy(shape) /\ active \in Nodes(shape)
      /\ \A i \in NodeSet : i \in Nodes(shape) /\ i \in 1 .. Len(Order)
      /\ active \in 1 .. Len(Order) /\ lineage[active] = Aboves(shape, active)
    BY DEF Situated
<1>2. ToSet(Path(shape, active)) = lineage[active]
    BY <1>1, PathCovers
<1>3. ASSUME NEW i \in NodeSet
      PROVE  Status(shape, active, i) = (CASE i = active -> "active"
                                           [] i # active /\ i \in lineage[active] -> "enclosing"
                                           [] OTHER -> "inactive")
  <2>1. Status(shape, active, i) = (CASE i = active -> "active"
                                      [] i # active /\ i \in Aboves(shape, active) -> "enclosing"
                                      [] OTHER -> "inactive")
      BY <1>1, StatusFacts DEF Situated, ForestStanding
  <2> QED
      BY <1>1, <2>1
<1> QED
    BY <1>2, <1>3 DEF StatusIsAncestry

(* The destination of a state is the end of its chain of initial children    *)
(* (position.go, compileShape).                                              *)
LEMMA DestinationsEndChains ==
    ASSUME Situated PROVE DestinationEndsChain
<1> SUFFICES ASSUME NEW i \in NodeSet
             PROVE  LET d == shape.destination[i]
                    IN  /\ Order[d] \notin DOMAIN initials
                        /\ i \in lineage[d]
                        /\ \A j \in lineage[d] \ {d} :
                              i \in lineage[j] =>
                                 /\ Order[j] \in DOMAIN initials
                                 /\ IndexOf(Order, initials[Order[j]]) \in lineage[d]
    BY DEF DestinationEndsChain
<1> DEFINE d == shape.destination[i]
<1>1. ChainEnds(Order, initials, Len(Order), shape, i, d)
    BY DEF Situated
<1> HIDE DEF d
<1>2. /\ d \in NodeSet /\ Order[d] \notin DOMAIN initials /\ i \in Aboves(shape, d)
      /\ \A j \in Aboves(shape, d) \ {d} :
           i \in Aboves(shape, j) => /\ Order[j] \in DOMAIN initials
                                      /\ IndexOf(Order, initials[Order[j]]) \in Aboves(shape, d)
    BY <1>1 DEF ChainEnds, Situated
<1>3. Aboves(shape, d) \subseteq NodeSet /\ \A j \in NodeSet : lineage[j] = Aboves(shape, j)
    BY DEF Situated, Aboves
<1>4. /\ Order[d] \notin DOMAIN initials
      /\ i \in lineage[d]
      /\ \A j \in lineage[d] \ {d} :
            i \in lineage[j] => /\ Order[j] \in DOMAIN initials
                                 /\ IndexOf(Order, initials[Order[j]]) \in lineage[d]
    BY <1>2, <1>3
<1> QED
    BY <1>4 DEF d

(* The closure of some nodes is the smallest set that holds them and the     *)
(* parents of its members (statechart.go, hierarchyCycles).                  *)
LEMMA ClosureFacts ==
    ASSUME NEW nodes \in SUBSET NodeSet
    PROVE  /\ nodes \subseteq Closure(nodes) /\ Closure(nodes) \subseteq NodeSet
           /\ \A j \in Closure(nodes) : ParentOf(j) \subseteq Closure(nodes)
           /\ \A S \in SUBSET NodeSet :
                 nodes \subseteq S /\ (\A j \in S : ParentOf(j) \subseteq S) => Closure(nodes) \subseteq S
<1> DEFINE closed == {S \in SUBSET NodeSet : nodes \subseteq S /\ \A j \in S : ParentOf(j) \subseteq S}
<1>1. Closure(nodes) = {k \in NodeSet : \A S \in closed : k \in S}
    BY DEF Closure
<1>2. nodes \subseteq Closure(nodes) /\ Closure(nodes) \subseteq NodeSet
    BY <1>1
<1>3. ASSUME NEW j \in Closure(nodes), NEW k \in ParentOf(j) PROVE k \in Closure(nodes)
  <2>1. k \in NodeSet
      BY DEF ParentOf
  <2>2. \A S \in closed : j \in S
      BY <1>1
  <2>3. \A S \in closed : k \in S
      BY <2>2
  <2> HIDE DEF closed
  <2> QED
      BY <1>1, <2>1, <2>3
<1>4. ASSUME NEW S \in SUBSET NodeSet, nodes \subseteq S, \A j \in S : ParentOf(j) \subseteq S
      PROVE  Closure(nodes) \subseteq S
    BY <1>1, <1>4
<1> QED
    BY <1>2, <1>3, <1>4

\* The node j is that of the parent of node i.
Parental(i, j) == j \in NodeSet /\ Order[i] \in DOMAIN parents /\ Order[j] = parents[Order[i]]

(* A node has the node of its declared parent, or none (statechart.go,       *)
(* hierarchyCycles).                                                        *)
LEMMA ParentOfFacts ==
    ASSUME parents \in ParentFunctions, NEW i \in NodeSet
    PROVE  \/ ParentOf(i) = {} /\ Order[i] \notin DOMAIN parents
           \/ \E j : Parental(i, j) /\ ParentOf(i) = {j}
<1>1. \A j, k \in NodeSet : Order[j] = Order[k] => j = k
    BY OrderAssumption DEF NodeSet
<1>2. CASE Order[i] \notin DOMAIN parents
    BY <1>2 DEF ParentOf
<1>3. CASE Order[i] \in DOMAIN parents
  <2>1. parents[Order[i]] \in States
      BY <1>3, ParentsDeclared
  <2>2. PICK j \in NodeSet : Order[j] = parents[Order[i]]
      BY <2>1 DEF States, NodeSet, ToSet
  <2>3. ParentOf(i) = {j}
      BY <1>1, <1>3, <2>2 DEF ParentOf
  <2> QED
      BY <1>3, <2>2, <2>3 DEF Parental
<1> QED
    BY <1>2, <1>3

StatesOf(A) == {Order[j] : j \in A}

\* The nodes of some states.
Nodal(U) == {j \in NodeSet : Order[j] \in U}

(* The nodes of a set without a way out have the nodes of their parents in   *)
(* the set (statechart.go, hierarchyCycles).                                 *)
LEMMA NodalIsClosed ==
    ASSUME parents \in ParentFunctions, NEW U, Unfounded(parents, U)
    PROVE  /\ Nodal(U) \subseteq NodeSet
           /\ \A j \in Nodal(U) : /\ ParentOf(j) \subseteq Nodal(U)
                                  /\ \E k : Parental(j, k) /\ ParentOf(j) = {k}
                                  /\ Ancestors(j) \subseteq Nodal(U)
<1>1. Nodal(U) \subseteq NodeSet
    BY DEF Nodal
<1>2. ASSUME NEW j \in Nodal(U)
      PROVE  /\ ParentOf(j) \subseteq Nodal(U)
             /\ \E k : Parental(j, k) /\ ParentOf(j) = {k}
  <2>1. j \in NodeSet /\ Order[j] \in DOMAIN parents /\ parents[Order[j]] \in U
      BY DEF Nodal, Unfounded
  <2>2. PICK k : Parental(j, k) /\ ParentOf(j) = {k}
      BY <2>1, ParentOfFacts
  <2> QED
      BY <2>1, <2>2 DEF Parental, Nodal
<1>3. ASSUME NEW j \in Nodal(U) PROVE Ancestors(j) \subseteq Nodal(U)
  <2> DEFINE P == ParentOf(j)
  <2>1. P \subseteq Nodal(U) /\ P \in SUBSET NodeSet
      BY <1>1, <1>2
  <2> HIDE DEF P
  <2>2. Closure(P) \subseteq Nodal(U)
      BY <1>1, <1>2, <2>1, ClosureFacts
  <2> QED
      BY <2>2 DEF Ancestors, P
<1> QED
    BY <1>1, <1>2, <1>3

(* A state that is its own ancestor lies on a cycle, and its ancestors are   *)
(* the cycle (statechart.go, hierarchyCycles).                               *)
LEMMA OwnAncestorsAreCycles ==
    ASSUME parents \in ParentFunctions, NEW i \in NodeSet, i \in Ancestors(i)
    PROVE  StatesOf(Ancestors(i)) \in SUBSET States /\ IsCycle(parents, StatesOf(Ancestors(i)))
<1> DEFINE A == Ancestors(i)
           C == StatesOf(A)
<1>1. \A j, k \in NodeSet : Order[j] = Order[k] => j = k
    BY OrderAssumption DEF NodeSet
<1>2. ParentOf(i) \in SUBSET NodeSet /\ A = Closure(ParentOf(i))
    BY DEF ParentOf, Ancestors
<1> HIDE DEF A
<1>3. /\ ParentOf(i) \subseteq A /\ A \subseteq NodeSet
      /\ \A j \in A : ParentOf(j) \subseteq A
      /\ \A S \in SUBSET NodeSet :
            ParentOf(i) \subseteq S /\ (\A j \in S : ParentOf(j) \subseteq S) => A \subseteq S
  <2> DEFINE P == ParentOf(i)
  <2>1. P \in SUBSET NodeSet /\ A = Closure(P)
      BY <1>2
  <2> HIDE DEF P
  <2>2. /\ P \subseteq A /\ A \subseteq NodeSet
        /\ \A j \in A : ParentOf(j) \subseteq A
        /\ \A S \in SUBSET NodeSet :
              P \subseteq S /\ (\A j \in S : ParentOf(j) \subseteq S) => A \subseteq S
      BY <2>1, ClosureFacts
  <2> QED
      BY <2>2 DEF P
<1>4. i \in A
    BY DEF A
<1>5. PICK p : Parental(i, p) /\ ParentOf(i) = {p}
  <2> SUFFICES ASSUME ParentOf(i) = {} PROVE FALSE
      BY ParentOfFacts
  <2>1. A \subseteq {}
      BY <1>3
  <2> QED
      BY <1>4, <2>1
<1>6. A = Closure({p}) /\ p \in NodeSet /\ i \in Closure({p})
    BY <1>2, <1>4, <1>5 DEF Parental
<1> DEFINE T == {j \in A : i \in Closure({j})}
<1>7. ASSUME NEW j \in T, NEW k \in ParentOf(j) PROVE k \in T
  <2>1. k \in A /\ k \in NodeSet /\ j \in NodeSet /\ i \in Closure({j})
      BY <1>3
  <2>2. CASE j = i
      BY <1>5, <1>6, <2>1, <2>2
  <2>3. CASE j # i
    <3>1. ParentOf(j) = {k}
        BY <1>7, <2>1, ParentOfFacts
    <3> DEFINE K == Closure({k})
    <3>2. k \in K /\ K \subseteq NodeSet /\ \A m \in K : ParentOf(m) \subseteq K
      <4>1. {k} \in SUBSET NodeSet
          BY <2>1
      <4> QED
          BY <4>1, ClosureFacts
    <3> HIDE DEF K
    <3>3. Closure({j}) \subseteq {j} \cup K
      <4> DEFINE S == {j} \cup K
      <4>1. /\ {j} \in SUBSET NodeSet /\ S \in SUBSET NodeSet /\ {j} \subseteq S
            /\ \A m \in S : ParentOf(m) \subseteq S
          BY <2>1, <3>1, <3>2
      <4> HIDE DEF S
      <4>2. Closure({j}) \subseteq S
          BY <4>1, ClosureFacts
      <4> QED
          BY <4>2 DEF S
    <3> QED
        BY <2>1, <2>3, <3>3 DEF K
  <2> QED
      BY <2>2, <2>3
<1>8. A \subseteq T
  <2>1. ParentOf(i) \subseteq T /\ T \in SUBSET NodeSet
      BY <1>3, <1>5, <1>6
  <2> HIDE DEF T
  <2> QED
      BY <1>3, <1>7, <2>1
<1>9. ASSUME NEW j \in A PROVE \E k \in A : Parental(j, k)
  <2>1. j \in NodeSet /\ i \in Closure({j})
      BY <1>3, <1>8
  <2>2. ParentOf(j) # {}
    <3> SUFFICES ASSUME ParentOf(j) = {} PROVE FALSE
        OBVIOUS
    <3>1. {j} \in SUBSET NodeSet /\ \A m \in {j} : ParentOf(m) \subseteq {j}
        BY <2>1
    <3>2. Closure({j}) \subseteq {j}
        BY <3>1, ClosureFacts
    <3> QED
        BY <1>5, <2>1, <3>2
  <2>3. PICK k : Parental(j, k) /\ ParentOf(j) = {k}
      BY <2>1, <2>2, ParentOfFacts
  <2> QED
      BY <1>3, <2>3
<1> HIDE DEF T
<1>10. C # {} /\ C \in SUBSET States
    BY <1>3, <1>4 DEF StatesOf, States, NodeSet, ToSet
<1>11. Unfounded(parents, C)
  <2> SUFFICES ASSUME NEW j \in A
               PROVE  Order[j] \in DOMAIN parents /\ parents[Order[j]] \in C
      BY DEF Unfounded, StatesOf
  <2>1. PICK k \in A : Parental(j, k)
      BY <1>9
  <2> QED
      BY <2>1 DEF Parental, StatesOf
<1>12. ASSUME NEW U \in SUBSET C, U # {}, Unfounded(parents, U) PROVE U = C
  <2>1. PICK j \in A : Order[j] \in U
      BY <1>12 DEF StatesOf
  <2>2. j \in Nodal(U) /\ j \in NodeSet /\ i \in Closure({j})
      BY <1>3, <1>8, <2>1 DEF Nodal, T
  <2>3. /\ Nodal(U) \in SUBSET NodeSet
        /\ \A m \in Nodal(U) : ParentOf(m) \subseteq Nodal(U) /\ Ancestors(m) \subseteq Nodal(U)
      BY <1>12, NodalIsClosed
  <2>4. Closure({j}) \subseteq Nodal(U)
    <3>1. {j} \in SUBSET NodeSet /\ {j} \subseteq Nodal(U)
        BY <2>2
    <3> QED
        BY <2>3, <3>1, ClosureFacts
  <2>5. A \subseteq Nodal(U)
      BY <2>2, <2>3, <2>4 DEF A
  <2> QED
      BY <2>5 DEF Nodal, StatesOf
<1> QED
    BY <1>10, <1>11, <1>12 DEF IsCycle, A

(* Every cycle is made of the ancestors of each of its states (statechart.go, *)
(* hierarchyCycles).                                                        *)
LEMMA CyclesAreOwnAncestors ==
    ASSUME parents \in ParentFunctions, NEW C \in SUBSET States, IsCycle(parents, C)
    PROVE  \E i \in NodeSet : i \in Ancestors(i) /\ C = StatesOf(Ancestors(i))
<1>1. \A j, k \in NodeSet : Order[j] = Order[k] => j = k
    BY OrderAssumption DEF NodeSet
<1>2. C # {} /\ Unfounded(parents, C) /\ \A U \in SUBSET C : U # {} /\ Unfounded(parents, U) => U = C
    BY DEF IsCycle
<1>3. PICK i \in NodeSet : Order[i] \in C
    BY <1>2 DEF States, NodeSet, ToSet
<1> DEFINE A == Ancestors(i)
           D == StatesOf(A)
<1>4. /\ \A j \in Nodal(C) : \E k : Parental(j, k) /\ ParentOf(j) = {k}
      /\ i \in Nodal(C) /\ A \subseteq Nodal(C)
    BY <1>2, <1>3, NodalIsClosed DEF Nodal
<1>5. ParentOf(i) \subseteq A /\ \A j \in A : ParentOf(j) \subseteq A
  <2> DEFINE P == ParentOf(i)
  <2>1. P \in SUBSET NodeSet
      BY DEF ParentOf
  <2> HIDE DEF P
  <2>2. P \subseteq Closure(P) /\ \A j \in Closure(P) : ParentOf(j) \subseteq Closure(P)
      BY <2>1, ClosureFacts
  <2> QED
      BY <2>2 DEF Ancestors, P
<1> HIDE DEF A
<1>6. D \subseteq C
    BY <1>4 DEF Nodal, StatesOf
<1>7. D # {}
  <2>1. PICK k : Parental(i, k) /\ ParentOf(i) = {k}
      BY <1>4
  <2> QED
      BY <1>5, <2>1 DEF StatesOf
<1>8. Unfounded(parents, D)
  <2> SUFFICES ASSUME NEW j \in A
               PROVE  Order[j] \in DOMAIN parents /\ parents[Order[j]] \in D
      BY DEF Unfounded, StatesOf
  <2>1. PICK k : Parental(j, k) /\ ParentOf(j) = {k}
      BY <1>4
  <2> QED
      BY <1>5, <2>1 DEF Parental, StatesOf
<1>9. D = C
    BY <1>2, <1>6, <1>7, <1>8
<1>10. PICK j \in A : Order[j] = Order[i]
    BY <1>3, <1>9 DEF StatesOf
<1>11. j \in NodeSet
    BY <1>4 DEF Nodal
<1>12. i \in A
    BY <1>1, <1>10, <1>11
<1> QED
    BY <1>9, <1>12 DEF A

(* The cycles that Compile reports are all there are: the ancestors of the   *)
(* states that are their own ancestors (statechart.go, hierarchyCycles).     *)
LEMMA CyclesReported ==
    ASSUME parents \in ParentFunctions PROVE CyclesAreReported
<1> DEFINE H == HierarchyCycles(Order, parents)
           G == {StatesOf(Ancestors(i)) : i \in {k \in NodeSet : k \in Ancestors(k)}}
<1>1. H = {C \in SUBSET States : IsCycle(parents, C)}
    BY OrderAssumption, ParentsDeclared, CyclesAreAll DEF States
<1>2. G = {{Order[j] : j \in Ancestors(i)} : i \in {k \in NodeSet : k \in Ancestors(k)}}
    BY DEF StatesOf
<1> HIDE DEF H
<1>3. \A C : C \in H <=> C \in SUBSET States /\ IsCycle(parents, C)
    BY <1>1
<1>4. ASSUME NEW C \in G PROVE C \in H
  <2>1. PICK i \in NodeSet : i \in Ancestors(i) /\ C = StatesOf(Ancestors(i))
      OBVIOUS
  <2> QED
      BY <1>3, <2>1, OwnAncestorsAreCycles
<1>5. ASSUME NEW C \in H PROVE C \in G
  <2>1. PICK i \in NodeSet : i \in Ancestors(i) /\ C = StatesOf(Ancestors(i))
      BY <1>3, CyclesAreOwnAncestors
  <2> QED
      BY <2>1
<1>6. H = G
    BY <1>4, <1>5
<1> HIDE DEF G
<1> QED
    BY <1>2, <1>6 DEF CyclesAreReported, H

(* The exits and entries of every transition take the active lineage to the  *)
(* lineage of its destination, as the declarations have them: by way of the  *)
(* lowest shared ancestor, through the whole initial chain, and Status and   *)
(* Path tell the same lineage (position.go, compileShape and paths).         *)
THEOREM LineagesFollow == Spec => []LineageFollowsDeclarations
<1>1. ASSUME ShapesInv PROVE LineageFollowsDeclarations
  <2> SUFFICES ASSUME asked = "shapes"
               PROVE  /\ LCAIsLowestShared /\ PathsChangeLineage
                      /\ StatusIsAncestry /\ DestinationEndsChain
      BY DEF LineageFollowsDeclarations
  <2>1. CASE shape.state # << >> \/ active # 0
      BY SMTT(60), <1>1, <2>1, ForestIsSituated, StopsAtLowestShared, PathsTakeLineages,
         StatusTellsLineage, DestinationsEndChains
  <2>2. CASE shape.state = << >> /\ active = 0
      BY <2>2 DEF LCAIsLowestShared, PathsChangeLineage, StatusIsAncestry, DestinationEndsChain
  <2> QED
      BY <2>1, <2>2
<1> QED
    BY <1>1, ShapesStay, PTL

-----------------------------------------------------------------------------
(* Statecharts (statechart/statechart.go).                                 *)

ChartsInv == asked = "charts" => IsOutline(outline) /\ chart = Compiled(outline)

(* The definition that Compile is asked about is made of lists, and the      *)
(* Chart is what it returns (statechart.go, Compile).                        *)
LEMMA ChartsStay == Spec => []ChartsInv
<1>1. Init => ChartsInv
    BY OutlineAssumption DEF Init, ChartInit, ChartsInv
<1>2. ASSUME ChartsInv, [Next]_vars PROVE ChartsInv'
  <2>1. SUFFICES ASSUME asked = "charts", ChartNext, IsOutline(outline) PROVE ChartsInv'
    <3>1. CASE asked' = asked /\ UNCHANGED chartVars
        BY <1>2, <3>1 DEF ChartsInv, chartVars
    <3>2. CASE asked # "charts" /\ Next
        BY <3>2 DEF Next, ChartsInv
    <3> QED
        BY <1>2, <2>1, <3>1, <3>2 DEF Next, vars, ChartsInv
  <2>2. chart' = Compiled(outline')
      BY <2>1 DEF ChartNext, AddSubstate, AddInitial, AddTransition
  <2>3. /\ outline = [states |-> outline.states, substates |-> outline.substates,
                      initials |-> outline.initials, transitions |-> outline.transitions]
        /\ IsList(outline.states) /\ IsList(outline.substates) /\ IsList(outline.initials)
        /\ IsList(outline.transitions)
        /\ \A k \in DOMAIN outline.transitions : outline.transitions[k].guarded \in BOOLEAN
      BY <2>1 DEF IsOutline
  <2>4. CASE \E e \in Edges : AddSubstate(e)
    <3>1. PICK x : outline' = [outline EXCEPT !.substates = Append(outline.substates, x)]
        BY <2>4 DEF AddSubstate
    <3> DEFINE new == Append(outline.substates, x)
    <3>2. IsList(new)
        BY <2>3, ListGrows
    <3> HIDE DEF new
    <3>3. outline' = [states |-> outline.states, substates |-> new,
                      initials |-> outline.initials, transitions |-> outline.transitions]
        BY <2>3, <3>1 DEF new
    <3>4. IsOutline(outline')
        BY <2>3, <3>2, <3>3 DEF IsOutline
    <3> QED
        BY <2>2, <3>4 DEF ChartsInv
  <2>5. CASE \E e \in Edges : AddInitial(e)
    <3>1. PICK x : outline' = [outline EXCEPT !.initials = Append(outline.initials, x)]
        BY <2>5 DEF AddInitial
    <3> DEFINE new == Append(outline.initials, x)
    <3>2. IsList(new)
        BY <2>3, ListGrows
    <3> HIDE DEF new
    <3>3. outline' = [states |-> outline.states, substates |-> outline.substates,
                      initials |-> new, transitions |-> outline.transitions]
        BY <2>3, <3>1 DEF new
    <3>4. IsOutline(outline')
        BY <2>3, <3>2, <3>3 DEF IsOutline
    <3> QED
        BY <2>2, <3>4 DEF ChartsInv
  <2>6. CASE \E t \in ChartRows : AddTransition(t)
    <3>1. PICK t \in ChartRows :
              outline' = [outline EXCEPT !.transitions = Append(outline.transitions, t)]
        BY <2>6 DEF AddTransition
    <3> DEFINE rows == outline.transitions
               new == Append(rows, t)
    <3>2. /\ IsList(new) /\ Len(new) = Len(rows) + 1 /\ Len(rows) \in Nat
          /\ DOMAIN rows = 1 .. Len(rows) /\ DOMAIN new = 1 .. Len(new)
          /\ \A k \in 1 .. Len(rows) : new[k] = rows[k]
          /\ new[Len(rows) + 1] = t
      <4>1. /\ IsList(new) /\ Len(new) = Len(rows) + 1
            /\ \A k \in 1 .. Len(rows) : new[k] = rows[k]
            /\ new[Len(rows) + 1] = t
          BY <2>3, ListGrows
      <4> HIDE DEF new, rows
      <4>2. IsList(rows)
          BY <2>3 DEF rows
      <4> QED
          BY <4>1, <4>2, ListFacts
    <3>3. outline' = [states |-> outline.states, substates |-> outline.substates,
                      initials |-> outline.initials, transitions |-> new]
        BY <2>3, <3>1
    <3>4. t.guarded \in BOOLEAN
        BY OutlineAssumption
    <3>5. \A k \in DOMAIN rows : rows[k].guarded \in BOOLEAN
        BY <2>3
    <3> HIDE DEF new, rows
    <3>6. \A k \in DOMAIN new : new[k].guarded \in BOOLEAN
      <4>1. \A k \in DOMAIN new : k \in DOMAIN rows \/ k = Len(rows) + 1
          BY <3>2
      <4> QED
          BY <3>2, <3>4, <3>5, <4>1
    <3>7. IsOutline(outline')
        BY <2>3, <3>2, <3>3, <3>6 DEF IsOutline
    <3> QED
        BY <2>2, <3>7 DEF ChartsInv
  <2> QED
      BY <2>1, <2>4, <2>5, <2>6 DEF ChartNext
<1> QED
    BY <1>1, <1>2, PTL DEF Spec

\* The compiled Chart of an accepted definition.
ChartGiven ==
    /\ ChartSound(chart)
    /\ Indices = Rows(chart) /\ Sources = Nodes(chart.shape)
    /\ chart.transitions = outline.transitions /\ chart.shape.state = outline.states
    /\ Indices = 1 .. Len(outline.transitions) /\ Len(outline.transitions) \in Nat
    /\ \A i, j \in Sources : outline.states[i] = outline.states[j] => i = j
    /\ \A i, j \in Sources :
          Status(chart.shape, i, j) # "inactive" <=> j \in Aboves(chart.shape, i)
    /\ \A k \in Indices : chart.transitions[k].guarded \in BOOLEAN

(* What Compile makes of a definition without problems (statechart.go,       *)
(* Compile; position.go, Status).                                            *)
LEMMA ChartIsGiven ==
    ASSUME IsOutline(outline), chart = Compiled(outline), Accepted PROVE ChartGiven
<1> DEFINE d == outline
           ps == ParentsOf(d)
           is == InitialsOf(d)
           h == CompileShape(d.states, ps, is)
           n == Len(d.states)
           parent == ParentNodes(d.states, ps)
           o == Visited(parent).preorder
<1>1. IsDefinition(d) /\ Problems(d) = {}
    BY DEF IsOutline, IsDefinition, IsList, Accepted
<1>2. chart = ChartOf(d)
    BY <1>1 DEF Compiled
<1>3. ChartSound(chart)
    BY <1>1, <1>2, AcceptedSound
<1>4. chart.shape = h /\ chart.transitions = d.transitions
    BY <1>2 DEF ChartOf
<1>5. Built(d.states, ps, is, n, parent, o, h)
    BY <1>1, AcceptedCompilable DEF Built
<1>6. Standing(d.states, is, n, parent, o, h)
    BY <1>5, BuiltFacts
<1> HIDE DEF h, parent, o
<1>7. /\ Hierarchy(h) /\ Nodes(h) = 1 .. n /\ h.state = d.states /\ DOMAIN d.states = 1 .. n
      /\ \A i, j \in 1 .. n : d.states[i] = d.states[j] => i = j
    BY <1>6 DEF Standing
<1>8. ASSUME NEW i \in 1 .. n, NEW j \in 1 .. n
      PROVE  Status(h, i, j) # "inactive" <=> j \in Aboves(h, i)
  <2>1. Status(h, i, j) = (CASE j = i -> "active"
                             [] j # i /\ j \in Aboves(h, i) -> "enclosing"
                             [] OTHER -> "inactive")
      BY <1>6, StatusFacts
  <2>2. i \in Aboves(h, i)
      BY <1>7, AbovesFacts
  <2>3. CASE j = i
      BY <2>1, <2>2, <2>3
  <2>4. CASE j # i /\ j \in Aboves(h, i)
      BY <2>1, <2>4
  <2>5. CASE j # i /\ j \notin Aboves(h, i)
      BY <2>1, <2>5
  <2> QED
      BY <2>3, <2>4, <2>5
<1>9. /\ DOMAIN d.transitions = 1 .. Len(d.transitions) /\ Len(d.transitions) \in Nat
      /\ \A k \in DOMAIN d.transitions : d.transitions[k].guarded \in BOOLEAN
    BY ListFacts DEF IsOutline
<1> QED
    BY <1>3, <1>4, <1>7, <1>8, <1>9 DEF ChartGiven, Indices, Sources, Rows

(* A row that is looked at before another one is another one (statechart.go, *)
(* selectTransition).                                                       *)
LEMMA LooksFirstFacts ==
    ASSUME NEW ch, NEW source, NEW event, NEW x \in CandidateRows(ch, source, event),
           NEW y \in CandidateRows(ch, source, event), LooksFirst(ch, x, y)
    PROVE  x # y /\ (x.handler = y.handler => x.row < y.row)
<1>1. x.row \in Nat /\ y.row \in Nat
    BY DEF CandidateRows, Rows
<1>2. x.handler = y.handler => x.row < y.row
    BY DEF LooksFirst
<1>3. ASSUME x = y PROVE FALSE
  <2>1. x.row < x.row
      BY <1>2, <1>3
  <2> HIDE <1>3
  <2> QED
      BY <1>1, <2>1
<1> QED
    BY <1>2, <1>3

(* What Fire selects, told by the rows that apply (statechart.go,            *)
(* selectTransition).                                                       *)
LEMMA SelectionFacts ==
    ASSUME ChartGiven, NEW source \in Sources, NEW event, NEW passing
    PROVE  LET A == ApplyingAt(chart, source, event, passing)
               s == Selection(source, event, passing)
           IN  /\ Selects(source, event, passing) <=> A # {}
               /\ A # {} => s \in A /\ \A x \in A : x = s \/ LooksFirst(chart, s, x)
<1> DEFINE q == Candidates(chart, source, event)
           j == SelectTransition(chart, source, event, passing)
           A == ApplyingAt(chart, source, event, passing)
<1>1. IF A = {} THEN j = 0 ELSE FirstApplies(chart, source, event, passing, q, j)
    BY FirstIsSelected DEF ChartGiven
<1>2. Len(q) \in Nat
    BY CandidatesAreOrdered DEF ChartGiven, Looked
<1>3. Selection(source, event, passing) = q[j] /\ (Selects(source, event, passing) <=> j # 0)
    BY DEF Selection, Selects
<1> HIDE DEF q, j, A
<1>4. A # {} => /\ j # 0 /\ q[j] \in A
                /\ \A x \in A : x = q[j] \/ LooksFirst(chart, q[j], x)
    BY <1>1, <1>2 DEF FirstApplies, A
<1> QED
    BY <1>1, <1>3, <1>4 DEF A

(* The nearest state with a row that applies handles an event, the source    *)
(* before its ancestors, and by the first of its rows that applies           *)
(* (statechart.go, selectTransition).                                        *)
LEMMA NearestSelects ==
    ASSUME ChartGiven PROVE NearestHandlerSelects
<1> SUFFICES ASSUME NEW source \in Sources, NEW event \in Events, NEW passing \in SUBSET Indices
             PROVE  LET applicable(h) == {i \in Indices :
                                /\ outline.transitions[i].from = outline.states[h]
                                /\ outline.transitions[i].event = event
                                /\ Applies(chart, i, passing)}
                        handlers == {h \in Sources : /\ Status(chart.shape, source, h) # "inactive"
                                                     /\ applicable(h) # {}}
                    IN  IF handlers = {} THEN ~Selects(source, event, passing)
                        ELSE LET s == Selection(source, event, passing)
                             IN  /\ Selects(source, event, passing)
                                 /\ s.handler \in handlers
                                 /\ \A h \in handlers :
                                       Status(chart.shape, s.handler, h) # "inactive"
                                 /\ s.row \in applicable(s.handler)
                                 /\ \A i \in applicable(s.handler) : s.row <= i
    BY DEF NearestHandlerSelects
<1> DEFINE applicable(h) == {i \in Indices :
                                /\ outline.transitions[i].from = outline.states[h]
                                /\ outline.transitions[i].event = event
                                /\ Applies(chart, i, passing)}
           handlers == {h \in Sources : /\ Status(chart.shape, source, h) # "inactive"
                                        /\ applicable(h) # {}}
           A == ApplyingAt(chart, source, event, passing)
           s == Selection(source, event, passing)
<1>1. /\ ChartSound(chart) /\ Hierarchy(chart.shape)
      /\ Indices = Rows(chart) /\ Sources = Nodes(chart.shape)
      /\ chart.transitions = outline.transitions /\ chart.shape.state = outline.states
      /\ \A i, j \in Sources :
            Status(chart.shape, i, j) # "inactive" <=> j \in Aboves(chart.shape, i)
    BY DEF ChartGiven, ChartSound
<1>2. ASSUME NEW h, NEW i
      PROVE  [handler |-> h, row |-> i] \in A
             <=> h \in Sources /\ h \in Aboves(chart.shape, source) /\ i \in applicable(h)
    BY <1>1 DEF ApplyingAt, CandidateRows, Aboves
<1>3. \A x \in A : x = [handler |-> x.handler, row |-> x.row] /\ x.row \in Nat
    BY DEF ApplyingAt, CandidateRows, Rows
<1>4. /\ Selects(source, event, passing) <=> A # {}
      /\ A # {} => s \in A /\ \A x \in A : x = s \/ LooksFirst(chart, s, x)
    BY SelectionFacts
<1>5. \A h : h \in handlers <=> \E i : [handler |-> h, row |-> i] \in A
    BY <1>1, <1>2
<1>6. \A h, i : i \in applicable(h) => i \in Nat
    BY <1>1 DEF Rows
<1> HIDE DEF applicable, handlers, s
<1>7. A = {} <=> handlers = {}
  <2> HIDE DEF A
  <2> QED
      BY ZenonT(90), <1>3, <1>5
<1>8. ASSUME A # {}
      PROVE  /\ s.handler \in handlers
             /\ \A h \in handlers : Status(chart.shape, s.handler, h) # "inactive"
             /\ s.row \in applicable(s.handler)
             /\ \A i \in applicable(s.handler) : s.row <= i
  <2>1. s \in A /\ [handler |-> s.handler, row |-> s.row] \in A /\ s.row \in Nat
      BY <1>3, <1>4, <1>8
  <2>2. s.handler \in handlers /\ s.row \in applicable(s.handler) /\ s.handler \in Sources
        /\ s.handler \in Aboves(chart.shape, source)
      BY <1>2, <1>5, <2>1
  <2>3. ASSUME NEW h \in handlers PROVE Status(chart.shape, s.handler, h) # "inactive"
    <3>1. PICK i : [handler |-> h, row |-> i] \in A
        BY <1>5, <2>3
    <3> DEFINE x == [handler |-> h, row |-> i]
    <3>2. h \in Sources /\ x.handler = h
        BY <1>2, <3>1
    <3>3. x = s \/ LooksFirst(chart, s, x)
        BY <1>4, <1>8, <3>1
    <3> HIDE DEF x
    <3>4. h = s.handler \/ h \in Aboves(chart.shape, s.handler)
        BY <3>2, <3>3 DEF LooksFirst
    <3>5. s.handler \in Aboves(chart.shape, s.handler)
        BY <1>1, <2>2, AbovesFacts
    <3> QED
        BY <1>1, <2>2, <3>2, <3>4, <3>5
  <2>4. ASSUME NEW i \in applicable(s.handler) PROVE s.row <= i
    <3> DEFINE x == [handler |-> s.handler, row |-> i]
    <3>1. x \in A /\ x.handler = s.handler /\ x.row = i /\ i \in Nat
        BY <1>2, <1>6, <2>2, <2>4
    <3>2. x = s \/ LooksFirst(chart, s, x)
        BY <1>4, <1>8, <3>1
    <3> HIDE DEF x
    <3>3. x \in CandidateRows(chart, source, event) /\ s \in CandidateRows(chart, source, event)
        BY <2>1, <3>1 DEF ApplyingAt
    <3>4. x.row = s.row \/ s.row < x.row
        BY <3>1, <3>2, <3>3, LooksFirstFacts
    <3> QED
        BY <2>1, <3>1, <3>4
  <2> QED
      BY <2>2, <2>3, <2>4
<1>9. IF handlers = {} THEN ~Selects(source, event, passing)
      ELSE /\ Selects(source, event, passing)
           /\ s.handler \in handlers
           /\ \A h \in handlers : Status(chart.shape, s.handler, h) # "inactive"
           /\ s.row \in applicable(s.handler)
           /\ \A i \in applicable(s.handler) : s.row <= i
    BY <1>4, <1>7, <1>8
<1> QED
    BY <1>9 DEF handlers, applicable, s

(* Permitted lists each event once, exactly those that some row accepts for  *)
(* the data, with the destination Fire would commit (statechart.go,          *)
(* Permitted).                                                             *)
LEMMA PermittedSelects ==
    ASSUME ChartGiven PROVE PermittedIsSelection
<1> SUFFICES ASSUME NEW source \in Sources, NEW passing \in SUBSET Indices
             PROVE  LET permitted == Permitted(chart, source, passing)
                        accepted == {e \in Events : Selects(source, e, passing)}
                    IN  /\ Len(permitted) = Cardinality(accepted)
                        /\ ToSet(permitted) =
                             {<< e, DestinationOf(chart, source, Selection(source, e, passing).row) >> :
                                  e \in accepted}
    BY DEF PermittedIsSelection
<1> DEFINE permitted == Permitted(chart, source, passing)
           accepted == {e \in Events : Selects(source, e, passing)}
           goes(e) == DestinationOf(chart, source, Selection(source, e, passing).row)
           to == [e \in accepted |-> goes(e)]
           events == EventsFrom(chart, source)
           choice(event) ==
               LET candidates == Candidates(chart, source, event)
                   j == SelectTransition(chart, source, event, passing)
               IN  IF j = 0 THEN << >>
                   ELSE << << event, DestinationOf(chart, source, candidates[j].row) >> >>
           choices == [j \in DOMAIN events |-> choice(events[j])]
<1>1. ChartSound(chart) /\ source \in Nodes(chart.shape) /\ Events = RowEvents(chart)
    BY DEF ChartGiven, Events, RowEvents
<1>2. /\ events \in Seq(Events) /\ Distinct(events)
      /\ \A e : CandidateRows(chart, source, e) # {} => e \in ToSet(events)
    BY <1>1, EventsFromFacts DEF Distinct
<1>3. permitted = FlattenSeq(choices)
    BY DEF Permitted
<1>4. accepted \subseteq ToSet(events)
  <2>1. \A e \in accepted : ApplyingAt(chart, source, e, passing) # {}
      BY SelectionFacts
  <2> QED
      BY <1>2, <2>1 DEF ApplyingAt
<1> HIDE DEF events, permitted
<1>5. \A j \in DOMAIN events : events[j] \in Events
    BY <1>2
<1>6. \A e \in Events : choice(e) = IF e \in accepted THEN << << e, goes(e) >> >> ELSE << >>
    BY DEF Selects, Selection
<1> HIDE DEF choice, goes
<1>7. \A e \in Events : choice(e) = ChosenPair(accepted, to, e)
  <2> HIDE DEF accepted
  <2> QED
      BY <1>6 DEF ChosenPair
<1>8. choices = [j \in DOMAIN events |-> ChosenPair(accepted, to, events[j])]
    BY <1>5, <1>7
<1>9. to = [e \in accepted |-> to[e]] /\ \A e \in accepted : to[e] = goes(e)
  <2> HIDE DEF accepted
  <2> QED
      OBVIOUS
<1> HIDE DEF choices, accepted, to
<1>10. Len(permitted) = Cardinality(accepted) /\ ToSet(permitted) = {<< e, to[e] >> : e \in accepted}
    BY <1>2, <1>3, <1>4, <1>8, <1>9, ChosenAreListed
<1>11. {<< e, to[e] >> : e \in accepted} = {<< e, goes(e) >> : e \in accepted}
    BY <1>9
<1> QED
    BY <1>10, <1>11 DEF permitted, accepted, goes

\* The candidates that arrowsForEvent lists.
Listed(ch, source, event) ==
    SubSeq(Candidates(ch, source, event), 1, ArrowCount(ch, Candidates(ch, source, event)))

\* The rows with a Guard do not hide those that follow.
Reachable(ch, q, j) == \A k \in 1 .. j - 1 : ch.transitions[q[k].row].guarded

\* Some of the list, and all that is not behind a row without a Guard.
ListsReachable(ch, q, l) ==
    /\ Len(l) \in Nat /\ Len(l) <= Len(q) /\ l = [j \in 1 .. Len(l) |-> l[j]]
    /\ \A j \in 1 .. Len(l) : l[j] = q[j]
    /\ \A j \in 1 .. Len(q) : j <= Len(l) <=> Reachable(ch, q, j)

(* The loop ends behind the first row that has no Guard (position.go,        *)
(* arrowsForEvent).                                                         *)
LEMMA ListedFacts ==
    ASSUME ChartGiven, NEW source \in Sources, NEW event
    PROVE  ListsReachable(chart, Candidates(chart, source, event), Listed(chart, source, event))
<1> DEFINE q == Candidates(chart, source, event)
           S == CandidateRows(chart, source, event)
           ends == {j \in DOMAIN q : ~chart.transitions[q[j].row].guarded}
           c == ArrowCount(chart, q)
           l == Listed(chart, source, event)
           n == Len(q)
<1>1. q \in Seq(S) /\ n \in Nat /\ DOMAIN q = 1 .. n /\ \A j \in 1 .. n : q[j] \in S
    BY SMTT(60), CandidatesAreOrdered DEF ChartGiven, Looked
<1>2. \A j \in 1 .. n : chart.transitions[q[j].row].guarded \in BOOLEAN
  <2>1. \A x \in S : x.row \in Rows(chart)
      BY DEF CandidateRows
  <2> HIDE DEF q, S
  <2> QED
      BY <1>1, <2>1 DEF ChartGiven
<1>3. l = SubSeq(q, 1, c)
    BY DEF Listed
<1>4. c = IF ends = {} THEN n ELSE Min(ends)
    BY DEF ArrowCount
<1> HIDE DEF q, S, c, l
<1>5. ends # {} => Min(ends) \in ends /\ \A m \in ends : Min(ends) <= m
  <2>1. ends \in SUBSET Nat
      BY <1>1
  <2> HIDE DEF ends
  <2> QED
      BY <2>1, MinFacts
<1>6. \A j : j \in ends <=> j \in 1 .. n /\ ~chart.transitions[q[j].row].guarded
    BY <1>1
<1> HIDE DEF ends, n
<1>7. c \in 0 .. n
    BY <1>1, <1>4, <1>5, <1>6
<1>8. Len(l) = c /\ l = [j \in 1 .. c |-> l[j]] /\ \A j \in 1 .. c : l[j] = q[j]
  <2>1. l = [j \in 1 .. c |-> q[(1 + j) - 1]]
      BY <1>1, <1>3, <1>7 DEF n
  <2>2. \A j \in 1 .. c : (1 + j) - 1 = j
      BY <1>7
  <2>3. l = [j \in 1 .. c |-> q[j]]
      BY <2>1, <2>2
  <2>4. \A j \in 1 .. c : q[j] \in S
      BY <1>1, <1>7
  <2>5. l \in [1 .. c -> S]
      BY <2>3, <2>4
  <2> QED
      BY <1>7, <2>3, <2>5, ListOf
<1>9. ASSUME NEW j \in 1 .. n PROVE j <= c <=> Reachable(chart, q, j)
  <2>1. CASE ends = {}
    <3>1. \A k \in 1 .. j - 1 : k \in 1 .. n
        BY <1>1
    <3>2. Reachable(chart, q, j)
        BY <1>2, <1>6, <2>1, <3>1 DEF Reachable
    <3> QED
        BY <1>1, <1>4, <2>1, <3>2
  <2>2. CASE ends # {}
    <3>1. c \in ends /\ c \in 1 .. n /\ \A m \in ends : c <= m
        BY <1>4, <1>5, <1>6, <2>2
    <3>2. ASSUME j <= c PROVE Reachable(chart, q, j)
      <4>1. \A k \in 1 .. j - 1 : k \in 1 .. n /\ ~(c <= k)
          BY <1>1, <3>1, <3>2
      <4> QED
          BY <1>2, <1>6, <3>1, <4>1 DEF Reachable
    <3>3. ASSUME Reachable(chart, q, j), ~(j <= c) PROVE FALSE
      <4>1. c \in 1 .. j - 1
          BY <1>1, <3>1, <3>3
      <4> QED
          BY <1>6, <3>1, <3>3, <4>1 DEF Reachable
    <3> QED
        BY <3>2, <3>3
  <2> QED
      BY <2>1, <2>2
<1> QED
    BY <1>1, <1>7, <1>8, <1>9 DEF ListsReachable, l, q, n

(* The rows that are listed for an event are those that some data selects,   *)
(* each once (position.go, arrowsForEvent; statechart.go, selectTransition). *)
LEMMA ListedAreSelectable ==
    ASSUME ChartGiven, NEW source \in Sources, NEW event
    PROVE  /\ Listed(chart, source, event) \in Seq(CandidateRows(chart, source, event))
           /\ Distinct(Listed(chart, source, event))
           /\ \A x : x \in ToSet(Listed(chart, source, event))
                     <=> \E passing \in SUBSET Indices :
                            /\ Selects(source, event, passing)
                            /\ x = Selection(source, event, passing)
<1> DEFINE q == Candidates(chart, source, event)
           S == CandidateRows(chart, source, event)
           l == Listed(chart, source, event)
           n == Len(q)
<1>1. ListsReachable(chart, q, l)
    BY ListedFacts
<1>2. Looked(chart, source, event, q)
    BY CandidatesAreOrdered DEF ChartGiven
<1>3. \A P : IF ApplyingAt(chart, source, event, P) = {} THEN ~Selects(source, event, P)
             ELSE LET j == SelectTransition(chart, source, event, P)
                  IN  /\ Selects(source, event, P)
                      /\ Selection(source, event, P) = q[j]
                      /\ FirstApplies(chart, source, event, P, q, j)
  <2> TAKE P
  <2>1. LET A == ApplyingAt(chart, source, event, P)
            j == SelectTransition(chart, source, event, P)
        IN  IF A = {} THEN j = 0 ELSE FirstApplies(chart, source, event, P, q, j)
      BY FirstIsSelected DEF ChartGiven
  <2>2. Selects(source, event, P) <=> ApplyingAt(chart, source, event, P) # {}
      BY SelectionFacts
  <2>3. Selection(source, event, P) = q[SelectTransition(chart, source, event, P)]
      BY DEF Selection
  <2> HIDE DEF q
  <2> QED
      BY <2>1, <2>2, <2>3
<1> HIDE DEF q, l
<1>4. /\ n \in Nat /\ \A j \in 1 .. n : q[j] \in S
      /\ \A j, k \in 1 .. n : j < k => LooksFirst(chart, q[j], q[k])
      /\ Len(l) \in Nat /\ Len(l) <= n /\ DOMAIN l = 1 .. Len(l)
      /\ l = [j \in 1 .. Len(l) |-> l[j]]
      /\ \A j \in 1 .. Len(l) : l[j] = q[j] /\ j \in 1 .. n
      /\ \A j \in 1 .. n : j <= Len(l) <=> Reachable(chart, q, j)
    BY <1>1, <1>2 DEF Looked, ListsReachable
<1> DEFINE m == Len(l)
<1> HIDE DEF n, m
<1>5. l \in Seq(S)
  <2>1. l = [j \in 1 .. m |-> l[j]]
      BY <1>4 DEF m
  <2>2. \A j \in 1 .. m : l[j] \in S
      BY <1>4 DEF m
  <2>3. m \in Nat /\ l \in [1 .. m -> S]
      BY <1>4, <2>1, <2>2 DEF m
  <2> QED
      BY <2>3, ListOf
<1>6. ASSUME NEW j \in 1 .. n, NEW k \in 1 .. n, j # k PROVE q[j] # q[k] /\ q[j].row # q[k].row
  <2>1. ASSUME NEW a \in 1 .. n, NEW b \in 1 .. n, a < b
        PROVE  q[a] # q[b] /\ q[a].row # q[b].row
    <3>1. q[a] \in S /\ q[b] \in S /\ LooksFirst(chart, q[a], q[b])
        BY <1>4, <2>1
    <3>2. q[a] # q[b] /\ (q[a].handler = q[b].handler => q[a].row < q[b].row)
        BY <3>1, LooksFirstFacts
    <3>3. /\ q[a] = [handler |-> q[a].handler, row |-> q[a].row]
          /\ q[b] = [handler |-> q[b].handler, row |-> q[b].row]
          /\ q[a].handler \in Nodes(chart.shape) /\ q[b].handler \in Nodes(chart.shape)
          /\ chart.transitions[q[a].row].from = chart.shape.state[q[a].handler]
          /\ chart.transitions[q[b].row].from = chart.shape.state[q[b].handler]
        BY <3>1 DEF CandidateRows
    <3>4. q[a].row = q[b].row => q[a].handler = q[b].handler
        BY <3>3 DEF ChartGiven
    <3> QED
        BY <3>2, <3>3, <3>4
  <2>2. j < k \/ k < j
      BY <1>4, <1>6
  <2> QED
      BY <2>1, <2>2
<1>7. Distinct(l)
  <2>1. \A i, j \in 1 .. m : l[i] = l[j] => i = j
      BY <1>4, <1>6 DEF m
  <2> QED
      BY <2>1 DEF Distinct, m
<1>8. ASSUME NEW P \in SUBSET Indices, Selects(source, event, P)
      PROVE  Selection(source, event, P) \in ToSet(l)
  <2> DEFINE j == SelectTransition(chart, source, event, P)
  <2>1. Selection(source, event, P) = q[j] /\ FirstApplies(chart, source, event, P, q, j)
      BY <1>3, <1>8
  <2> HIDE DEF j
  <2>2. j \in 1 .. n /\ \A k \in 1 .. j - 1 : ~Applies(chart, q[k].row, P)
      BY <2>1 DEF FirstApplies, n
  <2>3. \A k \in 1 .. j - 1 : chart.transitions[q[k].row].guarded
      BY <2>2 DEF Applies
  <2>4. j <= m
      BY <1>4, <2>2, <2>3 DEF Reachable, m
  <2>5. j \in 1 .. m /\ l[j] = q[j]
      BY <1>4, <2>2, <2>4 DEF m
  <2> QED
      BY <1>4, <2>1, <2>5 DEF ToSet, m
<1>9. ASSUME NEW x, x \in ToSet(l)
      PROVE  \E P \in SUBSET Indices : Selects(source, event, P) /\ x = Selection(source, event, P)
  <2>1. PICK j \in 1 .. m : l[j] = x
      BY <1>4, <1>9 DEF ToSet, m
  <2>2. j \in 1 .. n /\ q[j] = x /\ j <= m /\ Reachable(chart, q, j) /\ x \in S
      BY <1>4, <2>1 DEF m
  <2> DEFINE P == {x.row}
             A == ApplyingAt(chart, source, event, P)
             first == SelectTransition(chart, source, event, P)
  <2>3. P \in SUBSET Indices
      BY <2>2 DEF ChartGiven, CandidateRows
  <2>4. x \in A
      BY <2>2 DEF ApplyingAt, Applies
  <2>5. Selects(source, event, P) /\ Selection(source, event, P) = q[first]
        /\ FirstApplies(chart, source, event, P, q, first)
      BY <1>3, <2>4
  <2> HIDE DEF first
  <2>6. /\ first \in 1 .. n /\ Applies(chart, q[first].row, P)
        /\ x = q[first] \/ LooksFirst(chart, q[first], x)
        /\ \A k \in 1 .. first - 1 : ~Applies(chart, q[k].row, P)
      BY <2>4, <2>5 DEF FirstApplies, n, ApplyingAt
  <2>7. ~(j < first)
    <3>1. Applies(chart, q[j].row, P)
        BY <2>2 DEF Applies
    <3>2. j < first => j \in 1 .. first - 1
        BY <1>4, <2>2, <2>6
    <3> QED
        BY <2>6, <3>1, <3>2
  <2>8. ~(first < j)
    <3> SUFFICES ASSUME first < j PROVE FALSE
        OBVIOUS
    <3>1. first \in 1 .. j - 1 /\ first # j
        BY <1>4, <2>2, <2>6
    <3>2. chart.transitions[q[first].row].guarded /\ q[first].row # q[j].row
        BY <1>6, <2>2, <2>6, <3>1 DEF Reachable
    <3> QED
        BY <2>2, <2>6, <3>2 DEF Applies
  <2>9. first = j
      BY <1>4, <2>2, <2>6, <2>7, <2>8
  <2> QED
      BY <2>2, <2>3, <2>5, <2>9
<1> QED
    BY <1>5, <1>7, <1>8, <1>9 DEF l

(* The arrows of a source are the rows, with their handlers, that it can     *)
(* select for some data, each once (position.go, Arrows).                    *)
LEMMA ArrowsSelect ==
    ASSUME ChartGiven PROVE ArrowsAreSelectable
<1> SUFFICES ASSUME NEW source \in Sources
             PROVE  LET arrows == Arrows(chart, source)
                    IN  /\ ToSet(arrows) =
                             UNION {{Selection(source, e, passing) :
                                       passing \in {P \in SUBSET Indices : Selects(source, e, P)}} :
                                    e \in Events}
                        /\ Len(arrows) = Cardinality(ToSet(arrows))
    BY DEF ArrowsAreSelectable
<1> DEFINE events == EventsFrom(chart, source)
           n == Len(events)
           lists == [j \in DOMAIN events |-> Listed(chart, source, events[j])]
           arrows == Arrows(chart, source)
           S == UNION {CandidateRows(chart, source, e) : e \in Events}
           U == UNION {{Selection(source, e, passing) :
                           passing \in {P \in SUBSET Indices : Selects(source, e, P)}} : e \in Events}
<1>1. ChartSound(chart) /\ source \in Nodes(chart.shape) /\ Events = RowEvents(chart)
    BY DEF ChartGiven, Events, RowEvents
<1>2. /\ events \in Seq(Events) /\ Distinct(events)
      /\ \A e : CandidateRows(chart, source, e) # {} => e \in ToSet(events)
    BY <1>1, EventsFromFacts DEF Distinct
<1>3. arrows = FlattenSeq(lists)
    BY DEF Arrows, Listed
<1> HIDE DEF events, arrows
<1>4. n \in Nat /\ DOMAIN events = 1 .. n /\ \A j \in 1 .. n : events[j] \in Events
    BY <1>2
<1> HIDE DEF n
<1>5. lists = [j \in 1 .. n |-> lists[j]]
      /\ \A j \in 1 .. n : lists[j] = Listed(chart, source, events[j])
    BY <1>4
<1> HIDE DEF lists
<1>6. ASSUME NEW e \in Events
      PROVE  CandidateRows(chart, source, e) \subseteq S
             /\ \A x \in CandidateRows(chart, source, e) : chart.transitions[x.row].event = e
    BY DEF CandidateRows
<1> HIDE DEF S
<1>7. ASSUME NEW j \in 1 .. n
      PROVE  /\ lists[j] \in Seq(S) /\ Distinct(lists[j])
             /\ \A x \in ToSet(lists[j]) : chart.transitions[x.row].event = events[j]
             /\ \A x : x \in ToSet(lists[j])
                       <=> \E passing \in SUBSET Indices :
                              /\ Selects(source, events[j], passing)
                              /\ x = Selection(source, events[j], passing)
  <2> DEFINE C == CandidateRows(chart, source, events[j])
  <2>1. /\ lists[j] \in Seq(C) /\ Distinct(lists[j])
        /\ \A x : x \in ToSet(lists[j])
                  <=> \E passing \in SUBSET Indices :
                         /\ Selects(source, events[j], passing)
                         /\ x = Selection(source, events[j], passing)
      BY <1>5, ListedAreSelectable
  <2>2. C \subseteq S /\ \A x \in C : chart.transitions[x.row].event = events[j]
      BY <1>4, <1>6
  <2> HIDE DEF C
  <2>3. ToSet(lists[j]) \subseteq C
      BY <2>1, InList
  <2> QED
      BY <2>1, <2>2, <2>3
<1>8. lists \in Seq(Seq(S)) /\ Len(lists) = n
  <2> DEFINE Q == Seq(S)
  <2> HIDE DEF Q
  <2>1. lists \in [1 .. n -> Q]
      BY <1>5, <1>7 DEF Q
  <2>2. lists \in Seq(Q) /\ Len(lists) = n
      BY <1>4, <2>1, ListOf
  <2> QED
      BY <2>2 DEF Q
<1>9. /\ arrows \in Seq(S)
      /\ \A x : x \in ToSet(arrows) <=> \E j \in 1 .. n : x \in ToSet(lists[j])
    BY <1>3, <1>8, FlattenFacts
<1>10. Distinct(arrows)
  <2>1. ASSUME NEW i \in 1 .. n, NEW j \in 1 .. n, i # j
        PROVE  ToSet(lists[i]) \cap ToSet(lists[j]) = {}
    <3>1. events[i] # events[j]
        BY <1>2, <2>1 DEF Distinct, n
    <3>2. ASSUME NEW x, x \in ToSet(lists[i]), x \in ToSet(lists[j]) PROVE FALSE
        BY <1>7, <3>1, <3>2
    <3> QED
        BY <3>2
  <2>2. /\ \A j \in 1 .. Len(lists) : Distinct(lists[j])
        /\ \A i, j \in 1 .. Len(lists) : i # j => ToSet(lists[i]) \cap ToSet(lists[j]) = {}
      BY <1>7, <1>8, <2>1
  <2>3. Distinct(FlattenSeq(lists))
      BY <1>8, <2>2, FlattenDistinct
  <2> QED
      BY <1>3, <2>3
<1>11. \A x : x \in U <=> \E e \in Events, P \in SUBSET Indices :
                            Selects(source, e, P) /\ x = Selection(source, e, P)
    OBVIOUS
<1> HIDE DEF U
<1>12. ToSet(arrows) = U
  <2>1. ASSUME NEW x \in ToSet(arrows) PROVE x \in U
    <3>1. PICK j \in 1 .. n : x \in ToSet(lists[j])
        BY <1>9
    <3> QED
        BY ZenonT(90), <1>4, <1>7, <1>11, <3>1
  <2>2. ASSUME NEW e \in Events, NEW P \in SUBSET Indices, Selects(source, e, P)
        PROVE  Selection(source, e, P) \in ToSet(arrows)
    <3>1. ApplyingAt(chart, source, e, P) # {}
        BY <2>2, SelectionFacts
    <3>2. CandidateRows(chart, source, e) # {}
        BY <3>1 DEF ApplyingAt
    <3>3. PICK j \in 1 .. n : events[j] = e
        BY <1>2, <1>4, <3>2 DEF ToSet
    <3>4. Selection(source, e, P) \in ToSet(lists[j])
        BY <1>7, <2>2, <3>3
    <3> QED
        BY <1>9, <3>4
  <2> QED
      BY <1>11, <2>1, <2>2
<1>13. Len(arrows) = Cardinality(ToSet(arrows))
  <2> DEFINE m == Len(arrows)
             A == ToSet(arrows)
  <2>1. m \in Nat /\ arrows = [k \in 1 .. m |-> arrows[k]] /\ DOMAIN arrows = 1 .. m
      BY <1>9
  <2>2. A = {arrows[k] : k \in 1 .. m}
      BY <2>1 DEF ToSet
  <2>3. \A j, k \in 1 .. m : arrows[j] = arrows[k] => j = k
      BY <1>10 DEF Distinct
  <2> HIDE DEF m, A
  <2>4. Cardinality(A) = m <=> \A j, k \in 1 .. m : arrows[j] = arrows[k] => j = k
      BY <2>1, <2>2, CountList
  <2> QED
      BY <2>3, <2>4 DEF m, A
<1> QED
    BY <1>12, <1>13 DEF arrows, U

(* What a compiled Machine or Chart says of an event is the same however it  *)
(* is asked: Next or Fire selects the first row of the nearest state that    *)
(* applies, Permitted lists exactly the events so selected and where they    *)
(* lead, and Arrows what some data selects (statemachine.go, Next and        *)
(* Permitted; statechart.go, selectTransition and Permitted; position.go,    *)
(* Arrows).                                                                *)
THEOREM AnswersAlwaysAgree == Spec => []AnswersAgree
<1>1. ASSUME FlatInv, ChartsInv PROVE AnswersAgree
  <2>1. ASSUME asked = "flat" PROVE Flat!NextSelectsFirst /\ Flat!PermittedAgreesWithNext
      BY <1>1, <2>1, FlatSelects, FlatPermits
  <2>2. ASSUME asked = "charts"
        PROVE  NearestHandlerSelects /\ PermittedIsSelection /\ ArrowsAreSelectable
    <3>1. CASE Accepted
      <4>1. ChartGiven
          BY SMTT(60), <1>1, <2>2, <3>1, ChartIsGiven DEF ChartsInv
      <4> QED
          BY <4>1, NearestSelects, PermittedSelects, ArrowsSelect
    <3>2. CASE ~Accepted
        BY <3>2 DEF NearestHandlerSelects, PermittedIsSelection, ArrowsAreSelectable
    <3> QED
        BY <3>1, <3>2
  <2> QED
      BY <2>1, <2>2 DEF AnswersAgree
<1> QED
    BY <1>1, FlatStays, ChartsStay, PTL
-----------------------------------------------------------------------------
(* What Compile of a statechart refuses (statechart/statechart.go).          *)

(* A definition is made of lists (statechart.go, Definition).                *)
LEMMA OutlineListed ==
    ASSUME NEW d, IsOutline(d) PROVE OutlineLists(d)
<1>1. IsList(d.states) /\ IsList(d.substates) /\ IsList(d.initials)
    BY DEF IsOutline
<1> QED
    BY <1>1, ListFacts DEF OutlineLists, IsList

(* Compile accepts the states and edges that make a forest and no others     *)
(* (statechart.go, Compile).                                                *)
LEMMA ForestsAccepted ==
    ASSUME IsOutline(outline) PROVE AcceptsForests
<1> SUFFICES ASSUME Indices = {} PROVE Accepted <=> IsForest(outline)
    BY DEF AcceptsForests, IsForest, EdgeSet, EdgesOf
<1>1. OutlineLists(outline) /\ DOMAIN outline.transitions = {}
    BY OutlineListed DEF Indices
<1>2. TransitionProblems(outline) = {}
    BY <1>1 DEF TransitionProblems
<1> QED
    BY <1>1, <1>2, PartsAccepted, ForestsAreFine DEF Accepted

(* A definition is refused for a row exactly when the row cannot be the one  *)
(* selected at its own state, whatever the data, or names what is not a      *)
(* transition (statechart.go, Compile).                                      *)
LEMMA UnselectableRefused ==
    ASSUME IsOutline(outline) PROVE RefusesUnselectableRows
<1> DEFINE d0 == [outline EXCEPT !.transitions = << >>]
<1>1. SUFFICES ASSUME Problems(d0) = {}
               PROVE  Accepted <=> \A i \in Indices :
                            RowKnown(outline, i) /\ Selectable(ChartOf(outline), outline, i)
  <2>1. [ChartOf(outline) EXCEPT !.transitions = outline.transitions] = ChartOf(outline)
      BY DEF ChartOf
  <2> QED
      BY <2>1 DEF RefusesUnselectableRows, RowKnown, Selectable, Indices
<1>2. OutlineLists(outline)
    BY OutlineListed
<1>3. /\ d0.states = outline.states /\ d0.substates = outline.substates
      /\ d0.initials = outline.initials /\ d0.transitions = << >>
    BY DEF IsOutline
<1> HIDE DEF d0
<1>4. OutlineLists(d0)
    BY <1>2, <1>3 DEF OutlineLists
<1>5. StatesFine(d0) /\ EdgesFine(d0) /\ NoCycles(d0) /\ InitialsFine(d0)
    BY <1>1, <1>4, PartsAccepted
<1>6. StatesFine(outline) /\ EdgesFine(outline) /\ NoCycles(outline) /\ InitialsFine(outline)
  <2>1. StatesFine(outline)
      BY <1>3, <1>5 DEF StatesFine
  <2>2. EdgesFine(outline)
      BY <1>3, <1>5 DEF EdgesFine
  <2>3. NoCycles(outline)
      BY <1>3, <1>5 DEF NoCycles, EdgesOf
  <2>4. InitialsFine(outline)
      BY <1>3, <1>5 DEF InitialsFine, EdgesOf
  <2> QED
      BY <2>1, <2>2, <2>3, <2>4
<1>7. ShapeFine(outline)
    BY <1>2, <1>6 DEF ShapeFine, IsOutline
<1>8. Accepted <=> \A k \in Indices : RowKnown(outline, k) /\ ~DeadRow(outline, k)
  <2>1. Problems(outline) = {} <=> TransitionProblems(outline) = {}
      BY <1>2, <1>6, PartsAccepted
  <2> QED
      BY <1>2, <1>6, <2>1, ChartRowsFine DEF Accepted, Indices
<1>9. CASE \A k \in Indices : RowKnown(outline, k)
  <2>1. \A k \in DOMAIN outline.transitions : RowKnown(outline, k)
      BY <1>9 DEF Indices
  <2>2. \A i \in Indices : Selectable(ChartOf(outline), outline, i) <=> ~DeadRow(outline, i)
      BY <1>7, <2>1, SelectableUnlessDead DEF Indices
  <2> QED
      BY <1>8, <2>2
<1> QED
    BY SMTT(60), <1>8, <1>9

-----------------------------------------------------------------------------
(* What Compile of a supervised Machine refuses (supervised/definition.go).  *)

(* The lists of a strict definition (definition.go, Definition).             *)
LEMMA StrictLists ==
    ASSUME NEW d, IsStrict(d)
    PROVE  /\ Len(d.states) \in Nat /\ DOMAIN d.states = 1 .. Len(d.states)
           /\ d.states = << >> <=> Len(d.states) = 0
           /\ Len(d.events) \in Nat /\ DOMAIN d.events = 1 .. Len(d.events)
           /\ d.events = [k \in 1 .. Len(d.events) |-> d.events[k]]
           /\ d.events = << >> <=> Len(d.events) = 0
           /\ Len(d.transitions) \in Nat /\ DOMAIN d.transitions = 1 .. Len(d.transitions)
           /\ Strict!Names(d) = {d.states[k].name : k \in 1 .. Len(d.states)}
           /\ Strict!Declared(d) = {d.events[k] : k \in 1 .. Len(d.events)}
<1>1. IsList(d.states) /\ IsList(d.events) /\ IsList(d.transitions)
    BY DEF IsStrict
<1>2. /\ Len(d.states) \in Nat /\ DOMAIN d.states = 1 .. Len(d.states)
      /\ Len(d.events) \in Nat /\ DOMAIN d.events = 1 .. Len(d.events)
      /\ d.events = [k \in 1 .. Len(d.events) |-> d.events[k]]
      /\ Len(d.transitions) \in Nat /\ DOMAIN d.transitions = 1 .. Len(d.transitions)
    BY <1>1, ListFacts
<1>3. ASSUME NEW s, IsList(s) PROVE s = << >> <=> Len(s) = 0
    BY <1>3 DEF IsList
<1>4. Strict!Names(d) = {d.states[k].name : k \in 1 .. Len(d.states)}
    BY <1>2 DEF Strict!Names, Strict!ToSet
<1>5. Strict!Declared(d) = {d.events[k] : k \in 1 .. Len(d.events)}
    BY <1>2 DEF Strict!Declared, Strict!ToSet
<1> QED
    BY <1>1, <1>2, <1>3, <1>4, <1>5

ChecksFine(d) ==
    \A s \in Strict!Sections : Len(d.checks[s]) > 0 /\ \A k \in DOMAIN d.checks[s] : d.checks[s][k]

(* Every section has callbacks, and they are there (definition.go, Compile). *)
LEMMA ChecksAreFine ==
    ASSUME NEW d, IsStrict(d)
    PROVE  Strict!CallbackProblems(d) = {} <=> ChecksFine(d)
<1> DEFINE Missing(s) == {<< s, i >> : i \in {k \in DOMAIN d.checks[s] : ~d.checks[s][k]}}
<1>1. Strict!CallbackProblems(d) = {} <=>
         \A s \in Strict!Sections : d.checks[s] # << >> /\ Missing(s) = {}
  <2>1. {<< s, 0 >> : s \in {x \in Strict!Sections : d.checks[x] = << >>}} = {}
        <=> \A s \in Strict!Sections : d.checks[s] # << >>
      OBVIOUS
  <2>2. UNION {Missing(s) : s \in Strict!Sections} = {}
        <=> \A s \in Strict!Sections : Missing(s) = {}
    <3> HIDE DEF Missing
    <3> QED
        OBVIOUS
  <2>3. Strict!CallbackProblems(d) = {<< s, 0 >> : s \in {x \in Strict!Sections : d.checks[x] = << >>}}
                                     \cup UNION {Missing(s) : s \in Strict!Sections}
      BY DEF Strict!CallbackProblems
  <2> HIDE DEF Missing
  <2> QED
      BY <2>1, <2>2, <2>3
<1>2. \A s \in Strict!Sections :
         Missing(s) = {} <=> \A k \in DOMAIN d.checks[s] : d.checks[s][k]
    OBVIOUS
<1>3. \A s \in Strict!Sections : d.checks[s] # << >> <=> Len(d.checks[s]) > 0
  <2> SUFFICES ASSUME NEW s \in Strict!Sections PROVE d.checks[s] # << >> <=> Len(d.checks[s]) > 0
      OBVIOUS
  <2>1. d.checks[s] \in Seq(BOOLEAN)
      BY DEF IsStrict
  <2> QED
      BY <2>1
<1> HIDE DEF Missing
<1> QED
    BY <1>1, <1>2, <1>3 DEF ChecksFine

(* The states are declared once each, and the initial one is among them      *)
(* (definition.go, Compile).                                                *)
LEMMA NamesAreFine ==
    ASSUME NEW d, IsStrict(d)
    PROVE  /\ Strict!StateProblems(d) = {}
              <=> Cardinality(Strict!Names(d)) = Len(d.states) /\ d.initial \in Strict!Names(d)
           /\ Cardinality(Strict!Names(d)) = Len(d.states)
              <=> \A k \in 1 .. Len(d.states) : \A j \in 1 .. k - 1 :
                     d.states[j].name # d.states[k].name
<1> DEFINE n == Len(d.states)
           f == [k \in 1 .. n |-> d.states[k].name]
           A == Strict!Names(d)
           Repeats(k) == \E j \in 1 .. k - 1 : d.states[j].name = d.states[k].name
<1>1. n \in Nat /\ DOMAIN d.states = 1 .. n /\ (d.states = << >> <=> n = 0)
      /\ A = {d.states[k].name : k \in 1 .. n}
    BY StrictLists
<1>2. Cardinality(A) = n <=> \A k \in 1 .. n : \A j \in 1 .. k - 1 : f[j] # f[k]
  <2>1. A = {f[k] : k \in 1 .. n} /\ f = [k \in 1 .. n |-> f[k]]
      BY <1>1
  <2> HIDE DEF A, f, n
  <2> QED
      BY ZenonT(90), <1>1, <2>1, CountUnlike
<1>3. \A k \in 1 .. n : \A j \in 1 .. k - 1 : j \in 1 .. n /\ f[j] = d.states[j].name /\ f[k] = d.states[k].name
    BY <1>1
<1>4. Cardinality(A) = n <=> \A k \in 1 .. n : ~Repeats(k)
  <2> HIDE DEF f, A, n
  <2> QED
      BY <1>2, <1>3
<1>5. Strict!StateProblems(d) = {}
      <=> /\ \A k \in 1 .. n : ~Repeats(k)
          /\ d.states # << >> /\ ~(d.states # << >> /\ d.initial \notin A)
  <2>1. {<< "states", i >> : i \in {k \in DOMAIN d.states : Repeats(k)}} = {}
        <=> \A k \in 1 .. n : ~Repeats(k)
    <3> HIDE DEF Repeats
    <3> QED
        BY ZenonT(90), <1>1
  <2>2. {<< "no states", 0 >> : x \in {d.states} \cap {<< >>}} = {} <=> d.states # << >>
      OBVIOUS
  <2>3. {<< "initial", 0 >> : x \in {y \in {d.initial} : d.states # << >> /\ y \notin A}} = {}
        <=> ~(d.states # << >> /\ d.initial \notin A)
      OBVIOUS
  <2>4. Strict!StateProblems(d) =
           {<< "states", i >> : i \in {k \in DOMAIN d.states : Repeats(k)}}
           \cup {<< "no states", 0 >> : x \in {d.states} \cap {<< >>}}
           \cup {<< "initial", 0 >> : x \in {y \in {d.initial} : d.states # << >> /\ y \notin A}}
      BY DEF Strict!StateProblems
  <2> HIDE DEF Repeats, A
  <2> QED
      BY <2>1, <2>2, <2>3, <2>4
<1>6. d.initial \in A => n # 0
  <2> HIDE DEF A, n
  <2> QED
      BY <1>1
<1> HIDE DEF A, f
<1> QED
    BY <1>1, <1>4, <1>5, <1>6 DEF A

(* The events are declared once each, and there are some (definition.go,     *)
(* Compile).                                                                *)
LEMMA EventsAreFine ==
    ASSUME NEW d, IsStrict(d)
    PROVE  Strict!EventProblems(d) = {}
           <=> Strict!Declared(d) # {} /\ Cardinality(Strict!Declared(d)) = Len(d.events)
<1> DEFINE n == Len(d.events)
           A == Strict!Declared(d)
           Repeats(k) == \E j \in 1 .. k - 1 : d.events[j] = d.events[k]
<1>1. n \in Nat /\ DOMAIN d.events = 1 .. n /\ (d.events = << >> <=> n = 0)
      /\ A = {d.events[k] : k \in 1 .. n} /\ d.events = [k \in 1 .. n |-> d.events[k]]
    BY StrictLists
<1>2. Cardinality(A) = n <=> \A k \in 1 .. n : \A j \in 1 .. k - 1 : d.events[j] # d.events[k]
  <2> DEFINE f == d.events
  <2>1. n \in Nat /\ f = [k \in 1 .. n |-> f[k]] /\ A = {f[k] : k \in 1 .. n}
      BY <1>1
  <2> HIDE DEF A, n, f
  <2>2. Cardinality(A) = n <=> \A k \in 1 .. n : \A j \in 1 .. k - 1 : f[j] # f[k]
      BY <2>1, CountUnlike
  <2> QED
      BY <2>2 DEF f
<1>3. Strict!EventProblems(d) = {} <=> (\A k \in 1 .. n : ~Repeats(k)) /\ d.events # << >>
  <2>1. {<< "events", i >> : i \in {k \in DOMAIN d.events : Repeats(k)}} = {}
        <=> \A k \in 1 .. n : ~Repeats(k)
    <3>1. DOMAIN d.events = 1 .. n
        BY <1>1
    <3> HIDE DEF Repeats, A, n
    <3> QED
        BY <3>1
  <2>2. {<< "no events", 0 >> : x \in {d.events} \cap {<< >>}} = {} <=> d.events # << >>
      OBVIOUS
  <2>3. Strict!EventProblems(d) =
           {<< "events", i >> : i \in {k \in DOMAIN d.events : Repeats(k)}}
           \cup {<< "no events", 0 >> : x \in {d.events} \cap {<< >>}}
      BY DEF Strict!EventProblems
  <2> HIDE DEF Repeats
  <2> QED
      BY <2>1, <2>2, <2>3
<1>4. A # {} <=> n # 0
  <2>1. n # 0 => 1 \in 1 .. n
    <3> HIDE DEF n
    <3> QED
        BY <1>1
  <2> HIDE DEF A, n
  <2> QED
      BY <1>1, <2>1
<1> HIDE DEF A
<1> QED
    BY <1>1, <1>2, <1>3, <1>4 DEF A

RefusedBy(d, i) == {d.states[i].refuse[j] : j \in DOMAIN d.states[i].refuse}

RefusalsFine(d, i) ==
    /\ RefusedBy(d, i) \subseteq Strict!Declared(d)
    /\ Cardinality(RefusedBy(d, i)) = Len(d.states[i].refuse)

(* The refusals of a state are declared events, and each is named once       *)
(* (definition.go, Compile).                                                *)
LEMMA RefusalsAreFine ==
    ASSUME NEW d, IsStrict(d)
    PROVE  Strict!RefusalProblems(d) = {} <=> \A i \in DOMAIN d.states : RefusalsFine(d, i)
<1> DEFINE Repeats(i, k) == \E j \in 1 .. k - 1 : d.states[i].refuse[j] = d.states[i].refuse[k]
           Strange(i, k) == d.states[i].refuse[k] \notin Strict!Declared(d)
           Bad(i) == {<< "refuse", i, j >> :
                         j \in {k \in DOMAIN d.states[i].refuse : Repeats(i, k) \/ Strange(i, k)}}
<1>1. Strict!RefusalProblems(d) = UNION {Bad(i) : i \in DOMAIN d.states}
    BY DEF Strict!RefusalProblems
<1>2. Strict!RefusalProblems(d) = {} <=> \A i \in DOMAIN d.states : Bad(i) = {}
  <2> HIDE DEF Bad
  <2> QED
      BY <1>1
<1>3. ASSUME NEW i \in DOMAIN d.states PROVE Bad(i) = {} <=> RefusalsFine(d, i)
  <2> DEFINE f == d.states[i].refuse
             n == Len(f)
             A == RefusedBy(d, i)
  <2>1. IsList(f)
      BY DEF IsStrict
  <2>2. n \in Nat /\ DOMAIN f = 1 .. n /\ f = [k \in 1 .. n |-> f[k]]
    <3> HIDE DEF f
    <3> QED
        BY <2>1, ListFacts
  <2>3. A = {f[k] : k \in 1 .. n}
      BY <2>2 DEF RefusedBy
  <2>4. Cardinality(A) = n <=> \A k \in 1 .. n : \A j \in 1 .. k - 1 : f[j] # f[k]
    <3> HIDE DEF f, n, A
    <3> QED
        BY <2>2, <2>3, CountUnlike
  <2>5. \A k : Repeats(i, k) <=> \E j \in 1 .. k - 1 : f[j] = f[k]
      OBVIOUS
  <2>6. \A k : Strange(i, k) <=> f[k] \notin Strict!Declared(d)
      OBVIOUS
  <2>7. Bad(i) = {} <=> \A k \in 1 .. n : ~Repeats(i, k) /\ ~Strange(i, k)
    <3>1. DOMAIN d.states[i].refuse = 1 .. n
        BY <2>2
    <3> HIDE DEF Repeats, Strange, n, f, A
    <3> QED
        BY <3>1
  <2>8. RefusalsFine(d, i) <=> A \subseteq Strict!Declared(d) /\ Cardinality(A) = n
      BY DEF RefusalsFine
  <2> HIDE DEF f, n, A, Repeats, Strange, Bad
  <2> QED
      BY <2>3, <2>4, <2>5, <2>6, <2>7, <2>8
<1> HIDE DEF Bad
<1> QED
    BY <1>2, <1>3

AnswersOf(d, s, e) ==
    {k \in DOMAIN d.transitions : d.transitions[k].from = s /\ d.transitions[k].event = e}

\* What a state without or with a way out says of the events.
StateFine(d, i) ==
    LET s == d.states[i]
        events == Strict!Declared(d)
    IN  IF s.terminal THEN \A e \in events : AnswersOf(d, s.name, e) = {}
        ELSE /\ \A e \in events : (e \in RefusedBy(d, i)) <=> (AnswersOf(d, s.name, e) = {})
             /\ \E e \in events : AnswersOf(d, s.name, e) # {}

NamedOnce(d) ==
    \A i, j \in DOMAIN d.states : d.states[i].name = d.states[j].name => i = j

(* A state that is declared once ends the Machine, and refuses an event, if  *)
(* it says so (definition.go, Compile and Refused).                          *)
LEMMA DeclaredOnce ==
    ASSUME NEW d, IsStrict(d), NamedOnce(d), NEW i \in DOMAIN d.states, NEW e
    PROVE  /\ Strict!IsTerminal(d, d.states[i].name) <=> d.states[i].terminal
           /\ << d.states[i].name, e >> \in Strict!RefusedKeys(d)
              <=> e \in RefusedBy(d, i) \cap Strict!Declared(d)
<1> DEFINE n == Len(d.states)
           s == d.states[i]
<1>1. n \in Nat /\ DOMAIN d.states = 1 .. n
    BY StrictLists
<1>2. Strict!IsTerminal(d, s.name) <=> s.terminal
  <2>1. \A k \in DOMAIN d.states : d.states[k].name = s.name => k = i
      BY DEF NamedOnce
  <2>2. \A j \in 1 .. i - 1 : d.states[j].name # s.name
    <3> SUFFICES ASSUME NEW j \in 1 .. i - 1, d.states[j].name = s.name PROVE FALSE
        OBVIOUS
    <3>1. j \in 1 .. n /\ j # i
      <4> HIDE DEF n
      <4> QED
          BY <1>1
    <3> QED
        BY <1>1, <2>1, <3>1
  <2> QED
      BY <2>1, <2>2 DEF Strict!IsTerminal
<1>3. << s.name, e >> \in Strict!RefusedKeys(d)
      <=> \E k \in DOMAIN d.states : d.states[k].name = s.name /\ e \in RefusedBy(d, k) \cap Strict!Declared(d)
  <2>1. \A k \in DOMAIN d.states : Strict!ToSet(d.states[k].refuse) = RefusedBy(d, k)
      BY DEF Strict!ToSet, RefusedBy
  <2>2. \A x : x \in Strict!ToSet(d.states) <=> \E k \in DOMAIN d.states : x = d.states[k]
      BY DEF Strict!ToSet
  <2> DEFINE K(x) == {<< x.name, y >> : y \in Strict!ToSet(x.refuse) \cap Strict!Declared(d)}
  <2>3. Strict!RefusedKeys(d) = UNION {K(x) : x \in Strict!ToSet(d.states)}
      BY DEF Strict!RefusedKeys
  <2>4. \A x : << s.name, e >> \in K(x)
               <=> s.name = x.name /\ e \in Strict!ToSet(x.refuse) \cap Strict!Declared(d)
      OBVIOUS
  <2>5. << s.name, e >> \in Strict!RefusedKeys(d)
        <=> \E x \in Strict!ToSet(d.states) : << s.name, e >> \in K(x)
    <3> HIDE DEF K
    <3> QED
        BY <2>3
  <2> HIDE DEF K, s
  <2> QED
      BY <2>1, <2>2, <2>4, <2>5
<1>4. << s.name, e >> \in Strict!RefusedKeys(d) <=> e \in RefusedBy(d, i) \cap Strict!Declared(d)
    BY <1>3 DEF NamedOnce
<1> QED
    BY <1>2, <1>4

\* What a row of a Machine must be, besides being selected for some data.
RowFine(d, k) ==
    LET t == d.transitions[k]
    IN  /\ {t.from, t.to} \subseteq Strict!Names(d) /\ t.event \in Strict!Declared(d)
        /\ t.id \notin {0} \cup {d.transitions[j].id : j \in DOMAIN d.transitions \ {k}}
        /\ t.issue = t.verify
        /\ \A j \in DOMAIN t.preconditions : t.preconditions[j]

(* The states of a Machine without repetitions, by their names (definition.go, *)
(* Compile).                                                                *)
LEMMA NamesOnce ==
    ASSUME NEW d, IsStrict(d)
    PROVE  Cardinality(Strict!Names(d)) = Len(d.states) <=> NamedOnce(d)
<1> DEFINE n == Len(d.states)
           f == [k \in 1 .. n |-> d.states[k].name]
           A == Strict!Names(d)
<1>1. n \in Nat /\ DOMAIN d.states = 1 .. n /\ A = {d.states[k].name : k \in 1 .. n}
    BY StrictLists
<1>2. Cardinality(A) = n <=> \A j, k \in 1 .. n : f[j] = f[k] => j = k
  <2>1. A = {f[k] : k \in 1 .. n} /\ f = [k \in 1 .. n |-> f[k]]
      BY <1>1
  <2> HIDE DEF A, f, n
  <2> QED
      BY <1>1, <2>1, CountList
<1>3. \A k \in 1 .. n : f[k] = d.states[k].name
    OBVIOUS
<1> HIDE DEF f, A
<1> QED
    BY SMTT(60), <1>1, <1>2, <1>3 DEF A, NamedOnce

\* What Compile asks of the states that do not end the Machine.
Covered(d) ==
    \A i \in DOMAIN d.states :
        ~Strict!IsTerminal(d, d.states[i].name) =>
            /\ \A e \in Strict!Declared(d) : ~Strict!Unanswered(d, d.states[i].name, e)
            /\ \E e \in Strict!Declared(d) : Strict!RowsOf(d, d.states[i].name, e) # << >>

(* Every state that is not terminal is looked at (definition.go, Compile).   *)
LEMMA CoverageFacts ==
    ASSUME NEW d, IsStrict(d)
    PROVE  Strict!CoverageProblems(d) = {} <=> Covered(d)
<1> DEFINE open == {s \in Strict!Names(d) : ~Strict!IsTerminal(d, s)}
           bad == {y \in open \X Strict!Declared(d) : Strict!Unanswered(d, y[1], y[2])}
           shut == {x \in open : \A e \in Strict!Declared(d) : Strict!RowsOf(d, x, e) = << >>}
<1>1. Strict!CoverageProblems(d) = {} <=> bad = {} /\ shut = {}
  <2>1. Strict!CoverageProblems(d) = {<< "coverage", x >> : x \in bad} \cup {<< "way out", s >> : s \in shut}
      BY DEF Strict!CoverageProblems
  <2> HIDE DEF bad, shut
  <2> QED
      BY <2>1
<1>2. bad = {} <=> \A s \in open : \A e \in Strict!Declared(d) : ~Strict!Unanswered(d, s, e)
  <2>1. ASSUME bad = {}, NEW s \in open, NEW e \in Strict!Declared(d), Strict!Unanswered(d, s, e)
        PROVE  FALSE
    <3>1. << s, e >> \in bad
      <4> HIDE DEF open
      <4> QED
          BY <2>1
    <3> QED
        BY <2>1, <3>1
  <2>2. ASSUME \A s \in open : \A e \in Strict!Declared(d) : ~Strict!Unanswered(d, s, e)
        PROVE  bad = {}
    <3> HIDE DEF open
    <3> QED
        BY <2>2
  <2> HIDE DEF bad, open
  <2> QED
      BY <2>1, <2>2
<1>3. shut = {} <=> \A s \in open : \E e \in Strict!Declared(d) : Strict!RowsOf(d, s, e) # << >>
  <2> HIDE DEF open
  <2> QED
      OBVIOUS
<1>4. \A s : s \in open <=> ~Strict!IsTerminal(d, s) /\ \E i \in DOMAIN d.states : s = d.states[i].name
  <2>1. Strict!Names(d) = {d.states[i].name : i \in DOMAIN d.states}
      BY ZenonT(90), StrictLists
  <2> QED
      BY <2>1
<1> HIDE DEF open, bad, shut
<1> QED
    BY <1>1, <1>2, <1>3, <1>4 DEF Covered

(* The rows of a state for an event, when all rows are of declared states    *)
(* and events (definition.go, Compile).                                      *)
LEMMA KnownAnswers ==
    ASSUME NEW d, IsStrict(d), \A k \in DOMAIN d.transitions : Strict!Known(d, d.transitions[k]),
           NEW s, NEW e
    PROVE  Strict!RowsOf(d, s, e) = << >> <=> AnswersOf(d, s, e) = {}
<1>1. \A k \in DOMAIN d.transitions : Answering(d, k, s, e) <=> k \in AnswersOf(d, s, e)
  <2> SUFFICES ASSUME NEW k \in DOMAIN d.transitions
               PROVE  Answering(d, k, s, e) <=> k \in AnswersOf(d, s, e)
      OBVIOUS
  <2>1. Strict!KeyOf(d.transitions[k]) = << s, e >>
        <=> d.transitions[k].from = s /\ d.transitions[k].event = e
      BY DEF Strict!KeyOf
  <2> QED
      BY <2>1 DEF Answering, AnswersOf
<1>2. AnswersOf(d, s, e) \subseteq DOMAIN d.transitions
    BY DEF AnswersOf
<1> QED
    BY <1>1, <1>2, RowsOfFacts

(* No ID is that of an earlier row, or of another row (definition.go,        *)
(* Compile).                                                                *)
LEMMA DistinctIDs ==
    ASSUME NEW d, IsStrict(d)
    PROVE  (\A k \in DOMAIN d.transitions : \A j \in 1 .. k - 1 : d.transitions[j].id # d.transitions[k].id)
           <=> \A k \in DOMAIN d.transitions :
                  d.transitions[k].id \notin {d.transitions[j].id : j \in DOMAIN d.transitions \ {k}}
<1> DEFINE n == Len(d.transitions)
           id(k) == d.transitions[k].id
<1>1. n \in Nat /\ DOMAIN d.transitions = 1 .. n
    BY StrictLists
<1>2. \A k \in 1 .. n : \A j \in 1 .. k - 1 : j \in 1 .. n /\ j # k
  <2> HIDE DEF n
  <2> QED
      BY <1>1
<1>3. \A j, k \in 1 .. n : j # k => j \in 1 .. k - 1 \/ k \in 1 .. j - 1
  <2> HIDE DEF n
  <2> QED
      BY <1>1
<1> HIDE DEF n, id
<1>4. (\A k \in 1 .. n : \A j \in 1 .. k - 1 : id(j) # id(k))
      <=> \A k \in 1 .. n : id(k) \notin {id(j) : j \in (1 .. n) \ {k}}
  <2>1. ASSUME \A k \in 1 .. n : \A j \in 1 .. k - 1 : id(j) # id(k), NEW k \in 1 .. n,
               NEW j \in (1 .. n) \ {k}
        PROVE  id(k) # id(j)
      BY <1>3, <2>1
  <2>2. ASSUME \A k \in 1 .. n : id(k) \notin {id(j) : j \in (1 .. n) \ {k}}, NEW k \in 1 .. n,
               NEW j \in 1 .. k - 1
        PROVE  id(k) # id(j)
      BY <1>2, <2>2
  <2> QED
      BY <2>1, <2>2
<1> QED
    BY <1>1, <1>4 DEF id

(* Compile finds nothing wrong with rows and refusals when every row is fine *)
(* and every state says of every event what it does (definition.go,          *)
(* Compile).                                                                *)
LEMMA RowsAreFine ==
    ASSUME NEW d, IsStrict(d), NamedOnce(d), \A i \in DOMAIN d.states : RefusalsFine(d, i)
    PROVE  Strict!TransitionProblems(d) = {} /\ Strict!CoverageProblems(d) = {}
           <=> /\ \A k \in DOMAIN d.transitions : RowFine(d, k) /\ ~Strict!Hidden(d, k)
               /\ \A i \in DOMAIN d.states : StateFine(d, i)
<1> DEFINE row(k) == d.transitions[k]
           rows == DOMAIN d.transitions
<1>1. \A k \in rows : Strict!Known(d, row(k)) <=>
         {row(k).from, row(k).to} \subseteq Strict!Names(d) /\ row(k).event \in Strict!Declared(d)
    BY DEF Strict!Known
<1>2. \A k \in rows : FALSE \notin ToSet(row(k).preconditions)
                      <=> \A j \in DOMAIN row(k).preconditions : row(k).preconditions[j]
  <2> SUFFICES ASSUME NEW k \in rows
               PROVE  FALSE \notin ToSet(row(k).preconditions)
                      <=> \A j \in DOMAIN row(k).preconditions : row(k).preconditions[j]
      OBVIOUS
  <2>1. row(k).preconditions \in Seq(BOOLEAN)
      BY DEF IsStrict
  <2> DEFINE p == row(k).preconditions
  <2>2. \A j \in DOMAIN p : p[j] \in BOOLEAN
    <3> HIDE DEF p
    <3> QED
        BY <2>1 DEF p
  <2> HIDE DEF p
  <2>3. FALSE \notin ToSet(p) <=> \A j \in DOMAIN p : p[j]
      BY <2>2 DEF ToSet
  <2> QED
      BY <2>3 DEF p
<1>3. \A k \in rows : Strict!KeyOf(row(k)) = << row(k).from, row(k).event >>
    BY DEF Strict!KeyOf
<1>4. Strict!TransitionProblems(d) = {} <=> \A k \in rows : RowSound(d, k)
    BY StrictRowsSound
<1>5. \A i \in DOMAIN d.states : \A e :
         /\ Strict!IsTerminal(d, d.states[i].name) <=> d.states[i].terminal
         /\ << d.states[i].name, e >> \in Strict!RefusedKeys(d)
            <=> e \in RefusedBy(d, i) \cap Strict!Declared(d)
    BY DeclaredOnce
<1>6. \A s : s \in Strict!Names(d) <=> \E i \in DOMAIN d.states : s = d.states[i].name
  <2>1. Strict!Names(d) = {d.states[i].name : i \in DOMAIN d.states}
      BY StrictLists
  <2> QED
      BY <2>1
<1>7. \A s, e, k : k \in AnswersOf(d, s, e) <=> k \in rows /\ row(k).from = s /\ row(k).event = e
    BY DEF AnswersOf
<1>8. Strict!CoverageProblems(d) = {} <=> Covered(d)
    BY CoverageFacts
<1> HIDE DEF row, rows
<1>9. ASSUME \A k \in rows : RowSound(d, k), Covered(d)
      PROVE  /\ \A k \in rows : RowFine(d, k) /\ ~Strict!Hidden(d, k)
             /\ \A i \in DOMAIN d.states : StateFine(d, i)
  <2>1. \A k \in rows : Strict!Known(d, row(k)) /\ row(k).id # 0 /\ ~Strict!Hidden(d, k)
      BY <1>9 DEF RowSound, row
  <2>2. \A s, e : Strict!RowsOf(d, s, e) = << >> <=> AnswersOf(d, s, e) = {}
      BY <2>1, KnownAnswers DEF row, rows
  <2>3. ASSUME NEW k \in rows PROVE RowFine(d, k)
    <3>1. d.transitions[k].id \notin {d.transitions[j].id : j \in DOMAIN d.transitions \ {k}}
        BY ZenonT(90), <1>9, DistinctIDs DEF RowSound, rows
    <3>2. row(k).issue = row(k).verify /\ FALSE \notin ToSet(row(k).preconditions)
        BY <1>9 DEF RowSound, row
    <3> QED
        BY <1>1, <1>2, <2>1, <3>1, <3>2 DEF RowFine, row
  <2>4. ASSUME NEW i \in DOMAIN d.states, NEW e \in Strict!Declared(d),
               NEW k \in AnswersOf(d, d.states[i].name, e)
        PROVE  ~d.states[i].terminal /\ e \notin RefusedBy(d, i)
    <3>1. k \in rows /\ row(k).from = d.states[i].name /\ row(k).event = e
        BY <1>7
    <3>2. ~Strict!IsTerminal(d, row(k).from) /\ Strict!KeyOf(row(k)) \notin Strict!RefusedKeys(d)
        BY <1>9, <3>1 DEF RowSound, row
    <3> QED
        BY <1>3, <1>5, <3>1, <3>2
  <2>5. ASSUME NEW i \in DOMAIN d.states PROVE StateFine(d, i)
    <3> DEFINE s == d.states[i]
    <3>1. CASE s.terminal
        BY <2>4, <3>1 DEF StateFine
    <3>2. CASE ~s.terminal
      <4>1. /\ \A e \in Strict!Declared(d) : ~Strict!Unanswered(d, s.name, e)
            /\ \E e \in Strict!Declared(d) : Strict!RowsOf(d, s.name, e) # << >>
          BY <1>5, <1>9, <3>2 DEF Covered
      <4>2. \A e \in Strict!Declared(d) : AnswersOf(d, s.name, e) = {} => e \in RefusedBy(d, i)
          BY <1>5, <2>2, <4>1 DEF Strict!Unanswered
      <4>3. \E e \in Strict!Declared(d) : AnswersOf(d, s.name, e) # {}
          BY <2>2, <4>1
      <4> QED
          BY <2>4, <3>2, <4>2, <4>3 DEF StateFine
    <3> QED
        BY <3>1, <3>2
  <2> QED
      BY <2>1, <2>3, <2>5
<1>10. ASSUME \A k \in rows : RowFine(d, k) /\ ~Strict!Hidden(d, k),
              \A i \in DOMAIN d.states : StateFine(d, i)
       PROVE  (\A k \in rows : RowSound(d, k)) /\ Covered(d)
  <2>1. \A k \in rows : Strict!Known(d, row(k)) /\ row(k).id # 0 /\ row(k).issue = row(k).verify
                        /\ FALSE \notin ToSet(row(k).preconditions)
                        /\ row(k).from \in Strict!Names(d) /\ row(k).event \in Strict!Declared(d)
    <3>1. \A k \in rows : /\ {row(k).from, row(k).to} \subseteq Strict!Names(d)
                          /\ row(k).event \in Strict!Declared(d)
                          /\ row(k).id # 0 /\ row(k).issue = row(k).verify
                          /\ \A j \in DOMAIN row(k).preconditions : row(k).preconditions[j]
        BY <1>10 DEF RowFine, row
    <3> QED
        BY <1>1, <1>2, <3>1
  <2>2. \A s, e : Strict!RowsOf(d, s, e) = << >> <=> AnswersOf(d, s, e) = {}
      BY <2>1, KnownAnswers DEF row, rows
  <2>3. ASSUME NEW k \in rows PROVE RowSound(d, k)
    <3>1. PICK i \in DOMAIN d.states : row(k).from = d.states[i].name
        BY <1>6, <2>1
    <3>2. k \in AnswersOf(d, d.states[i].name, row(k).event)
        BY <1>7, <3>1
    <3>3. ~d.states[i].terminal /\ row(k).event \notin RefusedBy(d, i)
        BY <1>10, <2>1, <3>2 DEF StateFine
    <3>4. ~Strict!IsTerminal(d, row(k).from) /\ Strict!KeyOf(row(k)) \notin Strict!RefusedKeys(d)
        BY <1>3, <1>5, <3>1, <3>3
    <3>5. \A j \in 1 .. k - 1 : d.transitions[j].id # d.transitions[k].id
      <4>1. \A m \in DOMAIN d.transitions :
               d.transitions[m].id \notin {d.transitions[j].id : j \in DOMAIN d.transitions \ {m}}
          BY <1>10 DEF RowFine, rows
      <4> QED
          BY <4>1, DistinctIDs DEF rows
    <3> QED
        BY <1>10, <2>1, <3>4, <3>5 DEF RowSound, row
  <2>4. Covered(d)
    <3> SUFFICES ASSUME NEW i \in DOMAIN d.states, ~d.states[i].terminal
                 PROVE  /\ \A e \in Strict!Declared(d) : ~Strict!Unanswered(d, d.states[i].name, e)
                        /\ \E e \in Strict!Declared(d) : Strict!RowsOf(d, d.states[i].name, e) # << >>
        BY <1>5 DEF Covered
    <3>1. /\ \A e \in Strict!Declared(d) :
                (e \in RefusedBy(d, i)) <=> (AnswersOf(d, d.states[i].name, e) = {})
          /\ \E e \in Strict!Declared(d) : AnswersOf(d, d.states[i].name, e) # {}
        BY <1>10 DEF StateFine
    <3> QED
        BY <1>5, <2>2, <3>1 DEF Strict!Unanswered
  <2> QED
      BY <2>3, <2>4
<1> QED
    BY <1>4, <1>8, <1>9, <1>10 DEF rows

(* A row is selected for some data exactly when no earlier row of its state  *)
(* for its event lacks a Guard (definition.go, Compile and rows).            *)
LEMMA SelectedUnlessHidden ==
    ASSUME NEW d, IsStrict(d), NEW k \in DOMAIN d.transitions
    PROVE  LET t == d.transitions[k]
               applying(passing) == {j \in AnswersOf(d, t.from, t.event) :
                                        ~d.transitions[j].guarded \/ j \in passing}
           IN  (\E passing \in SUBSET DOMAIN d.transitions :
                   k = Strict!Min(applying(passing) \cup {Len(d.transitions) + 1}))
               <=> ~Strict!Hidden(d, k)
<1> DEFINE n == Len(d.transitions)
           t == d.transitions[k]
           A == AnswersOf(d, t.from, t.event)
           Q(passing) == {j \in A : ~d.transitions[j].guarded \/ j \in passing} \cup {n + 1}
<1>1. n \in Nat /\ DOMAIN d.transitions = 1 .. n /\ k \in 1 .. n
    BY StrictLists
<1>2. /\ A \subseteq 1 .. n /\ k \in A
      /\ n + 1 \in Nat /\ k \in Nat /\ 1 <= k /\ k < n + 1
      /\ \A j \in A : j \in Nat /\ 1 <= j /\ j < n + 1
  <2>1. A \subseteq 1 .. n /\ k \in A
      BY <1>1 DEF AnswersOf
  <2>2. n + 1 \in Nat /\ \A j \in 1 .. n : j \in Nat /\ 1 <= j /\ j < n + 1
    <3> HIDE DEF n
    <3> QED
        BY <1>1
  <2> HIDE DEF A, n
  <2> QED
      BY <1>1, <2>1, <2>2
<1>3. Strict!Hidden(d, k) <=> \E j \in A : j < k /\ ~d.transitions[j].guarded
  <2>1. \A j \in 1 .. n : Strict!KeyOf(d.transitions[j]) = Strict!KeyOf(t) <=> j \in A
      BY <1>1 DEF Strict!KeyOf, AnswersOf
  <2>2. \A j \in 1 .. k - 1 : j \in 1 .. n /\ j < k
    <3> HIDE DEF n
    <3> QED
        BY <1>1
  <2>3. \A j \in A : j < k => j \in 1 .. k - 1
    <3> SUFFICES ASSUME NEW j \in A, j < k PROVE j \in 1 .. k - 1
        OBVIOUS
    <3>1. j \in Nat /\ 1 <= j /\ k \in Nat
        BY <1>2
    <3> HIDE DEF n, A, t
    <3> QED
        BY <3>1
  <2> HIDE DEF n, A
  <2> QED
      BY <1>2, <2>1, <2>2, <2>3 DEF Strict!Hidden
<1>4. ASSUME NEW P PROVE /\ Strict!Min(Q(P)) \in Q(P)
                         /\ \A j \in Q(P) : Strict!Min(Q(P)) <= j
  <2>1. Q(P) \in SUBSET Nat /\ Q(P) # {}
    <3> HIDE DEF A, n, t
    <3> QED
        BY <1>2
  <2> HIDE DEF Q
  <2>2. \E i \in Q(P) : \A j \in Q(P) : i <= j
      BY <2>1, Least
  <2> QED
      BY <2>2 DEF Strict!Min
<1>5. ASSUME NEW P, k = Strict!Min(Q(P)), NEW j \in A, j < k, ~d.transitions[j].guarded
      PROVE  FALSE
  <2>1. j \in Q(P)
      BY <1>5
  <2> HIDE DEF Q, A, n
  <2>2. k <= j
      BY <1>4, <1>5, <2>1
  <2> QED
      BY <1>2, <1>5, <2>2
<1>6. ASSUME \A j \in A : j < k => d.transitions[j].guarded
      PROVE  k = Strict!Min(Q({k}))
  <2> DEFINE m == Strict!Min(Q({k}))
  <2>1. k \in Q({k})
      BY <1>2
  <2>2. m \in Q({k}) /\ m <= k
    <3> HIDE DEF Q
    <3> QED
        BY <1>4, <2>1
  <2>3. m = n + 1 \/ (m \in A /\ (~d.transitions[m].guarded \/ m = k))
    <3> HIDE DEF m, A, n
    <3> QED
        BY <2>2
  <2> HIDE DEF m, A, n, Q
  <2>4. m # n + 1
      BY <1>2, <2>2
  <2>5. m \in A /\ m \in Nat /\ (m < k => d.transitions[m].guarded)
      BY <1>2, <1>6, <2>3, <2>4
  <2>6. m < k => m = k
      BY <2>3, <2>4, <2>5
  <2>7. m = k
      BY <1>2, <2>2, <2>5, <2>6
  <2> QED
      BY <2>7 DEF m
<1>7. {k} \in SUBSET DOMAIN d.transitions
    OBVIOUS
<1> HIDE DEF A, n
<1>8. (\E passing \in SUBSET DOMAIN d.transitions : k = Strict!Min(Q(passing)))
      <=> ~Strict!Hidden(d, k)
  <2> HIDE DEF Q
  <2> QED
      BY <1>3, <1>5, <1>6, <1>7
<1> QED
    BY <1>8 DEF A, n, Q

\* What one row adds to the states that are reached.
Step(d, R, k) ==
    IF d.transitions[k].from \in R THEN R \cup {d.transitions[k].to} ELSE R

FollowsRows(d, S) ==
    \A k \in DOMAIN d.transitions : d.transitions[k].from \in S => d.transitions[k].to \in S

Targets(d) == {d.transitions[k].to : k \in DOMAIN d.transitions}

Passes(d, R, g) ==
    /\ g[0] = R
    /\ \A k \in 1 .. Len(d.transitions) : g[k] = Step(d, g[k - 1], k)
    /\ Strict!Grown(d, R) = g[Len(d.transitions)]

(* A pass goes through the rows, one after the other (definition.go,         *)
(* Compile).                                                                *)
LEMMA PassIsMade ==
    ASSUME NEW d, IsStrict(d), NEW R
    PROVE  \E g : Passes(d, R, g)
<1> DEFINE n == Len(d.transitions)
           V == SUBSET (R \cup Targets(d))
           F == [p \in V \X (1 .. n) |-> Step(d, p[1], p[2])]
           Good(g) == g = [k \in 0 .. n |->
                              IF k = 0 THEN R
                              ELSE IF d.transitions[k].from \in g[k - 1]
                                   THEN g[k - 1] \cup {d.transitions[k].to} ELSE g[k - 1]]
           c == CHOOSE g : Good(g)
<1>1. n \in Nat /\ DOMAIN d.transitions = 1 .. n
    BY StrictLists
<1>2. \A k \in 1 .. n, S \in V : Step(d, S, k) \in V
  <2> SUFFICES ASSUME NEW k \in 1 .. n, NEW S \in V PROVE Step(d, S, k) \in V
      OBVIOUS
  <2>1. d.transitions[k].to \in Targets(d)
      BY <1>1 DEF Targets
  <2> QED
      BY <2>1 DEF Step
<1>3. F \in [V \X (1 .. n) -> V] /\ R \in V
  <2>1. R \in V
      OBVIOUS
  <2> HIDE DEF V, n
  <2> QED
      BY <1>2, <2>1
<1>4. PICK g : Loops(V, R, n, F, g)
  <2> HIDE DEF V, F, n
  <2> QED
      BY <1>1, <1>3, Iterates
<1>5. /\ g \in [0 .. n -> V] /\ g[0] = R
      /\ \A k \in 1 .. n : g[k] = Step(d, g[k - 1], k)
  <2> HIDE DEF n
  <2>1. 0 \in 0 .. n /\ \A k \in 1 .. n : k \in 0 .. n /\ k # 0 /\ k - 1 \in 0 .. n
      BY <1>1
  <2> HIDE DEF F, V
  <2>2. g \in [0 .. n -> V] /\ g[0] = R
      BY <1>4, <2>1 DEF Loops
  <2>3. \A k \in 1 .. n : g[k - 1] \in V /\ g[k] = F[<< g[k - 1], k >>]
      BY <1>4, <2>1, <2>2 DEF Loops
  <2> QED
      BY <2>2, <2>3 DEF F
<1>6. Good(g)
  <2> HIDE DEF n, V, F
  <2> DEFINE h == [k \in 0 .. n |->
                      IF k = 0 THEN R
                      ELSE IF d.transitions[k].from \in g[k - 1]
                           THEN g[k - 1] \cup {d.transitions[k].to} ELSE g[k - 1]]
  <2>1. ASSUME NEW k \in 0 .. n PROVE g[k] = h[k]
    <3>1. k = 0 \/ (k \in 1 .. n /\ k # 0)
        BY <1>1
    <3> QED
        BY <1>5, <3>1 DEF Step
  <2>2. g = h
      BY <1>5, <2>1
  <2> QED
      BY <2>2
<1>7. Good(c)
  <2> HIDE DEF Good
  <2> QED
      BY <1>6
<1>8. c[0] = R /\ \A k \in 1 .. n : c[k] = Step(d, c[k - 1], k)
  <2> HIDE DEF n
  <2>1. 0 \in 0 .. n /\ \A k \in 1 .. n : k \in 0 .. n /\ k # 0
      BY <1>1
  <2> HIDE DEF c
  <2> QED
      BY <1>7, <2>1 DEF Step
<1>9. Strict!Grown(d, R) = c[n]
    BY DEF Strict!Grown, n, c, Good
<1> HIDE DEF c
<1> QED
    BY <1>8, <1>9 DEF Passes

(* One pass over the rows keeps the states that are reached, adds where the  *)
(* rows from them lead, and nothing that is not reached from them            *)
(* (definition.go, Compile).                                                *)
LEMMA GrownFacts ==
    ASSUME NEW d, IsStrict(d), NEW R
    PROVE  /\ R \subseteq Strict!Grown(d, R)
           /\ \A k \in DOMAIN d.transitions :
                 d.transitions[k].from \in R => d.transitions[k].to \in Strict!Grown(d, R)
           /\ \A S : R \subseteq S /\ FollowsRows(d, S) => Strict!Grown(d, R) \subseteq S
<1> DEFINE n == Len(d.transitions)
<1>1. n \in Nat /\ DOMAIN d.transitions = 1 .. n
    BY StrictLists
<1>2. PICK g : Passes(d, R, g)
    BY PassIsMade
<1>3. /\ g[0] = R /\ Strict!Grown(d, R) = g[n]
      /\ \A k \in 1 .. n : g[k] = Step(d, g[k - 1], k)
    BY <1>2 DEF Passes
<1> HIDE DEF n
<1>4. ASSUME NEW k \in 0 .. n PROVE g[k] \subseteq g[n]
  <2> DEFINE T == {m \in Nat : k + m <= n => g[k] \subseteq g[k + m]}
  <2>1. 0 \in T
      OBVIOUS
  <2>2. ASSUME NEW m \in Nat, m \in T PROVE m + 1 \in T
    <3> SUFFICES ASSUME k + (m + 1) <= n PROVE g[k] \subseteq g[k + (m + 1)]
        OBVIOUS
    <3>1. k + (m + 1) \in 1 .. n /\ (k + (m + 1)) - 1 = k + m /\ g[k] \subseteq g[k + m]
        BY <1>1, <2>2
    <3>2. g[k + (m + 1)] = Step(d, g[k + m], k + (m + 1))
        BY <1>3, <3>1
    <3> QED
        BY <3>1, <3>2 DEF Step
  <2>3. Nat \subseteq T
    <3> HIDE DEF T
    <3> QED
        BY <2>1, <2>2, InductOn
  <2>4. n - k \in Nat /\ k + (n - k) = n
      BY <1>1
  <2> QED
      BY <1>1, <2>3, <2>4
<1>5. 0 \in 0 .. n /\ \A k \in 1 .. n : k \in 0 .. n /\ k - 1 \in 0 .. n
    BY <1>1
<1>6. ASSUME NEW k \in 1 .. n, d.transitions[k].from \in R
      PROVE  d.transitions[k].to \in g[n]
  <2> DEFINE T == {m \in Nat : m <= n => R \subseteq g[m]}
  <2>1. 0 \in T
      BY <1>3
  <2>2. ASSUME NEW m \in Nat, m \in T PROVE m + 1 \in T
    <3> SUFFICES ASSUME m + 1 <= n PROVE R \subseteq g[m + 1]
        OBVIOUS
    <3>1. m + 1 \in 1 .. n /\ (m + 1) - 1 = m /\ R \subseteq g[m]
        BY <1>1, <2>2
    <3>2. g[m + 1] = Step(d, g[m], m + 1)
        BY <1>3, <3>1
    <3> QED
        BY <3>1, <3>2 DEF Step
  <2>3. Nat \subseteq T
    <3> HIDE DEF T
    <3> QED
        BY <2>1, <2>2, InductOn
  <2>4. R \subseteq g[k - 1]
    <3>1. k - 1 \in Nat /\ k - 1 <= n
        BY <1>1
    <3> QED
        BY <2>3, <3>1
  <2>5. g[k] = Step(d, g[k - 1], k)
      BY <1>3
  <2>6. d.transitions[k].to \in g[k]
      BY <1>6, <2>4, <2>5 DEF Step
  <2> QED
      BY <1>4, <1>5, <2>6
<1>7. ASSUME NEW S, R \subseteq S, FollowsRows(d, S) PROVE g[n] \subseteq S
  <2> DEFINE T == {m \in Nat : m <= n => g[m] \subseteq S}
  <2>1. 0 \in T
      BY <1>3, <1>7
  <2>2. ASSUME NEW m \in Nat, m \in T PROVE m + 1 \in T
    <3> SUFFICES ASSUME m + 1 <= n PROVE g[m + 1] \subseteq S
        OBVIOUS
    <3>1. m + 1 \in 1 .. n /\ (m + 1) - 1 = m /\ g[m] \subseteq S
        BY <1>1, <2>2
    <3>2. g[m + 1] = Step(d, g[m], m + 1)
        BY <1>3, <3>1
    <3>3. d.transitions[m + 1].from \in S => d.transitions[m + 1].to \in S
        BY <1>1, <1>7, <3>1 DEF FollowsRows
    <3> QED
        BY <3>1, <3>2, <3>3 DEF Step
  <2>3. Nat \subseteq T
    <3> HIDE DEF T
    <3> QED
        BY <2>1, <2>2, InductOn
  <2> QED
      BY <1>1, <2>3
<1> QED
    BY <1>1, <1>3, <1>4, <1>5, <1>6, <1>7

\* The states that can be reached at all: the initial one and those that rows lead to.
Within(d) == {d.initial} \cup Targets(d)

\* The passes of Compile.
Reaches(d, g) ==
    /\ g[0] = {d.initial}
    /\ \A m \in 1 .. Len(d.transitions) : g[m] = Strict!Grown(d, g[m - 1])
    /\ \A m \in 0 .. Len(d.transitions) : d.initial \in g[m] /\ g[m] \subseteq Within(d)
    /\ Strict!Reachable(d) = g[Len(d.transitions)]

(* As many passes as there are rows, each with what the one before it has    *)
(* reached (definition.go, Compile).                                        *)
LEMMA PassesAreMade ==
    ASSUME NEW d, IsStrict(d)
    PROVE  \E g : Reaches(d, g)
<1> DEFINE n == Len(d.transitions)
           V == {S \in SUBSET Within(d) : d.initial \in S}
           F == [p \in V \X (1 .. n) |-> Strict!Grown(d, p[1])]
           Good(g) == g = [m \in 0 .. n |->
                              IF m = 0 THEN {d.initial} ELSE Strict!Grown(d, g[m - 1])]
           c == CHOOSE g : Good(g)
<1>1. n \in Nat /\ DOMAIN d.transitions = 1 .. n
    BY StrictLists
<1>2. \A S \in V : Strict!Grown(d, S) \in V
  <2> SUFFICES ASSUME NEW S \in V PROVE Strict!Grown(d, S) \in V
      OBVIOUS
  <2>1. FollowsRows(d, Within(d))
      BY DEF FollowsRows, Within, Targets
  <2>2. S \subseteq Within(d) /\ d.initial \in S
      OBVIOUS
  <2> QED
      BY <2>1, <2>2, GrownFacts
<1>3. F \in [V \X (1 .. n) -> V] /\ {d.initial} \in V
  <2>1. {d.initial} \in V
      BY DEF Within
  <2> HIDE DEF V, n
  <2> QED
      BY <1>2, <2>1
<1>4. PICK g : Loops(V, {d.initial}, n, F, g)
  <2> HIDE DEF V, F, n
  <2> QED
      BY <1>1, <1>3, Iterates
<1>5. /\ g \in [0 .. n -> V] /\ g[0] = {d.initial}
      /\ \A m \in 1 .. n : g[m] = Strict!Grown(d, g[m - 1])
  <2> HIDE DEF n
  <2>1. 0 \in 0 .. n /\ \A m \in 1 .. n : m \in 0 .. n /\ m # 0 /\ m - 1 \in 0 .. n
      BY <1>1
  <2> HIDE DEF F, V
  <2>2. g \in [0 .. n -> V] /\ g[0] = {d.initial}
      BY <1>4, <2>1 DEF Loops
  <2>3. \A m \in 1 .. n : g[m - 1] \in V /\ g[m] = F[<< g[m - 1], m >>]
      BY <1>4, <2>1, <2>2 DEF Loops
  <2> QED
      BY <2>2, <2>3 DEF F
<1>6. Good(g)
  <2> HIDE DEF n, V, F
  <2> DEFINE h == [m \in 0 .. n |-> IF m = 0 THEN {d.initial} ELSE Strict!Grown(d, g[m - 1])]
  <2>1. ASSUME NEW m \in 0 .. n PROVE g[m] = h[m]
    <3>1. m = 0 \/ (m \in 1 .. n /\ m # 0)
        BY <1>1
    <3> QED
        BY <1>5, <3>1
  <2>2. g = h
      BY <1>5, <2>1
  <2> QED
      BY <2>2
<1>7. Good(c)
  <2> HIDE DEF Good
  <2> QED
      BY <1>6
<1>8. c[0] = {d.initial} /\ \A m \in 1 .. n : c[m] = Strict!Grown(d, c[m - 1])
  <2> HIDE DEF n
  <2>1. 0 \in 0 .. n /\ \A m \in 1 .. n : m \in 0 .. n /\ m # 0
      BY <1>1
  <2> HIDE DEF c
  <2> QED
      BY <1>7, <2>1
<1>9. Strict!Reachable(d) = c[n]
    BY DEF Strict!Reachable, n, c, Good
<1> HIDE DEF c, n
<1>10. ASSUME NEW m \in 0 .. n PROVE c[m] \in V
  <2> DEFINE T == {i \in Nat : i <= n => c[i] \in V}
  <2>1. 0 \in T
      BY <1>3, <1>8
  <2>2. ASSUME NEW i \in Nat, i \in T PROVE i + 1 \in T
    <3> SUFFICES ASSUME i + 1 <= n PROVE c[i + 1] \in V
        OBVIOUS
    <3> HIDE DEF V
    <3>1. i + 1 \in 1 .. n /\ (i + 1) - 1 = i /\ c[i] \in V
        BY <1>1, <2>2
    <3> QED
        BY <1>2, <1>8, <3>1
  <2>3. Nat \subseteq T
    <3> HIDE DEF T
    <3> QED
        BY <2>1, <2>2, InductOn
  <2> HIDE DEF V
  <2> QED
      BY <1>1, <2>3
<1>11. \A m \in 0 .. n : d.initial \in c[m] /\ c[m] \subseteq Within(d)
    BY <1>10
<1>12. Reaches(d, c)
    BY <1>8, <1>9, <1>11 DEF Reaches, n
<1> QED
    BY <1>12

(* The passes are enough: each adds a state, unless there is none to add, so *)
(* that the states reached are the smallest set that has the initial one and *)
(* is closed under the rows (definition.go, Compile).                        *)
THEOREM PassesAreEnough ==
    ASSUME NEW d, IsStrict(d)
    PROVE  /\ d.initial \in Strict!Reachable(d) /\ FollowsRows(d, Strict!Reachable(d))
           /\ \A S : d.initial \in S /\ FollowsRows(d, S) => Strict!Reachable(d) \subseteq S
<1> DEFINE n == Len(d.transitions)
           W == Within(d)
<1>1. n \in Nat /\ DOMAIN d.transitions = 1 .. n
    BY StrictLists
<1>2. PICK g : Reaches(d, g)
    BY PassesAreMade
<1>3. /\ g[0] = {d.initial} /\ Strict!Reachable(d) = g[n]
      /\ \A m \in 1 .. n : g[m] = Strict!Grown(d, g[m - 1])
      /\ \A m \in 0 .. n : d.initial \in g[m] /\ g[m] \subseteq W
    BY <1>2 DEF Reaches
<1>4. FollowsRows(d, W)
    BY DEF FollowsRows, Within, Targets
<1>5. IsFiniteSet(W) /\ Cardinality(W) \in Nat /\ Cardinality(W) <= n + 1
  <2> DEFINE f == [k \in 1 .. n |-> d.transitions[k].to]
             A == Targets(d)
  <2>1. A = {f[k] : k \in 1 .. n} /\ f = [k \in 1 .. n |-> f[k]]
      BY <1>1 DEF Targets
  <2>2. IsFiniteSet(A) /\ Cardinality(A) \in Nat /\ Cardinality(A) <= n
    <3> HIDE DEF f, A, n
    <3> QED
        BY <1>1, <2>1, CountList
  <2>3. IsFiniteSet(A \cup {d.initial})
        /\ Cardinality(A \cup {d.initial}) = IF d.initial \in A THEN Cardinality(A) ELSE Cardinality(A) + 1
    <3> HIDE DEF A
    <3> QED
        BY <2>2, FS_AddElement
  <2>4. W = A \cup {d.initial}
      BY DEF Within
  <2> HIDE DEF A, W, n
  <2> QED
      BY <1>1, <2>2, <2>3, <2>4
<1> HIDE DEF n, W
<1> DEFINE Done(m) == FollowsRows(d, g[m])
           T == {m \in Nat : m <= n => Done(m) \/ m + 1 <= Cardinality(g[m])}
<1>6. \A m \in 0 .. n : IsFiniteSet(g[m]) /\ Cardinality(g[m]) \in Nat
    BY <1>3, <1>5, FS_Subset, FS_CardinalityType
<1>7. 0 \in T
  <2>1. Cardinality(g[0]) = 1
      BY <1>3, FS_Singleton
  <2> QED
      BY <2>1
<1>8. ASSUME NEW m \in Nat, m \in T PROVE m + 1 \in T
  <2> SUFFICES ASSUME m + 1 <= n PROVE Done(m + 1) \/ (m + 1) + 1 <= Cardinality(g[m + 1])
      OBVIOUS
  <2>1. m + 1 \in 1 .. n /\ (m + 1) - 1 = m /\ m \in 0 .. n /\ m + 1 \in 0 .. n /\ m <= n
      BY <1>1
  <2>2. g[m + 1] = Strict!Grown(d, g[m])
      BY <1>3, <2>1
  <2>3. g[m] \subseteq g[m + 1]
        /\ \A k \in DOMAIN d.transitions :
              d.transitions[k].from \in g[m] => d.transitions[k].to \in g[m + 1]
      BY <2>2, GrownFacts
  <2>4. CASE g[m + 1] = g[m]
      BY <2>3, <2>4 DEF FollowsRows
  <2>5. CASE Done(m)
    <3>1. g[m + 1] \subseteq g[m]
        BY <2>2, <2>5, GrownFacts
    <3> QED
        BY <2>3, <2>4, <3>1
  <2>6. CASE g[m + 1] # g[m] /\ ~Done(m)
    <3>1. m + 1 <= Cardinality(g[m])
        BY <1>8, <2>1, <2>6
    <3>2. Cardinality(g[m]) <= Cardinality(g[m + 1]) /\ Cardinality(g[m]) # Cardinality(g[m + 1])
        BY <1>6, <2>1, <2>3, <2>6, FS_Subset
    <3>3. Cardinality(g[m]) \in Nat /\ Cardinality(g[m + 1]) \in Nat
        BY <1>6, <2>1
    <3> QED
        BY <3>1, <3>2, <3>3
  <2> QED
      BY <2>4, <2>5, <2>6
<1>9. Nat \subseteq T
  <2> HIDE DEF T
  <2> QED
      BY <1>7, <1>8, InductOn
<1>10. n \in 0 .. n /\ 0 \in 0 .. n
    BY <1>1
<1>11. Done(n)
  <2>1. Done(n) \/ n + 1 <= Cardinality(g[n])
      BY <1>1, <1>9
  <2>2. CASE n + 1 <= Cardinality(g[n])
    <3>1. Cardinality(g[n]) <= Cardinality(W) /\ Cardinality(g[n]) \in Nat
        BY <1>3, <1>5, <1>6, <1>10, FS_Subset
    <3>2. Cardinality(W) = Cardinality(g[n])
        BY <1>1, <1>5, <2>2, <3>1
    <3>3. W = g[n]
        BY <1>3, <1>5, <1>10, <3>2, FS_Subset
    <3> QED
        BY <1>4, <3>3
  <2> QED
      BY <2>1, <2>2
<1>12. ASSUME NEW S, d.initial \in S, FollowsRows(d, S) PROVE g[n] \subseteq S
  <2> DEFINE U == {m \in Nat : m <= n => g[m] \subseteq S}
  <2>1. 0 \in U
      BY <1>3, <1>12
  <2>2. ASSUME NEW m \in Nat, m \in U PROVE m + 1 \in U
    <3> SUFFICES ASSUME m + 1 <= n PROVE g[m + 1] \subseteq S
        OBVIOUS
    <3>1. m + 1 \in 1 .. n /\ (m + 1) - 1 = m /\ g[m] \subseteq S
        BY <1>1, <2>2
    <3>2. g[m + 1] = Strict!Grown(d, g[m])
        BY <1>3, <3>1
    <3> QED
        BY <1>12, <3>1, <3>2, GrownFacts
  <2>3. Nat \subseteq U
    <3> HIDE DEF U
    <3> QED
        BY <2>1, <2>2, InductOn
  <2> QED
      BY <1>1, <2>3
<1> QED
    BY <1>3, <1>10, <1>11, <1>12

KnownRows(d) == \A k \in DOMAIN d.transitions : Strict!Known(d, d.transitions[k])

\* The sets of states that have the initial one and are closed under the rows.
ClosedSets(d) == {S \in SUBSET Strict!Names(d) : d.initial \in S /\ FollowsRows(d, S)}

(* No state is reported when every closed set with the initial state has all *)
(* of them (definition.go, Compile).                                        *)
LEMMA AllReached ==
    ASSUME NEW d, IsStrict(d), d.initial \in Strict!Names(d), KnownRows(d)
    PROVE  Strict!ReachabilityProblems(d) = {} <=> \A S \in ClosedSets(d) : S = Strict!Names(d)
<1> DEFINE N == Strict!Names(d)
           R == Strict!Reachable(d)
<1>1. Strict!ReachabilityProblems(d) = {} <=> N \ R = {}
  <2>1. Strict!ReachabilityProblems(d) = {<< "unreachable", s >> : s \in N \ R}
      BY DEF Strict!ReachabilityProblems
  <2> HIDE DEF N, R
  <2> QED
      BY <2>1
<1>2. FollowsRows(d, N)
    BY DEF FollowsRows, KnownRows, Strict!Known
<1>3. /\ d.initial \in R /\ FollowsRows(d, R)
      /\ \A S : d.initial \in S /\ FollowsRows(d, S) => R \subseteq S
    BY PassesAreEnough
<1> HIDE DEF R
<1>4. R \in ClosedSets(d)
    BY <1>2, <1>3 DEF ClosedSets
<1>5. \A S \in ClosedSets(d) : R \subseteq S /\ S \subseteq N
    BY <1>3 DEF ClosedSets
<1> HIDE DEF N
<1>6. N \ R = {} <=> \A S \in ClosedSets(d) : S = N
    BY <1>4, <1>5
<1> QED
    BY <1>1, <1>6 DEF N

(* The keys that are examined are the declared ones when all others are      *)
(* among them (definition.go, Compile).                                      *)
LEMMA KeysAreDeclared ==
    ASSUME NEW d, IsStrict(d), d.initial \in Strict!Names(d), KnownRows(d),
           \A i \in DOMAIN d.states : RefusalsFine(d, i)
    PROVE  Strict!Keys(d) = Strict!Names(d) \cup Strict!Declared(d)
<1> DEFINE refusals == UNION {Strict!ToSet(s.refuse) : s \in Strict!ToSet(d.states)}
           named == UNION {{t.from, t.event, t.to} : t \in Strict!ToSet(d.transitions)}
<1>1. Strict!Keys(d) = {d.initial} \cup Strict!Names(d) \cup Strict!Declared(d) \cup refusals \cup named
    BY DEF Strict!Keys
<1>2. refusals \subseteq Strict!Declared(d)
  <2>1. \A s \in Strict!ToSet(d.states) : \E i \in DOMAIN d.states : s = d.states[i]
      BY DEF Strict!ToSet
  <2>2. \A i \in DOMAIN d.states : Strict!ToSet(d.states[i].refuse) \subseteq Strict!Declared(d)
      BY DEF Strict!ToSet, RefusalsFine, RefusedBy
  <2>3. \A s \in Strict!ToSet(d.states) : Strict!ToSet(s.refuse) \subseteq Strict!Declared(d)
      BY <2>1, <2>2
  <2> QED
      BY <2>3
<1>3. named \subseteq Strict!Names(d) \cup Strict!Declared(d)
  <2>1. \A t \in Strict!ToSet(d.transitions) : \E k \in DOMAIN d.transitions : t = d.transitions[k]
      BY DEF Strict!ToSet
  <2>2. \A t \in Strict!ToSet(d.transitions) :
           {t.from, t.event, t.to} \subseteq Strict!Names(d) \cup Strict!Declared(d)
      BY <2>1 DEF KnownRows, Strict!Known
  <2> QED
      BY <2>2
<1> HIDE DEF refusals, named
<1> QED
    BY <1>1, <1>2, <1>3

\* Some data selects row k.
Selected(d, k) ==
    \E passing \in SUBSET DOMAIN d.transitions :
        k = Strict!Min({j \in AnswersOf(d, d.transitions[k].from, d.transitions[k].event) :
                            ~d.transitions[j].guarded \/ j \in passing} \cup {Len(d.transitions) + 1})

\* What Compile promises of the definitions that it accepts.
Complete(d) ==
    /\ d.id # 0
    /\ ChecksFine(d)
    /\ (Strict!Names(d) \cup Strict!Declared(d)) \cap Invalid = {}
    /\ d.initial \in Strict!Names(d)
    /\ Strict!Declared(d) # {} /\ Cardinality(Strict!Declared(d)) = Len(d.events)
    /\ Cardinality(Strict!Names(d)) = Len(d.states)
    /\ \A i \in DOMAIN d.states : RefusalsFine(d, i) /\ StateFine(d, i)
    /\ \A k \in DOMAIN d.transitions : RowFine(d, k) /\ Selected(d, k)
    /\ \A S \in ClosedSets(d) : S = Strict!Names(d)

(* Compile finds nothing wrong with the complete definitions, and with no    *)
(* others (definition.go, Compile).                                         *)
LEMMA CompleteCompiles ==
    ASSUME NEW d, IsStrict(d)
    PROVE  NothingReported(d) <=> Complete(d)
<1>1. \A k \in DOMAIN d.transitions : Selected(d, k) <=> ~Strict!Hidden(d, k)
    BY SelectedUnlessHidden DEF Selected
<1>2. Strict!CallbackProblems(d) = {} <=> ChecksFine(d)
    BY ChecksAreFine
<1>3. Strict!StateProblems(d) = {}
      <=> Cardinality(Strict!Names(d)) = Len(d.states) /\ d.initial \in Strict!Names(d)
    BY NamesAreFine
<1>4. Strict!EventProblems(d) = {}
      <=> Strict!Declared(d) # {} /\ Cardinality(Strict!Declared(d)) = Len(d.events)
    BY EventsAreFine
<1>5. Strict!RefusalProblems(d) = {} <=> \A i \in DOMAIN d.states : RefusalsFine(d, i)
    BY RefusalsAreFine
<1>6. Cardinality(Strict!Names(d)) = Len(d.states) <=> NamedOnce(d)
    BY NamesOnce
<1>7. ASSUME NamedOnce(d), \A i \in DOMAIN d.states : RefusalsFine(d, i)
      PROVE  Strict!TransitionProblems(d) = {} /\ Strict!CoverageProblems(d) = {}
             <=> /\ \A k \in DOMAIN d.transitions : RowFine(d, k) /\ ~Strict!Hidden(d, k)
                 /\ \A i \in DOMAIN d.states : StateFine(d, i)
    BY <1>7, RowsAreFine
<1>8. ASSUME \A k \in DOMAIN d.transitions : RowFine(d, k) PROVE KnownRows(d)
    BY <1>8 DEF RowFine, KnownRows, Strict!Known
<1>9. ASSUME d.initial \in Strict!Names(d), KnownRows(d), \A i \in DOMAIN d.states : RefusalsFine(d, i)
      PROVE  /\ Strict!ReachabilityProblems(d) = {} <=> \A S \in ClosedSets(d) : S = Strict!Names(d)
             /\ Strict!Keys(d) = Strict!Names(d) \cup Strict!Declared(d)
    BY <1>9, AllReached, KeysAreDeclared
<1>10. ASSUME NothingReported(d) PROVE Complete(d)
    BY <1>1, <1>2, <1>3, <1>4, <1>5, <1>6, <1>7, <1>8, <1>9, <1>10 DEF NothingReported, Complete
<1>11. ASSUME Complete(d) PROVE NothingReported(d)
    BY <1>1, <1>2, <1>3, <1>4, <1>5, <1>6, <1>7, <1>8, <1>9, <1>11 DEF NothingReported, Complete
<1> QED
    BY <1>10, <1>11

(* Compile accepts the complete and unambiguous definitions and no others    *)
(* (definition.go, Compile).                                                *)
LEMMA CompleteAccepted ==
    ASSUME IsStrict(strict), problems = Strict!Compile(strict)
    PROVE  Strict!AcceptsCompleteDefinitions
<1> DEFINE names == Strict!NameSet
           events == Strict!EventSet
           rows == Strict!Indices
           row(k) == strict.transitions[k]
           State(i) ==
               LET s == strict.states[i]
               IN  /\ Strict!RefusedAt(i) \subseteq events
                   /\ Strict!Cardinality(Strict!RefusedAt(i)) = Len(s.refuse)
                   /\ IF s.terminal THEN \A e \in events : Strict!Answers(s.name, e) = {}
                      ELSE /\ \A e \in events :
                                 (e \in Strict!RefusedAt(i)) <=> (Strict!Answers(s.name, e) = {})
                           /\ \E e \in events : Strict!Answers(s.name, e) # {}
           Select(k) ==
               \E passing \in SUBSET rows :
                   k = Strict!Min({j \in Strict!Answers(row(k).from, row(k).event) :
                                      ~row(j).guarded \/ j \in passing}
                                  \cup {Len(strict.transitions) + 1})
           Row(k) ==
               /\ {row(k).from, row(k).to} \subseteq names /\ row(k).event \in events
               /\ row(k).id \notin {0} \cup {row(j).id : j \in rows \ {k}}
               /\ row(k).issue = row(k).verify
               /\ \A j \in DOMAIN row(k).preconditions : row(k).preconditions[j]
               /\ Select(k)
           closed == {S \in SUBSET names :
                         /\ strict.initial \in S
                         /\ \A k \in rows : row(k).from \in S => row(k).to \in S}
<1>1. Strict!Accepted <=> Complete(strict)
    BY StrictCompiles, CompleteCompiles DEF Strict!Accepted
<1>2. names = Strict!Names(strict) /\ events = Strict!Declared(strict)
    BY DEF Strict!NameSet, Strict!EventSet, Strict!Names, Strict!Declared, Strict!ToSet
<1>3. rows = DOMAIN strict.transitions
    BY DEF Strict!Indices
<1>4. \A i : Strict!RefusedAt(i) = RefusedBy(strict, i)
    BY DEF Strict!RefusedAt, RefusedBy
<1>5. \A s, e : Strict!Answers(s, e) = AnswersOf(strict, s, e)
    BY <1>3 DEF Strict!Answers, AnswersOf
<1>6. \A A : Strict!Cardinality(A) = Cardinality(A)
    BY DEF Strict!Cardinality, Cardinality
<1>7. Strict!AcceptsCompleteDefinitions <=>
         (Strict!Accepted <=>
            /\ strict.id # 0
            /\ ChecksFine(strict)
            /\ (names \cup events) \cap Invalid = {}
            /\ strict.initial \in names
            /\ events # {} /\ Strict!Cardinality(events) = Len(strict.events)
            /\ Strict!Cardinality(names) = Len(strict.states)
            /\ \A i \in DOMAIN strict.states : State(i)
            /\ \A k \in rows : Row(k)
            /\ \A S \in closed : S = names)
    BY DEF Strict!AcceptsCompleteDefinitions, ChecksFine
<1>8. ASSUME NEW i \in DOMAIN strict.states
      PROVE  State(i) <=> RefusalsFine(strict, i) /\ StateFine(strict, i)
    BY <1>2, <1>4, <1>5, <1>6 DEF RefusalsFine, StateFine
<1>9. ASSUME NEW k \in rows PROVE Row(k) <=> RowFine(strict, k) /\ Selected(strict, k)
  <2>1. Select(k) <=> Selected(strict, k)
    <3>1. Strict!Answers(row(k).from, row(k).event) = AnswersOf(strict, row(k).from, row(k).event)
        BY <1>5
    <3> QED
        BY <1>3, <3>1 DEF Selected
  <2> HIDE DEF Select, names, events, rows
  <2> QED
      BY <1>2, <1>3, <2>1 DEF RowFine
<1>10. closed = ClosedSets(strict)
    BY <1>2, <1>3 DEF ClosedSets, FollowsRows
<1> HIDE DEF names, events, rows, State, Row, closed
<1> QED
    BY <1>1, <1>2, <1>3, <1>6, <1>7, <1>8, <1>9, <1>10 DEF Complete

(* Each Compile refuses the definitions that are unsound and no others: a    *)
(* table or a chart for a row that no data selects, a hierarchy for its      *)
(* cycles, a strict definition unless every event has one answer everywhere  *)
(* (statemachine.go, statechart.go and definition.go, Compile).              *)
THEOREM CompilesSound == Spec => []CompilesExactlyTheSound
<1>1. FlatInv /\ ShapesInv /\ ChartsInv /\ StrictInv => CompilesExactlyTheSound
  <2> SUFFICES ASSUME FlatInv, ShapesInv, ChartsInv, StrictInv PROVE CompilesExactlyTheSound
      OBVIOUS
  <2>1. CASE asked = "flat"
      BY <2>1, FlatRejects DEF CompilesExactlyTheSound
  <2>2. CASE asked = "shapes"
      BY <2>2, CyclesReported DEF CompilesExactlyTheSound, ShapesInv
  <2>3. CASE asked = "charts"
      BY <2>3, ForestsAccepted, UnselectableRefused DEF CompilesExactlyTheSound, ChartsInv
  <2>4. CASE asked = "strict"
      BY <2>4, CompleteAccepted DEF CompilesExactlyTheSound, StrictInv
  <2> QED
      BY <2>1, <2>2, <2>3, <2>4 DEF CompilesExactlyTheSound
<1> QED
    BY <1>1, FlatStays, ShapesStay, ChartsStay, StrictStays, PTL

==============================================================================
