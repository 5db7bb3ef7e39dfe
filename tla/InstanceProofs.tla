---------------------------- MODULE InstanceProofs ----------------------------
(***************************************************************************)
(* Theorems about Instance, for every set of callers and viewers, table,     *)
(* list of observers and bound: that Fire is single-flight, that an Instance *)
(* is a register moved along rows of its Machine, that Permitted speaks of   *)
(* one state, that observations arrive in order, and that what Fire returns  *)
(* is so.  They rest on what the loops of Compile and Copy make of the table *)
(* and of the list of observers, which is proved first, by induction.       *)
(***************************************************************************)
EXTENDS Instance, TLAPS

-----------------------------------------------------------------------------
(* What Compile makes of the table.                                         *)

\* Iteration i of the loop of Compile.
CompileRow(m, i) == ReadRow(m, i, Table[i])

\* The Machine after each row.
After == CHOOSE f : f = [i \in 0 .. Len(Table) |->
                            IF i = 0 THEN EmptyMachine ELSE CompileRow(f[i - 1], i)]

MachineType ==
    [rows : [Group -> Seq(DOMAIN Table)], events : [States -> Seq(Events)],
     unguarded : SUBSET Group, rejected : 0 .. Len(Table)]

\* Every row stands in its own group, and the events of a state are the different
\* ones that have a row.
Grouped(m) ==
    /\ m \in MachineType
    /\ \A g \in Group : \A k \in 1 .. Len(m.rows[g]) : GroupOf(Table[m.rows[g][k]]) = g
    /\ \A s \in States : \A j \in 1 .. Len(m.events[s]) :
          m.rows[<< s, m.events[s][j] >>] # << >>
    /\ \A s \in States : \A j, k \in 1 .. Len(m.events[s]) :
          m.events[s][j] = m.events[s][k] => j = k

\* Of the module, the lemmas about loops.
Lemmas == INSTANCE OperatorLemmas

(* The loop begins without groups (statemachine.go, Compile).                *)
LEMMA EmptyGrouped == Grouped(EmptyMachine)
<1>1. << >> \in Seq(DOMAIN Table) /\ << >> \in Seq(Events) /\ Len(<< >>) = 0
    OBVIOUS
<1>2. Len(Table) \in Nat
    BY InstanceAssumption
<1>3. EmptyMachine \in MachineType
  <2>1. [g \in Group |-> << >>] \in [Group -> Seq(DOMAIN Table)]
      BY <1>1
  <2>2. [s \in States |-> << >>] \in [States -> Seq(Events)]
      BY <1>1
  <2> QED
      BY <1>2, <2>1, <2>2 DEF EmptyMachine, MachineType
<1>4. /\ \A g \in Group : EmptyMachine.rows[g] = << >>
      /\ \A s \in States : EmptyMachine.events[s] = << >>
    BY DEF EmptyMachine
<1> QED
    BY <1>1, <1>3, <1>4 DEF Grouped

(* A row joins its group; its event joins the events of its state with the   *)
(* first row of the group, so no event is there twice (statemachine.go,      *)
(* Compile).                                                               *)
LEMMA AddRowGrouped ==
    ASSUME NEW i \in 1 .. Len(Table), NEW m, Grouped(m)
    PROVE  Grouped(AddRow(m, i, Table[i]))
<1> DEFINE t == Table[i]
           g == GroupOf(t)
           new == AddRow(m, i, t)
           events == EventsWith(m, t)
<1>1. m \in MachineType /\ Len(Table) \in Nat /\ i \in DOMAIN Table /\ t \in Row
    BY InstanceAssumption DEF Grouped
<1>2. CASE InvalidKeys(t) \/ g \in m.unguarded
  <2>1. new = [m EXCEPT !.rejected = i]
      BY <1>2 DEF AddRow
  <2> HIDE DEF new
  <2>a. i \in 0 .. Len(Table)
      BY <1>1
  <2>2. new \in MachineType /\ new.rows = m.rows /\ new.events = m.events
      BY <1>1, <2>1, <2>a DEF MachineType
  <2>3. Grouped(new)
      BY <2>2 DEF Grouped
  <2> QED
      BY <2>3 DEF new
<1>3. CASE ~(InvalidKeys(t) \/ g \in m.unguarded)
  <2>1. new = [m EXCEPT !.unguarded = Unguarded(m, i, t),
                        !.events = [m.events EXCEPT ![t.from] = events],
                        !.rows = [m.rows EXCEPT ![g] = Append(m.rows[g], i)]]
      BY <1>3 DEF AddRow
  <2>2. /\ t.from \in States /\ t.event \in Events
        /\ g = << t.from, t.event >> /\ g \in Group
      BY <1>1 DEF Row, GroupOf, Group
  <2>3. m.rows[g] \in Seq(DOMAIN Table) /\ m.events[t.from] \in Seq(Events)
      BY <1>1, <2>2 DEF MachineType
  <2>4. events \in Seq(Events)
      BY <2>2, <2>3 DEF EventsWith
  <2>5. Append(m.rows[g], i) \in Seq(DOMAIN Table)
      BY <1>1, <2>3
  <2>6. Unguarded(m, i, t) \in SUBSET Group
      BY <1>1, <2>2 DEF Unguarded, MachineType
  <2> HIDE DEF new, events, t, g
  <2>7. /\ new \in MachineType
        /\ new.rows = [m.rows EXCEPT ![g] = Append(m.rows[g], i)]
        /\ new.events = [m.events EXCEPT ![t.from] = events]
      BY <1>1, <2>1, <2>4, <2>5, <2>6 DEF MachineType
  <2>8. /\ new.rows[g] = Append(m.rows[g], i)
        /\ \A h \in Group : h # g => new.rows[h] = m.rows[h]
        /\ new.events[t.from] = events
        /\ \A s \in States : s # t.from => new.events[s] = m.events[s]
      BY <1>1, <2>2, <2>7 DEF MachineType
  <2>9. ASSUME NEW h \in Group, NEW k \in 1 .. Len(new.rows[h])
        PROVE  GroupOf(Table[new.rows[h][k]]) = h
    <3>1. CASE h # g
        BY <2>8, <2>9, <3>1 DEF Grouped
    <3>2. CASE h = g
      <4>1. Len(new.rows[h]) = Len(m.rows[g]) + 1
          BY SMTT(60), <2>3, <2>8, <3>2
      <4>2. CASE k = Len(m.rows[g]) + 1
        <5>1. new.rows[h][k] = i
            BY <2>3, <2>8, <3>2, <4>2
        <5> QED
            BY <3>2, <5>1 DEF g, t
      <4>3. CASE k # Len(m.rows[g]) + 1
        <5>1. k \in 1 .. Len(m.rows[g])
            BY SMTT(60), <2>3, <4>1, <4>3
        <5>2. new.rows[h][k] = m.rows[g][k]
            BY <2>3, <2>8, <3>2, <5>1
        <5> QED
            BY <2>2, <3>2, <5>1, <5>2 DEF Grouped
      <4> QED
          BY <4>2, <4>3
    <3> QED
        BY <3>1, <3>2
  <2>10. \A h \in Group : m.rows[h] # << >> \/ h = g => new.rows[h] # << >>
      BY <2>3, <2>8
  <2>11. ASSUME NEW s \in States, NEW j \in 1 .. Len(new.events[s])
         PROVE  new.rows[<< s, new.events[s][j] >>] # << >>
    <3>1. new.events[s] \in Seq(Events)
        BY <2>7 DEF MachineType
    <3>2. new.events[s][j] \in Events /\ << s, new.events[s][j] >> \in Group
        BY <3>1 DEF Group
    <3>3. CASE new.events[s] = m.events[s]
        BY <2>10, <3>2, <3>3 DEF Grouped
    <3>4. CASE /\ s = t.from /\ new.events[s] = Append(m.events[t.from], t.event)
      <4>1. CASE j = Len(m.events[s]) + 1
        <5>1. new.events[s][j] = t.event
            BY SMTT(60), <2>3, <3>4, <4>1
        <5> QED
            BY <2>2, <2>10, <3>2, <3>4, <5>1
      <4>2. CASE j # Len(m.events[s]) + 1
        <5>1. /\ j \in 1 .. Len(m.events[s])
              /\ new.events[s][j] = m.events[s][j]
            BY <2>3, <3>4, <4>2
        <5> QED
            BY <2>10, <3>2, <5>1 DEF Grouped
      <4> QED
          BY <4>1, <4>2
    <3> QED
        BY <2>8, <3>3, <3>4 DEF events, EventsWith
  <2>12. ASSUME NEW s \in States, NEW j \in 1 .. Len(new.events[s]),
                NEW k \in 1 .. Len(new.events[s]), new.events[s][j] = new.events[s][k]
         PROVE  j = k
    <3>1. CASE new.events[s] = m.events[s]
        BY <2>12, <3>1 DEF Grouped
    <3>2. CASE /\ s = t.from /\ new.events[s] = Append(m.events[t.from], t.event)
               /\ m.rows[g] = << >>
      <4>1. \A l \in 1 .. Len(m.events[s]) : m.events[s][l] # t.event
          BY SMTT(60), <2>2, <3>2 DEF Grouped
      <4>2. /\ Len(new.events[s]) = Len(m.events[s]) + 1
            /\ new.events[s][Len(m.events[s]) + 1] = t.event
            /\ \A l \in 1 .. Len(m.events[s]) : new.events[s][l] = m.events[s][l]
          BY SMTT(60), <2>3, <3>2
      <4>3. Len(m.events[s]) \in Nat
          BY <2>3, <3>2
      <4>4. \A l \in 1 .. Len(new.events[s]) :
                l \in 1 .. Len(m.events[s]) \/ l = Len(m.events[s]) + 1
          BY SMTT(60), <4>2, <4>3
      <4>5. CASE j \in 1 .. Len(m.events[s]) /\ k \in 1 .. Len(m.events[s])
          BY <2>12, <4>2, <4>5 DEF Grouped
      <4> QED
          BY <2>12, <4>1, <4>2, <4>4, <4>5
    <3> QED
        BY <2>8, <3>1, <3>2 DEF events, EventsWith, g
  <2>13. Grouped(new)
      BY <2>7, <2>9, <2>11, <2>12 DEF Grouped
  <2> QED
      BY <2>13 DEF new, t
<1> QED
    BY <1>2, <1>3

(* Compile puts every row of every table in its own group, and every event   *)
(* once into the list of its state (statemachine.go, Compile).               *)
LEMMA CompiledGroups == Grouped(Machine)
<1>1. Len(Table) \in Nat
    BY InstanceAssumption
<1> DEFINE L == Len(Table)
           V == {m \in MachineType : Grouped(m)}
           F == [p \in V \X (1 .. L) |-> CompileRow(p[1], p[2])]
           Good(f) == f = [i \in 0 .. L |-> IF i = 0 THEN EmptyMachine ELSE CompileRow(f[i - 1], i)]
<1>2. EmptyMachine \in V
    BY EmptyGrouped DEF Grouped
<1>3. F \in [V \X (1 .. L) -> V]
  <2>1. ASSUME NEW m \in V, NEW i \in 1 .. L PROVE CompileRow(m, i) \in V
    <3>1. Grouped(CompileRow(m, i))
        BY AddRowGrouped DEF CompileRow, ReadRow
    <3> QED
        BY <3>1 DEF Grouped
  <2> HIDE DEF V, L
  <2> QED
      BY <2>1
<1>4. PICK g : Lemmas!Loops(V, EmptyMachine, L, F, g)
  <2> HIDE DEF V, L, F
  <2> QED
      BY <1>1, <1>2, <1>3, Lemmas!Iterates DEF L
<1>5. g \in [0 .. L -> V]
    BY <1>4 DEF Lemmas!Loops
<1>6. ASSUME NEW i \in 0 .. L, i # 0 PROVE g[i] = CompileRow(g[i - 1], i)
  <2>1. i \in 1 .. L /\ i - 1 \in 0 .. L
      BY <1>1, <1>6
  <2> HIDE DEF V, L
  <2>2. << g[i - 1], i >> \in V \X (1 .. L) /\ g[i] = F[<< g[i - 1], i >>]
      BY <1>4, <1>5, <1>6, <2>1 DEF Lemmas!Loops
  <2> QED
      BY <2>2
<1>7. Good(g)
  <2> HIDE DEF V, F, L
  <2>0. 0 \in 0 .. L
      BY <1>1 DEF L
  <2>1. g[0] = EmptyMachine
      BY <1>4, <2>0 DEF Lemmas!Loops
  <2>2. \A i \in 0 .. L : g[i] = IF i = 0 THEN EmptyMachine ELSE CompileRow(g[i - 1], i)
      BY <1>6, <2>1
  <2> DEFINE h == [i \in 0 .. L |-> IF i = 0 THEN EmptyMachine ELSE CompileRow(g[i - 1], i)]
  <2>3. h = [i \in 0 .. L |-> g[i]]
      BY <2>2
  <2>4. g = [i \in 0 .. L |-> g[i]]
      BY <1>5
  <2>5. g = h
      BY <2>3, <2>4
  <2> QED
      BY <2>5
<1> HIDE DEF Good
<1>8. Good(After)
  <2>1. After = CHOOSE f : Good(f)
      BY DEF After, Good
  <2> QED
      BY <1>7, <2>1
<1>9. \A i \in 0 .. L : i \in Nat => Grouped(After[i])
  <2> DEFINE T == {i \in Nat : i <= L => Grouped(After[i])}
  <2>1. 0 \in T
    <3>1. After[0] = EmptyMachine
        BY <1>1, <1>8 DEF Good
    <3> QED
        BY <3>1, EmptyGrouped
  <2>2. ASSUME NEW n \in Nat, n \in T PROVE n + 1 \in T
    <3> SUFFICES ASSUME n + 1 <= L PROVE Grouped(After[n + 1])
        OBVIOUS
    <3>1. Grouped(After[n])
        BY <1>1, <2>2
    <3>2. After[n + 1] = CompileRow(After[n], n + 1) /\ n + 1 \in 1 .. L
        BY <1>1, <1>8 DEF Good
    <3> QED
        BY <3>1, <3>2, AddRowGrouped DEF CompileRow, ReadRow
  <2>3. Nat \subseteq T
    <3> HIDE DEF T
    <3> QED
        BY <2>1, <2>2, Lemmas!InductOn
  <2> QED
      BY <2>3
<1>10. Machine = After[L]
    BY DEF Machine, Compile, After, CompileRow
<1> QED
    BY <1>1, <1>9, <1>10

-----------------------------------------------------------------------------
Phases == {"idle", "refused", "selecting", "doing", "committing", "delivering", "leaving"}

Errors == {None, "inFlight", "invalidKey", "notPermitted", "failed", "panic", "observer"}

CallType == [pc : Phases, from : States \cup {None}, event : Events \cup {None}, at : Nat,
             to : States \cup {None}, err : Errors, result : States \cup {None}]

Types ==
    /\ state \in States
    /\ inFlight \in BOOLEAN
    /\ calls \in [Callers -> CallType]

Moves == {<< Table[i].from, Table[i].to >> : i \in DOMAIN Table}

\* Until it commits, a Fire works from the state s that the Instance still has,
\* towards the end of a row that begins there.
FromPresent(call, s) ==
    /\ call.pc \in {"selecting", "doing", "committing"} => call.from = s
    /\ call.pc = "selecting" => call.event \in Events /\ call.at # 0 /\ call.err = None
    /\ call.pc \in {"doing", "committing"} /\ call.err = None =>
           call.to \in States /\ << call.from, call.to >> \in Moves

IInv ==
    /\ Types
    /\ SingleFlight
    /\ \A c \in Callers : FromPresent(calls[c], state)

-----------------------------------------------------------------------------
(* The row that a selecting call has come to begins at its state             *)
(* (statemachine.go, Compile and selectTransition).                         *)
LEMMA RowOfGroup ==
    ASSUME NEW call, call.from \in States, call.event \in Events,
           call.at \in 1 .. Len(RowsFor(call))
    PROVE  LET row == Table[RowsFor(call)[call.at]]
           IN  /\ row.from = call.from /\ row.event = call.event
               /\ row.to \in States
               /\ << call.from, row.to >> \in Moves
               /\ \E j \in DOMAIN Table : Table[j] = row
<1> DEFINE g == << call.from, call.event >>
           i == Machine.rows[g][call.at]
<1>1. g \in Group
    BY DEF Group
<1>2. RowsFor(call) = Machine.rows[g]
    BY DEF RowsFor
<1> HIDE DEF g
<1>3. i \in DOMAIN Table /\ GroupOf(Table[i]) = g
  <2>1. Machine.rows[g] \in Seq(DOMAIN Table) /\ call.at \in 1 .. Len(Machine.rows[g])
      BY <1>1, <1>2, CompiledGroups DEF Grouped, MachineType
  <2> QED
      BY <1>1, <2>1, CompiledGroups DEF Grouped
<1>4. Table[i] \in Row
    BY <1>3, InstanceAssumption
<1> HIDE DEF i
<1>5. Table[i].from = call.from /\ Table[i].event = call.event
    BY <1>3 DEF GroupOf, g
<1>6. Table[i].to \in States
    BY <1>4 DEF Row
<1>7. << Table[i].from, Table[i].to >> \in Moves
    BY <1>3 DEF Moves
<1> QED
    BY <1>2, <1>3, <1>5, <1>6, <1>7 DEF i

(* A step of one call that neither begins nor ends a Fire, nor commits.      *)
LEMMA LocalKeeps ==
    ASSUME IInv, NEW c \in Callers, NEW new \in CallType, Set(c, new),
           UNCHANGED << state, inFlight >>,
           new.pc \notin {"idle", "refused"} <=> InFlight(c),
           FromPresent(new, state)
    PROVE  IInv'
<1>1. /\ calls' \in [Callers -> CallType]
      /\ calls'[c] = new
      /\ \A d \in Callers : d # c => calls'[d] = calls[d]
    BY DEF IInv, Types, Set
<1>2. \A d \in Callers : InFlight(d)' <=> InFlight(d)
    BY <1>1 DEF InFlight
<1>3. SingleFlight'
    BY <1>2 DEF IInv, SingleFlight
<1>4. \A d \in Callers : FromPresent(calls[d], state)'
    BY <1>1 DEF IInv, FromPresent
<1> QED
    BY <1>1, <1>3, <1>4 DEF IInv, Types

(* What changes neither calls nor the Instance.                             *)
LEMMA AwayKeeps ==
    ASSUME IInv, UNCHANGED << state, inFlight, calls >>
    PROVE  IInv'
BY DEF IInv, Types, SingleFlight, InFlight, FromPresent

(* Fire begins: no other is in flight (instance.go, Fire).                   *)
LEMMA BeginKeeps ==
    ASSUME IInv, NEW c \in Callers, NEW e \in Events, Begin(c, e)
    PROVE  IInv'
<1> DEFINE new == [IdleCall EXCEPT !.pc = "selecting", !.from = state, !.event = e, !.at = 1]
<1>1. /\ Set(c, new) /\ inFlight' = TRUE /\ state' = state /\ ~inFlight
    BY DEF Begin, Busy
<1> HIDE DEF new
<1>2. /\ new \in CallType /\ new.pc = "selecting" /\ new.from = state
      /\ new.event = e /\ new.at = 1 /\ new.err = None
    BY DEF IInv, Types, CallType, IdleCall, Phases, Errors, new
<1>3. /\ calls' \in [Callers -> CallType]
      /\ calls'[c] = new
      /\ \A d \in Callers : d # c => calls'[d] = calls[d]
    BY <1>1, <1>2 DEF IInv, Types, Set
<1>4. \A d \in Callers : ~InFlight(d)
    BY <1>1 DEF IInv, SingleFlight
<1>5. \A d \in Callers : InFlight(d)' <=> d = c
    BY <1>2, <1>3, <1>4 DEF InFlight
<1>6. SingleFlight'
    BY <1>1, <1>5 DEF SingleFlight
<1>7. FromPresent(new, state)
    BY <1>2 DEF FromPresent
<1>8. \A d \in Callers : FromPresent(calls[d], state)'
    BY <1>1, <1>3, <1>7 DEF IInv, FromPresent
<1> QED
    BY <1>1, <1>3, <1>6, <1>8 DEF IInv, Types

(* The one Fire in flight commits: no other call works from the state that   *)
(* it leaves (instance.go, Fire).                                           *)
LEMMA CommitKeeps ==
    ASSUME IInv, NEW c \in Callers, Commit(c)
    PROVE  IInv'
<1> DEFINE call == calls[c]
           phase == IF BatchOf(call) = << >> THEN "leaving" ELSE "delivering"
           new == [call EXCEPT !.pc = phase, !.result = StateAfter(call)]
<1>1. /\ Set(c, new) /\ inFlight' = inFlight
      /\ call.pc = "committing"
      /\ state' = StateAfter(call)
    BY DEF Commit
<1>2. call \in CallType
    BY DEF IInv, Types
<1>3. StateAfter(call) \in States
    BY <1>1 DEF IInv, Types, FromPresent, StateAfter
<1>4. phase \in {"leaving", "delivering"}
    OBVIOUS
<1> HIDE DEF phase
<1>5. new \in CallType /\ new.pc = phase
    BY <1>2, <1>3, <1>4 DEF CallType, Phases
<1> HIDE DEF new
<1>6. /\ calls' \in [Callers -> CallType]
      /\ calls'[c] = new
      /\ \A d \in Callers : d # c => calls'[d] = calls[d]
    BY <1>1, <1>5 DEF IInv, Types, Set
<1>7. InFlight(c)
    BY <1>1 DEF InFlight
<1>8. \A d \in Callers : InFlight(d)' <=> InFlight(d)
    BY <1>4, <1>5, <1>6, <1>7 DEF InFlight
<1>9. SingleFlight'
    BY <1>1, <1>8 DEF IInv, SingleFlight
<1>10. ASSUME NEW d \in Callers
       PROVE  FromPresent(calls[d], state)'
  <2>1. CASE d = c
    BY <2>1, <1>4, <1>5, <1>6 DEF FromPresent
  <2>2. CASE d # c
    <3>1. ~InFlight(d)
        BY <2>2, <1>7 DEF IInv, SingleFlight
    <3>2. calls'[d].pc \in {"idle", "refused"}
        BY <2>2, <3>1, <1>6 DEF InFlight
    <3> QED
        BY <3>2 DEF FromPresent
  <2> QED
    BY <2>1, <2>2
<1> QED
    BY <1>1, <1>3, <1>6, <1>9, <1>10 DEF IInv, Types

(* Fire returns or panics on, and nothing is in flight (instance.go, Fire).  *)
LEMMA LeaveKeeps ==
    ASSUME IInv, NEW c \in Callers, Leave(c)
    PROVE  IInv'
<1>1. /\ Set(c, IdleCall) /\ inFlight' = FALSE /\ state' = state
      /\ calls[c].pc = "leaving"
    BY DEF Leave
<1>2. IdleCall \in CallType /\ IdleCall.pc = "idle"
    BY DEF CallType, IdleCall, Phases, Errors
<1>3. /\ calls' \in [Callers -> CallType]
      /\ calls'[c] = IdleCall
      /\ \A d \in Callers : d # c => calls'[d] = calls[d]
    BY <1>1, <1>2 DEF IInv, Types, Set
<1>4. \A d \in Callers : d # c => ~InFlight(d)
    BY <1>1 DEF IInv, SingleFlight, InFlight
<1>5. \A d \in Callers : ~InFlight(d)'
    BY <1>2, <1>3, <1>4 DEF InFlight
<1>6. SingleFlight'
    BY <1>1, <1>5 DEF SingleFlight
<1>7. \A d \in Callers : FromPresent(calls[d], state)'
    BY <1>1, <1>2, <1>3 DEF IInv, FromPresent
<1> QED
    BY <1>1, <1>3, <1>6, <1>7 DEF IInv, Types

-----------------------------------------------------------------------------
LEMMA InstanceInit == Init => IInv
<1> SUFFICES ASSUME Init
             PROVE  IInv
    OBVIOUS
<1>1. /\ IdleCall \in CallType
      /\ IdleCall.pc = "idle"
    BY DEF IdleCall, CallType, Phases, Errors
<1>2. /\ calls \in [Callers -> CallType]
      /\ \A c \in Callers : calls[c] = IdleCall
    BY <1>1 DEF Init
<1>3. Types
    BY <1>2, InstanceAssumption DEF Init, Types
<1>4. \A c \in Callers : ~InFlight(c)
    BY <1>1, <1>2 DEF InFlight
<1>5. SingleFlight
    BY <1>4 DEF Init, SingleFlight
<1>6. \A c \in Callers : FromPresent(calls[c], state)
    BY <1>1, <1>2 DEF FromPresent
<1> QED
    BY <1>3, <1>5, <1>6 DEF IInv

(* Every step of a call before or after its commit.                         *)
LEMMA LocalSteps ==
    ASSUME IInv, NEW c \in Callers,
           \/ Refuse(c) \/ ReturnRefused(c) \/ NotSelected(c) \/ Select(c)
           \/ Do(c) \/ Delivered(c)
    PROVE  IInv'
<1> DEFINE call == calls[c]
<1>1. call \in CallType /\ FromPresent(call, state) /\ state \in States
    BY DEF IInv, Types
<1>2. CASE Refuse(c)
  <2> DEFINE new == [IdleCall EXCEPT !.pc = "refused", !.err = "inFlight", !.result = state]
  <2>1. Set(c, new) /\ UNCHANGED << state, inFlight >> /\ call.pc = "idle"
    BY <1>2 DEF Refuse, instance
  <2>2. new \in CallType /\ new.pc = "refused"
    BY <1>1 DEF CallType, IdleCall, Phases, Errors
  <2> QED
    BY <2>1, <2>2, LocalKeeps DEF InFlight, FromPresent
<1>3. CASE ReturnRefused(c)
  <2>1. Set(c, IdleCall) /\ UNCHANGED << state, inFlight >> /\ call.pc = "refused"
    BY <1>3 DEF ReturnRefused, MarkAfterRefusal
  <2>2. IdleCall \in CallType /\ IdleCall.pc = "idle"
    BY DEF CallType, IdleCall, Phases, Errors
  <2> QED
    BY <2>1, <2>2, LocalKeeps DEF InFlight, FromPresent
<1>4. CASE NotSelected(c)
  <2> DEFINE err == IF call.event \in Invalid THEN "invalidKey" ELSE "notPermitted"
             new == [call EXCEPT !.pc = "committing", !.err = err]
  <2>1. Set(c, new) /\ UNCHANGED << state, inFlight >> /\ call.pc = "selecting"
    BY <1>4 DEF NotSelected, instance
  <2>2. err \in Errors /\ err # None
    BY DEF Errors, None
  <2> HIDE DEF err
  <2>3. /\ new \in CallType /\ new.pc = "committing" /\ new.err = err
        /\ new.from = call.from
    BY <1>1, <2>2 DEF CallType, Phases
  <2>4. FromPresent(new, state)
    BY <1>1, <2>1, <2>2, <2>3 DEF FromPresent
  <2> QED
    BY <2>1, <2>3, <2>4, LocalKeeps DEF InFlight
<1>5. CASE Select(c)
  <2> DEFINE row == Table[RowsFor(call)[call.at]]
             next == [call EXCEPT !.at = @ + 1]
             panicked == [call EXCEPT !.pc = "leaving", !.err = "panic"]
             chosen == [call EXCEPT !.pc = "doing", !.to = row.to]
  <2>1. /\ UNCHANGED << state, inFlight >> /\ call.pc = "selecting"
        /\ call.at <= Len(RowsFor(call))
        /\ Set(c, next) \/ Set(c, panicked) \/ Set(c, chosen)
    BY <1>5 DEF Select, instance
  <2>2. call.from = state /\ call.event \in Events /\ call.at # 0 /\ call.err = None
    BY <1>1, <2>1 DEF FromPresent
  <2>3. /\ next \in CallType /\ next.pc = "selecting" /\ next.at # 0
        /\ next.from = call.from /\ next.event = call.event /\ next.err = None
    BY <1>1, <2>1, <2>2 DEF CallType
  <2>4. panicked \in CallType /\ panicked.pc = "leaving"
    BY <1>1 DEF CallType, Phases, Errors
  <2>5. call.at \in 1 .. Len(RowsFor(call))
    BY <1>1, <2>1, <2>2 DEF CallType
  <2>6. row.to \in States /\ << call.from, row.to >> \in Moves
    BY <1>1, <2>2, <2>5, RowOfGroup
  <2> HIDE DEF row
  <2>7. /\ chosen \in CallType /\ chosen.pc = "doing" /\ chosen.to = row.to
        /\ chosen.from = call.from
    BY <1>1, <2>6 DEF CallType, Phases
  <2> HIDE DEF next, panicked, chosen
  <2>8. FromPresent(next, state) /\ FromPresent(panicked, state) /\ FromPresent(chosen, state)
    BY <2>2, <2>3, <2>4, <2>6, <2>7 DEF FromPresent
  <2>9. InFlight(c)
    BY <2>1 DEF InFlight
  <2>10. CASE Set(c, next)
    BY <2>1, <2>3, <2>8, <2>9, <2>10, LocalKeeps
  <2>11. CASE Set(c, panicked)
    BY <2>1, <2>4, <2>8, <2>9, <2>11, LocalKeeps
  <2>12. CASE Set(c, chosen)
    BY <2>1, <2>7, <2>8, <2>9, <2>12, LocalKeeps
  <2> QED
    BY <2>1, <2>10, <2>11, <2>12
<1>6. CASE Do(c)
  <2> DEFINE done == [call EXCEPT !.pc = "committing"]
             failed == [call EXCEPT !.pc = "committing", !.err = "failed"]
             panicked == [call EXCEPT !.pc = "leaving", !.err = "panic"]
  <2>1. /\ UNCHANGED << state, inFlight >> /\ call.pc = "doing"
        /\ Set(c, done) \/ Set(c, failed) \/ Set(c, panicked)
    BY <1>6 DEF Do, instance
  <2>2. /\ done \in CallType /\ done.pc = "committing" /\ done.from = call.from
        /\ done.to = call.to /\ done.err = call.err
    BY <1>1 DEF CallType, Phases
  <2>3. /\ failed \in CallType /\ failed.pc = "committing" /\ failed.from = call.from
        /\ failed.err = "failed"
    BY <1>1 DEF CallType, Phases, Errors
  <2>4. panicked \in CallType /\ panicked.pc = "leaving"
    BY <1>1 DEF CallType, Phases, Errors
  <2> HIDE DEF done, failed, panicked
  <2>5. FromPresent(done, state) /\ FromPresent(failed, state) /\ FromPresent(panicked, state)
    BY <1>1, <2>1, <2>2, <2>3, <2>4 DEF FromPresent, None
  <2>6. InFlight(c)
    BY <2>1 DEF InFlight
  <2>7. CASE Set(c, done)
    BY <2>1, <2>2, <2>5, <2>6, <2>7, LocalKeeps
  <2>8. CASE Set(c, failed)
    BY <2>1, <2>3, <2>5, <2>6, <2>8, LocalKeeps
  <2>9. CASE Set(c, panicked)
    BY <2>1, <2>4, <2>5, <2>6, <2>9, LocalKeeps
  <2> QED
    BY <2>1, <2>7, <2>8, <2>9
<1>7. CASE Delivered(c)
  <2> DEFINE err == IF delivery[c].failures = {} THEN None ELSE "observer"
             new == [call EXCEPT !.pc = "leaving", !.err = err]
  <2>1. Set(c, new) /\ UNCHANGED << state, inFlight >> /\ call.pc = "delivering"
    BY <1>7 DEF Delivered, instance
  <2>2. err \in Errors
    BY DEF Errors
  <2> HIDE DEF err
  <2>3. new \in CallType /\ new.pc = "leaving"
    BY <1>1, <2>2 DEF CallType, Phases
  <2> QED
    BY <2>1, <2>3, LocalKeeps DEF InFlight, FromPresent
<1> QED
    BY <1>2, <1>3, <1>4, <1>5, <1>6, <1>7

LEMMA InstanceStep == IInv /\ [Next]_vars => IInv'
<1> SUFFICES ASSUME IInv, [Next]_vars
             PROVE  IInv'
    OBVIOUS
<1>1. ASSUME NEW c \in Callers, Refuse(c)
      PROVE  IInv'
    BY <1>1, LocalSteps
<1>2. ASSUME NEW c \in Callers, NEW e \in Events, Begin(c, e)
      PROVE  IInv'
    BY <1>2, BeginKeeps
<1>3. ASSUME NEW c \in Callers, Run(c)
      PROVE  IInv'
    BY <1>3, LocalSteps, CommitKeeps, LeaveKeeps DEF Run
<1>4. ASSUME NEW c \in Callers, Deliver(c), UNCHANGED << instance, calls, views >>
      PROVE  IInv'
    BY <1>4, AwayKeeps DEF instance
<1>5. ASSUME Callback, UNCHANGED << instance, calls, views >>
      PROVE  IInv'
    BY <1>5, AwayKeeps DEF instance
<1>6. ASSUME NEW v \in Viewers, View(v) \/ Consider(v) \/ ReturnView(v)
      PROVE  IInv'
    BY <1>6, AwayKeeps, Zenon DEF View, Consider, ReturnView, instance
<1>7. CASE UNCHANGED vars
    BY <1>7, AwayKeeps DEF vars, instance
<1> QED
    BY <1>1, <1>2, <1>3, <1>4, <1>5, <1>6, <1>7 DEF Next

(* A Fire works from the state the Instance has, in every reachable state    *)
(* (instance.go, Fire).                                                     *)
THEOREM InstanceInductive == Spec => []IInv
BY InstanceInit, InstanceStep, PTL DEF Spec

(* At most one Fire is between its test of the mark and its return, and the  *)
(* mark says whether one is (instance.go, Fire).                            *)
THEOREM FireIsSingleFlight == Spec => []SingleFlight
<1>1. IInv => SingleFlight
    BY DEF IInv
<1> QED
    BY <1>1, InstanceInductive, PTL

-----------------------------------------------------------------------------
LEMMA RegisterInit == Init => Register!Init
BY DEF Init, Register!Init

(* Only a commit moves the state, along a row that begins where it is.       *)
LEMMA RegisterStep ==
    IInv /\ [Next]_vars => [Register!Next]_([k \in {"instance"} |-> state])
<1> SUFFICES ASSUME IInv, [Next]_vars, state' # state
             PROVE  Register!Next
    OBVIOUS
<1>1. PICK c \in Callers : Commit(c)
    BY Zenon DEF Next, Run, Refuse, Begin, ReturnRefused, NotSelected, Select, Do, Delivered, Leave,
       View, Consider, ReturnView, instance, vars
<1>2. /\ calls[c].pc = "committing"
      /\ state' = StateAfter(calls[c])
    BY <1>1 DEF Commit
<1>3. calls[c].err = None /\ state' = calls[c].to
    BY <1>2 DEF StateAfter
<1>4. state' \in States /\ << state, state' >> \in Moves
    BY <1>2, <1>3 DEF IInv, FromPresent
<1>5. Register!Transition("instance")
    BY <1>4 DEF Register!Transition, Moves
<1> QED
    BY <1>5 DEF Register!Next

(* The Instance implements a register that moves in one step along a row of  *)
(* the Machine from the state it has (instance.go, Fire).                    *)
THEOREM InstanceImplements == Spec => ImplementsRegister
BY InstanceInductive, RegisterInit, RegisterStep, PTL DEF Spec, ImplementsRegister, Register!Spec
-----------------------------------------------------------------------------
(* Permitted.                                                               *)

ViewType == [pc : {"idle", "viewing"}, from : States \cup {None}, event : Nat, at : Nat,
             choices : Seq(Events \X States)]

\* What Permitted has collected comes from rows of the state it copied, one for
\* each of the events it has been through.
ViewInv(view) ==
    /\ view \in ViewType
    /\ view.pc = "idle" => view.choices = << >>
    /\ view.pc = "viewing" => view.from \in States /\ view.event # 0 /\ view.at # 0
    /\ \A j \in 1 .. Len(view.choices) :
          /\ view.pc = "viewing" =>
                \E k \in 1 .. Len(Machine.events[view.from]) :
                    k < view.event /\ view.choices[j][1] = Machine.events[view.from][k]
          /\ \E i \in DOMAIN Table :
                /\ Table[i].from = view.from
                /\ << Table[i].event, Table[i].to >> = view.choices[j]
    /\ \A j, k \in 1 .. Len(view.choices) :
          view.choices[j][1] = view.choices[k][1] => j = k

ViewsInv == views \in [Viewers -> ViewType] /\ \A v \in Viewers : ViewInv(views[v])

(* A call of Permitted that has not begun has collected nothing.             *)
LEMMA IdleViewInv == ViewInv(IdleView)
<1>1. << >> \in Seq(Events \X States) /\ Len(<< >>) = 0
    OBVIOUS
<1> QED
    BY <1>1 DEF ViewInv, ViewType, IdleView

(* A step of one call of Permitted.                                         *)
LEMMA ViewsStep ==
    ASSUME ViewsInv, NEW v \in Viewers, NEW view, ViewInv(view),
           views' = [views EXCEPT ![v] = view]
    PROVE  ViewsInv'
<1>1. \A w \in Viewers : views'[w] = IF w = v THEN view ELSE views[w]
    BY DEF ViewsInv
<1>2. views' \in [Viewers -> ViewType]
    BY DEF ViewsInv, ViewInv
<1>3. ASSUME NEW w \in Viewers PROVE ViewInv(views[w])'
  <2>1. ViewInv(views'[w])
      BY <1>1 DEF ViewsInv
  <2> QED
      BY SMTT(60), <2>1 DEF ViewInv
<1> QED
    BY <1>2, <1>3 DEF ViewsInv

(* A row that is taken is of the copied state, and of an event that none of   *)
(* those taken before has (statemachine.go, Permitted).                      *)
LEMMA TakeKeeps ==
    ASSUME NEW view, ViewInv(view), view.pc = "viewing",
           NEW events, events = Machine.events[view.from],
           view.event \in 1 .. Len(events),
           NEW i \in DOMAIN Table, Table[i].from = view.from,
           Table[i].event = events[view.event], Table[i].to \in States,
           NEW choice, choice = << events[view.event], Table[i].to >>,
           NEW new \in ViewType, new.pc = view.pc, new.from = view.from,
           new.event = view.event + 1, new.at = 1,
           new.choices = Append(view.choices, choice)
    PROVE  ViewInv(new)
<1> DEFINE n == Len(view.choices)
<1>1. /\ view \in ViewType /\ view.choices \in Seq(Events \X States)
      /\ view.from \in States /\ view.event \in Nat
    BY DEF ViewInv, ViewType
<1>2. events \in Seq(Events) /\ Len(events) \in Nat
    BY <1>1, CompiledGroups DEF Grouped, MachineType
<1>3. events[view.event] \in Events
    BY <1>2
<1>a. choice \in Events \X States
    BY <1>3
<1>b. choice[1] = events[view.event]
    OBVIOUS
<1>c. << Table[i].event, Table[i].to >> = choice
    OBVIOUS
<1>5. /\ Len(new.choices) = n + 1 /\ n \in Nat
      /\ new.choices[n + 1] = choice
      /\ \A j \in 1 .. n : new.choices[j] = view.choices[j]
    BY SMTT(60), <1>1
<1>6. \A j \in 1 .. Len(new.choices) : j \in 1 .. n \/ j = n + 1
    BY <1>5
<1>7. ASSUME NEW j \in 1 .. n
      PROVE  \E k \in 1 .. Len(events) :
                k < view.event /\ view.choices[j][1] = events[k]
    BY SMTT(60) DEF ViewInv
<1>8. ASSUME NEW j \in 1 .. Len(new.choices)
      PROVE  /\ \E k \in 1 .. Len(events) :
                    k < new.event /\ new.choices[j][1] = events[k]
             /\ \E l \in DOMAIN Table :
                    /\ Table[l].from = view.from
                    /\ << Table[l].event, Table[l].to >> = new.choices[j]
  <2>1. CASE j \in 1 .. n
    <3>1. PICK k \in 1 .. Len(events) :
              k < view.event /\ view.choices[j][1] = events[k]
        BY <1>7, <2>1
    <3>2. k < new.event /\ new.choices[j][1] = events[k]
        BY <1>1, <1>2, <1>5, <2>1, <3>1
    <3>3. \E l \in DOMAIN Table :
              Table[l].from = view.from /\ << Table[l].event, Table[l].to >> = view.choices[j]
        BY <2>1 DEF ViewInv
    <3> QED
        BY <1>5, <2>1, <3>2, <3>3
  <2>2. CASE j = n + 1
    <3>1. view.event < new.event /\ new.choices[j][1] = events[view.event]
        BY <1>1, <1>5, <1>b, <2>2
    <3> QED
        BY <1>5, <1>c, <2>2, <3>1
  <2> QED
      BY <1>6, <2>1, <2>2
<1>9. \A j, k \in 1 .. Len(events) : events[j] = events[k] => j = k
    BY <1>1, CompiledGroups DEF Grouped
<1>10. \A j \in 1 .. n : new.choices[j][1] # choice[1]
  <2> SUFFICES ASSUME NEW j \in 1 .. n, new.choices[j][1] = choice[1]
               PROVE  FALSE
      OBVIOUS
  <2>1. PICK k \in 1 .. Len(events) :
            k < view.event /\ view.choices[j][1] = events[k]
      BY <1>7
  <2>2. events[k] = events[view.event]
      BY <1>5, <1>b, <2>1
  <2>3. k = view.event
      BY <1>9, <2>2
  <2> QED
      BY <1>1, <1>2, <2>1, <2>3
<1>11. ASSUME NEW j \in 1 .. Len(new.choices), NEW k \in 1 .. Len(new.choices),
              new.choices[j][1] = new.choices[k][1]
       PROVE  j = k
  <2>1. CASE j \in 1 .. n /\ k \in 1 .. n
    <3>1. view.choices[j][1] = view.choices[k][1]
        BY <1>5, <1>11, <2>1
    <3> QED
        BY <2>1, <3>1 DEF ViewInv
  <2>2. CASE j \in 1 .. n /\ k = n + 1
      BY <1>5, <1>10, <1>11, <2>2
  <2>3. CASE j = n + 1 /\ k \in 1 .. n
      BY <1>5, <1>10, <1>11, <2>3
  <2> QED
      BY <1>6, <2>1, <2>2, <2>3
<1>12. new.pc = "viewing" /\ new.from \in States /\ new.event # 0 /\ new.at # 0
    BY <1>1
<1>13. events = Machine.events[new.from]
    OBVIOUS
<1>14. ASSUME NEW j \in 1 .. Len(new.choices)
       PROVE  /\ \E k \in 1 .. Len(Machine.events[new.from]) :
                    k < new.event /\ new.choices[j][1] = Machine.events[new.from][k]
              /\ \E l \in DOMAIN Table :
                    /\ Table[l].from = new.from
                    /\ << Table[l].event, Table[l].to >> = new.choices[j]
  <2>1. PICK k \in 1 .. Len(events) : k < new.event /\ new.choices[j][1] = events[k]
      BY <1>8
  <2>2. PICK l \in DOMAIN Table : /\ Table[l].from = view.from
                                /\ << Table[l].event, Table[l].to >> = new.choices[j]
      BY <1>8
  <2>3. k \in 1 .. Len(Machine.events[new.from])
      BY <1>13
  <2>4. k < new.event /\ new.choices[j][1] = Machine.events[new.from][k]
      BY <1>13, <2>1
  <2>5. \E m \in 1 .. Len(Machine.events[new.from]) :
            m < new.event /\ new.choices[j][1] = Machine.events[new.from][m]
      BY <2>3, <2>4, Zenon
  <2>6. Table[l].from = new.from
      BY <2>2
  <2> QED
      BY <2>2, <2>5, <2>6, Zenon
<1> QED
    BY <1>11, <1>12, <1>14 DEF ViewInv

(* Permitted goes on to the next row of the event, or to the next event,     *)
(* with the row it took (statemachine.go, Permitted).                        *)
LEMMA ConsiderKeeps ==
    ASSUME ViewsInv, NEW v \in Viewers, Consider(v)
    PROVE  ViewsInv'
<1>0. PICK view : view = views[v]
    OBVIOUS
<1>a. PICK events : events = Machine.events[view.from]
    OBVIOUS
<1>b. PICK rows : rows = Machine.rows[<< view.from, events[view.event] >>]
    OBVIOUS
<1> DEFINE nextEvent == [view EXCEPT !.event = @ + 1, !.at = 1]
           choice == << events[view.event], Table[rows[view.at]].to >>
<1>1. ViewInv(view)
    BY <1>0 DEF ViewsInv
<1>2. /\ view.pc = "viewing"
      /\ view.event <= Len(events)
      /\ \/ views' = [views EXCEPT ![v] = [view EXCEPT !.at = @ + 1]]
         \/ /\ view.at <= Len(rows)
            /\ views' = [views EXCEPT ![v] =
                  [nextEvent EXCEPT !.choices = Append(@, choice)]]
         \/ views' = [views EXCEPT ![v] = nextEvent]
    BY <1>0, <1>a, <1>b, Zenon DEF Consider, Viewed
<1>3. /\ view \in ViewType /\ view.from \in States
      /\ view.event \in Nat /\ view.event # 0 /\ view.at \in Nat /\ view.at # 0
      /\ view.choices \in Seq(Events \X States)
    BY <1>1, <1>2 DEF ViewInv, ViewType
<1>4. events \in Seq(Events) /\ Len(events) \in Nat
    BY <1>a, <1>3, CompiledGroups DEF Grouped, MachineType
<1>5. view.event \in 1 .. Len(events) /\ events[view.event] \in Events
    BY <1>2, <1>3, <1>4
<1>6. << view.from, events[view.event] >> \in Group
    BY <1>3, <1>5 DEF Group
<1>7. /\ nextEvent \in ViewType /\ nextEvent.pc = view.pc /\ nextEvent.from = view.from
      /\ nextEvent.event = view.event + 1 /\ nextEvent.choices = view.choices
      /\ nextEvent.at = 1
  <2>1. PICK next \in Nat : next = view.event + 1
      BY <1>3
  <2>2. nextEvent = [view EXCEPT !.event = next, !.at = 1] /\ 1 \in Nat
      BY <2>1
  <2> HIDE DEF nextEvent
  <2> QED
      BY <1>3, <2>1, <2>2 DEF ViewType
<1>8. CASE views' = [views EXCEPT ![v] = [view EXCEPT !.at = @ + 1]]
  <2> DEFINE new == [view EXCEPT !.at = @ + 1]
  <2>1. /\ new \in ViewType /\ new.pc = view.pc /\ new.from = view.from
        /\ new.event = view.event /\ new.choices = view.choices /\ new.at # 0
      BY SMTT(60), <1>3 DEF ViewType
  <2> HIDE DEF new
  <2>2. ViewInv(new)
      BY <1>1, <1>2, <1>3, <2>1 DEF ViewInv
  <2> QED
      BY <1>8, <2>2, ViewsStep DEF new
<1>9. CASE views' = [views EXCEPT ![v] = nextEvent]
  <2> HIDE DEF nextEvent
  <2>1. ASSUME NEW j \in 1 .. Len(view.choices)
        PROVE  \E k \in 1 .. Len(events) :
                  k < nextEvent.event /\ view.choices[j][1] = events[k]
    <3>1. PICK k \in 1 .. Len(events) :
              k < view.event /\ view.choices[j][1] = events[k]
        BY <1>1, <1>2, <1>a DEF ViewInv
    <3>2. k < nextEvent.event
        BY <1>3, <1>4, <1>7, <3>1
    <3> QED
        BY <3>1, <3>2
  <2>2. ViewInv(nextEvent)
      BY <1>1, <1>3, <1>7, <1>a, <2>1 DEF ViewInv
  <2> QED
      BY <1>9, <2>2, ViewsStep
<1>10. CASE /\ view.at <= Len(rows)
            /\ views' = [views EXCEPT ![v] =
                  [nextEvent EXCEPT !.choices = Append(@, choice)]]
  <2> DEFINE new == [nextEvent EXCEPT !.choices = Append(@, choice)]
             i == rows[view.at]
  <2>1. rows \in Seq(DOMAIN Table)
      BY <1>6, <1>b, CompiledGroups DEF Grouped, MachineType
  <2>2. view.at \in 1 .. Len(rows) /\ i \in DOMAIN Table
      BY <1>3, <1>10, <2>1
  <2>3. GroupOf(Table[i]) = << view.from, events[view.event] >>
      BY <1>6, <1>b, <2>2, CompiledGroups DEF Grouped
  <2>4. Table[i] \in Row
      BY <2>2, InstanceAssumption
  <2>5. /\ Table[i].from = view.from /\ Table[i].event = events[view.event]
        /\ Table[i].to \in States
      BY <2>3, <2>4 DEF GroupOf, Row
  <2>a. choice \in Events \X States
      BY <1>5, <2>5
  <2>b. Append(view.choices, choice) \in Seq(Events \X States)
      BY <1>3, <2>a
  <2> HIDE DEF nextEvent, choice
  <2>6. /\ new \in ViewType /\ new.pc = view.pc /\ new.from = view.from
        /\ new.event = view.event + 1 /\ new.at = 1
        /\ new.choices = Append(view.choices, choice)
      BY <1>7, <2>b DEF ViewType
  <2> HIDE DEF new
  <2>7. ViewInv(new)
    <3>1. PICK j \in DOMAIN Table : j = i
        BY <2>2
    <3>2. /\ Table[j].from = view.from /\ Table[j].event = events[view.event]
          /\ Table[j].to \in States /\ choice = << events[view.event], Table[j].to >>
        BY <2>5, <3>1 DEF choice
    <3>3. view.pc = "viewing"
        BY <1>2
    <3> HIDE DEF i
    <3> QED
        BY <1>1, <1>5, <1>a, <2>6, <3>2, <3>3, TakeKeeps
  <2> QED
      BY <1>10, <2>7, ViewsStep DEF new
<1> QED
    BY <1>2, <1>8, <1>9, <1>10

(* What Permitted has collected is of the state it copied, in every          *)
(* reachable state.                                                         *)
LEMMA ViewsInductive == Spec => []ViewsInv
<1>1. Init => ViewsInv
  <2>1. IdleView \in ViewType
      BY IdleViewInv DEF ViewInv
  <2> QED
      BY <2>1, IdleViewInv DEF Init, ViewsInv
<1>2. IInv /\ ViewsInv /\ [Next]_vars => ViewsInv'
  <2> SUFFICES ASSUME IInv, ViewsInv, [Next]_vars PROVE ViewsInv'
      OBVIOUS
  <2>1. CASE UNCHANGED views
      BY <2>1 DEF ViewsInv, ViewInv
  <2>2. ASSUME NEW v \in Viewers, View(v) PROVE ViewsInv'
    <3> DEFINE new == [IdleView EXCEPT !.pc = "viewing", !.from = state,
                                       !.event = 1, !.at = 1]
    <3>1. /\ new \in ViewType /\ new.pc = "viewing" /\ new.from = state
          /\ new.event = 1 /\ new.at = 1 /\ new.choices = << >>
        BY IdleViewInv DEF ViewInv, ViewType, IdleView, IInv, Types
    <3>2. Len(<< >>) = 0 /\ state \in States
        BY DEF IInv, Types
    <3> HIDE DEF new
    <3>3. ViewInv(new)
        BY <3>1, <3>2 DEF ViewInv
    <3> QED
        BY <2>2, <3>3, ViewsStep DEF View, new
  <2>3. ASSUME NEW v \in Viewers, ReturnView(v) PROVE ViewsInv'
      BY <2>3, IdleViewInv, ViewsStep DEF ReturnView
  <2>4. Next => \/ UNCHANGED views
                \/ \E v \in Viewers : View(v) \/ Consider(v) \/ ReturnView(v)
      BY Zenon DEF Next, Refuse, Begin, Run, ReturnRefused, NotSelected, Select, Do, Commit,
             Delivered, Leave
  <2> QED
      BY <2>1, <2>2, <2>3, <2>4, ConsiderKeeps DEF vars
<1> QED
    BY <1>1, <1>2, InstanceInductive, PTL DEF Spec

(* Permitted describes the one state it copied, each event once, although    *)
(* Fires commit between its Guards (instance.go, Permitted).                 *)
THEOREM PermittedTruthful == Spec => []PermittedOfOneState
<1>1. ViewsInv => PermittedOfOneState
  <2> SUFFICES ASSUME ViewsInv, NEW v \in Viewers
               PROVE  LET choices == views[v].choices
                      IN  /\ \A j \in DOMAIN choices : \E i \in DOMAIN Table :
                                /\ Table[i].from = views[v].from
                                /\ << Table[i].event, Table[i].to >> = choices[j]
                          /\ \A j, k \in DOMAIN choices :
                                choices[j][1] = choices[k][1] => j = k
      BY DEF PermittedOfOneState
  <2>1. ViewInv(views[v])
      BY DEF ViewsInv
  <2>2. DOMAIN views[v].choices = 1 .. Len(views[v].choices)
      BY <2>1 DEF ViewInv, ViewType
  <2> QED
      BY <2>1, <2>2 DEF ViewInv
<1> QED
    BY <1>1, ViewsInductive, PTL
-----------------------------------------------------------------------------
(* What Copy makes of the list of observers.                                *)

ObserverType == [nil : BOOLEAN, timed : BOOLEAN, contained : BOOLEAN]

\* Iteration i of the loop of Copy.
CopyOne(observers, i) == Kept(observers, Attached[i])

\* The observers after each.
Copied == CHOOSE f : f = [i \in 0 .. Len(Attached) |->
                             IF i = 0 THEN << >> ELSE CopyOne(f[i - 1], i)]

(* The observers of an Instance are a list (internal/observer, Copy).        *)
LEMMA ObserversListed == Observers \in Seq(ObserverType) /\ Len(Observers) \in Nat
<1>1. Len(Attached) \in Nat /\ \A i \in 1 .. Len(Attached) : Attached[i] \in ObserverType
  <2>1. Attached \in Seq(ObserverType)
      BY ObserversAssumption DEF ObserverType
  <2> QED
      BY <2>1
<1> DEFINE L == Len(Attached)
           V == Seq(ObserverType)
           F == [p \in V \X (1 .. L) |-> CopyOne(p[1], p[2])]
           Good(f) == f = [i \in 0 .. L |-> IF i = 0 THEN << >> ELSE CopyOne(f[i - 1], i)]
<1>2. << >> \in V
    OBVIOUS
<1>3. ASSUME NEW s \in V, NEW i \in 1 .. L PROVE CopyOne(s, i) \in V
    BY <1>1, <1>3 DEF CopyOne, Kept
<1>4. F \in [V \X (1 .. L) -> V]
  <2> HIDE DEF V, L
  <2> QED
      BY <1>3
<1>5. PICK g : Lemmas!Loops(V, << >>, L, F, g)
  <2> HIDE DEF V, L, F
  <2> QED
      BY <1>1, <1>2, <1>4, Lemmas!Iterates DEF L
<1>6. g \in [0 .. L -> V]
    BY <1>5 DEF Lemmas!Loops
<1>7. ASSUME NEW i \in 0 .. L, i # 0 PROVE g[i] = CopyOne(g[i - 1], i)
  <2>1. i \in 1 .. L /\ i - 1 \in 0 .. L
      BY <1>1, <1>7
  <2> HIDE DEF V, L
  <2>2. << g[i - 1], i >> \in V \X (1 .. L) /\ g[i] = F[<< g[i - 1], i >>]
      BY <1>5, <1>6, <1>7, <2>1 DEF Lemmas!Loops
  <2> QED
      BY <2>2
<1>8. Good(g)
  <2> HIDE DEF V, F, L
  <2>0. 0 \in 0 .. L
      BY <1>1 DEF L
  <2>1. g[0] = << >>
      BY <1>5, <2>0 DEF Lemmas!Loops
  <2>2. \A i \in 0 .. L : g[i] = IF i = 0 THEN << >> ELSE CopyOne(g[i - 1], i)
      BY <1>7, <2>1
  <2> DEFINE h == [i \in 0 .. L |-> IF i = 0 THEN << >> ELSE CopyOne(g[i - 1], i)]
  <2>3. h = [i \in 0 .. L |-> g[i]]
      BY <2>2
  <2>4. g = [i \in 0 .. L |-> g[i]]
      BY <1>6
  <2>5. g = h
      BY <2>3, <2>4
  <2> QED
      BY <2>5
<1> HIDE DEF Good
<1>9. Good(Copied)
  <2>1. Copied = CHOOSE f : Good(f)
      BY DEF Copied, Good
  <2> QED
      BY <1>8, <2>1
<1>10. \A i \in 0 .. L : Copied[i] \in V
  <2> DEFINE T == {i \in Nat : i <= L => Copied[i] \in V}
  <2>1. 0 \in T
      BY <1>1, <1>9 DEF Good
  <2>2. ASSUME NEW n \in Nat, n \in T PROVE n + 1 \in T
    <3> SUFFICES ASSUME n + 1 <= L PROVE Copied[n + 1] \in V
        OBVIOUS
    <3>1. Copied[n] \in V
        BY <1>1, <2>2
    <3>2. Copied[n + 1] = CopyOne(Copied[n], n + 1) /\ n + 1 \in 1 .. L
        BY <1>1, <1>9 DEF Good
    <3> QED
        BY <1>3, <3>1, <3>2
  <2>3. Nat \subseteq T
    <3> HIDE DEF T
    <3> QED
        BY <2>1, <2>2, Lemmas!InductOn
  <2> QED
      BY <2>3
<1>11. Observers = Copied[L]
    BY DEF Observers, Copied, CopyOne
<1> QED
    BY <1>1, <1>10, <1>11

-----------------------------------------------------------------------------
(* Delivery.                                                                *)

Observation ==
    [seq : Nat, step : Nat, run : Nat, remaining : Nat, move : {"exited", "entered"},
     state : States]

DeliveryType ==
    [batch : Seq(Observation), at : Nat, observer : Nat,
     phase : {None, "next", "waiting", "reporting", "done"}, failures : SUBSET (Nat \X Nat)]

\* A delivery in progress or done, of the last two observations numbered.
Underway(d) == d.phase # None

\* The number of the observation that the delivery has come to.
Cur(d) == seq - 2 + d.at

\* The position of a delivery.
Positioned(d) ==
    /\ d.phase \in {"next", "waiting", "reporting", "done"}
    /\ d.at \in 1 .. 2 /\ d.observer \in Observer
    /\ seq \in 2 .. MaxSeq
    /\ Len(d.batch) = 2
    /\ d.batch[1].seq = seq - 1 /\ d.batch[2].seq = seq
    /\ d.phase = "reporting" => Observers[d.observer].contained
    /\ d.phase = "done" => d.at = 2 /\ d.observer = Len(Observers)

\* The delivery has dealt with observation n at observer o.
PassedBy(d, o, n) ==
    \/ Before(o, n, d.observer, Cur(d))
    \/ d.phase \in {"reporting", "done"} /\ o = d.observer /\ n = Cur(d)

Settled(o, n) == Offered(o, n) /\ (Observers[o].timed \/ Ended(o, n))

\* What the delivery has passed is settled, what it waits for has been offered,
\* and nothing else of its two observations has; it has kept every failure.
Ordered(d) ==
    /\ d.phase = "waiting" => Offered(d.observer, Cur(d))
    /\ \A o \in Observer, n \in Seqs :
           /\ PassedBy(d, o, n) => Settled(o, n)
           /\ Offered(o, n) =>
                 \/ PassedBy(d, o, n)
                 \/ d.phase = "waiting" /\ o = d.observer /\ n = Cur(d)
           /\ d.failures = {} /\ PassedBy(d, o, n) /\ n > seq - 2 /\ ~Observers[o].contained
                 => callback[<< o, n >>] = "ok"

\* Between deliveries all that was numbered is settled.
AllSettled ==
    \A o \in Observer, n \in Seqs :
        IF n <= seq THEN Settled(o, n) ELSE ~Offered(o, n)

\* A Fire begins only if what it may publish can be numbered.
Room(call) ==
    call.pc \in {"selecting", "doing", "committing"} /\ call.err = None =>
        /\ \/ seq + 2 <= MaxSeq
           \/ \A i \in DOMAIN Table :
                 Table[i].from = call.from /\ Table[i].event = call.event
                 => Table[i].to = call.from
        /\ call.pc # "selecting" =>
              \E i \in DOMAIN Table : /\ Table[i].from = call.from
                                      /\ Table[i].event = call.event
                                      /\ Table[i].to = call.to

\* What the call has to say of the state, and of the failures of its delivery.
Truthful(call, d) ==
    /\ call.pc \notin {"delivering", "leaving"} => d = NoDelivery
    /\ call.pc = "delivering" =>
          Underway(d) /\ call.err = None /\ call.result = state /\ state = call.to
    /\ call.pc = "leaving" =>
          /\ ~Underway(d) => d = NoDelivery
          /\ Underway(d) => d.phase = "done"
          /\ call.err # "panic" => call.result = state
          /\ call.err = None => state = call.to /\ d.failures = {}

CallbackPhases == {None, "ready", "running", "ok", "failed"}

DInv ==
    /\ seq \in 0 .. MaxSeq
    /\ callback \in [Observer \X Seqs -> CallbackPhases]
    /\ delivery \in [Callers -> DeliveryType]
    /\ \A c \in Callers :
          /\ Room(calls[c])
          /\ Truthful(calls[c], delivery[c])
          /\ Underway(delivery[c]) => Positioned(delivery[c]) /\ Ordered(delivery[c])
    /\ (\A c \in Callers : ~Underway(delivery[c])) => AllSettled

(* The observations of a commit (instance.go, Fire).                         *)
LEMMA BatchShape ==
    ASSUME NEW n \in Nat, NEW s \in States, NEW t \in States
    PROVE  /\ Batch(n, s, t) \in Seq(Observation)
           /\ Len(Batch(n, s, t)) = 2
           /\ Batch(n, s, t)[1].seq = n + 1 /\ Batch(n, s, t)[2].seq = n + 2
<1> DEFINE a == [seq |-> n + 1, step |-> n + 1, run |-> n + 1, remaining |-> 1,
                 move |-> "exited", state |-> s]
           b == [seq |-> n + 2, step |-> n + 1, run |-> n + 1, remaining |-> 0,
                 move |-> "entered", state |-> t]
<1>1. a \in Observation /\ b \in Observation
    BY DEF Observation
<1>2. a.seq = n + 1 /\ b.seq = n + 2
    OBVIOUS
<1>3. Batch(n, s, t) = << a, b >>
    BY DEF Batch
<1> HIDE DEF a, b
<1> QED
    BY <1>1, <1>2, <1>3

(* Only the Fire that is in flight has a delivery.                          *)
LEMMA OneDelivery ==
    ASSUME IInv, DInv, NEW c \in Callers, InFlight(c), NEW d \in Callers, d # c
    PROVE  delivery[d] = NoDelivery /\ ~Underway(delivery[d])
<1>1. ~InFlight(d)
    BY DEF IInv, SingleFlight
<1>2. delivery[d] = NoDelivery
    BY <1>1 DEF InFlight, DInv, Truthful
<1> QED
    BY <1>2 DEF NoDelivery, Underway

(* Advanced moves on by one in the order of delivery, or is done              *)
(* (internal/observer/delivery.go, Deliver).                                *)
LEMMA AdvancedKeeps ==
    ASSUME NEW d \in DeliveryType, Positioned(d), Ordered(d),
           d.phase \in {"waiting", "reporting"},
           Settled(d.observer, Cur(d)),
           d.failures = {} /\ ~Observers[d.observer].contained
              => callback[<< d.observer, Cur(d) >>] = "ok"
    PROVE  /\ Advanced(d) \in DeliveryType
           /\ Positioned(Advanced(d)) /\ Ordered(Advanced(d))
<1> DEFINE e == Advanced(d)
           n == Cur(d)
<1>1. Len(Observers) \in Nat /\ Observer = 1 .. Len(Observers)
    BY ObserversListed DEF Observer
<1>2. /\ d.at \in 1 .. 2 /\ d.observer \in 1 .. Len(Observers)
      /\ seq \in 2 .. MaxSeq /\ MaxSeq \in Nat
    BY <1>1, ObserversAssumption DEF Positioned
<1>3. /\ e \in DeliveryType /\ e.batch = d.batch /\ e.failures = d.failures
      /\ \/ /\ d.observer < Len(Observers)
            /\ e.phase = "next" /\ e.observer = d.observer + 1 /\ e.at = d.at
         \/ /\ d.observer = Len(Observers) /\ d.at = 1
            /\ e.phase = "next" /\ e.observer = 1 /\ e.at = 2
         \/ /\ d.observer = Len(Observers) /\ d.at = 2
            /\ e.phase = "done" /\ e.observer = d.observer /\ e.at = d.at
  <2>0. Len(d.batch) = 2
      BY DEF Positioned
  <2>1. CASE d.observer < Len(Observers)
    <3>1. e = [d EXCEPT !.observer = @ + 1, !.phase = "next"]
        BY <2>1 DEF Advanced
    <3>2. PICK o \in Nat : o = d.observer + 1
        BY <1>2
    <3>3. e = [d EXCEPT !.observer = o, !.phase = "next"]
        BY <3>1, <3>2
    <3> HIDE DEF e
    <3> QED
        BY <2>1, <3>2, <3>3 DEF DeliveryType
  <2>2. CASE d.observer = Len(Observers) /\ d.at = 1
    <3>1. e = [d EXCEPT !.at = @ + 1, !.observer = 1, !.phase = "next"]
        BY <1>2, <2>0, <2>2 DEF Advanced
    <3>2. e = [d EXCEPT !.at = 2, !.observer = 1, !.phase = "next"]
        BY <2>2, <3>1
    <3> HIDE DEF e
    <3> QED
        BY <2>2, <3>2 DEF DeliveryType
  <2>3. CASE d.observer = Len(Observers) /\ d.at = 2
    <3>1. e = [d EXCEPT !.phase = "done"]
        BY <1>2, <2>0, <2>3 DEF Advanced
    <3> HIDE DEF e
    <3> QED
        BY <2>3, <3>1 DEF DeliveryType
  <2> QED
      BY <1>1, <1>2, <2>1, <2>2, <2>3
<1> HIDE DEF e
<1>4. Positioned(e)
    BY <1>1, <1>2, <1>3 DEF Positioned
<1>5. ASSUME NEW o \in Observer, NEW m \in Seqs
      PROVE  PassedBy(e, o, m) <=> PassedBy(d, o, m) \/ (o = d.observer /\ m = n)
    BY <1>1, <1>2, <1>3 DEF PassedBy, Before, Cur, Seqs
<1>6. ASSUME NEW o \in Observer, NEW m \in Seqs
      PROVE  /\ PassedBy(e, o, m) => Settled(o, m)
             /\ Offered(o, m) => PassedBy(e, o, m)
             /\ e.failures = {} /\ PassedBy(e, o, m) /\ m > seq - 2 /\ ~Observers[o].contained
                   => callback[<< o, m >>] = "ok"
    BY <1>3, <1>5 DEF Ordered
<1>7. e.phase # "waiting"
    BY <1>3
<1>8. Ordered(e)
    BY <1>6, <1>7 DEF Ordered
<1> QED
    BY <1>3, <1>4, <1>8 DEF e

(* A failure is reported first, or kept (internal/observer/observer.go,       *)
(* Contained; internal/observer/delivery.go, Deliver).                       *)
LEMMA FailedKeeps ==
    ASSUME NEW d \in DeliveryType, Positioned(d), Ordered(d), d.phase = "waiting",
           Settled(d.observer, Cur(d))
    PROVE  /\ Failed(d) \in DeliveryType
           /\ Positioned(Failed(d)) /\ Ordered(Failed(d))
<1>1. Len(Observers) \in Nat /\ Observer = 1 .. Len(Observers)
    BY ObserversListed DEF Observer
<1>2. /\ d.at \in 1 .. 2 /\ d.observer \in 1 .. Len(Observers)
      /\ seq \in 2 .. MaxSeq /\ MaxSeq \in Nat
    BY <1>1, ObserversAssumption DEF Positioned
<1>3. CASE Observers[d.observer].contained
  <2> DEFINE e == [d EXCEPT !.phase = "reporting"]
  <2>1. /\ e \in DeliveryType /\ e.batch = d.batch /\ e.failures = d.failures
        /\ e.phase = "reporting" /\ e.observer = d.observer /\ e.at = d.at
      BY DEF DeliveryType
  <2> HIDE DEF e
  <2>2. Positioned(e)
      BY <1>3, <2>1 DEF Positioned
  <2>3. ASSUME NEW o \in Observer, NEW m \in Seqs
        PROVE  PassedBy(e, o, m) <=> PassedBy(d, o, m) \/ (o = d.observer /\ m = Cur(d))
      BY <2>1 DEF PassedBy, Before, Cur
  <2>4. Ordered(e)
      BY <1>3, <2>1, <2>3 DEF Ordered
  <2> QED
      BY <1>3, <2>1, <2>2, <2>4 DEF Failed, e
<1>4. CASE ~Observers[d.observer].contained
  <2> DEFINE failures == d.failures \cup {<< d.observer, d.batch[d.at].seq >>}
             e == [d EXCEPT !.failures = failures]
  <2>1. d.batch[d.at].seq \in Nat
      BY <1>2 DEF Positioned
  <2>2. failures \in SUBSET (Nat \X Nat) /\ failures # {}
    <3>1. d.failures \in SUBSET (Nat \X Nat)
        BY DEF DeliveryType
    <3>2. << d.observer, d.batch[d.at].seq >> \in Nat \X Nat
        BY <1>2, <2>1
    <3> QED
        BY <3>1, <3>2, Zenon
  <2> HIDE DEF failures
  <2>3. /\ e \in DeliveryType /\ e.batch = d.batch /\ e.failures # {}
        /\ e.phase = "waiting" /\ e.observer = d.observer /\ e.at = d.at
      BY <2>2 DEF DeliveryType
  <2> HIDE DEF e
  <2>4. Positioned(e)
      BY <2>3 DEF Positioned
  <2>5. Ordered(e)
      BY <2>3 DEF Ordered, PassedBy, Before, Cur
  <2>6. Settled(e.observer, Cur(e))
      BY <2>3 DEF Cur
  <2>7. /\ Advanced(e) \in DeliveryType
        /\ Positioned(Advanced(e)) /\ Ordered(Advanced(e))
      BY <2>3, <2>4, <2>5, <2>6, AdvancedKeeps
  <2> QED
      BY <1>4, <2>7 DEF Failed, e, failures
<1> QED
    BY <1>3, <1>4

(* A step of the one call that is, or comes to be, in flight: what it leaves  *)
(* must be right for that call alone (instance.go, Fire).                    *)
LEMMA FireKeeps ==
    ASSUME DInv, NEW c \in Callers, \A d \in Callers : d # c => ~InFlight(d),
           NEW new, NEW nd \in DeliveryType,
           Set(c, new), delivery' = [delivery EXCEPT ![c] = nd],
           seq' \in 0 .. MaxSeq, callback' \in [Observer \X Seqs -> CallbackPhases],
           calls \in [Callers -> CallType],
           Room(new)', Truthful(new, nd)',
           Underway(nd) => Positioned(nd)' /\ Ordered(nd)',
           ~Underway(nd) => AllSettled'
    PROVE  DInv'
<1>1. /\ calls'[c] = new /\ \A d \in Callers : d # c => calls'[d] = calls[d]
    BY DEF Set
<1>2. /\ delivery' \in [Callers -> DeliveryType]
      /\ delivery'[c] = nd /\ \A d \in Callers : d # c => delivery'[d] = delivery[d]
    BY DEF DInv
<1>3. ASSUME NEW d \in Callers, d # c
      PROVE  /\ calls'[d].pc \in {"idle", "refused"}
             /\ delivery'[d] = NoDelivery /\ ~Underway(delivery'[d])
  <2>1. calls[d].pc \in {"idle", "refused"}
      BY <1>3 DEF InFlight
  <2>2. delivery[d] = NoDelivery
      BY <2>1 DEF DInv, Truthful
  <2> QED
      BY <1>1, <1>2, <1>3, <2>1, <2>2 DEF NoDelivery, Underway
<1>4. \A d \in Callers : Room(calls[d])'
  <2>1. Room(calls[c])'
      BY <1>1 DEF Room
  <2>2. ASSUME NEW d \in Callers, d # c PROVE Room(calls[d])'
      BY <1>3, <2>2 DEF Room
  <2> QED
      BY <2>1, <2>2
<1>5. \A d \in Callers : Truthful(calls[d], delivery[d])'
  <2>1. Truthful(calls[c], delivery[c])'
      BY <1>1, <1>2 DEF Truthful
  <2>2. ASSUME NEW d \in Callers, d # c PROVE Truthful(calls[d], delivery[d])'
      BY <1>3, <2>2 DEF Truthful
  <2> QED
      BY <2>1, <2>2
<1>6. \A d \in Callers :
          Underway(delivery[d])' => Positioned(delivery[d])' /\ Ordered(delivery[d])'
  <2> SUFFICES ASSUME NEW d \in Callers, Underway(delivery[d])'
               PROVE  Positioned(delivery[d])' /\ Ordered(delivery[d])'
      OBVIOUS
  <2>1. d = c
      BY <1>3 DEF Underway
  <2>2. Underway(nd)
      BY <1>2, <2>1 DEF Underway
  <2>3. Positioned(delivery[d])'
      BY <1>2, <2>1, <2>2 DEF Positioned
  <2>4. Ordered(delivery[d])'
      BY <1>2, <2>1, <2>2 DEF Ordered, PassedBy, Cur
  <2> QED
      BY <2>3, <2>4
<1>7. (\A d \in Callers : ~Underway(delivery[d]))' => AllSettled'
    BY <1>2 DEF Underway
<1> QED
    BY <1>2, <1>4, <1>5, <1>6, <1>7 DEF DInv

(* A callback that begins or ends: what was offered stays so, and what ended  *)
(* stays as it ended (internal/observer/delivery.go, Start).                 *)
LEMMA CallbackKeeps ==
    ASSUME DInv, NEW o \in Observer, NEW n \in Seqs, NEW phase \in CallbackPhases,
           callback[<< o, n >>] \in {"ready", "running"}, phase # None,
           callback' = [callback EXCEPT ![<< o, n >>] = phase],
           UNCHANGED << state, seq, calls, delivery >>
    PROVE  DInv'
<1>1. callback' \in [Observer \X Seqs -> CallbackPhases]
    BY DEF DInv
<1>2. ASSUME NEW p \in Observer, NEW m \in Seqs
      PROVE  /\ Offered(p, m)' <=> Offered(p, m)
             /\ Ended(p, m) => Ended(p, m)'
             /\ callback[<< p, m >>] = "ok" => callback'[<< p, m >>] = "ok"
    BY DEF DInv, Offered, Ended, None
<1>3. ASSUME NEW p \in Observer, NEW m \in Seqs
      PROVE  Settled(p, m) => Settled(p, m)'
    BY <1>2 DEF Settled
<1>4. ASSUME NEW c \in Callers
      PROVE  /\ Room(calls[c])' /\ Truthful(calls[c], delivery[c])'
             /\ Underway(delivery[c])' => Positioned(delivery[c])'
    BY DEF DInv, Room, Truthful, Underway, Positioned
<1>5. ASSUME NEW c \in Callers, Underway(delivery[c])
      PROVE  Ordered(delivery[c])'
  <2>1. Positioned(delivery[c]) /\ Ordered(delivery[c])
      BY <1>5 DEF DInv
  <2>2. ASSUME NEW p \in Observer, NEW m \in Seqs
        PROVE  PassedBy(delivery[c], p, m)' <=> PassedBy(delivery[c], p, m)
      BY DEF PassedBy, Cur
  <2>3. (delivery[c].phase = "waiting" => Offered(delivery[c].observer, Cur(delivery[c])))'
    <3>1. delivery[c].observer \in Observer /\ Cur(delivery[c]) \in Seqs
        BY <2>1, ObserversAssumption DEF Positioned, Cur, Seqs
    <3>2. Cur(delivery[c])' = Cur(delivery[c])
        BY DEF Cur
    <3> QED
        BY <1>2, <2>1, <3>1, <3>2 DEF Ordered, Offered
  <2> QED
      BY <1>2, <1>3, <2>1, <2>2, <2>3 DEF Ordered, Cur
<1>6. (\A c \in Callers : ~Underway(delivery[c]))' => AllSettled'
  <2> SUFFICES ASSUME (\A c \in Callers : ~Underway(delivery[c]))'
               PROVE  AllSettled'
      OBVIOUS
  <2>1. AllSettled
      BY DEF DInv, Underway
  <2> QED
      BY <1>2, <1>3, <2>1 DEF AllSettled
<1> QED
    BY <1>1, <1>4, <1>5, <1>6 DEF DInv, Underway

(* A delivery that moves on does so for a Fire in flight, which delivers      *)
(* (internal/observer/delivery.go, Deliver).                                *)
LEMMA DeliveryKeeps ==
    ASSUME IInv, DInv, NEW c \in Callers,
           delivery[c].phase \in {"next", "waiting", "reporting"},
           UNCHANGED << state, seq, calls >>,
           NEW nd \in DeliveryType, delivery' = [delivery EXCEPT ![c] = nd],
           callback' \in [Observer \X Seqs -> CallbackPhases],
           Underway(nd), Positioned(nd)', Ordered(nd)'
    PROVE  DInv'
<1>1. calls[c].pc = "delivering" /\ calls[c].err = None
      /\ calls[c].result = state /\ state = calls[c].to
    BY DEF DInv, Truthful, Underway, NoDelivery, None
<1>2. InFlight(c)
    BY <1>1 DEF InFlight
<1>3. \A d \in Callers : d # c => ~InFlight(d)
    BY <1>2 DEF IInv, SingleFlight
<1>4. PICK new : new = calls[c]
    OBVIOUS
<1>5. calls \in [Callers -> CallType]
    BY DEF IInv, Types
<1>6. Set(c, new)
    BY <1>4, <1>5 DEF Set
<1>7. Room(new)' /\ Truthful(new, nd)'
    BY <1>1, <1>4 DEF Room, Truthful
<1>8. seq' \in 0 .. MaxSeq
    BY DEF DInv
<1> QED
    BY <1>3, <1>5, <1>6, <1>7, <1>8, FireKeeps

(* The steps of Deliver, timers included (internal/observer/delivery.go).    *)
LEMMA DeliverKeeps ==
    ASSUME IInv, DInv, NEW c \in Callers, Deliver(c), UNCHANGED << instance, calls, views >>
    PROVE  DInv'
<1>1. PICK d \in DeliveryType : d = delivery[c]
    BY DEF DInv
<1>2. d.phase \in {"next", "waiting", "reporting"}
    BY <1>1 DEF Deliver, StartCallback, Collect, Expire, ReportEnds
<1>3. Positioned(d) /\ Ordered(d)
    BY <1>1, <1>2 DEF DInv, Underway, None
<1>4. d.observer \in Observer /\ Cur(d) \in Seqs /\ d.batch[d.at].seq = Cur(d)
      /\ Cur(d) \in Nat
    BY <1>3, ObserversAssumption DEF Positioned, Cur, Seqs
<1>5. Current(c) = << d.observer, Cur(d) >>
    BY <1>1, <1>4 DEF Current
<1>6. state' = state /\ seq' = seq
    BY DEF instance
<1>7. ASSUME NEW e \in DeliveryType, e.phase # None, Positioned(e), Ordered(e),
             delivery' = [delivery EXCEPT ![c] = e], callback' = callback
      PROVE  DInv'
  <2>1. callback' \in [Observer \X Seqs -> CallbackPhases]
      BY <1>7 DEF DInv
  <2>2. Positioned(e)'
      BY <1>6, <1>7 DEF Positioned
  <2>3. Ordered(e)'
      BY <1>6, <1>7 DEF Ordered, PassedBy, Cur, Settled, Offered, Ended
  <2> QED
      BY <1>1, <1>2, <1>6, <1>7, <2>1, <2>2, <2>3, DeliveryKeeps DEF Underway
<1>8. ASSUME NEW e \in DeliveryType, Positioned(e)
      PROVE  e.phase # None
    BY <1>8 DEF Positioned, None
<1>9. CASE StartCallback(c)
  <2> DEFINE started == [d EXCEPT !.phase = "waiting"]
  <2>1. PICK e : e = started
      OBVIOUS
  <2>2. /\ e \in DeliveryType /\ e.batch = d.batch /\ e.failures = d.failures
        /\ e.phase = "waiting" /\ e.observer = d.observer /\ e.at = d.at
      BY <2>1 DEF DeliveryType
  <2>3. delivery' = [delivery EXCEPT ![c] = e] /\ d.phase = "next"
      BY <1>1, <1>9, <2>1 DEF StartCallback
  <2>4. callback' = [callback EXCEPT ![<< d.observer, Cur(d) >>] = "ready"]
      BY <1>5, <1>9 DEF StartCallback
  <2>5. callback' \in [Observer \X Seqs -> CallbackPhases]
      BY <2>4 DEF DInv, CallbackPhases
  <2>6. Positioned(e)'
      BY <1>3, <1>6, <2>2, <2>3 DEF Positioned
  <2>7. ASSUME NEW o \in Observer, NEW n \in Seqs
        PROVE  /\ ~(o = d.observer /\ n = Cur(d)) =>
                     callback'[<< o, n >>] = callback[<< o, n >>]
               /\ o = d.observer /\ n = Cur(d) => callback'[<< o, n >>] = "ready"
      BY <1>4, <2>4 DEF DInv
  <2>8. ASSUME NEW o \in Observer, NEW n \in Seqs
        PROVE  /\ PassedBy(e, o, n)' <=> PassedBy(d, o, n)
               /\ PassedBy(d, o, n) => ~(o = d.observer /\ n = Cur(d))
      BY <1>3, <1>4, <1>6, <2>2, <2>3 DEF PassedBy, Before, Cur, Positioned, Observer
  <2>9. Cur(e)' = Cur(d)
      BY <1>6, <2>2 DEF Cur
  <2>10. Ordered(e)'
    <3>1. (e.phase = "waiting" => Offered(e.observer, Cur(e)))'
        BY <1>4, <2>2, <2>7, <2>9 DEF Offered, None
    <3>2. ASSUME NEW o \in Observer, NEW n \in Seqs
          PROVE  (PassedBy(e, o, n) => Settled(o, n))'
        BY <1>3, <2>7, <2>8 DEF Ordered, Settled, Offered, Ended
    <3>3. ASSUME NEW o \in Observer, NEW n \in Seqs
          PROVE  (Offered(o, n) => \/ PassedBy(e, o, n)
                                   \/ e.phase = "waiting" /\ o = e.observer /\ n = Cur(e))'
        BY <1>3, <2>2, <2>3, <2>7, <2>8, <2>9 DEF Ordered, Offered
    <3>4. ASSUME NEW o \in Observer, NEW n \in Seqs
          PROVE  (e.failures = {} /\ PassedBy(e, o, n) /\ n > seq - 2
                  /\ ~Observers[o].contained => callback[<< o, n >>] = "ok")'
        BY <1>3, <1>6, <2>2, <2>7, <2>8 DEF Ordered
    <3> QED
        BY <3>1, <3>2, <3>3, <3>4 DEF Ordered
  <2> QED
      BY <1>1, <1>2, <1>6, <2>2, <2>3, <2>5, <2>6, <2>10, DeliveryKeeps
      DEF Underway, None
<1>10. CASE Collect(c)
  <2>1. d.phase = "waiting" /\ callback' = callback
      BY <1>1, <1>10 DEF Collect
  <2>2. CASE callback[Current(c)] = "ok" /\ delivery' = [delivery EXCEPT ![c] = Advanced(@)]
    <3>1. callback[<< d.observer, Cur(d) >>] = "ok"
        BY <1>5, <2>2
    <3>2. Settled(d.observer, Cur(d))
        BY <3>1 DEF Settled, Offered, Ended, None
    <3>3. PICK e : e = Advanced(d)
        OBVIOUS
    <3>4. e \in DeliveryType /\ Positioned(e) /\ Ordered(e)
        BY <1>3, <2>1, <3>1, <3>2, <3>3, AdvancedKeeps
    <3>5. delivery' = [delivery EXCEPT ![c] = e]
        BY <1>1, <2>2, <3>3
    <3> QED
        BY <1>7, <1>8, <2>1, <3>4, <3>5
  <2>3. CASE callback[Current(c)] = "failed" /\ delivery' = [delivery EXCEPT ![c] = Failed(@)]
    <3>1. callback[<< d.observer, Cur(d) >>] = "failed"
        BY <1>5, <2>3
    <3>2. Settled(d.observer, Cur(d))
        BY <3>1 DEF Settled, Offered, Ended, None
    <3>3. PICK e : e = Failed(d)
        OBVIOUS
    <3>4. e \in DeliveryType /\ Positioned(e) /\ Ordered(e)
        BY <1>3, <2>1, <3>2, <3>3, FailedKeeps
    <3>5. delivery' = [delivery EXCEPT ![c] = e]
        BY <1>1, <2>3, <3>3
    <3> QED
        BY <1>7, <1>8, <2>1, <3>4, <3>5
  <2> QED
      BY <1>10, <2>2, <2>3 DEF Collect
<1>11. CASE Expire(c)
  <2>1. d.phase = "waiting" /\ callback' = callback /\ Observers[d.observer].timed
        /\ delivery' = [delivery EXCEPT ![c] = Failed(@)]
      BY <1>1, <1>11 DEF Expire
  <2>2. Settled(d.observer, Cur(d))
      BY <1>3, <2>1 DEF Ordered, Settled
  <2>3. PICK e : e = Failed(d)
      OBVIOUS
  <2>4. e \in DeliveryType /\ Positioned(e) /\ Ordered(e)
      BY <1>3, <2>1, <2>2, <2>3, FailedKeeps
  <2>5. delivery' = [delivery EXCEPT ![c] = e]
      BY <1>1, <2>1, <2>3
  <2> QED
      BY <1>7, <1>8, <2>1, <2>4, <2>5
<1>12. CASE ReportEnds(c)
  <2>1. d.phase = "reporting" /\ callback' = callback
        /\ delivery' = [delivery EXCEPT ![c] = Advanced(@)]
      BY <1>1, <1>12 DEF ReportEnds
  <2>2. Observers[d.observer].contained
      BY <1>3, <2>1 DEF Positioned
  <2>3. PassedBy(d, d.observer, Cur(d))
      BY <2>1 DEF PassedBy
  <2>4. Settled(d.observer, Cur(d))
      BY <1>3, <1>4, <2>3 DEF Ordered
  <2>5. PICK e : e = Advanced(d)
      OBVIOUS
  <2>6. e \in DeliveryType /\ Positioned(e) /\ Ordered(e)
      BY <1>3, <2>1, <2>2, <2>4, <2>5, AdvancedKeeps
  <2>7. delivery' = [delivery EXCEPT ![c] = e]
      BY <1>1, <2>1, <2>5
  <2> QED
      BY <1>7, <1>8, <2>1, <2>6, <2>7
<1> QED
    BY <1>9, <1>10, <1>11, <1>12 DEF Deliver

(* A step of one call that leaves the Instance's state and every delivery     *)
(* alone (instance.go, Fire).                                               *)
LEMMA CallKeeps ==
    ASSUME IInv, DInv, NEW c \in Callers, NEW new, Set(c, new),
           UNCHANGED << state, seq, delivery, callback >>,
           Room(new)', Truthful(new, delivery[c])
    PROVE  DInv'
<1>1. /\ calls'[c] = new /\ \A d \in Callers : d # c => calls'[d] = calls[d]
    BY DEF IInv, Types, Set
<1>2. ASSUME NEW d \in Callers
      PROVE  Room(calls[d])' /\ Truthful(calls[d], delivery[d])'
  <2>1. CASE d = c
      BY <1>1, <2>1 DEF Room, Truthful
  <2>2. CASE d # c
      BY <1>1, <2>2 DEF DInv, Room, Truthful
  <2> QED
      BY <2>1, <2>2
<1>3. ASSUME NEW d \in Callers, Underway(delivery[d])'
      PROVE  Positioned(delivery[d])' /\ Ordered(delivery[d])'
    BY <1>3 DEF DInv, Underway, Positioned, Ordered, PassedBy, Cur, Settled, Offered, Ended
<1>4. (\A d \in Callers : ~Underway(delivery[d]))' => AllSettled'
    BY DEF DInv, Underway, AllSettled, Settled, Offered, Ended
<1>5. seq' \in 0 .. MaxSeq /\ callback' \in [Observer \X Seqs -> CallbackPhases]
      /\ delivery' \in [Callers -> DeliveryType]
    BY DEF DInv
<1> QED
    BY <1>2, <1>3, <1>4, <1>5 DEF DInv

(* The steps of Fire before its commit, and the end of its delivery           *)
(* (instance.go, Fire; statemachine.go, selectTransition).                   *)
LEMMA FireSteps ==
    ASSUME IInv, DInv, NEW c \in Callers,
           \/ Refuse(c) \/ \E e \in Events : Begin(c, e)
           \/ ReturnRefused(c) \/ NotSelected(c) \/ Select(c) \/ Do(c) \/ Delivered(c)
    PROVE  DInv'
<1> DEFINE call == calls[c]
<1>1. /\ call \in CallType /\ FromPresent(call, state) /\ state \in States
      /\ Room(call) /\ Truthful(call, delivery[c])
    BY DEF IInv, Types, DInv
<1>2. CASE Refuse(c)
  <2>1. PICK new : new = [IdleCall EXCEPT !.pc = "refused", !.err = "inFlight", !.result = state]
      OBVIOUS
  <2>2. Set(c, new) /\ UNCHANGED << state, seq, delivery, callback >> /\ call.pc = "idle"
      BY <1>2, <2>1 DEF Refuse, instance, observing
  <2>3. new.pc = "refused"
      BY <2>1 DEF IdleCall
  <2>4. Room(new)' /\ Truthful(new, delivery[c])
      BY <1>1, <2>2, <2>3 DEF Room, Truthful
  <2> QED
      BY <2>2, <2>4, CallKeeps
<1>3. CASE ReturnRefused(c)
  <2>1. Set(c, IdleCall) /\ UNCHANGED << state, seq, delivery, callback >>
        /\ call.pc = "refused"
      BY <1>3 DEF ReturnRefused, observing
  <2>2. IdleCall.pc = "idle"
      BY DEF IdleCall
  <2>3. Room(IdleCall)' /\ Truthful(IdleCall, delivery[c])
      BY <1>1, <2>1, <2>2 DEF Room, Truthful
  <2> QED
      BY <2>1, <2>3, CallKeeps
<1>4. ASSUME NEW e \in Events, Begin(c, e)
      PROVE  DInv'
  <2>1. PICK new : new = [IdleCall EXCEPT !.pc = "selecting", !.from = state,
                                          !.event = e, !.at = 1]
      OBVIOUS
  <2>2. Set(c, new) /\ UNCHANGED << state, seq, delivery, callback >> /\ call.pc = "idle"
        /\ WithinBound(e)
      BY <1>4, <2>1 DEF Begin, observing
  <2>3. new.pc = "selecting" /\ new.from = state /\ new.event = e
      BY <2>1 DEF IdleCall
  <2>4. Room(new)'
      BY <2>2, <2>3 DEF Room, WithinBound
  <2>5. Truthful(new, delivery[c])
      BY <1>1, <2>2, <2>3 DEF Truthful
  <2> QED
      BY <2>2, <2>4, <2>5, CallKeeps
<1>5. CASE NotSelected(c)
  <2> DEFINE err == IF call.event \in Invalid THEN "invalidKey" ELSE "notPermitted"
  <2>1. PICK new : new = [call EXCEPT !.pc = "committing", !.err = err]
      OBVIOUS
  <2>2. Set(c, new) /\ UNCHANGED << state, seq, delivery, callback >>
        /\ call.pc = "selecting"
      BY <1>5, <2>1 DEF NotSelected, instance, observing
  <2>3. err # None
      BY DEF None
  <2> HIDE DEF err
  <2>4. new.pc = "committing" /\ new.err # None
      BY <1>1, <2>1, <2>3 DEF CallType
  <2>5. Room(new)' /\ Truthful(new, delivery[c])
      BY <1>1, <2>2, <2>4 DEF Room, Truthful
  <2> QED
      BY <2>2, <2>5, CallKeeps
<1>6. CASE Select(c)
  <2> DEFINE row == Table[RowsFor(call)[call.at]]
  <2>1. /\ call.pc = "selecting" /\ call.at <= Len(RowsFor(call))
        /\ UNCHANGED << state, seq, delivery, callback >>
        /\ \/ Set(c, [call EXCEPT !.at = @ + 1])
           \/ Set(c, [call EXCEPT !.pc = "leaving", !.err = "panic"])
           \/ Set(c, [call EXCEPT !.pc = "doing", !.to = row.to])
      BY <1>6 DEF Select, instance, observing
  <2>2. delivery[c] = NoDelivery
      BY <1>1, <2>1 DEF Truthful
  <2>3. ASSUME Set(c, [call EXCEPT !.at = @ + 1]) PROVE DInv'
    <3>1. PICK new : new = [call EXCEPT !.at = @ + 1]
        OBVIOUS
    <3>2. new.pc = "selecting" /\ new.from = call.from /\ new.event = call.event
          /\ new.err = call.err
        BY <1>1, <2>1, <3>1 DEF CallType
    <3>3. Room(new)' /\ Truthful(new, delivery[c])
        BY <1>1, <2>1, <2>2, <3>2 DEF Room, Truthful
    <3> QED
        BY <2>1, <2>3, <3>1, <3>3, CallKeeps
  <2>4. ASSUME Set(c, [call EXCEPT !.pc = "leaving", !.err = "panic"]) PROVE DInv'
    <3>1. PICK new : new = [call EXCEPT !.pc = "leaving", !.err = "panic"]
        OBVIOUS
    <3>2. new.pc = "leaving" /\ new.err = "panic"
        BY <1>1, <3>1 DEF CallType
    <3>3. Room(new)' /\ Truthful(new, delivery[c])
        BY <2>2, <3>2 DEF Room, Truthful, NoDelivery, Underway, None
    <3> QED
        BY <2>1, <2>4, <3>1, <3>3, CallKeeps
  <2>5. ASSUME Set(c, [call EXCEPT !.pc = "doing", !.to = row.to]) PROVE DInv'
    <3>1. PICK new : new = [call EXCEPT !.pc = "doing", !.to = row.to]
        OBVIOUS
    <3>2. new.pc = "doing" /\ new.from = call.from /\ new.event = call.event
          /\ new.err = call.err /\ new.to = row.to
        BY <1>1, <3>1 DEF CallType
    <3>3. /\ row.from = call.from /\ row.event = call.event
          /\ \E j \in DOMAIN Table : Table[j] = row
      <4>1. /\ call.from \in States /\ call.event \in Events
            /\ call.at \in 1 .. Len(RowsFor(call))
          BY <1>1, <2>1 DEF FromPresent, CallType
      <4> QED
          BY <4>1, RowOfGroup
    <3> HIDE DEF row
    <3>4. Room(new)'
        BY <1>1, <2>1, <3>2, <3>3 DEF Room
    <3>5. Truthful(new, delivery[c])
        BY <2>2, <3>2 DEF Truthful
    <3> QED
        BY <2>1, <2>5, <3>1, <3>4, <3>5, CallKeeps DEF row
  <2> QED
      BY <2>1, <2>3, <2>4, <2>5
<1>7. CASE Do(c)
  <2>1. /\ call.pc = "doing" /\ UNCHANGED << state, seq, delivery, callback >>
        /\ \/ Set(c, [call EXCEPT !.pc = "committing"])
           \/ Set(c, [call EXCEPT !.pc = "committing", !.err = "failed"])
           \/ Set(c, [call EXCEPT !.pc = "leaving", !.err = "panic"])
      BY <1>7 DEF Do, instance, observing
  <2>2. delivery[c] = NoDelivery
      BY <1>1, <2>1 DEF Truthful
  <2>3. ASSUME Set(c, [call EXCEPT !.pc = "committing"]) PROVE DInv'
    <3>1. PICK new : new = [call EXCEPT !.pc = "committing"]
        OBVIOUS
    <3>2. new.pc = "committing" /\ new.from = call.from /\ new.event = call.event
          /\ new.err = call.err /\ new.to = call.to
        BY <1>1, <3>1 DEF CallType
    <3>3. Room(new)' /\ Truthful(new, delivery[c])
        BY <1>1, <2>1, <2>2, <3>2 DEF Room, Truthful
    <3> QED
        BY <2>1, <2>3, <3>1, <3>3, CallKeeps
  <2>4. ASSUME NEW pc \in {"committing", "leaving"}, NEW err \in {"failed", "panic"},
               pc = "leaving" => err = "panic",
               Set(c, [call EXCEPT !.pc = pc, !.err = err])
        PROVE  DInv'
    <3>1. PICK new : new = [call EXCEPT !.pc = pc, !.err = err]
        OBVIOUS
    <3>2. new.pc = pc /\ new.err = err /\ err # None
        BY <1>1, <3>1 DEF CallType, None
    <3>3. Room(new)' /\ Truthful(new, delivery[c])
        BY <2>2, <2>4, <3>2 DEF Room, Truthful, NoDelivery, Underway, None
    <3> QED
        BY <2>1, <2>4, <3>1, <3>3, CallKeeps
  <2> QED
      BY <2>1, <2>3, <2>4
<1>8. CASE Delivered(c)
  <2> DEFINE err == IF delivery[c].failures = {} THEN None ELSE "observer"
  <2>1. PICK new : new = [call EXCEPT !.pc = "leaving", !.err = err]
      OBVIOUS
  <2>2. Set(c, new) /\ UNCHANGED << state, seq, delivery, callback >>
        /\ call.pc = "delivering" /\ delivery[c].phase = "done"
      BY <1>8, <2>1 DEF Delivered, instance, observing
  <2>3. err = None => delivery[c].failures = {}
      BY DEF None
  <2> HIDE DEF err
  <2>4. new.pc = "leaving" /\ new.err = err /\ new.result = call.result /\ new.to = call.to
      BY <1>1, <2>1 DEF CallType
  <2>5. Room(new)' /\ Truthful(new, delivery[c])
      BY <1>1, <2>2, <2>3, <2>4 DEF Room, Truthful, Underway, None
  <2> QED
      BY <2>2, <2>5, CallKeeps
<1> QED
    BY <1>2, <1>3, <1>4, <1>5, <1>6, <1>7, <1>8

(* A commit numbers its two observations where the last ones ended, and all   *)
(* of those are settled by then (instance.go, Fire).                         *)
LEMMA CommitDelivers ==
    ASSUME IInv, DInv, NEW c \in Callers, Commit(c)
    PROVE  DInv'
<1> DEFINE call == calls[c]
           batch == BatchOf(call)
<1>1. /\ call \in CallType /\ FromPresent(call, state) /\ state \in States
      /\ Room(call) /\ Truthful(call, delivery[c]) /\ seq \in 0 .. MaxSeq /\ MaxSeq \in Nat
    BY ObserversAssumption DEF IInv, Types, DInv
<1>2. PICK new : new = [call EXCEPT !.pc = IF batch = << >> THEN "leaving" ELSE "delivering",
                                    !.result = StateAfter(call)]
    OBVIOUS
<1>3. /\ call.pc = "committing" /\ Set(c, new) /\ state' = StateAfter(call)
      /\ seq' = seq + Len(batch) /\ callback' = callback
      /\ delivery' = [delivery EXCEPT ![c] = IF batch = << >> THEN @ ELSE Delivering(batch)]
    BY <1>2 DEF Commit
<1>4. delivery[c] = NoDelivery
    BY <1>1, <1>3 DEF Truthful
<1>5. InFlight(c)
    BY <1>3 DEF InFlight
<1>6. \A d \in Callers : d # c => ~InFlight(d)
    BY <1>5 DEF IInv, SingleFlight
<1>7. AllSettled
  <2>1. ASSUME NEW d \in Callers PROVE ~Underway(delivery[d])
      BY <1>4, <1>5, OneDelivery DEF Underway, NoDelivery
  <2> QED
      BY <2>1 DEF DInv
<1>8. /\ new.pc = IF batch = << >> THEN "leaving" ELSE "delivering"
      /\ new.result = state' /\ new.err = call.err /\ new.to = call.to
      /\ call.err = None => state' = call.to
    BY <1>1, <1>2, <1>3 DEF CallType, StateAfter
<1>9. callback' \in [Observer \X Seqs -> CallbackPhases] /\ calls \in [Callers -> CallType]
    BY <1>3 DEF DInv, IInv, Types
<1>10. Room(new)'
    BY <1>8 DEF Room
<1>11. CASE batch = << >>
  <2>1. seq' = seq /\ delivery' = [delivery EXCEPT ![c] = NoDelivery]
    <3>1. Len(<< >>) = 0
        OBVIOUS
    <3> QED
        BY <1>1, <1>3, <1>4, <1>11, <3>1
  <2>2. NoDelivery \in DeliveryType /\ ~Underway(NoDelivery)
      BY <1>4 DEF DInv, Underway, NoDelivery
  <2>3. Truthful(new, NoDelivery)'
      BY <1>8, <1>11, <2>2 DEF Truthful, NoDelivery, Underway
  <2>4. AllSettled'
      BY <1>3, <1>7, <2>1 DEF AllSettled, Settled, Offered, Ended
  <2> QED
      BY <1>1, <1>3, <1>6, <1>9, <1>10, <2>1, <2>2, <2>3, <2>4, FireKeeps
<1>12. CASE batch # << >>
  <2>1. /\ call.err = None /\ call.from # call.to /\ Observers # << >>
        /\ batch = Batch(seq, call.from, call.to)
      BY <1>12 DEF BatchOf
  <2>2. seq + 2 <= MaxSeq
      BY <1>1, <1>3, <2>1 DEF Room
  <2>3. call.from \in States /\ call.to \in States
      BY <1>1, <1>3, <2>1 DEF FromPresent
  <2>4. /\ batch \in Seq(Observation) /\ Len(batch) = 2
        /\ batch[1].seq = seq + 1 /\ batch[2].seq = seq + 2
    <3>1. seq \in Nat
        BY <1>1
    <3> HIDE DEF batch
    <3>2. PICK s \in States, t \in States : s = call.from /\ t = call.to
        BY <2>3
    <3>3. batch = Batch(seq, s, t)
        BY <2>1, <3>2
    <3> QED
        BY <3>1, <3>3, BatchShape
  <2> HIDE DEF batch
  <2>5. PICK b : b = batch
      OBVIOUS
  <2>6. seq' = seq + 2
      BY <1>3, <2>4
  <2>7. PICK nd : nd = Delivering(b)
      OBVIOUS
  <2>8. delivery' = [delivery EXCEPT ![c] = nd]
      BY <1>3, <1>12, <2>5, <2>7
  <2>9. /\ nd \in DeliveryType /\ nd.batch = b /\ nd.at = 1 /\ nd.observer = 1
        /\ nd.phase = "next" /\ nd.failures = {}
      BY <2>4, <2>5, <2>7 DEF Delivering, NoDelivery, DeliveryType
  <2>10. Observer = 1 .. Len(Observers) /\ Len(Observers) \in Nat /\ Len(Observers) >= 1
      BY <2>1, ObserversListed DEF Observer
  <2>11. Positioned(nd)'
      BY <1>1, <2>2, <2>4, <2>5, <2>6, <2>9, <2>10 DEF Positioned
  <2>12. ASSUME NEW o \in Observer, NEW n \in Seqs
         PROVE  PassedBy(nd, o, n)' <=> n <= seq
      BY <1>1, <2>6, <2>9, <2>10 DEF PassedBy, Before, Cur, Seqs
  <2>13. ASSUME NEW o \in Observer, NEW n \in Seqs
         PROVE  /\ (PassedBy(nd, o, n) => Settled(o, n))'
                /\ (Offered(o, n) => PassedBy(nd, o, n))'
                /\ ~(PassedBy(nd, o, n) /\ n > seq - 2)'
      BY <1>1, <1>3, <1>7, <2>6, <2>12 DEF AllSettled, Settled, Offered, Ended, Seqs
  <2>14. Ordered(nd)'
      BY <2>9, <2>13 DEF Ordered
  <2>15. Underway(nd)
      BY <2>9 DEF Underway, None
  <2>16. Truthful(new, nd)'
      BY <1>8, <1>12, <2>1, <2>15 DEF Truthful, Underway
  <2>17. seq' \in 0 .. MaxSeq
      BY <1>1, <2>2, <2>6
  <2> QED
      BY <1>3, <1>6, <1>9, <1>10, <2>8, <2>9, <2>11, <2>14, <2>15, <2>16, <2>17, FireKeeps
<1> QED
    BY <1>11, <1>12

(* When Fire returns, all that was numbered is settled (instance.go, Fire).   *)
LEMMA LeaveSettles ==
    ASSUME IInv, DInv, NEW c \in Callers, Leave(c)
    PROVE  DInv'
<1>1. /\ calls[c].pc = "leaving" /\ Set(c, IdleCall)
      /\ delivery' = [delivery EXCEPT ![c] = NoDelivery]
      /\ UNCHANGED << state, seq, callback >>
    BY DEF Leave
<1>2. InFlight(c)
    BY <1>1 DEF InFlight
<1>3. \A d \in Callers : d # c => ~InFlight(d)
    BY <1>2 DEF IInv, SingleFlight
<1>4. NoDelivery \in DeliveryType /\ ~Underway(NoDelivery)
  <2>1. << >> \in Seq(Observation) /\ {} \in SUBSET (Nat \X Nat)
      OBVIOUS
  <2> QED
      BY <2>1 DEF NoDelivery, DeliveryType, Underway
<1>5. AllSettled
  <2>1. CASE ~Underway(delivery[c])
    <3>1. ASSUME NEW d \in Callers PROVE ~Underway(delivery[d])
        BY <1>2, <2>1, OneDelivery
    <3> QED
        BY <3>1 DEF DInv
  <2>2. CASE Underway(delivery[c])
    <3> DEFINE d == delivery[c]
    <3>1. /\ d.phase = "done" /\ Positioned(d) /\ Ordered(d)
        BY <1>1, <2>2 DEF DInv, Truthful
    <3>2. /\ d.at = 2 /\ d.observer = Len(Observers) /\ seq \in Nat
          /\ Observer = 1 .. Len(Observers) /\ Len(Observers) \in Nat
        BY <3>1, ObserversListed, ObserversAssumption DEF Positioned, Observer
    <3>3. ASSUME NEW o \in Observer, NEW n \in Seqs
          PROVE  PassedBy(d, o, n) <=> n <= seq
        BY <3>1, <3>2 DEF PassedBy, Before, Cur, Seqs
    <3> QED
        BY <3>1, <3>3 DEF Ordered, AllSettled
  <2> QED
      BY <2>1, <2>2
<1>6. AllSettled'
    BY <1>1, <1>5 DEF AllSettled, Settled, Offered, Ended
<1>7. IdleCall.pc = "idle"
    BY DEF IdleCall
<1>8. Room(IdleCall)' /\ Truthful(IdleCall, NoDelivery)'
    BY <1>7 DEF Room, Truthful
<1>9. /\ seq' \in 0 .. MaxSeq /\ callback' \in [Observer \X Seqs -> CallbackPhases]
      /\ calls \in [Callers -> CallType]
    BY <1>1 DEF DInv, IInv, Types
<1> QED
    BY <1>1, <1>3, <1>4, <1>6, <1>8, <1>9, FireKeeps

(* The delivery of observations goes with the Fire that numbered them, in      *)
(* every reachable state (instance.go, Fire; internal/observer/delivery.go). *)
LEMMA DeliveryInductive == Spec => []DInv
<1>1. Init => DInv
  <2> SUFFICES ASSUME Init PROVE DInv
      OBVIOUS
  <2>1. << >> \in Seq(Observation) /\ {} \in SUBSET (Nat \X Nat)
      OBVIOUS
  <2>2. NoDelivery \in DeliveryType /\ ~Underway(NoDelivery)
      BY <2>1 DEF NoDelivery, DeliveryType, Underway
  <2>3. IdleCall.pc = "idle"
      BY DEF IdleCall
  <2>4. /\ seq = 0 /\ MaxSeq \in Nat
        /\ callback = [os \in Observer \X Seqs |-> None]
        /\ \A c \in Callers : calls[c] = IdleCall /\ delivery[c] = NoDelivery
        /\ delivery \in [Callers -> DeliveryType]
      BY <2>2, ObserversAssumption DEF Init, InitObserving
  <2>5. AllSettled
      BY <2>4 DEF AllSettled, Offered, Seqs
  <2>6. \A c \in Callers : Room(calls[c]) /\ Truthful(calls[c], delivery[c])
      BY <2>3, <2>4 DEF Room, Truthful
  <2>7. callback \in [Observer \X Seqs -> CallbackPhases] /\ seq \in 0 .. MaxSeq
      BY <2>4 DEF CallbackPhases
  <2> QED
      BY <2>2, <2>4, <2>5, <2>6, <2>7 DEF DInv
<1>2. IInv /\ DInv /\ [Next]_vars => DInv'
  <2> SUFFICES ASSUME IInv, DInv, [Next]_vars PROVE DInv'
      OBVIOUS
  <2>1. ASSUME NEW c \in Callers,
               \/ Refuse(c) \/ \E e \in Events : Begin(c, e)
               \/ ReturnRefused(c) \/ NotSelected(c) \/ Select(c) \/ Do(c) \/ Delivered(c)
        PROVE  DInv'
      BY <2>1, FireSteps
  <2>2. ASSUME NEW c \in Callers, Commit(c) PROVE DInv'
      BY <2>2, CommitDelivers
  <2>3. ASSUME NEW c \in Callers, Leave(c) PROVE DInv'
      BY <2>3, LeaveSettles
  <2>4. ASSUME NEW c \in Callers, Deliver(c), UNCHANGED << instance, calls, views >>
        PROVE  DInv'
      BY <2>4, DeliverKeeps
  <2>5. ASSUME Callback, UNCHANGED << instance, calls, views >>
        PROVE  DInv'
    <3>1. PICK o \in Observer, n \in Seqs : CallbackBegins(o, n) \/ CallbackEnds(o, n)
        BY <2>5 DEF Callback
    <3>2. PICK phase \in {"running", "ok", "failed"} :
              /\ callback[<< o, n >>] \in {"ready", "running"}
              /\ callback' = [callback EXCEPT ![<< o, n >>] = phase]
              /\ delivery' = delivery
        BY <3>1 DEF CallbackBegins, CallbackEnds
    <3>3. phase \in CallbackPhases /\ phase # None
        BY DEF CallbackPhases, None
    <3> QED
        BY <2>5, <3>2, <3>3, CallbackKeeps DEF instance
  <2>6. CASE UNCHANGED << instance, calls, observing >>
    <3>1. UNCHANGED << state, seq, calls, delivery, callback >>
        BY <2>6 DEF instance, observing
    <3> QED
        BY <3>1 DEF DInv, Room, Truthful, Underway, Positioned, Ordered, PassedBy, Cur,
                    AllSettled, Settled, Offered, Ended
  <2>7. ASSUME NEW v \in Viewers, View(v) \/ Consider(v) \/ ReturnView(v)
        PROVE  UNCHANGED << instance, calls, observing >>
      BY <2>7, Zenon DEF View, Consider, ReturnView
  <2>8. UNCHANGED vars => UNCHANGED << instance, calls, observing >>
      BY DEF vars
  <2> QED
      BY <2>1, <2>2, <2>3, <2>4, <2>5, <2>6, <2>7, <2>8 DEF Next, Run
<1> QED
    BY <1>1, <1>2, InstanceInductive, PTL DEF Spec

(* Observations are delivered by Seq and then by attachment order, across all  *)
(* Fires, whatever failed or was abandoned (internal/observer/delivery.go,   *)
(* Deliver).                                                               *)
THEOREM ObservationsInOrder == Spec => []DeliveredInOrder
<1>1. DInv => DeliveredInOrder
  <2> SUFFICES ASSUME DInv, NEW o \in Observer, NEW p \in Observer,
                      NEW n \in Seqs, NEW m \in Seqs,
                      Offered(o, n), Before(p, m, o, n)
               PROVE  Settled(p, m)
      BY DEF DeliveredInOrder, Settled
  <2>1. CASE \A c \in Callers : ~Underway(delivery[c])
    <3>1. AllSettled /\ seq \in Nat
        BY <2>1, ObserversAssumption DEF DInv
    <3>2. n <= seq
        BY <3>1 DEF AllSettled
    <3>3. m <= seq
        BY <3>1, <3>2 DEF Before, Seqs
    <3> QED
        BY <3>1, <3>3 DEF AllSettled
  <2>2. ASSUME NEW c \in Callers, Underway(delivery[c]) PROVE Settled(p, m)
    <3>1. PICK d \in DeliveryType : d = delivery[c]
        BY DEF DInv
    <3>2. Positioned(d) /\ Ordered(d)
        BY <2>2, <3>1 DEF DInv
    <3>3. PassedBy(d, o, n) \/ (o = d.observer /\ n = Cur(d))
        BY <3>2 DEF Ordered
    <3>4. Cur(d) \in Int /\ d.observer \in Int /\ Observer \subseteq Int
        BY <3>2, ObserversListed, ObserversAssumption DEF Positioned, Cur, Observer
    <3>5. PassedBy(d, p, m)
        BY <3>3, <3>4 DEF PassedBy, Before, Seqs
    <3> QED
        BY <3>2, <3>5 DEF Ordered
  <2> QED
      BY <2>1, <2>2
<1> QED
    BY <1>1, DeliveryInductive, PTL

(* Fire returns the state the Instance has at its return, and no error only    *)
(* if every observer that is not contained finished what it was given        *)
(* (instance.go, Fire).                                                     *)
THEOREM ResultTruthful == Spec => []ResultTellsTruth
<1>1. DInv => ResultTellsTruth
  <2> SUFFICES ASSUME DInv, NEW c \in Callers, calls[c].pc = "leaving",
                      calls[c].err # "panic"
               PROVE  /\ calls[c].result = state
                      /\ calls[c].err = None =>
                            /\ state = calls[c].to
                            /\ \A j \in DOMAIN delivery[c].batch, o \in Observer :
                                  ~Observers[o].contained
                                  => callback[<< o, delivery[c].batch[j].seq >>] = "ok"
      BY DEF ResultTellsTruth
  <2>1. /\ calls[c].result = state
        /\ calls[c].err = None => state = calls[c].to /\ delivery[c].failures = {}
      BY DEF DInv, Truthful
  <2>2. ASSUME calls[c].err = None,
               NEW j \in DOMAIN delivery[c].batch, NEW o \in Observer,
               ~Observers[o].contained
        PROVE  callback[<< o, delivery[c].batch[j].seq >>] = "ok"
    <3>1. PICK d \in DeliveryType : d = delivery[c]
        BY DEF DInv
    <3>2. Underway(d)
      <4> SUFFICES ASSUME ~Underway(d) PROVE FALSE
          OBVIOUS
      <4>1. d = NoDelivery
          BY <3>1 DEF DInv, Truthful
      <4>2. DOMAIN d.batch = {}
        <5>1. d.batch = << >>
            BY <4>1 DEF NoDelivery
        <5> QED
            BY <5>1
      <4> QED
          BY <2>2, <3>1, <4>2
    <3>3. /\ d.phase = "done" /\ Positioned(d) /\ Ordered(d) /\ d.failures = {}
        BY <2>1, <2>2, <3>1, <3>2 DEF DInv, Truthful
    <3>4. /\ d.at = 2 /\ d.observer = Len(Observers) /\ seq \in 2 .. MaxSeq /\ MaxSeq \in Nat
          /\ Observer = 1 .. Len(Observers) /\ Len(Observers) \in Nat
        BY <3>3, ObserversListed, ObserversAssumption DEF Positioned, Observer
    <3>5. j \in 1 .. 2 /\ d.batch[1].seq = seq - 1 /\ d.batch[2].seq = seq
        BY <3>1, <3>3 DEF Positioned, DeliveryType
    <3>6. PICK n \in Seqs : n = d.batch[j].seq /\ n \in {seq - 1, seq}
        BY <3>4, <3>5 DEF Seqs
    <3>7. PassedBy(d, o, n) /\ n > seq - 2
        BY <3>3, <3>4, <3>6 DEF PassedBy, Before, Cur
    <3>8. callback[<< o, n >>] = "ok"
        BY <2>2, <3>3, <3>7 DEF Ordered
    <3> QED
        BY <3>1, <3>6, <3>8
  <2> QED
      BY <2>1, <2>2
<1> QED
    BY <1>1, DeliveryInductive, PTL
===============================================================================
