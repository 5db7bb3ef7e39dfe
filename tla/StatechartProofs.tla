-------------------------- MODULE StatechartProofs --------------------------
(***************************************************************************)
(* TLAPS proofs about the statechart, for all definitions that Compile        *)
(* accepts, all callers, actions and observers: what a Fire does with the    *)
(* compiled hierarchy.                                                     *)
(***************************************************************************)
EXTENDS Statechart, OperatorLemmas

-----------------------------------------------------------------------------
Observation == [seq : Nat, step : Nat, run : Nat, remaining : Int,
                move : {"exited", "entered"}, state : Nat]

\* An observation takes whoever applies it from node x to node y.
Follows(shape, o, x, y) ==
    \/ o.move = "exited" /\ x \in Nodes(shape) /\ o.state = x /\ y = Above(shape, x)
    \/ o.move = "entered" /\ y \in Nodes(shape) /\ o.state = y /\ x = Above(shape, y)

\* The innermost active nodes, before and after every observation.
Tracks(shape, observed, x, y, at) ==
    /\ at \in [0 .. Len(observed) -> 0 .. Size(shape)]
    /\ at[0] = x
    /\ at[Len(observed)] = y
    /\ \A n \in 1 .. Len(observed) : Follows(shape, observed[n], at[n - 1], at[n])

Tracked(shape, observed, x, y) == \E at : Tracks(shape, observed, x, y, at)

(* Whoever applied the observations so far goes on with those of the next    *)
(* commit (observe.go).                                                     *)
LEMMA TracksJoin ==
    ASSUME NEW shape, NEW x, NEW y, NEW z,
           NEW p \in Seq(Observation), NEW q \in Seq(Observation),
           Tracked(shape, p, x, y), Tracked(shape, q, y, z)
    PROVE  Tracked(shape, p \o q, x, z)
<1>1. PICK a : Tracks(shape, p, x, y, a)
    BY DEF Tracked
<1>2. PICK b : Tracks(shape, q, y, z, b)
    BY DEF Tracked
<1> DEFINE r == p \o q
           m == Len(p)
           n == Len(q)
           V == 0 .. Size(shape)
           c == [k \in 0 .. m + n |-> IF k <= m THEN a[k] ELSE b[k - m]]
<1>3. /\ m \in Nat /\ n \in Nat /\ Len(r) = m + n
      /\ \A k \in 1 .. m : r[k] = p[k]
      /\ \A k \in 1 .. n : r[m + k] = q[k]
    OBVIOUS
<1>4. /\ a \in [0 .. m -> V] /\ a[0] = x /\ a[m] = y
      /\ \A k \in 1 .. m : Follows(shape, p[k], a[k - 1], a[k])
      /\ b \in [0 .. n -> V] /\ b[0] = y /\ b[n] = z
      /\ \A k \in 1 .. n : Follows(shape, q[k], b[k - 1], b[k])
    BY <1>1, <1>2 DEF Tracks
<1> HIDE DEF r, m, n, V
<1>5. \A k \in 0 .. m + n : IF k <= m THEN k \in 0 .. m ELSE k - m \in 0 .. n
    BY <1>3
<1>6. c \in [0 .. m + n -> V]
    BY <1>4, <1>5
<1>7. /\ \A k \in 0 .. m : k \in 0 .. m + n /\ c[k] = a[k]
      /\ \A k \in 0 .. n : m + k \in 0 .. m + n /\ c[m + k] = b[k]
  <2>1. \A k \in 0 .. m : k \in 0 .. m + n /\ k <= m
      BY <1>3
  <2>2. \A k \in 0 .. n :
            /\ m + k \in 0 .. m + n
            /\ (m + k) - m = k
            /\ m + k <= m => k = 0 /\ m + k = m
      BY <1>3
  <2>3. \A k \in 0 .. m : c[k] = a[k]
      BY <2>1
  <2>4. ASSUME NEW k \in 0 .. n PROVE c[m + k] = b[k]
    <3>1. CASE m + k <= m
      <4>1. c[m + k] = a[m + k]
          BY <2>2, <3>1
      <4> HIDE DEF c
      <4> QED
          BY <1>4, <2>2, <3>1, <4>1
    <3>2. CASE ~(m + k <= m)
      <4>1. c[m + k] = b[(m + k) - m]
          BY <2>2, <3>2
      <4> HIDE DEF c
      <4> QED
          BY <2>2, <4>1
    <3> QED
        BY <3>1, <3>2
  <2> HIDE DEF c
  <2> QED
      BY <2>1, <2>2, <2>3, <2>4
<1> HIDE DEF c
<1>8. c[0] = x /\ c[m + n] = z
  <2>1. 0 \in 0 .. m /\ n \in 0 .. n
      BY <1>3
  <2> QED
      BY <1>4, <1>7, <2>1
<1>9. ASSUME NEW k \in 1 .. m + n PROVE Follows(shape, r[k], c[k - 1], c[k])
  <2>1. CASE k <= m
    <3>1. k \in 1 .. m /\ k \in 0 .. m /\ k - 1 \in 0 .. m
        BY <1>3, <2>1
    <3>2. c[k] = a[k] /\ c[k - 1] = a[k - 1] /\ r[k] = p[k]
        BY <1>3, <1>7, <3>1
    <3> QED
        BY <1>4, <3>1, <3>2
  <2>2. CASE k > m
    <3> DEFINE j == k - m
    <3>1. j \in 1 .. n /\ j \in 0 .. n /\ j - 1 \in 0 .. n /\ m + j = k /\ m + (j - 1) = k - 1
        BY <1>3, <2>2
    <3> HIDE DEF j
    <3>2. c[k] = b[j] /\ c[k - 1] = b[j - 1] /\ r[k] = q[j]
        BY <1>3, <1>7, <3>1
    <3> QED
        BY <1>4, <3>1, <3>2
  <2> QED
      BY <1>3, <2>1, <2>2
<1>10. Tracks(shape, r, x, z, c)
    BY <1>3, <1>6, <1>8, <1>9 DEF Tracks, V
<1> QED
    BY <1>10 DEF Tracked, r

(* The observations of one commit, applied one by one, lead from its source  *)
(* to its destination (observe.go, deliverTransitionObservations).           *)
LEMMA BatchTracked ==
    ASSUME NEW shape, Hierarchy(shape), NEW n \in Nat, NEW source \in Nodes(shape),
           NEW destination \in Nodes(shape), NEW exits, NEW entries, NEW stop,
           Leads(shape, source, destination, exits, entries, stop)
    PROVE  /\ Batch(n, exits, entries) \in Seq(Observation)
           /\ Len(Batch(n, exits, entries)) = Len(exits) + Len(entries)
           /\ Tracked(shape, Batch(n, exits, entries), source, destination)
<1> DEFINE V == 0 .. Size(shape)
           e == Level(shape, source) - Level(shape, stop)
           m == Level(shape, destination) - Level(shape, stop)
           t == e + m
           batch == Batch(n, exits, entries)
           at == [k \in 0 .. t |-> IF k <= e THEN Up(shape, source, k)
                                  ELSE Up(shape, destination, t - k)]
<1>1. /\ source \in V /\ source # 0 /\ destination \in V /\ destination # 0
      /\ stop \in V
    BY DEF Nodes, Hierarchy, Leads, AtOrAbove
<1>2. /\ e \in Nat /\ m \in Nat /\ e <= Level(shape, source) /\ m <= Level(shape, destination)
      /\ Level(shape, source) \in Nat /\ Level(shape, destination) \in Nat
  <2>1. /\ Level(shape, source) \in Nat /\ Level(shape, destination) \in Nat
        /\ Level(shape, stop) \in Nat
      BY <1>1, UpLevels
  <2>2. Level(shape, stop) <= Level(shape, source) /\ Level(shape, stop) <= Level(shape, destination)
      BY DEF Leads, AtOrAbove
  <2> QED
      BY <2>1, <2>2
<1>3. /\ exits = [k \in 1 .. e |-> Up(shape, source, k - 1)]
      /\ entries = [k \in 1 .. m |-> Up(shape, destination, m - k)]
      /\ stop = Up(shape, source, e) /\ stop = Up(shape, destination, m)
    BY DEF Leads, AtOrAbove
<1> HIDE DEF e, m, V
<1>4. \A k \in Nat : Up(shape, source, k) \in V /\ Up(shape, destination, k) \in V
    BY <1>1, UpFacts DEF V
<1>5. V \subseteq Nat
    BY DEF V, Hierarchy
<1>6. Len(exits) = e /\ Len(entries) = m
  <2>1. \A k \in 1 .. e : k - 1 \in Nat
      BY <1>2
  <2>2. \A k \in 1 .. m : m - k \in Nat
      BY <1>2
  <2>3. exits \in [1 .. e -> V] /\ entries \in [1 .. m -> V]
      BY <1>3, <1>4, <2>1, <2>2
  <2> QED
      BY <1>2, <2>3
<1>7. batch = [j \in 1 .. t |->
            [seq |-> n + j, step |-> n + 1, run |-> n + 1, remaining |-> t - j,
             move |-> IF j <= e THEN "exited" ELSE "entered",
             state |-> IF j <= e THEN exits[j] ELSE entries[j - e]]]
    BY <1>6 DEF Batch
<1>8. ASSUME NEW j \in 1 .. t
      PROVE  /\ batch[j] \in Observation
             /\ Follows(shape, batch[j], at[j - 1], at[j])
  <2>1. batch[j] = [seq |-> n + j, step |-> n + 1, run |-> n + 1, remaining |-> t - j,
             move |-> IF j <= e THEN "exited" ELSE "entered",
             state |-> IF j <= e THEN exits[j] ELSE entries[j - e]]
      BY <1>7
  <2>2. /\ j \in 0 .. t /\ j - 1 \in 0 .. t /\ n + j \in Nat /\ n + 1 \in Nat
        /\ t - j \in Nat /\ t - j \in Int /\ j \in Nat /\ j - 1 \in Nat
      BY <1>2
  <2> HIDE DEF batch
  <2>3. CASE j <= e
    <3>1. j \in 1 .. e /\ j - 1 <= e /\ j - 1 < Level(shape, source)
          /\ j - 1 \in 0 .. Level(shape, source) /\ (j - 1) + 1 = j
        BY <1>2, <2>2, <2>3
    <3>2. exits[j] = Up(shape, source, j - 1) /\ exits[j] \in V
        BY <1>3, <1>4, <2>2, <3>1
    <3>3. at[j - 1] = Up(shape, source, j - 1) /\ at[j] = Up(shape, source, j)
        BY <2>2, <2>3, <3>1
    <3> HIDE DEF at, t
    <3>4. at[j] = Above(shape, at[j - 1])
        BY <1>1, <2>2, <3>1, <3>3, UpFacts DEF V
    <3>5. at[j - 1] # 0
      <4>1. Level(shape, Up(shape, source, j - 1)) = Level(shape, source) - (j - 1)
          BY <1>1, <3>1, UpLevels DEF V
      <4>2. Level(shape, source) - (j - 1) # 0
          BY <1>2, <3>1
      <4> QED
          BY <3>3, <4>1, <4>2 DEF Level
    <3>6. at[j - 1] \in Nodes(shape)
        BY <2>2, <3>3, <3>5, <1>4 DEF V, Nodes
    <3>7. batch[j].move = "exited" /\ batch[j].state = exits[j]
        BY <2>1, <2>3
    <3>8. batch[j] \in Observation
      <4>1. batch[j] = [seq |-> n + j, step |-> n + 1, run |-> n + 1, remaining |-> t - j,
                        move |-> "exited", state |-> exits[j]]
          BY <2>1, <2>3
      <4>2. exits[j] \in Nat
          BY <1>5, <3>2
      <4> QED
          BY <2>2, <4>1, <4>2 DEF Observation
    <3> QED
        BY <3>2, <3>3, <3>4, <3>6, <3>7, <3>8 DEF Follows
  <2>4. CASE ~(j <= e)
    <3>1. /\ j - e \in 1 .. m /\ m - (j - e) = t - j /\ t - (j - 1) = (t - j) + 1
          /\ t - j < Level(shape, destination) /\ t - j \in 0 .. Level(shape, destination)
          /\ j - 1 <= e => j - 1 = e /\ (t - j) + 1 = m
        BY <1>2, <2>2, <2>4
    <3>2. entries[j - e] = Up(shape, destination, t - j) /\ entries[j - e] \in V
      <4> HIDE DEF t, at
      <4>1. entries[j - e] = Up(shape, destination, m - (j - e))
          BY <1>3, <3>1
      <4> QED
          BY <1>4, <2>2, <3>1, <4>1
    <3>3. at[j] = Up(shape, destination, t - j)
        BY <2>2, <2>4
    <3>4. at[j - 1] = Up(shape, destination, (t - j) + 1)
      <4>1. CASE j - 1 <= e
        <5>1. at[j - 1] = Up(shape, source, e)
            BY <2>2, <3>1, <4>1
        <5> HIDE DEF t, at
        <5> QED
            BY <1>3, <3>1, <4>1, <5>1
      <4>2. CASE ~(j - 1 <= e)
        <5>1. at[j - 1] = Up(shape, destination, t - (j - 1))
            BY <2>2, <4>2
        <5> HIDE DEF t, at
        <5> QED
            BY <3>1, <5>1
      <4> QED
          BY <4>1, <4>2
    <3> HIDE DEF at, t
    <3>5. at[j - 1] = Above(shape, at[j])
        BY <1>1, <2>2, <3>3, <3>4, UpFacts DEF V
    <3>6. at[j] # 0
      <4>1. Level(shape, Up(shape, destination, t - j)) = Level(shape, destination) - (t - j)
          BY <1>1, <3>1, UpLevels DEF V
      <4>2. Level(shape, destination) - (t - j) # 0
          BY <1>2, <2>2, <3>1
      <4> QED
          BY <3>3, <4>1, <4>2 DEF Level
    <3>7. at[j] \in Nodes(shape)
        BY <2>2, <3>3, <3>6, <1>4 DEF V, Nodes
    <3>8. batch[j].move = "entered" /\ batch[j].state = entries[j - e]
        BY <2>1, <2>4
    <3>9. batch[j] \in Observation
      <4>1. batch[j] = [seq |-> n + j, step |-> n + 1, run |-> n + 1, remaining |-> t - j,
                        move |-> "entered", state |-> entries[j - e]]
          BY <2>1, <2>4
      <4>2. entries[j - e] \in Nat
          BY <1>5, <3>2
      <4> QED
          BY <2>2, <4>1, <4>2 DEF Observation
    <3> QED
        BY <3>2, <3>3, <3>5, <3>7, <3>8, <3>9 DEF Follows
  <2> QED
      BY <2>3, <2>4
<1>9. batch \in Seq(Observation) /\ Len(batch) = t
  <2>1. t \in Nat
      BY <1>2
  <2>2. batch \in [1 .. t -> Observation]
    <3>1. DOMAIN batch = 1 .. t /\ batch = [j \in 1 .. t |-> batch[j]]
        BY <1>7
    <3> HIDE DEF batch, t, at
    <3> QED
        BY <1>8, <3>1
  <2> HIDE DEF batch, t
  <2> QED
      BY <2>1, <2>2
<1>10. at \in [0 .. t -> V] /\ at[0] = source /\ at[t] = destination
  <2>1. \A k \in 0 .. t : k \in Nat /\ t - k \in Nat
      BY <1>2
  <2>2. at \in [0 .. t -> V]
      BY <1>4, <2>1
  <2>3. 0 \in 0 .. t /\ t \in 0 .. t /\ 0 <= e /\ t - t = 0 /\ (t <= e => t = e /\ m = 0)
      BY <1>2
  <2>4. at[0] = Up(shape, source, 0)
      BY <2>3
  <2>5. at[t] = Up(shape, destination, 0)
    <3>1. CASE t <= e
      <4>1. at[t] = Up(shape, source, e)
          BY <2>3, <3>1
      <4> HIDE DEF t, at
      <4> QED
          BY <1>3, <2>3, <3>1, <4>1
    <3>2. CASE ~(t <= e)
      <4>1. at[t] = Up(shape, destination, t - t)
          BY <2>3, <3>2
      <4> QED
          BY <2>3, <4>1
    <3> QED
        BY <3>1, <3>2
  <2> QED
      BY <1>1, <2>2, <2>4, <2>5, UpFacts DEF V
<1>11. Tracks(shape, batch, source, destination, at)
  <2> HIDE DEF batch, at, t
  <2> QED
      BY <1>8, <1>9, <1>10 DEF Tracks, V
<1> QED
    BY <1>6, <1>9, <1>11 DEF Tracked

\* The active states after observation o, if they were active before it.
Applied(shape, active, o) ==
    CASE /\ o.move = "exited"
         /\ active # << >>
         /\ Head(active) = o.state -> Tail(active)
      [] /\ o.move = "entered"
         /\ shape.parent[o.state]
            = (IF active = << >> THEN 0 ELSE Head(active)) -> << o.state >> \o active
      [] OTHER -> << 0 >>

(* An observation that follows takes one lineage to the other (observe.go).  *)
LEMMA AppliedFollows ==
    ASSUME NEW shape, Hierarchy(shape), NEW o \in Observation,
           NEW x \in 0 .. Size(shape), NEW y \in 0 .. Size(shape), Follows(shape, o, x, y)
    PROVE  Applied(shape, Lineage(shape, x), o) = Lineage(shape, y)
<1> DEFINE a == Lineage(shape, x)
<1>1. CASE o.move = "exited" /\ x \in Nodes(shape) /\ o.state = x /\ y = Above(shape, x)
  <2>1. a # << >> /\ Head(a) = x /\ Tail(a) = Lineage(shape, y)
      BY <1>1, LineageFacts
  <2> HIDE DEF a
  <2>2. Applied(shape, a, o) = Tail(a)
      BY <1>1, <2>1 DEF Applied
  <2> QED
      BY <2>1, <2>2 DEF a
<1>2. CASE o.move = "entered" /\ y \in Nodes(shape) /\ o.state = y /\ x = Above(shape, y)
  <2>1. << y >> \o a = Lineage(shape, y)
      BY <1>2, LineageFacts
  <2>2. y # 0 /\ shape.parent[y] = x
      BY <1>2 DEF Above, Nodes, Hierarchy
  <2>3. x = (IF a = << >> THEN 0 ELSE Head(a))
    <3>1. CASE x = 0
      <4>1. a = << >>
          BY <1>2, <3>1, LineageFacts
      <4> QED
          BY <3>1, <4>1
    <3>2. CASE x # 0
      <4>1. x \in Nodes(shape)
          BY <3>2 DEF Nodes, Hierarchy
      <4>2. a # << >> /\ Head(a) = x
          BY <4>1, LineageFacts
      <4> HIDE DEF a
      <4> QED
          BY <4>2
    <3> QED
        BY <3>1, <3>2
  <2> HIDE DEF a
  <2>4. o.move # "exited"
      BY <1>2
  <2>5. Applied(shape, a, o) = << o.state >> \o a
      BY <1>2, <2>2, <2>3, <2>4 DEF Applied
  <2> QED
      BY <1>2, <2>1, <2>5 DEF a
<1> QED
    BY <1>1, <1>2 DEF Follows

(* Observations that lead from the first state to the active one, applied    *)
(* one by one, leave the lineage of the active one (observe.go).             *)
LEMMA TrackedReplays ==
    ASSUME Hierarchy(chart.shape), first \in Nodes(chart.shape), state \in Nodes(chart.shape),
           published \in Seq(Observation), Tracked(chart.shape, published, first, state)
    PROVE  Replay = Path(chart.shape, state)
<1> DEFINE L == Len(published)
           Lin(x) == Lineage(chart.shape, x)
           Good(g) == g = [n \in 0 .. L |->
                              IF n = 0 THEN Path(chart.shape, first)
                              ELSE Applied(chart.shape, g[n - 1], published[n])]
           c == CHOOSE g : Good(g)
<1>1. L \in Nat /\ \A n \in 1 .. L : published[n] \in Observation
    OBVIOUS
<1>2. PICK at : Tracks(chart.shape, published, first, state, at)
    BY DEF Tracked
<1>3. /\ at \in [0 .. L -> 0 .. Size(chart.shape)] /\ at[0] = first /\ at[L] = state
      /\ \A n \in 1 .. L : Follows(chart.shape, published[n], at[n - 1], at[n])
    BY <1>2 DEF Tracks
<1> HIDE DEF L, Lin
<1>4. Lin(first) = Path(chart.shape, first) /\ Lin(state) = Path(chart.shape, state)
    BY LineageFacts DEF Lin
<1>5. \A n \in 1 .. L : Applied(chart.shape, Lin(at[n - 1]), published[n]) = Lin(at[n])
  <2> TAKE n \in 1 .. L
  <2>1. n \in 0 .. L /\ n - 1 \in 0 .. L
      BY <1>1
  <2> QED
      BY <1>1, <1>3, <2>1, AppliedFollows DEF Lin
<1>6. \E g : Good(g)
  <2> DEFINE g == [n \in 0 .. L |-> Lin(at[n])]
             h == [n \in 0 .. L |->
                              IF n = 0 THEN Path(chart.shape, first)
                              ELSE Applied(chart.shape, g[n - 1], published[n])]
  <2>1. ASSUME NEW n \in 0 .. L PROVE g[n] = h[n]
    <3>1. CASE n = 0
        BY <1>3, <1>4, <3>1
    <3>2. CASE n # 0
      <4>1. n \in 1 .. L /\ n - 1 \in 0 .. L
          BY <1>1, <3>2
      <4>2. g[n - 1] = Lin(at[n - 1]) /\ g[n] = Lin(at[n])
          BY <4>1
      <4>3. h[n] = Applied(chart.shape, g[n - 1], published[n])
          BY <3>2
      <4> HIDE DEF g, h
      <4> QED
          BY <1>5, <4>1, <4>2, <4>3
    <3> QED
        BY <3>1, <3>2
  <2>2. g = h
      BY <2>1
  <2>3. Good(g)
      BY <2>2
  <2> QED
      BY <2>3
<1>7. Good(c)
  <2> HIDE DEF Good
  <2> QED
      BY <1>6
<1>8. /\ c[0] = Path(chart.shape, first)
      /\ \A n \in 1 .. L : c[n] = Applied(chart.shape, c[n - 1], published[n])
  <2>1. 0 \in 0 .. L /\ \A n \in 1 .. L : n \in 0 .. L /\ n # 0
      BY <1>1
  <2> HIDE DEF c
  <2> QED
      BY <1>7, <2>1
<1>9. Replay = c[L]
    BY DEF Replay, L, c, Good, Applied
<1> HIDE DEF c, Good
<1> DEFINE T == {n \in Nat : n <= L => c[n] = Lin(at[n])}
<1>10. 0 \in T
    BY <1>3, <1>4, <1>8
<1>11. ASSUME NEW n \in Nat, n \in T PROVE n + 1 \in T
  <2> SUFFICES ASSUME n + 1 <= L PROVE c[n + 1] = Lin(at[n + 1])
      OBVIOUS
  <2>1. n + 1 \in 1 .. L /\ (n + 1) - 1 = n /\ c[n] = Lin(at[n])
      BY <1>1, <1>11
  <2>2. c[n + 1] = Applied(chart.shape, c[n], published[n + 1])
      BY <1>8, <2>1
  <2>3. Applied(chart.shape, Lin(at[n]), published[n + 1]) = Lin(at[n + 1])
      BY <1>5, <2>1
  <2> QED
      BY <2>1, <2>2, <2>3
<1>12. Nat \subseteq T
  <2> HIDE DEF T
  <2> QED
      BY <1>10, <1>11, InductOn
<1>13. c[L] = Lin(at[L])
    BY <1>1, <1>12
<1> QED
    BY <1>3, <1>4, <1>9, <1>13

-----------------------------------------------------------------------------
\* The exit and entry actions of the states of a Chart are lists.
ActionsListed(ch) ==
    \A i \in Nodes(ch.shape) : /\ ExitActions[ch.shape.state[i]] \in Seq(BOOLEAN)
                               /\ EntryActions[ch.shape.state[i]] \in Seq(BOOLEAN)

ActionType == [phase : {"exit", "effect", "entry"}, node : Nat, index : Nat]

\* Actions, for the Chart given.
ActionsOf(ch, phase, nodes, actions) ==
    LET of(i) == LET a == actions[ch.shape.state[i]]
                     run == Positions(a)
                 IN  [k \in DOMAIN run |-> [phase |-> phase, node |-> i, index |-> run[k]]]
    IN  FlattenSeq([j \in DOMAIN nodes |-> of(nodes[j])])

\* All the actions of a call.
All(ch, call) ==
    Lifecycle(ActionsOf(ch, "exit", call.exits, ExitActions),
              ActionsOf(ch, "entry", call.entries, EntryActions))

CallType ==
    [pc : {"idle", "refused", "selecting", "acting", "delivering", "leaving"},
     source : Nat, event : Events \cup {None}, at : Nat, row : Nat,
     exits : Seq(Nat), entries : Seq(Nat), todo : Seq(ActionType), ran : Seq(ActionType),
     error : [err : {None, "inFlight", "invalidKey", "notPermitted", "panic", "action", "observer"},
              phase : {None, "exit", "effect", "entry"}, node : Nat, index : Nat, completed : Nat],
     result : Nat]

InFlight(call) == call.pc \in {"selecting", "acting", "delivering", "leaving"}

\* The candidates before the j-th have a Guard, which declined.
PassedOver(ch, call, j) ==
    \A k \in 1 .. j - 1 :
        ch.transitions[Candidates(ch, call.source, call.event)[k].row].guarded

Chosen(ch, call) ==
    \E j \in 1 .. Len(Candidates(ch, call.source, call.event)) :
        /\ call.row = Candidates(ch, call.source, call.event)[j].row
        /\ PassedOver(ch, call, j)

Routed(ch, call) ==
    LET t == ch.transitions[call.row]
        p == Paths(ch.shape, call.source, IndexOf(ch.shape.state, t.to),
                   DestinationOf(ch, call.source, call.row), t.kind = "reentry")
    IN  IF t.kind = "internal" THEN call.exits = << >> /\ call.entries = << >>
        ELSE call.exits = p.exits /\ call.entries = p.entries

\* The error names the action that failed and counts those of its phase before it.
Reported(ch, call) ==
    /\ [phase |-> call.error.phase, node |-> call.error.node, index |-> call.error.index]
       = All(ch, call)[Len(call.ran) + 1]
    /\ call.error.phase # "effect" =>
          call.error.completed
          = Cardinality({j \in DOMAIN call.ran : call.ran[j].phase = call.error.phase})

\* What a call knows: st is the state of the Instance.
CallInv(ch, st, call) ==
    /\ call \in CallType
    /\ call.pc # "leaving" => call.error.err # "action"
    /\ call.pc \in {"selecting", "acting", "delivering"} => call.error.err = None
    /\ call.pc \in {"selecting", "acting"} => call.source = st
    /\ call.pc = "selecting" => /\ call.at # 0 /\ PassedOver(ch, call, call.at)
                                /\ call.exits = << >> /\ call.entries = << >>
                                /\ call.ran = << >>
    /\ call.pc = "acting" => /\ Chosen(ch, call)
                             /\ Routed(ch, call)
                             /\ call.ran \o call.todo = All(ch, call)
    /\ \/ call.pc = "delivering"
       \/ call.pc = "leaving" /\ call.error.err \in {None, "observer"}
       => call.ran = All(ch, call) /\ st = call.result
    /\ call.pc = "leaving" /\ call.error.err \notin {None, "observer"} => st = call.source
    /\ call.error.err = "action" => Reported(ch, call)

CallsInv ==
    /\ calls \in [Callers -> CallType]
    /\ \A c \in Callers : CallInv(chart, state, calls[c])

\* One Fire at a time is in flight.
FlightInv ==
    /\ \A c \in Callers : InFlight(calls[c]) => inFlight
    /\ \A c, d \in Callers : InFlight(calls[c]) /\ InFlight(calls[d]) => c = d

InstanceInv ==
    /\ ChartSound(chart) /\ ActionsListed(chart)
    /\ state \in Nodes(chart.shape)
    /\ first \in Nodes(chart.shape)
    /\ seq \in Nat
    /\ published \in Seq(Observation)
    /\ Observers # << >> => Tracked(chart.shape, published, first, state)

SInv == InstanceInv /\ FlightInv /\ CallsInv

(* The actions of some states are a list (statechart.go, Fire).              *)
LEMMA ActionsFacts ==
    ASSUME NEW ch, NEW nodes \in Seq(Nat), NEW phase \in {"exit", "entry"}, NEW actions,
           \A j \in 1 .. Len(nodes) : actions[ch.shape.state[nodes[j]]] \in Seq(BOOLEAN)
    PROVE  /\ ActionsOf(ch, phase, nodes, actions) \in Seq(ActionType)
           /\ nodes = << >> => ActionsOf(ch, phase, nodes, actions) = << >>
<1> DEFINE a(i) == actions[ch.shape.state[i]]
           of(i) == [k \in DOMAIN Positions(a(i)) |->
                        [phase |-> phase, node |-> i, index |-> Positions(a(i))[k]]]
           ss == [j \in DOMAIN nodes |-> of(nodes[j])]
<1>1. Len(nodes) \in Nat /\ DOMAIN nodes = 1 .. Len(nodes) /\ \A j \in 1 .. Len(nodes) : nodes[j] \in Nat
    OBVIOUS
<1>2. ASSUME NEW i \in Nat, a(i) \in Seq(BOOLEAN) PROVE of(i) \in Seq(ActionType)
  <2> DEFINE q == a(i)
             r == Positions(q)
  <2>1. Len(q) \in Nat /\ DOMAIN q = 1 .. Len(q)
      BY <1>2
  <2> HIDE DEF q
  <2>2. r \in Seq(1 .. Len(q))
      BY <2>1, PositionsFacts
  <2> HIDE DEF r
  <2>3. Len(r) \in Nat /\ DOMAIN r = 1 .. Len(r) /\ \A k \in 1 .. Len(r) : r[k] \in Nat
      BY <2>1, <2>2
  <2>4. \A k \in 1 .. Len(r) : [phase |-> phase, node |-> i, index |-> r[k]] \in ActionType
      BY <2>3 DEF ActionType
  <2>5. [k \in 1 .. Len(r) |-> [phase |-> phase, node |-> i, index |-> r[k]]]
        \in [1 .. Len(r) -> ActionType]
      BY <2>4
  <2>6. of(i) = [k \in 1 .. Len(r) |-> [phase |-> phase, node |-> i, index |-> r[k]]]
      BY <2>3 DEF r, q
  <2>7. of(i) \in [1 .. Len(r) -> ActionType]
      BY <2>5, <2>6
  <2> HIDE DEF of
  <2> QED
      BY <2>3, <2>7, ListOf
<1>3. ss \in Seq(Seq(ActionType))
  <2>1. \A j \in 1 .. Len(nodes) : of(nodes[j]) \in Seq(ActionType)
    <3> TAKE j \in 1 .. Len(nodes)
    <3>1. nodes[j] \in Nat /\ a(nodes[j]) \in Seq(BOOLEAN)
        BY <1>1
    <3> HIDE DEF a, of
    <3> QED
        BY SMTT(60), <1>2, <3>1
  <2> HIDE DEF of
  <2>2. ss \in [1 .. Len(nodes) -> Seq(ActionType)]
      BY <1>1, <2>1
  <2> HIDE DEF ss
  <2> QED
      BY <1>1, <2>2, ListOf
<1>4. nodes = << >> => ss = << >>
    OBVIOUS
<1>5. ActionsOf(ch, phase, nodes, actions) = FlattenSeq(ss)
    BY DEF ActionsOf
<1> HIDE DEF ss
<1>6. FlattenSeq(ss) \in Seq(ActionType) /\ (ss = << >> => FlattenSeq(ss) = << >>)
    BY <1>3, FlattenFacts
<1> QED
    BY <1>4, <1>5, <1>6

(* The states that a transition leaves and enters are nodes (position.go,    *)
(* paths).                                                                  *)
LEMMA LeadsNodes ==
    ASSUME NEW shape, Hierarchy(shape), NEW source \in Nodes(shape),
           NEW destination \in Nodes(shape), NEW exits, NEW entries, NEW stop,
           Leads(shape, source, destination, exits, entries, stop)
    PROVE  exits \in Seq(Nodes(shape)) /\ entries \in Seq(Nodes(shape))
<1> DEFINE e == Level(shape, source) - Level(shape, stop)
           m == Level(shape, destination) - Level(shape, stop)
<1>1. /\ source \in 0 .. Size(shape) /\ destination \in 0 .. Size(shape)
      /\ stop \in 0 .. Size(shape)
    BY DEF Nodes, Hierarchy, Leads, AtOrAbove
<1>2. /\ Level(shape, source) \in Nat /\ Level(shape, destination) \in Nat
      /\ Level(shape, stop) \in Nat
    BY <1>1, UpLevels
<1>3. Level(shape, stop) <= Level(shape, source) /\ Level(shape, stop) <= Level(shape, destination)
    BY DEF Leads, AtOrAbove
<1>4. e \in Nat /\ m \in Nat
    BY <1>2, <1>3
<1>5. ASSUME NEW i \in 0 .. Size(shape), NEW k \in 0 .. Level(shape, i), k # Level(shape, i)
      PROVE  Up(shape, i, k) \in Nodes(shape)
  <2>1. k \in Nat /\ Level(shape, i) \in Nat /\ Level(shape, i) - k # 0
      BY <1>5, UpLevels
  <2>2. Up(shape, i, k) \in 0 .. Size(shape) /\ Level(shape, Up(shape, i, k)) = Level(shape, i) - k
      BY <1>5, <2>1, UpFacts, UpLevels
  <2>3. Up(shape, i, k) # 0
      BY <2>1, <2>2 DEF Level
  <2> QED
      BY <2>2, <2>3 DEF Nodes, Hierarchy
<1>6. \A k \in 1 .. e : k - 1 \in 0 .. Level(shape, source) /\ k - 1 # Level(shape, source)
    BY <1>2, <1>3
<1>7. \A k \in 1 .. m : m - k \in 0 .. Level(shape, destination) /\ m - k # Level(shape, destination)
    BY <1>2, <1>3
<1>8. exits = [k \in 1 .. e |-> Up(shape, source, k - 1)]
      /\ entries = [k \in 1 .. m |-> Up(shape, destination, m - k)]
    BY DEF Leads
<1> HIDE DEF e, m
<1>9. exits \in [1 .. e -> Nodes(shape)]
    BY <1>1, <1>5, <1>6, <1>8
<1>10. entries \in [1 .. m -> Nodes(shape)]
    BY <1>1, <1>5, <1>7, <1>8
<1> QED
    BY <1>4, <1>9, <1>10

(* An action that is done goes from the front of those to do to the end of   *)
(* those done (statechart.go, Fire).                                        *)
LEMMA Shifted ==
    ASSUME NEW S, NEW ran \in Seq(S), NEW todo \in Seq(S), todo # << >>
    PROVE  /\ Append(ran, Head(todo)) \o Tail(todo) = ran \o todo
           /\ (ran \o todo)[Len(ran) + 1] = Head(todo)
<1>1. Append(ran, Head(todo)) = ran \o << Head(todo) >>
    OBVIOUS
<1>2. << Head(todo) >> \o Tail(todo) = todo
    OBVIOUS
<1>3. (ran \o << Head(todo) >>) \o Tail(todo) = ran \o (<< Head(todo) >> \o Tail(todo))
    OBVIOUS
<1>4. (ran \o todo)[Len(ran) + 1] = Head(todo)
    OBVIOUS
<1> QED
    BY <1>1, <1>2, <1>3, <1>4

(* Exits, effect and entries are a list; without exits and entries it is the *)
(* effect alone (statechart.go, Fire).                                      *)
LEMMA AllFacts ==
    ASSUME NEW ch, ChartSound(ch), ActionsListed(ch),
           NEW exits \in Seq(Nodes(ch.shape)), NEW entries \in Seq(Nodes(ch.shape))
    PROVE  LET all == Lifecycle(ActionsOf(ch, "exit", exits, ExitActions),
                                ActionsOf(ch, "entry", entries, EntryActions))
           IN  /\ all \in Seq(ActionType)
               /\ exits = << >> /\ entries = << >> => all = << Effect >>
<1> DEFINE x == ActionsOf(ch, "exit", exits, ExitActions)
           e == ActionsOf(ch, "entry", entries, EntryActions)
<1>1. ASSUME NEW nodes \in Seq(Nodes(ch.shape))
      PROVE  /\ nodes \in Seq(Nat)
             /\ \A j \in 1 .. Len(nodes) :
                   /\ ExitActions[ch.shape.state[nodes[j]]] \in Seq(BOOLEAN)
                   /\ EntryActions[ch.shape.state[nodes[j]]] \in Seq(BOOLEAN)
  <2>1. Nodes(ch.shape) \subseteq Nat
      BY DEF Nodes, ChartSound, Hierarchy
  <2>2. nodes \in Seq(Nat)
      BY <2>1
  <2>3. \A j \in 1 .. Len(nodes) : nodes[j] \in Nodes(ch.shape)
      OBVIOUS
  <2> QED
      BY <2>2, <2>3 DEF ActionsListed
<1>2. x \in Seq(ActionType) /\ (exits = << >> => x = << >>)
    BY <1>1, ActionsFacts
<1>3. e \in Seq(ActionType) /\ (entries = << >> => e = << >>)
    BY <1>1, ActionsFacts
<1>4. Effect \in ActionType
    BY DEF Effect, ActionType
<1> HIDE DEF x, e
<1>5. << Effect >> \in Seq(ActionType)
    BY <1>4
<1>6. x \o << Effect >> \o e \in Seq(ActionType)
    BY <1>2, <1>3, <1>5
<1>7. x = << >> /\ e = << >> => x \o << Effect >> \o e = << Effect >>
    BY <1>4, <1>5
<1> QED
    BY <1>2, <1>3, <1>6, <1>7 DEF Lifecycle, x, e

(* What the callers know that have no Fire in flight does not depend on the  *)
(* state (statechart.go, Fire).                                             *)
LEMMA Unconcerned ==
    ASSUME NEW ch, NEW st, NEW next, NEW call, CallInv(ch, st, call),
           next = st \/ ~InFlight(call)
    PROVE  CallInv(ch, next, call)
<1>1. CASE next = st
    BY <1>1
<1>2. CASE ~InFlight(call)
    BY <1>2 DEF CallInv, InFlight
<1> QED
    BY <1>1, <1>2

(* A step writes one call, and the state only if that call is in flight      *)
(* (statechart.go, Fire).                                                   *)
LEMMA CallWritten ==
    ASSUME CallsInv, FlightInv, chart' = chart, NEW c \in Callers, NEW call, Set(c, call),
           CallInv(chart, state', call),
           state' = state \/ InFlight(calls[c])
    PROVE  CallsInv'
<1>1. calls' = [calls EXCEPT ![c] = call] /\ calls \in [Callers -> CallType]
    BY DEF Set, CallsInv
<1>2. call \in CallType
    BY DEF CallInv
<1>3. calls' \in [Callers -> CallType]
    BY <1>1, <1>2
<1>4. ASSUME NEW d \in Callers PROVE CallInv(chart, state', calls'[d])
  <2>1. CASE d = c
    <3>1. calls'[d] = call
        BY <1>1, <2>1
    <3> QED
        BY <3>1
  <2>2. CASE d # c
    <3>1. calls'[d] = calls[d]
        BY <1>1, <2>2
    <3>2. state' = state \/ ~InFlight(calls[d])
        BY <2>2 DEF FlightInv
    <3>3. CallInv(chart, state, calls[d])
        BY DEF CallsInv
    <3> QED
        BY <3>1, <3>2, <3>3, Unconcerned
  <2> QED
      BY <2>1, <2>2
<1> QED
    BY <1>3, <1>4 DEF CallsInv

(* The mark belongs to one Fire, which keeps it until it leaves              *)
(* (statechart.go, Fire: inFlight).                                         *)
LEMMA FlightKept ==
    ASSUME CallsInv, FlightInv, inFlight' = inFlight, NEW c \in Callers, NEW call, Set(c, call),
           InFlight(call) => InFlight(calls[c])
    PROVE  FlightInv'
<1>1. calls' = [calls EXCEPT ![c] = call] /\ calls \in [Callers -> CallType]
    BY DEF Set, CallsInv
<1>2. \A d \in Callers : InFlight(calls'[d]) => InFlight(calls[d])
  <2> TAKE d \in Callers
  <2>1. d = c => calls'[d] = call
      BY <1>1
  <2>2. d # c => calls'[d] = calls[d]
      BY <1>1
  <2> QED
      BY <2>1, <2>2
<1> QED
    BY <1>2 DEF FlightInv

(* A Fire that fails before its commit leaves the state as it was            *)
(* (statechart.go, Fire).                                                   *)
LEMMA FailingInv ==
    ASSUME NEW call, CallInv(chart, state, call), call.pc \in {"selecting", "acting"},
           NEW err \in {"invalidKey", "notPermitted", "panic"}
    PROVE  CallInv(chart, state, Failing(call, err))
<1> DEFINE n == Failing(call, err)
<1>1. call \in CallType /\ state = call.source
    BY DEF CallInv
<1>2. /\ n \in CallType
      /\ n.pc = "leaving" /\ n.error.err = err /\ n.source = call.source
    BY <1>1 DEF Failing, CallType
<1> HIDE DEF n
<1>3. err \notin {None, "observer", "action"}
    BY DEF None
<1> QED
    BY <1>1, <1>2, <1>3 DEF CallInv, n

(* A row that is selected is a candidate, and its exits, effect and entries  *)
(* are all still to run (statechart.go, Fire).                              *)
LEMMA SelectedInv ==
    ASSUME NEW call, ChartSound(chart), ActionsListed(chart), state \in Nodes(chart.shape),
           CallInv(chart, state, call), call.pc = "selecting",
           call.at <= Len(Candidates(chart, call.source, call.event))
    PROVE  CallInv(chart, state, Selected(call, call.at))
<1> DEFINE candidates == Candidates(chart, call.source, call.event)
           row == candidates[call.at].row
           t == chart.transitions[row]
           target == IndexOf(chart.shape.state, t.to)
           destination == DestinationOf(chart, call.source, row)
           p == Paths(chart.shape, call.source, target, destination, t.kind = "reentry")
           x == Actions("exit", p.exits, ExitActions)
           e == Actions("entry", p.entries, EntryActions)
           n == Selected(call, call.at)
<1>1. /\ call \in CallType /\ state = call.source /\ call.at # 0
      /\ call.exits = << >> /\ call.entries = << >> /\ call.ran = << >>
      /\ call.error.err = None /\ PassedOver(chart, call, call.at)
    BY DEF CallInv
<1>2. call.at \in 1 .. Len(candidates)
    BY <1>1 DEF CallType
<1>3. candidates \in Seq(CandidateRows(chart, call.source, call.event))
    BY <1>1, CandidatesFacts
<1>4. candidates[call.at] \in CandidateRows(chart, call.source, call.event)
  <2> HIDE DEF candidates
  <2> QED
      BY SMTT(60), <1>2, <1>3
<1>5. row \in Nat
    BY SMTT(60), <1>4 DEF CandidateRows, Rows
<1>6. t.kind # "internal" =>
          Leads(chart.shape, call.source, destination, p.exits, p.entries,
                Stop(chart.shape, call.source, target, t.kind = "reentry"))
      /\ destination \in Nodes(chart.shape)
    BY <1>1, <1>4, SelectedLeads
<1>7. t.kind # "internal" =>
          p.exits \in Seq(Nodes(chart.shape)) /\ p.entries \in Seq(Nodes(chart.shape))
  <2> HIDE DEF p, destination, target, t
  <2> QED
      BY <1>1, <1>6, LeadsNodes DEF ChartSound
<1>8. Nodes(chart.shape) \subseteq Nat
    BY DEF Nodes, ChartSound, Hierarchy
<1>9. x = ActionsOf(chart, "exit", p.exits, ExitActions)
      /\ e = ActionsOf(chart, "entry", p.entries, EntryActions)
    BY DEF Actions, ActionsOf
<1>10. n = IF t.kind = "internal"
           THEN [call EXCEPT !.pc = "acting", !.row = row, !.todo = << Effect >>]
           ELSE [call EXCEPT !.pc = "acting", !.row = row,
                             !.exits = p.exits, !.entries = p.entries,
                             !.todo = Lifecycle(x, e)]
    BY DEF Selected
<1> HIDE DEF x, e, p, destination, target, t, row, n
<1>11. ASSUME t.kind = "internal" PROVE CallInv(chart, state, n)
  <2>1. << >> \in Seq(Nodes(chart.shape))
      OBVIOUS
  <2>2. All(chart, call) = << Effect >> /\ << Effect >> \in Seq(ActionType)
      BY <1>1, <2>1, AllFacts DEF All
  <2>3. n = [call EXCEPT !.pc = "acting", !.row = row, !.todo = << Effect >>]
      BY <1>10, <1>11
  <2>4. /\ n \in CallType
        /\ n.pc = "acting" /\ n.row = row /\ n.todo = << Effect >>
        /\ n.exits = << >> /\ n.entries = << >> /\ n.ran = << >>
        /\ n.error = call.error /\ n.source = call.source /\ n.event = call.event
    <3> HIDE DEF candidates
    <3> QED
        BY ZenonT(90), <1>1, <1>5, <2>2, <2>3 DEF CallType
  <2>5. Chosen(chart, n)
      BY <1>1, <1>2, <2>4 DEF Chosen, PassedOver, row
  <2>6. Routed(chart, n)
      BY <1>11, <2>4 DEF Routed, t
  <2>7. n.ran \o n.todo = All(chart, n)
    <3>1. All(chart, n) = All(chart, call)
        BY <1>1, <2>4 DEF All
    <3>2. << >> \o << Effect >> = << Effect >>
        BY <2>2
    <3> QED
        BY <2>2, <2>4, <3>1, <3>2
  <2> QED
      BY <1>1, <2>4, <2>5, <2>6, <2>7 DEF CallInv, None
<1>12. ASSUME t.kind # "internal" PROVE CallInv(chart, state, n)
  <2> DEFINE all == Lifecycle(x, e)
  <2>1. all \in Seq(ActionType)
      BY <1>7, <1>9, <1>12, AllFacts
  <2>2. n = [call EXCEPT !.pc = "acting", !.row = row,
                         !.exits = p.exits, !.entries = p.entries, !.todo = all]
      BY <1>10, <1>12
  <2>3. p.exits \in Seq(Nat) /\ p.entries \in Seq(Nat)
      BY <1>7, <1>8, <1>12
  <2> HIDE DEF all
  <2>4. /\ n \in CallType
        /\ n.pc = "acting" /\ n.row = row /\ n.todo = all
        /\ n.exits = p.exits /\ n.entries = p.entries /\ n.ran = << >>
        /\ n.error = call.error /\ n.source = call.source /\ n.event = call.event
    <3> HIDE DEF candidates
    <3> QED
        BY ZenonT(90), <1>1, <1>5, <2>1, <2>2, <2>3 DEF CallType
  <2>5. Chosen(chart, n)
      BY SMTT(60), <1>1, <1>2, <2>4 DEF Chosen, PassedOver, row
  <2>6. Routed(chart, n)
      BY <1>12, <2>4 DEF Routed, t, p, target, destination
  <2>7. n.ran \o n.todo = All(chart, n)
    <3>1. All(chart, n) = all
        BY <1>9, <2>4 DEF All, all
    <3>2. << >> \o all = all
        BY <2>1
    <3> QED
        BY <2>4, <3>1, <3>2
  <2> QED
      BY <1>1, <2>4, <2>5, <2>6, <2>7 DEF CallInv, None
<1> QED
    BY <1>11, <1>12 DEF n

(* An action that succeeds is the next one, all the others keep their order  *)
(* (statechart.go, Fire).                                                   *)
LEMMA ActedInv ==
    ASSUME NEW call, CallInv(chart, state, call), call.pc = "acting", call.todo # << >>
    PROVE  CallInv(chart, state,
                   [call EXCEPT !.todo = Tail(@), !.ran = Append(@, Head(call.todo))])
<1> DEFINE n == [call EXCEPT !.todo = Tail(@), !.ran = Append(@, Head(call.todo))]
<1>1. /\ call \in CallType /\ state = call.source /\ call.error.err = None
      /\ Chosen(chart, call) /\ Routed(chart, call) /\ call.ran \o call.todo = All(chart, call)
    BY DEF CallInv
<1>2. call.ran \in Seq(ActionType) /\ call.todo \in Seq(ActionType)
    BY <1>1 DEF CallType
<1>3. Tail(call.todo) \in Seq(ActionType) /\ Append(call.ran, Head(call.todo)) \in Seq(ActionType)
    BY <1>2
<1>4. Append(call.ran, Head(call.todo)) \o Tail(call.todo) = call.ran \o call.todo
    BY <1>2, Shifted
<1>5. /\ n \in CallType
      /\ n.pc = "acting" /\ n.row = call.row
      /\ n.todo = Tail(call.todo) /\ n.ran = Append(call.ran, Head(call.todo))
      /\ n.exits = call.exits /\ n.entries = call.entries
      /\ n.error = call.error /\ n.source = call.source /\ n.event = call.event
    BY ZenonT(90), <1>1, <1>3 DEF CallType
<1> HIDE DEF n
<1>6. Chosen(chart, n) /\ Routed(chart, n)
    BY ZenonT(90), <1>1, <1>5 DEF Chosen, PassedOver, Routed
<1>7. All(chart, n) = All(chart, call)
    BY <1>5 DEF All
<1>8. n.ran \o n.todo = All(chart, n)
    BY <1>1, <1>4, <1>5, <1>7
<1>9. CallInv(chart, state, n)
    BY <1>1, <1>5, <1>6, <1>8 DEF CallInv, None
<1> QED
    BY <1>9 DEF n

(* The error of an action names it and counts those of its phase that        *)
(* completed (statechart.go, ActionError).                                  *)
LEMMA ActionFailedInv ==
    ASSUME NEW call, CallInv(chart, state, call), call.pc = "acting", call.todo # << >>
    PROVE  LET action == Head(call.todo)
           IN  CallInv(chart, state,
                       [Failing(call, "action") EXCEPT
                           !.error = [err |-> "action", phase |-> action.phase,
                                      node |-> action.node, index |-> action.index,
                                      completed |-> Completed(call)]])
<1> DEFINE a == Head(call.todo)
           error == [err |-> "action", phase |-> a.phase, node |-> a.node, index |-> a.index,
                     completed |-> Completed(call)]
           n == [Failing(call, "action") EXCEPT !.error = error]
           counted(action) == action.phase # "effect" /\ action.phase = a.phase
           flags == [j \in DOMAIN call.ran |-> counted(call.ran[j])]
           L == Len(call.ran)
<1>1. /\ call \in CallType /\ state = call.source
      /\ call.ran \o call.todo = All(chart, call)
    BY DEF CallInv
<1>2. call.ran \in Seq(ActionType) /\ call.todo \in Seq(ActionType)
    BY <1>1 DEF CallType
<1>3. a \in ActionType /\ (call.ran \o call.todo)[L + 1] = a
  <2>1. a \in ActionType
      BY <1>2
  <2>2. (call.ran \o call.todo)[Len(call.ran) + 1] = Head(call.todo)
      BY ZenonT(90), <1>2, Shifted
  <2> QED
      BY <2>1, <2>2
<1>4. L \in Nat /\ DOMAIN call.ran = 1 .. L
    BY <1>2
<1>5. Completed(call) = Len(Positions(flags))
    BY DEF Completed
<1>6. DOMAIN flags = 1 .. L /\ \A j \in 1 .. L : flags[j] <=> counted(call.ran[j])
    BY <1>4
<1> HIDE DEF flags, a
<1>7. /\ Len(Positions(flags)) = Cardinality({k \in 1 .. L : flags[k]})
      /\ Positions(flags) \in Seq(1 .. L)
  <2> HIDE DEF L
  <2> QED
      BY <1>4, <1>6, CountPositions, PositionsFacts
<1>8. Completed(call) \in Nat
  <2>1. Len(Positions(flags)) \in Nat
      BY <1>7
  <2> QED
      BY <1>5, <2>1
<1>9. a.phase \in {"exit", "effect", "entry"} /\ a.node \in Nat /\ a.index \in Nat
      /\ a = [phase |-> a.phase, node |-> a.node, index |-> a.index]
    BY <1>3 DEF ActionType
<1>10. /\ n \in CallType
       /\ n.pc = "leaving" /\ n.error = error /\ n.error.err = "action"
       /\ n.source = call.source /\ n.ran = call.ran
       /\ n.exits = call.exits /\ n.entries = call.entries
    BY <1>1, <1>8, <1>9 DEF Failing, CallType
<1> HIDE DEF n
<1>11. All(chart, n) = All(chart, call)
    BY <1>10 DEF All
<1>12. [phase |-> n.error.phase, node |-> n.error.node, index |-> n.error.index]
       = All(chart, n)[Len(n.ran) + 1]
  <2>1. n.error.phase = a.phase /\ n.error.node = a.node /\ n.error.index = a.index
      BY <1>10
  <2>2. Len(n.ran) = L /\ All(chart, n) = call.ran \o call.todo
      BY <1>1, <1>10, <1>11
  <2> HIDE DEF L
  <2> QED
      BY <1>3, <1>9, <2>1, <2>2
<1>13. ASSUME n.error.phase # "effect"
       PROVE  n.error.completed
              = Cardinality({j \in DOMAIN n.ran : n.ran[j].phase = n.error.phase})
  <2>1. n.error.phase = a.phase /\ n.error.completed = Completed(call)
      BY <1>10
  <2>2. {j \in DOMAIN n.ran : n.ran[j].phase = n.error.phase} = {k \in 1 .. L : flags[k]}
      BY <1>4, <1>6, <1>10, <1>13, <2>1
  <2> QED
      BY <1>5, <1>7, <2>1, <2>2
<1>14. Reported(chart, n)
    BY <1>12, <1>13 DEF Reported
<1>15. CallInv(chart, state, n)
    BY <1>1, <1>10, <1>14 DEF CallInv, None
<1> QED
    BY <1>15 DEF n, a

(* A commit takes the observers of the state from the source to its          *)
(* destination (statechart.go, Fire; observe.go).                           *)
LEMMA CommitTracked ==
    ASSUME NEW call, ChartSound(chart), state \in Nodes(chart.shape), NEW n \in Nat,
           CallInv(chart, state, call), call.pc = "acting",
           chart.transitions[call.row].kind # "internal"
    PROVE  /\ Committed(call) \in Nodes(chart.shape)
           /\ Batch(n, call.exits, call.entries) \in Seq(Observation)
           /\ Tracked(chart.shape, Batch(n, call.exits, call.entries), state, Committed(call))
<1> DEFINE candidates == Candidates(chart, call.source, call.event)
           t == chart.transitions[call.row]
           target == IndexOf(chart.shape.state, t.to)
           destination == DestinationOf(chart, call.source, call.row)
           p == Paths(chart.shape, call.source, target, destination, t.kind = "reentry")
<1>1. /\ state = call.source /\ Chosen(chart, call) /\ Routed(chart, call)
    BY DEF CallInv
<1>2. PICK j \in 1 .. Len(candidates) : call.row = candidates[j].row
    BY <1>1 DEF Chosen
<1>3. candidates \in Seq(CandidateRows(chart, call.source, call.event))
    BY <1>1, CandidatesFacts
<1>4. candidates[j] \in CandidateRows(chart, call.source, call.event)
  <2> HIDE DEF candidates
  <2> QED
      BY SMTT(60), <1>3
<1>5. /\ destination \in Nodes(chart.shape)
      /\ Leads(chart.shape, call.source, destination, p.exits, p.entries,
               Stop(chart.shape, call.source, target, t.kind = "reentry"))
    BY <1>1, <1>2, <1>4, SelectedLeads
<1>6. call.exits = p.exits /\ call.entries = p.entries
    BY <1>1 DEF Routed
<1>7. Committed(call) = destination
    BY DEF Committed
<1> HIDE DEF p, destination, target, t
<1>8. Hierarchy(chart.shape)
    BY DEF ChartSound
<1>9. /\ Batch(n, p.exits, p.entries) \in Seq(Observation)
      /\ Tracked(chart.shape, Batch(n, p.exits, p.entries), call.source, destination)
    BY <1>1, <1>5, <1>8, BatchTracked
<1> QED
    BY <1>1, <1>5, <1>6, <1>7, <1>9

-----------------------------------------------------------------------------
(* A caller without a Fire (statechart.go, Fire).                            *)
LEMMA IdleFacts ==
    /\ IdleCall \in CallType /\ IdleCall.pc = "idle" /\ IdleCall.error.err = None
    /\ IdleCall.exits = << >> /\ IdleCall.entries = << >> /\ IdleCall.ran = << >>
BY DEF IdleCall, NoError, CallType

(* New begins without a Fire and without observations (statechart.go, New).  *)
LEMMA SInvInit ==
    ASSUME Init, ChartSound(chart), ActionsListed(chart)
    PROVE  SInv
<1>1. PICK i \in DOMAIN chart.shape.state : state = chart.shape.destination[i]
    BY DEF Init
<1>2. state \in Nodes(chart.shape)
    BY <1>1 DEF ChartSound, Hierarchy
<1>3. first = state /\ seq = 0 /\ published = << >> /\ inFlight = FALSE
      /\ calls = [c \in Callers |-> IdleCall]
    BY DEF Init, InitObserving
<1>4. Tracked(chart.shape, published, first, state)
  <2> DEFINE at == [k \in 0 .. 0 |-> state]
  <2>1. Len(published) = 0
      BY <1>3
  <2>2. Nodes(chart.shape) \subseteq 0 .. Size(chart.shape)
      BY DEF Nodes, ChartSound, Hierarchy
  <2>3. at \in [0 .. 0 -> 0 .. Size(chart.shape)] /\ at[0] = state
      BY <1>2, <2>2
  <2> HIDE DEF at
  <2>4. Tracks(chart.shape, published, first, state, at)
      BY <1>3, <2>1, <2>3 DEF Tracks
  <2> QED
      BY <2>4 DEF Tracked
<1>5. InstanceInv
  <2>1. published \in Seq(Observation) /\ seq \in Nat
      BY <1>3
  <2> QED
      BY <1>2, <1>3, <1>4, <2>1 DEF InstanceInv
<1>6. IdleCall \in CallType /\ IdleCall.pc = "idle" /\ IdleCall.error.err = None
    BY IdleFacts
<1>7. CallInv(chart, state, IdleCall) /\ ~InFlight(IdleCall)
    BY <1>6 DEF CallInv, InFlight, None
<1>8. CallsInv
  <2> HIDE DEF IdleCall
  <2> QED
      BY <1>3, <1>6, <1>7 DEF CallsInv
<1>9. FlightInv
    BY <1>3, <1>7 DEF FlightInv
<1> QED
    BY <1>5, <1>8, <1>9 DEF SInv

(* Only a commit changes the state and numbers observations (statechart.go,  *)
(* Fire).                                                                   *)
LEMMA InstanceKept ==
    ASSUME InstanceInv, UNCHANGED << chart, state, seq, first, published >>
    PROVE  InstanceInv'
BY DEF InstanceInv

(* A Fire that is refused leaves everything but its caller alone             *)
(* (statechart.go, Fire: ErrInFlight).                                      *)
LEMMA RefuseInv ==
    ASSUME SInv, NEW c \in Callers, Refuse(c) \/ ReturnRefused(c)
    PROVE  SInv'
<1> DEFINE n == IF calls[c].pc = "idle"
                THEN [IdleCall EXCEPT !.pc = "refused", !.error.err = "inFlight", !.result = state]
                ELSE IdleCall
<1>1. Set(c, n) /\ UNCHANGED << instance, observing >>
    BY DEF Refuse, ReturnRefused
<1>2. state \in Nat
    BY DEF SInv, InstanceInv, ChartSound, Hierarchy, Nodes
<1>3. /\ n \in CallType /\ n.pc \in {"idle", "refused"}
      /\ n.error.err \in {None, "inFlight"}
    BY ZenonT(90), <1>2, IdleFacts DEF CallType
<1> HIDE DEF n
<1>4. CallInv(chart, state, n) /\ ~InFlight(n)
    BY <1>3 DEF CallInv, InFlight, None
<1>5. UNCHANGED << chart, state, seq, first, published, inFlight >>
    BY <1>1 DEF instance, observing
<1>6. CallsInv'
    BY <1>1, <1>4, <1>5, CallWritten DEF SInv
<1>7. FlightInv'
    BY <1>1, <1>4, <1>5, FlightKept DEF SInv
<1> QED
    BY <1>5, <1>6, <1>7, InstanceKept DEF SInv

(* A Fire begins when no other is in flight (statechart.go, Fire).           *)
LEMMA BeginInv ==
    ASSUME SInv, NEW c \in Callers, NEW e \in Events, Begin(c, e)
    PROVE  SInv'
<1> DEFINE n == [IdleCall EXCEPT !.pc = "selecting", !.source = state, !.event = e, !.at = 1]
<1>1. /\ Set(c, n) /\ ~inFlight /\ inFlight' = TRUE
      /\ UNCHANGED << chart, state, seq, first, published >>
    BY DEF Begin, Busy, observing
<1>2. state \in Nat
    BY DEF SInv, InstanceInv, ChartSound, Hierarchy, Nodes
<1>3. /\ n \in CallType /\ n.pc = "selecting" /\ n.at = 1 /\ n.source = state
      /\ n.error.err = None /\ n.exits = << >> /\ n.entries = << >> /\ n.ran = << >>
    BY ZenonT(90), <1>2, IdleFacts DEF CallType
<1> HIDE DEF n
<1>4. PassedOver(chart, n, n.at)
    BY <1>3 DEF PassedOver
<1>5. CallInv(chart, state, n)
    BY <1>3, <1>4 DEF CallInv, None
<1>6. CallsInv'
    BY <1>1, <1>5, CallWritten DEF SInv
<1>7. FlightInv'
  <2>1. \A d \in Callers : ~InFlight(calls[d])
      BY <1>1 DEF SInv, FlightInv
  <2>2. calls' = [calls EXCEPT ![c] = n] /\ calls \in [Callers -> CallType]
      BY <1>1 DEF Set, SInv, CallsInv
  <2>3. \A d \in Callers : InFlight(calls'[d]) => d = c
    <3> TAKE d \in Callers
    <3>1. d # c => calls'[d] = calls[d]
        BY <2>2
    <3> QED
        BY <2>1, <3>1
  <2> QED
      BY <1>1, <2>3 DEF FlightInv
<1> QED
    BY <1>1, <1>6, <1>7, InstanceKept DEF SInv

(* A Fire in flight that goes on without a commit keeps the mark and leaves  *)
(* the Instance alone (statechart.go, Fire).                                *)
LEMMA GoesOnInv ==
    ASSUME SInv, NEW c \in Callers, InFlight(calls[c]), NEW n, Set(c, n),
           CallInv(chart, state, n), UNCHANGED << instance, observing >>
    PROVE  SInv'
<1>1. UNCHANGED << chart, state, seq, first, published, inFlight >>
    BY DEF instance, observing
<1>2. CallsInv'
    BY <1>1, CallWritten DEF SInv
<1>3. FlightInv'
    BY SMTT(60), <1>1, FlightKept DEF SInv
<1> QED
    BY <1>1, <1>2, <1>3, InstanceKept DEF SInv

(* A row is looked for: a Guard declines, or the Fire fails, or a row is     *)
(* selected (statechart.go, selectTransition).                              *)
LEMMA SelectInv ==
    ASSUME SInv, NEW c \in Callers, NotSelected(c) \/ Select(c)
    PROVE  SInv'
<1> DEFINE call == calls[c]
           candidates == Candidates(chart, call.source, call.event)
<1>1. /\ call.pc = "selecting" /\ UNCHANGED << instance, observing >>
      /\ CallInv(chart, state, call)
      /\ ChartSound(chart) /\ ActionsListed(chart) /\ state \in Nodes(chart.shape)
    BY DEF NotSelected, Select, SInv, CallsInv, InstanceInv
<1>2. InFlight(call)
    BY <1>1 DEF InFlight
<1> HIDE DEF call
<1>3. CASE \E err \in {"invalidKey", "notPermitted", "panic"} : Set(c, Failing(call, err))
    BY SMTT(60), <1>1, <1>2, <1>3, FailingInv, GoesOnInv DEF call
<1>4. CASE /\ call.at <= Len(candidates)
           /\ chart.transitions[candidates[call.at].row].guarded
           /\ Set(c, [call EXCEPT !.at = @ + 1])
  <2> DEFINE n == [call EXCEPT !.at = @ + 1]
  <2>1. /\ call \in CallType /\ state = call.source /\ call.at # 0
        /\ call.exits = << >> /\ call.entries = << >> /\ call.ran = << >>
        /\ call.error.err = None /\ PassedOver(chart, call, call.at)
      BY <1>1 DEF CallInv
  <2>2. call.at \in Nat /\ call.at + 1 \in Nat
      BY <2>1 DEF CallType
  <2>3. /\ n \in CallType
        /\ n.pc = "selecting" /\ n.at = call.at + 1 /\ n.source = state
        /\ n.event = call.event /\ n.error = call.error
        /\ n.exits = << >> /\ n.entries = << >> /\ n.ran = << >>
    <3> HIDE DEF candidates
    <3> QED
        BY ZenonT(90), <1>1, <2>1, <2>2 DEF CallType
  <2> HIDE DEF n
  <2>4. PassedOver(chart, n, n.at)
    <3> SUFFICES ASSUME NEW k \in 1 .. n.at - 1
                 PROVE  chart.transitions[Candidates(chart, n.source, n.event)[k].row].guarded
        BY DEF PassedOver
    <3>1. k \in 1 .. call.at - 1 \/ k = call.at
        BY <2>2, <2>3
    <3>2. Candidates(chart, n.source, n.event) = candidates
        BY <2>1, <2>3
    <3> QED
        BY <1>4, <2>1, <3>1, <3>2 DEF PassedOver
  <2>5. CallInv(chart, state, n)
      BY <2>1, <2>2, <2>3, <2>4 DEF CallInv, None
  <2> QED
      BY <1>1, <1>2, <1>4, <2>5, GoesOnInv DEF call, n
<1>5. CASE call.at <= Len(candidates) /\ Set(c, Selected(call, call.at))
    BY <1>1, <1>2, <1>5, SelectedInv, GoesOnInv DEF call
<1> QED
  <2>1. ASSUME NotSelected(c)
        PROVE  \E err \in {"invalidKey", "notPermitted", "panic"} : Set(c, Failing(call, err))
      BY SMTT(60), <2>1 DEF NotSelected, call
  <2>2. ASSUME Select(c)
        PROVE  \/ Set(c, Failing(call, "panic"))
               \/ /\ call.at <= Len(candidates)
                  /\ chart.transitions[candidates[call.at].row].guarded
                  /\ Set(c, [call EXCEPT !.at = @ + 1])
               \/ call.at <= Len(candidates) /\ Set(c, Selected(call, call.at))
      BY SMTT(60), <2>2 DEF Select, call
  <2> QED
      BY <1>3, <1>4, <1>5, <2>1, <2>2

(* The next action succeeds, fails or panics; after the last one an internal *)
(* transition is done (statechart.go, Fire).                                *)
LEMMA ActInv ==
    ASSUME SInv, NEW c \in Callers, Act(c) \/ ReturnInternal(c) \/ Delivered(c)
    PROVE  SInv'
<1> DEFINE call == calls[c]
<1>1. CallInv(chart, state, call) /\ UNCHANGED << instance, observing >>
    BY DEF Act, ReturnInternal, Delivered, SInv, CallsInv
<1>2. InFlight(call)
    BY DEF InFlight, Act, ReturnInternal, Delivered
<1> HIDE DEF call
<1>3. CASE Act(c)
  <2> DEFINE action == Head(call.todo)
             done == [call EXCEPT !.todo = Tail(@), !.ran = Append(@, action)]
             failed == [Failing(call, "action") EXCEPT
                           !.error = [err |-> "action", phase |-> action.phase,
                                      node |-> action.node, index |-> action.index,
                                      completed |-> Completed(call)]]
  <2>1. /\ call.pc = "acting" /\ call.todo # << >>
        /\ Set(c, done) \/ Set(c, failed) \/ Set(c, Failing(call, "panic"))
      BY <1>3 DEF Act, call
  <2>2. /\ CallInv(chart, state, done) /\ CallInv(chart, state, failed)
        /\ CallInv(chart, state, Failing(call, "panic"))
      BY <1>1, <2>1, ActedInv, ActionFailedInv, FailingInv
  <2> HIDE DEF done, failed
  <2> QED
      BY <1>1, <1>2, <2>1, <2>2, GoesOnInv DEF call
<1>4. CASE ReturnInternal(c)
  <2> DEFINE n == [call EXCEPT !.pc = "leaving", !.result = call.source]
  <2>1. call.pc = "acting" /\ call.todo = << >> /\ Set(c, n)
      BY <1>4 DEF ReturnInternal, call
  <2>2. /\ call \in CallType /\ state = call.source /\ call.error.err = None
        /\ call.ran \o call.todo = All(chart, call)
      BY <1>1, <2>1 DEF CallInv
  <2>3. call.ran = All(chart, call)
    <3>1. call.ran \in Seq(ActionType)
        BY <2>2 DEF CallType
    <3>2. call.ran \o << >> = call.ran
        BY <3>1
    <3> QED
        BY <2>1, <2>2, <3>2
  <2>4. /\ n \in CallType /\ n.pc = "leaving" /\ n.result = state
        /\ n.error = call.error /\ n.ran = call.ran
        /\ n.exits = call.exits /\ n.entries = call.entries
      BY ZenonT(90), <2>2 DEF CallType
  <2> HIDE DEF n
  <2>5. n.ran = All(chart, n)
      BY <2>3, <2>4 DEF All
  <2>6. CallInv(chart, state, n)
      BY <2>2, <2>4, <2>5 DEF CallInv, None
  <2> QED
      BY <1>1, <1>2, <2>1, <2>6, GoesOnInv DEF call
<1>5. CASE Delivered(c)
  <2> DEFINE err == IF delivery[c].failures = {} THEN None ELSE "observer"
             n == [call EXCEPT !.pc = "leaving", !.error.err = err]
  <2>1. call.pc = "delivering" /\ Set(c, n)
      BY <1>5 DEF Delivered, call
  <2>2. call \in CallType /\ call.ran = All(chart, call) /\ state = call.result
      BY <1>1, <2>1 DEF CallInv
  <2>3. err \in {None, "observer"}
      OBVIOUS
  <2> HIDE DEF err
  <2>4. /\ n \in CallType /\ n.pc = "leaving" /\ n.result = state
        /\ n.error.err \in {None, "observer"} /\ n.ran = call.ran
        /\ n.exits = call.exits /\ n.entries = call.entries
      BY <2>2, <2>3 DEF CallType
  <2> HIDE DEF n
  <2>5. n.ran = All(chart, n)
      BY <2>2, <2>4 DEF All
  <2>6. CallInv(chart, state, n)
      BY <2>4, <2>5 DEF CallInv, None
  <2> QED
      BY <1>1, <1>2, <2>1, <2>6, GoesOnInv DEF call
<1> QED
    BY <1>3, <1>4, <1>5

(* The commit: the state, the number of observations and the observations    *)
(* change together (statechart.go, Fire).                                   *)
LEMMA CommitInv ==
    ASSUME SInv, NEW c \in Callers, Commit(c)
    PROVE  SInv'
<1> DEFINE call == calls[c]
           b == Batch(seq, call.exits, call.entries)
           batch == IF Observers = << >> THEN << >> ELSE b
           n == [call EXCEPT !.pc = IF batch = << >> THEN "leaving" ELSE "delivering",
                             !.result = Committed(call)]
<1>1. /\ call.pc = "acting" /\ call.todo = << >>
      /\ chart.transitions[call.row].kind # "internal"
      /\ state' = Committed(call) /\ seq' = seq + Len(batch) /\ published' = published \o batch
      /\ Set(c, n) /\ UNCHANGED << chart, inFlight, first >>
    BY DEF Commit
<1>2. /\ ChartSound(chart) /\ ActionsListed(chart) /\ state \in Nodes(chart.shape) /\ first \in Nodes(chart.shape)
      /\ seq \in Nat /\ published \in Seq(Observation) /\ CallInv(chart, state, call)
      /\ Observers # << >> => Tracked(chart.shape, published, first, state)
    BY DEF SInv, InstanceInv, CallsInv
<1>3. /\ Committed(call) \in Nodes(chart.shape)
      /\ b \in Seq(Observation)
      /\ Tracked(chart.shape, b, state, Committed(call))
  <2> HIDE DEF call
  <2> QED
      BY <1>1, <1>2, CommitTracked
<1> HIDE DEF b, call
<1>4. InFlight(call)
    BY <1>1 DEF InFlight
<1>5. batch \in Seq(Observation)
    BY <1>3
<1>6. InstanceInv'
  <2>1. Len(batch) \in Nat
    <3> HIDE DEF batch
    <3> QED
        BY <1>5
  <2>2. seq' \in Nat
    <3> HIDE DEF batch
    <3> QED
        BY <1>1, <1>2, <2>1
  <2>3. published' \in Seq(Observation)
    <3> HIDE DEF batch
    <3> QED
        BY <1>1, <1>2, <1>5
  <2>4. Observers # << >> => Tracked(chart.shape, published', first, state')
      BY <1>1, <1>2, <1>3, TracksJoin
  <2> HIDE DEF batch
  <2> QED
      BY <1>1, <1>2, <1>3, <2>2, <2>3, <2>4 DEF InstanceInv
<1>7. CallInv(chart, state', n)
  <2>1. /\ call \in CallType /\ call.error.err = None
        /\ call.ran \o call.todo = All(chart, call)
      BY <1>1, <1>2 DEF CallInv
  <2>2. call.ran = All(chart, call)
    <3>1. call.ran \in Seq(ActionType)
        BY <2>1 DEF CallType
    <3>2. call.ran \o << >> = call.ran
        BY <3>1
    <3> QED
        BY <1>1, <2>1, <3>2
  <2>3. Committed(call) \in Nat
      BY <1>2, <1>3 DEF Nodes, ChartSound, Hierarchy
  <2> DEFINE pc == IF batch = << >> THEN "leaving" ELSE "delivering"
  <2>4. pc \in {"leaving", "delivering"}
      OBVIOUS
  <2> HIDE DEF batch, pc
  <2>5. /\ n \in CallType /\ n.pc = pc /\ n.result = Committed(call)
        /\ n.error = call.error /\ n.ran = call.ran
        /\ n.exits = call.exits /\ n.entries = call.entries
    <3>1. n = [call EXCEPT !.pc = pc, !.result = Committed(call)]
        BY DEF pc
    <3> HIDE DEF n
    <3> QED
        BY ZenonT(90), <2>1, <2>3, <2>4, <3>1 DEF CallType
  <2> HIDE DEF n
  <2>6. n.ran = All(chart, n)
      BY <2>2, <2>5 DEF All
  <2> QED
      BY <1>1, <2>1, <2>4, <2>5, <2>6 DEF CallInv, None
<1> HIDE DEF n, batch
<1>8. CallsInv'
    BY <1>1, <1>4, <1>7, CallWritten DEF SInv, call
<1>9. FlightInv'
    BY <1>1, <1>4, FlightKept DEF SInv, call
<1> QED
    BY <1>6, <1>8, <1>9 DEF SInv

(* The Fire that leaves takes its mark with it (statechart.go, Fire: the     *)
(* deferred function).                                                      *)
LEMMA LeaveInv ==
    ASSUME SInv, NEW c \in Callers, Leave(c)
    PROVE  SInv'
<1>1. /\ calls[c].pc = "leaving" /\ Set(c, IdleCall)
      /\ UNCHANGED << chart, state, seq, first, published >>
    BY DEF Leave
<1>2. CallInv(chart, state, IdleCall) /\ ~InFlight(IdleCall)
    BY IdleFacts DEF CallInv, InFlight, None
<1>3. CallsInv'
    BY <1>1, <1>2, CallWritten DEF SInv
<1>4. FlightInv'
  <2>1. calls' = [calls EXCEPT ![c] = IdleCall] /\ calls \in [Callers -> CallType]
      BY <1>1 DEF Set, SInv, CallsInv
  <2>2. InFlight(calls[c])
      BY <1>1 DEF InFlight
  <2>3. \A d \in Callers : ~InFlight(calls'[d])
    <3> TAKE d \in Callers
    <3>1. CASE d = c
        BY <1>2, <2>1, <3>1
    <3>2. CASE d # c
      <4>1. calls'[d] = calls[d]
          BY <2>1, <3>2
      <4> QED
          BY <2>2, <3>2, <4>1 DEF SInv, FlightInv
    <3> QED
        BY <3>1, <3>2
  <2> QED
      BY <2>3 DEF FlightInv
<1> QED
    BY <1>1, <1>3, <1>4, InstanceKept DEF SInv

(* Every step keeps the invariant (statechart.go, Fire).                     *)
LEMMA SInvStep ==
    ASSUME SInv, [Next]_vars
    PROVE  SInv'
<1>1. CASE UNCHANGED << instance, calls, published >>
    BY <1>1 DEF instance, SInv, InstanceInv, FlightInv, CallsInv
<1>2. CASE UNCHANGED vars
    BY <1>1, <1>2 DEF vars, observing
<1>3. ASSUME NEW c \in Callers, Deliver(c), UNCHANGED << instance, calls >>
      PROVE  SInv'
  <2>1. published' = published
      BY <1>3 DEF Deliver, StartCallback, Collect, Expire, ReportEnds
  <2> QED
      BY <1>1, <1>3, <2>1
<1>4. CASE Callback /\ UNCHANGED << instance, calls >>
  <2>1. published' = published
      BY <1>4 DEF Callback, CallbackBegins, CallbackEnds
  <2> QED
      BY <1>1, <1>4, <2>1
<1> QED
    BY <1>2, <1>3, <1>4, RefuseInv, BeginInv, SelectInv, ActInv, CommitInv, LeaveInv DEF Next

(* The observers can follow, and what a Fire returns is true of its actions, *)
(* in every state of the invariant (statechart.go, Fire; observe.go).        *)
LEMMA SInvShows ==
    ASSUME SInv
    PROVE  ObservationsTrackLineage /\ LifecycleIsWholeOrReported
<1>1. ObservationsTrackLineage
    BY TrackedReplays DEF ObservationsTrackLineage, SInv, InstanceInv, ChartSound
<1>2. ASSUME NEW c \in Callers
      PROVE  LET call == calls[c]
                 error == call.error
                 all == Actions("exit", call.exits, ExitActions) \o << Effect >>
                        \o Actions("entry", call.entries, EntryActions)
                 before(action) == {j \in DOMAIN call.ran : call.ran[j].phase = action.phase}
             IN  /\ call.pc \in {"selecting", "acting"} => state = call.source
                 /\ call.pc = "leaving" /\ error.err \in {None, "observer"} =>
                       /\ call.ran = all
                       /\ state = call.result
                 /\ call.pc = "leaving" /\ error.err \notin {None, "observer"} =>
                       state = call.source
                 /\ error.err = "action" =>
                       /\ [phase |-> error.phase, node |-> error.node, index |-> error.index]
                          = all[Len(call.ran) + 1]
                       /\ error.phase # "effect" =>
                             error.completed = Cardinality(before(error))
  <2> DEFINE call == calls[c]
             all == Actions("exit", call.exits, ExitActions) \o << Effect >>
                    \o Actions("entry", call.entries, EntryActions)
  <2>1. CallInv(chart, state, call)
      BY DEF SInv, CallsInv
  <2>2. all = All(chart, call)
      BY DEF All, Lifecycle, Actions, ActionsOf
  <2> HIDE DEF call, all
  <2>3. call.error.err = "action" =>
            /\ [phase |-> call.error.phase, node |-> call.error.node, index |-> call.error.index]
               = all[Len(call.ran) + 1]
            /\ call.error.phase # "effect" =>
                  call.error.completed
                  = Cardinality({j \in DOMAIN call.ran : call.ran[j].phase = call.error.phase})
      BY <2>1, <2>2 DEF CallInv, Reported
  <2>4. /\ call.pc \in {"selecting", "acting"} => state = call.source
        /\ call.pc = "leaving" /\ call.error.err \in {None, "observer"} =>
              call.ran = all /\ state = call.result
        /\ call.pc = "leaving" /\ call.error.err \notin {None, "observer"} => state = call.source
      BY SMTT(60), <2>1, <2>2 DEF CallInv
  <2> QED
      BY <2>3, <2>4 DEF call, all
<1>3. LifecycleIsWholeOrReported
    BY <1>2 DEF LifecycleIsWholeOrReported
<1> QED
    BY <1>1, <1>3

(* A commit follows an arrow (position.go, Arrows).                          *)
LEMMA CommitAlongArrow ==
    ASSUME SInv, NEW c \in Callers, Commit(c)
    PROVE  \E a \in ToSet(Arrows(chart, state)) : state' = DestinationOf(chart, state, a.row)
<1> DEFINE call == calls[c]
<1>1. /\ ChartSound(chart) /\ state \in Nodes(chart.shape)
      /\ CallInv(chart, state, call) /\ call.pc = "acting"
      /\ state' = DestinationOf(chart, call.source, call.row)
    BY DEF Commit, Committed, SInv, InstanceInv, CallsInv
<1> HIDE DEF call
<1>2. state = call.source /\ Chosen(chart, call)
    BY <1>1 DEF CallInv
<1>3. PICK j \in 1 .. Len(Candidates(chart, state, call.event)) :
          /\ call.row = Candidates(chart, state, call.event)[j].row
          /\ PassedOver(chart, call, j)
    BY <1>2 DEF Chosen
<1>4. Candidates(chart, state, call.event)[j] \in ToSet(Arrows(chart, state))
    BY <1>1, <1>2, <1>3, ArrowsFacts DEF PassedOver
<1> QED
    BY <1>1, <1>2, <1>3, <1>4

-----------------------------------------------------------------------------
(* The invariant of the proofs: what every caller is doing with the chart of *)
(* an accepted definition, and the states that the observations lead through *)
(* (statechart.go, New and Fire).                                           *)
THEOREM SInvHolds == Spec => []SInv
<1>1. Init => SInv
  <2> SUFFICES ASSUME Init PROVE SInv
      OBVIOUS
  <2>1. PICK d \in Definitions : chart = ChartOf(d)
      BY DEF Init
  <2>2. IsDefinition(d) /\ Problems(d) = {}
      BY StatechartAssumption DEF IsDefinition, IsList
  <2>3. ChartSound(chart)
      BY <2>1, <2>2, AcceptedSound
  <2>4. ASSUME NEW i \in Nodes(chart.shape) PROVE chart.shape.state[i] \in ToSet(d.states)
    <3>1. chart.shape.state = d.states
        BY <2>1, <2>2, AcceptedCompilable, CompiledFacts DEF ChartOf
    <3>2. i \in DOMAIN d.states
        BY <2>2, <3>1 DEF IsDefinition, Nodes, Size
    <3> QED
        BY <3>1, <3>2 DEF ToSet
  <2>5. ActionsListed(chart)
      BY <2>4, StatechartAssumption DEF ActionsListed
  <2> QED
      BY <2>3, <2>5, SInvInit
<1>2. SInv /\ [Next]_vars => SInv'
    BY SInvStep
<1> QED
    BY <1>1, <1>2, PTL DEF Spec

(* Whoever applies the observations one by one to the lineage of the first   *)
(* state has the lineage of the committed state, for every accepted          *)
(* definition, all callers and any number of commits (statechart.go, Fire;   *)
(* position.go, paths; observe.go).                                         *)
THEOREM ObservationsAreTracked == Spec => []ObservationsTrackLineage
<1>1. SInv => ObservationsTrackLineage
    BY SInvShows
<1> QED
    BY <1>1, SInvHolds, PTL

(* The state has changed only after the whole lifecycle ran in order, and an *)
(* action that failed is reported with its place (statechart.go, Fire and    *)
(* ActionError).                                                            *)
THEOREM LifecycleHolds == Spec => []LifecycleIsWholeOrReported
<1>1. SInv => LifecycleIsWholeOrReported
    BY SInvShows
<1> QED
    BY <1>1, SInvHolds, PTL

(* The active state moves along an arrow of the state active at that moment: *)
(* of all steps only a commit changes it, whose row was selected at the      *)
(* state that is still active, and no row before it hides that row           *)
(* (statechart.go, Fire; position.go, Arrows).                               *)
THEOREM StateMovesAlongArrows == Spec => MovesAlongArrows
<1> DEFINE Along == /\ chart' = chart
                    /\ state' # state =>
                          \E a \in ToSet(Arrows(chart, state)) :
                              state' = DestinationOf(chart, state, a.row)
<1>1. ASSUME SInv, Next PROVE Along
  <2>0. SInv
      BY <1>1
  <2>1. ASSUME NEW c \in Callers, Commit(c) PROVE Along
    <3>1. chart' = chart
        BY <2>1 DEF Commit
    <3>2. \E a \in ToSet(Arrows(chart, state)) : state' = DestinationOf(chart, state, a.row)
        BY <2>0, <2>1, CommitAlongArrow
    <3> QED
        BY <3>1, <3>2
  <2>2. ASSUME NEW c \in Callers,
               \/ Refuse(c) \/ ReturnRefused(c) \/ (\E e \in Events : Begin(c, e))
               \/ NotSelected(c) \/ Select(c) \/ Act(c) \/ ReturnInternal(c)
               \/ Delivered(c) \/ Leave(c)
        PROVE  chart' = chart /\ state' = state
      BY ZenonT(60), <2>2 DEF Refuse, ReturnRefused, Begin, NotSelected, Select, Act, ReturnInternal,
                  Delivered, Leave, instance
  <2>3. ASSUME UNCHANGED << instance, calls >>
        PROVE  chart' = chart /\ state' = state
      BY <2>3 DEF instance
  <2> QED
      BY <1>1, <2>1, <2>2, <2>3 DEF Next
<1>2. ASSUME UNCHANGED vars PROVE Along
    BY <1>2 DEF vars, instance
<1>3. SInv /\ [Next]_vars => [Along]_vars
    BY <1>1, <1>2
<1> QED
    BY <1>3, SInvHolds, PTL DEF Spec, MovesAlongArrows
=============================================================================
