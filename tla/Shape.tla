-------------------------------- MODULE Shape --------------------------------
(***************************************************************************)
(* The compiled hierarchy of a statechart (statechart/position.go and        *)
(* hierarchyCycles of statechart.go): a forest of states with the initial    *)
(* child of every state that has one.                                       *)
(*                                                                         *)
(* order is the sequence of declared states, parents and initials are        *)
(* functions on the states that have a parent or an initial child.  Nodes    *)
(* are the positions in order; 0 stands for the -1 of the code.             *)
(***************************************************************************)
EXTENDS Integers, Sequences, SequencesExt, FiniteSetsExt

\* The positions of the elements that a loop does not pass over, in order.
Positions(flags) ==
    FlattenSeq([k \in DOMAIN flags |-> IF flags[k] THEN << k >> ELSE << >>])

\* Mutant of CyclePart: the states that only lead to the cycle are reported with it.
WholePath(path, back) == IF back = {} THEN {} ELSE ToSet(path)

\* The states of a path from the one that the walk came back to on.
CyclePart(path, back) ==
    {path[k] : k \in {j \in DOMAIN path : \E i \in 1 .. j : path[i] \in back}}

\* The walk of hierarchyCycles that begins at a state: it climbs until it comes
\* to a root, to a state done before, or to one of its own path.
Walk(order, parents, done, start) ==
    LET climb[n \in 0 .. Len(order)] ==
            IF n = 0 THEN [path |-> << >>, at |-> {start}, cycle |-> {}]
            ELSE LET w == climb[n - 1]
                     s == CHOOSE x \in w.at : TRUE
                     path == Append(w.path, s)
                     up == IF s \in DOMAIN parents THEN {parents[s]} ELSE {}
                     back == up \cap ToSet(path)
                 IN  IF w.at = {} THEN w
                     ELSE [path |-> path,
                           at |-> (up \ done) \ back,
                           cycle |-> CyclePart(path, back)]
    IN  IF start \in done THEN [path |-> << >>, at |-> {}, cycle |-> {}]
        ELSE climb[Len(order)]

\* hierarchyCycles: the cycles it reports, each as the set of its states.
HierarchyCycles(order, parents) ==
    LET after[n \in 0 .. Len(order)] ==
            IF n = 0 THEN [done |-> {}, cycles |-> {}]
            ELSE LET w == Walk(order, parents, after[n - 1].done, order[n])
                 IN  [done |-> after[n - 1].done \cup ToSet(w.path),
                      cycles |-> after[n - 1].cycles
                                 \cup (IF w.cycle = {} THEN {} ELSE {w.cycle})]
    IN  after[Len(order)].cycles

-----------------------------------------------------------------------------
IndexOf(order, s) == CHOOSE i \in DOMAIN order : order[i] = s

\* The parent of every node, 0 for a root.
ParentNodes(order, parents) ==
    [i \in DOMAIN order |->
        IF order[i] \in DOMAIN parents THEN IndexOf(order, parents[order[i]]) ELSE 0]

\* The children of a node, or the roots (0), in declaration order.
Children(parent, i) == Positions([j \in DOMAIN parent |-> parent[j] = i])

\* The traversal of compileShape: after n iterations, what is on its stack, the
\* nodes in preorder, and the depths assigned.
Visited(parent) ==
    LET visit[n \in 0 .. Len(parent)] ==
            IF n = 0 THEN [stack |-> Children(parent, 0), preorder |-> << >>,
                           depth |-> [i \in DOMAIN parent |-> 0]]
            ELSE LET v == visit[n - 1]
                     i == Last(v.stack)
                 IN  [stack |-> Front(v.stack) \o Children(parent, i),
                      preorder |-> Append(v.preorder, i),
                      depth |-> IF parent[i] = 0 THEN v.depth
                                ELSE [v.depth EXCEPT ![i] = v.depth[parent[i]] + 1]]
    IN  visit[Len(parent)]

\* Mutant of ExitAfter: the ends of the children are not looked at.
ExitOfLeaf(enter, exits) == enter + 1

\* The end of a node's interval, from its own beginning and its children's ends.
ExitAfter(enter, exits) == Max({enter + 1} \cup exits)

\* Mutant of DestinationThrough: an initial chain is followed for one step only.
InitialItself(destination, child) == child

\* The destination of a state with an initial child, which has its own already.
DestinationThrough(destination, child) == destination[child]

\* compileShape.
CompileShape(order, parents, initials) ==
    LET parent == ParentNodes(order, parents)
        v == Visited(parent)
        N == Len(order)
        enter == [i \in DOMAIN order |-> IndexOf(v.preorder, i) - 1]
        \* the nodes from the last to the first in preorder: children come first
        close[n \in 0 .. N] ==
            IF n = 0 THEN [exit |-> [i \in DOMAIN order |-> 0],
                           destination |-> [i \in DOMAIN order |-> i]]
            ELSE LET c == close[n - 1]
                     i == v.preorder[N - n + 1]
                     ends == {c.exit[j] : j \in ToSet(Children(parent, i))}
                 IN  [exit |-> [c.exit EXCEPT ![i] = ExitAfter(enter[i], ends)],
                      destination |->
                        IF order[i] \notin DOMAIN initials THEN c.destination
                        ELSE [c.destination EXCEPT ![i] =
                                DestinationThrough(c.destination,
                                    IndexOf(order, initials[order[i]]))]]
    IN  [state |-> order, parent |-> parent, depth |-> v.depth, enter |-> enter,
         exit |-> close[N].exit, destination |-> close[N].destination]

-----------------------------------------------------------------------------
\* The node n parents above node i.
Up(shape, i, n) ==
    LET climb[k \in 0 .. n] ==
            IF k = 0 THEN i
            ELSE IF climb[k - 1] = 0 THEN 0 ELSE shape.parent[climb[k - 1]]
    IN  climb[n]

\* Mutant of LeastCommonAncestor: the depths are not levelled.
LeastCommonAncestorUnlifted(shape, left, right) ==
    LET l == Up(shape, left, 0)
        r == Up(shape, right, 0)
        climbs == {n \in 0 .. Len(shape.state) : Up(shape, l, n) = Up(shape, r, n)}
    IN  Up(shape, l, Min(climbs))

\* leastCommonAncestor: the deeper node is lifted to the depth of the other, then
\* both climb until they meet, above the roots if nowhere else.
LeastCommonAncestor(shape, left, right) ==
    LET depth == Min({shape.depth[left], shape.depth[right]})
        l == Up(shape, left, shape.depth[left] - depth)
        r == Up(shape, right, shape.depth[right] - depth)
        climbs == {n \in 0 .. depth + 1 : Up(shape, l, n) = Up(shape, r, n)}
    IN  Up(shape, l, Min(climbs))

\* Mutant of Stop: a reentrant transition does not leave its state.
StopAtHandler(shape, source, target, reentry) ==
    LeastCommonAncestor(shape, source, target)

\* Where the exits of a transition stop and its entries begin.
Stop(shape, source, target, reentry) ==
    IF reentry THEN shape.parent[target]
    ELSE LeastCommonAncestor(shape, source, target)

\* The n nodes that end with the destination, parents first.
EntryPath(shape, destination, n) == [k \in 1 .. n |-> Up(shape, destination, n - k)]

\* paths.
Paths(shape, source, target, destination, reentry) ==
    LET stop == Stop(shape, source, target, reentry)
        depth == IF stop = 0 THEN -1 ELSE shape.depth[stop]
    IN  [exits |-> [k \in 1 .. shape.depth[source] - depth |-> Up(shape, source, k - 1)],
         entries |-> EntryPath(shape, destination, shape.depth[destination] - depth)]

\* Position.Path: the lineage of the active node, from itself to its root.
Path(shape, active) == [k \in 1 .. shape.depth[active] + 1 |-> Up(shape, active, k - 1)]

\* Position.Status.
Status(shape, active, i) ==
    CASE i = active -> "active"
      [] /\ i # active
         /\ shape.enter[i] <= shape.enter[active]
         /\ shape.exit[active] <= shape.exit[i] -> "enclosing"
      [] OTHER -> "inactive"
=============================================================================
