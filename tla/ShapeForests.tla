---------------------------- MODULE ShapeForests -----------------------------
(***************************************************************************)
(* Every hierarchy over the declared states, cyclic ones included, compiled  *)
(* and walked through: the active state moves to the destination of any      *)
(* target.  What the shape answers is compared with the ancestor relation of *)
(* the declarations themselves.                                            *)
(***************************************************************************)
EXTENDS Shape

CONSTANT Order       \* the declared states, in order

\* Compile has left out what is declared twice.
ASSUME OrderAssumption ==
    /\ Order \in Seq(ToSet(Order))
    /\ \A i, j \in DOMAIN Order : Order[i] = Order[j] => i = j

States == ToSet(Order)

NodeSet == DOMAIN Order

VARIABLES
    parents,     \* the declared parents
    initials,    \* the declared initial children
    shape,       \* what compileShape makes of them
    lineage,     \* every node with its ancestors, as the declarations have them
    active       \* the active node; 0 before there is an Instance

shapeVars == << parents, initials, shape, lineage, active >>

\* A state is not its own parent, and an initial child is an immediate child:
\* Compile has refused everything else before it looks for cycles.
ParentFunctions ==
    UNION {{f \in [D -> States] : \A s \in D : f[s] # s} : D \in SUBSET States}

InitialFunctions(p) ==
    UNION {{f \in [D -> DOMAIN p] : \A s \in D : p[f[s]] = s} : D \in SUBSET Range(p)}

\* The node of the declared parent of a node, if it has one.
ParentOf(i) == {j \in NodeSet : Order[i] \in DOMAIN parents /\ parents[Order[i]] = Order[j]}

\* The smallest set that contains the nodes and the parents of its members.
Closure(nodes) ==
    LET closed == {S \in SUBSET NodeSet : nodes \subseteq S /\ \A i \in S : ParentOf(i) \subseteq S}
    IN  {i \in NodeSet : \A S \in closed : i \in S}

Ancestors(i) == Closure(ParentOf(i))

ForestInit ==
    /\ parents \in ParentFunctions
    /\ initials = << >>
    /\ shape = [state |-> << >>]
    /\ lineage = << >>
    /\ active = 0

CompileForest ==
    /\ shape.state = << >>
    /\ HierarchyCycles(Order, parents) = {}
    /\ initials' \in InitialFunctions(parents)
    /\ shape' = CompileShape(Order, parents, initials')
    /\ lineage' = [i \in NodeSet |-> Closure({i})]
    /\ UNCHANGED << parents, active >>

\* An Instance is created in, or moves to, the destination of a state.
Move(target) ==
    /\ shape.state # << >>
    /\ active' = shape.destination[target]
    /\ UNCHANGED << parents, initials, shape, lineage >>

ForestNext == CompileForest \/ \E target \in NodeSet : Move(target)

ForestSpec == ForestInit /\ [][ForestNext]_shapeVars

-----------------------------------------------------------------------------
(* A hierarchy is refused exactly when a state of it is its own ancestor,    *)
(* and the cycles reported are all there are (statechart.go,                *)
(* hierarchyCycles).                                                       *)
CyclesAreReported ==
    shape.state = << >> =>
    HierarchyCycles(Order, parents)
    = {{Order[j] : j \in Ancestors(i)} : i \in {k \in NodeSet : k \in Ancestors(k)}}

(* The common ancestor at which the paths of an external transition stop is  *)
(* the one that both lineages share and that is below all other shared ones, *)
(* and there is none exactly when they share nothing (position.go,          *)
(* leastCommonAncestor).                                                   *)
LCAIsLowestShared ==
    active # 0 =>
    \A i \in NodeSet :
        LET lca == LeastCommonAncestor(shape, active, i)
            shared == lineage[active] \cap lineage[i]
        IN  IF shared = {} THEN lca = 0
            ELSE lca \in shared /\ shared = lineage[lca]

(* Exits and entries of a transition take the active lineage to the lineage  *)
(* of its destination: the states exited are those of the active lineage     *)
(* that the target does not share (with Reentry, all up to the target),      *)
(* child before parent; the ones entered complete the destination's lineage, *)
(* parent before child (position.go, paths).                               *)
PathsChangeLineage ==
    active # 0 =>
    \A target \in NodeSet, reentry \in BOOLEAN :
        (reentry => target \in lineage[active]) =>
        LET destination == shape.destination[target]
            p == Paths(shape, active, target, destination, reentry)
            kept == IF reentry THEN lineage[target] \ {target}
                    ELSE lineage[active] \cap lineage[target]
        IN  /\ ToSet(p.exits) = lineage[active] \ kept
            /\ ToSet(p.entries) = lineage[destination] \ kept
            /\ \A j, k \in DOMAIN p.exits : j < k => p.exits[k] \in lineage[p.exits[j]] \ {p.exits[j]}
            /\ \A j, k \in DOMAIN p.entries :
                   j < k => p.entries[j] \in lineage[p.entries[k]] \ {p.entries[k]}

(* The interval test of Status says "enclosing" of the proper ancestors of   *)
(* the active state and of no other state, and Path lists the same states    *)
(* (position.go, compileShape, Path and Status).                           *)
StatusIsAncestry ==
    active # 0 =>
    /\ ToSet(Path(shape, active)) = lineage[active]
    /\ \A i \in NodeSet :
          Status(shape, active, i) = (CASE i = active -> "active"
                                        [] i # active /\ i \in lineage[active] -> "enclosing"
                                        [] OTHER -> "inactive")

(* The destination of a state is the end of its chain of initial children: a *)
(* state without one, at or below it, with an initial child at every step    *)
(* between (position.go, compileShape).                                    *)
DestinationEndsChain ==
    shape.state # << >> =>
    \A i \in NodeSet :
        LET d == shape.destination[i]
        IN  /\ Order[d] \notin DOMAIN initials
            /\ i \in lineage[d]
            /\ \A j \in lineage[d] \ {d} :
                  i \in lineage[j] => /\ Order[j] \in DOMAIN initials
                                       /\ IndexOf(Order, initials[Order[j]]) \in lineage[d]
=============================================================================
