----------------------------- MODULE FlowGraph ------------------------------
(***************************************************************************)
(* How crates/flow/src/graph.rs prepares a flow: `validate` looks for a    *)
(* cycle by depth-first search, and a flow without one is cut into         *)
(* topological levels by Kahn's algorithm.  FlowGraph::build relies on the *)
(* two agreeing: it unwraps the levels with expect().                      *)
(*                                                                         *)
(* Vertices are their indices in flow.nodes.  The checks on ids, names and *)
(* kinds have no bearing on the graph; self loops are among the edges they *)
(* reject, so no graph here has one.  Duplicate edges are only warned of,  *)
(* so an edge is its index in flow.edges.                                  *)
(***************************************************************************)
EXTENDS Integers, Sequences, FiniteSets, FiniteSetsExt

CONSTANTS
    NodeCount,      \* flow.nodes.len()
    Flows           \* flow.edges of the flows considered: sequences of <<from, to>>

Vertices == 1..NodeCount

\* What the instances of this module assume of the flows.
FlowsAssumption ==
    /\ NodeCount \in Nat
    /\ \A f \in Flows : f \in Seq(Vertices \X Vertices) /\ \A e \in DOMAIN f : f[e][1] # f[e][2]

VARIABLES
    edges,      \* flow.edges
    phase,      \* "dfs", then "rejected", or "kahn" and "built" or "panic"
    marks,      \* marks[n]: find_cycle's Mark
    stack,      \* find_cycle's stack: the path to the node being visited
    unseen,     \* unseen[n]: successors the loop of dfs(n) has not reached
    cycle,      \* the cycle found, closed
    remaining,  \* remaining[n]: remaining_indegree
    current,    \* the level being placed
    levels,     \* the levels placed
    placed      \* how many nodes they hold

vars == <<edges, phase, marks, stack, unseen, cycle, remaining, current, levels, placed>>
dfsVars == <<marks, stack, unseen, cycle>>
kahnVars == <<remaining, current, levels, placed>>

Into(n) == {e \in DOMAIN edges : edges[e][2] = n}
Succ(n) == {edges[e][2] : e \in {e \in DOMAIN edges : edges[e][1] = n}}
Indegree(n) == Cardinality(Into(n))

Init == /\ edges \in Flows
        /\ phase = "dfs"
        /\ marks = [n \in Vertices |-> "Unvisited"]
        /\ stack = <<>>
        /\ unseen = [n \in Vertices |-> {}]
        /\ cycle = <<>>
        /\ remaining = [n \in Vertices |-> 0]
        /\ current = {}
        /\ levels = <<>> /\ placed = 0

-----------------------------------------------------------------------------
Top == stack[Len(stack)]
Unvisited == {n \in Vertices : marks[n] = "Unvisited"}

\* dfs(n) is entered.
Enter(n) == /\ marks' = [marks EXCEPT ![n] = "InStack"]
            /\ stack' = Append(stack, n)
            /\ UNCHANGED <<edges, phase, cycle, kahnVars>>

\* The outer loop of find_cycle: the first node not visited yet.
DfsRoot == /\ phase = "dfs" /\ stack = <<>> /\ Unvisited # {}
           /\ LET n == CHOOSE n \in Unvisited : \A m \in Unvisited : n <= m IN
                /\ unseen' = [unseen EXCEPT ![n] = Succ(n)]
                /\ Enter(n)

\* Position of n in the stack.
PositionOf(n) == CHOOSE i \in 1..Len(stack) : stack[i] = n

\* The stretch of the stack from n, closed with n.
ClosedAt(n) == Append(SubSeq(stack, PositionOf(n), Len(stack)), n)

\* Mutant: a node on the stack is taken for a finished one.
DfsEdge_IgnoreStack(m) ==
    /\ phase = "dfs" /\ stack # <<>> /\ m \in unseen[Top]
    /\ \/ /\ marks[m] = "Unvisited"
          /\ unseen' = [unseen EXCEPT ![Top] = @ \ {m}, ![m] = Succ(m)]
          /\ Enter(m)
       \/ /\ marks[m] \in {"Done", "InStack"}
          /\ unseen' = [unseen EXCEPT ![Top] = @ \ {m}]
          /\ UNCHANGED <<edges, phase, marks, stack, cycle, kahnVars>>

\* The inner loop: the next edge of the node on top, in the order of
\* flow.edges, which may be any.
DfsEdge(m) ==
    /\ phase = "dfs" /\ stack # <<>> /\ m \in unseen[Top]
    /\ \/ /\ marks[m] = "InStack"
          /\ cycle' = ClosedAt(m)
          /\ phase' = "rejected"
          /\ UNCHANGED <<edges, marks, stack, unseen, kahnVars>>
       \/ /\ marks[m] = "Unvisited"
          /\ unseen' = [unseen EXCEPT ![Top] = @ \ {m}, ![m] = Succ(m)]
          /\ Enter(m)
       \/ /\ marks[m] = "Done"
          /\ unseen' = [unseen EXCEPT ![Top] = @ \ {m}]
          /\ UNCHANGED <<edges, phase, marks, stack, cycle, kahnVars>>

\* dfs returns None.
DfsPop == /\ phase = "dfs" /\ stack # <<>> /\ unseen[Top] = {}
          /\ marks' = [marks EXCEPT ![Top] = "Done"]
          /\ stack' = SubSeq(stack, 1, Len(stack) - 1)
          /\ UNCHANGED <<edges, phase, unseen, cycle, kahnVars>>

\* No cycle: topological_levels starts with the nodes nothing points to.
KahnInit == /\ phase = "dfs" /\ stack = <<>> /\ Unvisited = {}
            /\ phase' = "kahn"
            /\ remaining' = [n \in Vertices |-> Indegree(n)]
            /\ current' = {n \in Vertices : Indegree(n) = 0}
            /\ UNCHANGED <<edges, levels, placed, dfsVars>>

\* The edges from the current level to n.
FromCurrent(n) == Cardinality({e \in Into(n) : edges[e][1] \in current})

\* The targets whose last incoming edge has been taken.
NextLevel == {n \in Vertices : FromCurrent(n) > 0 /\ remaining[n] - FromCurrent(n) = 0}

\* Mutant: the levels come out in reverse.
KahnLevel_Prepend == /\ phase = "kahn" /\ current # {}
                     /\ levels' = <<current>> \o levels
                     /\ remaining' = [n \in Vertices |-> remaining[n] - FromCurrent(n)]
                     /\ current' = NextLevel /\ placed' = placed + Cardinality(current)
                     /\ UNCHANGED <<edges, phase, dfsVars>>

\* One turn of the while loop.
KahnLevel == /\ phase = "kahn" /\ current # {}
             /\ levels' = Append(levels, current)
             /\ remaining' = [n \in Vertices |-> remaining[n] - FromCurrent(n)]
             /\ current' = NextLevel /\ placed' = placed + Cardinality(current)
             /\ UNCHANGED <<edges, phase, dfsVars>>

\* `None`, which expect() turns into a panic, unless every node is placed.
KahnEnd == /\ phase = "kahn" /\ current = {}
           /\ phase' = IF placed = NodeCount THEN "built" ELSE "panic"
           /\ UNCHANGED <<edges, dfsVars, kahnVars>>

Next == DfsRoot \/ (\E m \in Vertices : DfsEdge(m)) \/ DfsPop \/ KahnInit \/ KahnLevel \/ KahnEnd

Spec == Init /\ [][Next]_vars

-----------------------------------------------------------------------------
TypeOK == /\ phase \in {"dfs", "rejected", "kahn", "built", "panic"}
          /\ marks \in [Vertices -> {"Unvisited", "InStack", "Done"}]
          /\ \A i \in 1..Len(stack) : marks[stack[i]] = "InStack"
          /\ \A n \in Vertices : unseen[n] \subseteq Succ(n)
          /\ \A n \in Vertices : remaining[n] >= 0
          /\ current \subseteq Vertices /\ placed \in 0..NodeCount

(* Kahn's algorithm places every node of a flow the search let through, so  *)
(* the expect() of FlowGraph::build (L125) never fires.                     *)
NeverPanics == phase # "panic"

(* What validate reports as a cycle is one: consecutive nodes are joined by *)
(* edges, it ends where it begins and goes through no node twice (L451-456).*)
ReportedCycleIsReal ==
    phase = "rejected" =>
        /\ Len(cycle) >= 3
        /\ cycle[1] = cycle[Len(cycle)]
        /\ \A i \in 1..(Len(cycle) - 1) : cycle[i + 1] \in Succ(cycle[i])
        /\ Cardinality({cycle[i] : i \in 1..Len(cycle)}) = Len(cycle) - 1

\* The reference: the number of edges of the longest path that ends in n.
Depth == CHOOSE d \in [Vertices -> 0..NodeCount] :
            \A n \in Vertices :
                LET pred == {d[m] + 1 : m \in {m \in Vertices : n \in Succ(m)}}
                IN  d[n] = IF pred = {} THEN 0 ELSE Max(pred)

(* The levels of an accepted flow hold every node exactly once, at its      *)
(* depth: after all the nodes it depends on, and no later (L364-409).       *)
LevelIsDepth ==
    phase = "built" =>
        \A n \in Vertices : {i \in 1..Len(levels) : n \in levels[i]} = {Depth[n] + 1}
=============================================================================
