--------------------------- MODULE ResourceGraph ---------------------------
(***************************************************************************)
(* resource.Graph (resource/resource_graph.go): the resources of a robot   *)
(* and their dependencies.  An edge goes from a child to the parent it     *)
(* depends on; the matrix holds, for every two nodes, the number of paths  *)
(* from the one up to the other, and is updated edge by edge.              *)
(*                                                                         *)
(* A graph is a record.  In the maps children and parents a missing key    *)
(* and the empty set are one (removeResFromSet, removeNodeFromNodeMap drop *)
(* a key with its last element), and a missing entry of the matrix reads   *)
(* as 0, as in Go.  Every exported method holds mu from start to end, so   *)
(* it is one step.                                                         *)
(*                                                                         *)
(* A definition directly above a helper, with the same parameters, is a    *)
(* plausible mistake in that helper's code; no action uses it.             *)
(***************************************************************************)
EXTENDS Integers, FiniteSets, FiniteSetsExt, Sequences

CONSTANTS
  Names,       \* resource names
  Values,      \* what a node can hold besides nil
  Nil          \* the nil interface

ASSUME GraphConstants == Nil \notin Values /\ IsFiniteSet(Names)

VARIABLE graph  \* resourceManager.resources

(* A loop over a slice, and the slice turned round.                         *)
Loop(op(_, _), base, seq) ==
  MapThenFoldSet(LAMBDA x, y : op(y, x), base, LAMBDA i : seq[i], LAMBDA S : Max(S), DOMAIN seq)

Reversed(seq) == [i \in DOMAIN seq |-> seq[Len(seq) + 1 - i]]

NewGraph ==
  [nodes    |-> [n \in {} |-> Nil],
   children |-> [n \in Names |-> {}],
   parents  |-> [n \in Names |-> {}],
   matrix   |-> [u \in Names |-> [v \in Names |-> 0]]]

Nodes(g) == DOMAIN g.nodes

(* leaves: the nodes that are nobody's parent.                              *)
roots(g) == {n \in Nodes(g) : g.parents[n] = {}}
leaves(g) == {n \in Nodes(g) : g.children[n] = {}}

getAllChildrenOf(g, node) == {k \in Names : node \in Nodes(g) /\ node \in g.parents[k]}
getAllParentOf(g, node) == {k \in Names : node \in Nodes(g) /\ node \in g.children[k]}

isParentDependingOn(g, node, child) ==
  {node, child} \subseteq Nodes(g) /\ g.matrix[node][child] # 0
isNodeDependingOn(g, node, child) ==
  {node, child} \subseteq Nodes(g) /\ g.matrix[child][node] # 0

(* addNode: the entries it fills with 0 read as 0 before.                   *)
addNode(g, node, iface) ==
  [nodes    |-> [n \in Nodes(g) \cup {node} |-> IF n = node THEN iface ELSE g.nodes[n]],
   children |-> g.children,
   parents  |-> g.parents,
   matrix   |-> [g.matrix EXCEPT ![node][node] = 1]]

(* The paths through the edge from child up to parent come in or go.  The   *)
(* code updates in place: an entry it reads may be one it has written only  *)
(* if matrix[parent][child] # 0, when there is a cycle.                     *)
addFirstEdge(m, child, parent) == [m EXCEPT ![child][parent] = @ + 1]
addTransitiveClosure(m, child, parent) ==
  [u \in Names |-> [v \in Names |-> m[u][v] + m[u][child] * m[parent][v]]]

removeTransitiveClosure(m, child, parent) ==
  [u \in Names |-> [v \in Names |-> m[u][v] - m[u][child] * m[parent][v]]]

(* addChildren: the graph and whether the error is nil.                     *)
Circular(g, child, parent) ==
  parent \in Nodes(g) /\ g.matrix[parent][child] # 0

addChildren(g, child, parent) ==
  LET h == IF parent \in Nodes(g) THEN g ELSE addNode(g, parent, Nil)
      linked == [nodes    |-> h.nodes,
                 children |-> [h.children EXCEPT ![parent] = @ \cup {child}],
                 parents  |-> [h.parents EXCEPT ![child] = @ \cup {parent}],
                 matrix   |-> addTransitiveClosure(h.matrix, child, parent)]
  IN  CASE child = parent \/ Circular(g, child, parent) -> [g |-> g, ok |-> FALSE]
        [] OTHER -> [g |-> IF parent \in g.parents[child] THEN h ELSE linked, ok |-> TRUE]

removeChildren(g, child, parent) ==
  [nodes    |-> g.nodes,
   children |-> [g.children EXCEPT ![parent] = @ \ {child}],
   parents  |-> [g.parents EXCEPT ![child] = @ \ {parent}],
   matrix   |-> removeTransitiveClosure(g.matrix, child, parent)]

(* remove: the closure loses the edges up, then the edges down; then every  *)
(* mention of the node goes, except its column of the matrix.               *)
RemoveUpOnly(g, node) ==
  FoldSet(LAMBDA k, m : removeTransitiveClosure(m, node, k), g.matrix, g.parents[node])
RemoveEdges(g, node) ==
  FoldSet(LAMBDA k, m : removeTransitiveClosure(m, k, node),
          FoldSet(LAMBDA k, m : removeTransitiveClosure(m, node, k), g.matrix, g.parents[node]),
          g.children[node])

DropMention(deps, node) == [n \in Names |-> IF n = node THEN {} ELSE deps[n] \ {node}]

remove(g, node) ==
  [nodes    |-> [n \in Nodes(g) \ {node} |-> g.nodes[n]],
   children |-> DropMention(g.children, node),
   parents  |-> DropMention(g.parents, node),
   matrix   |-> [RemoveEdges(g, node) EXCEPT ![node] = [v \in Names |-> 0]]]

(* A loop of addChildren over a map, left at the first error.               *)
LinkAll(r, edges) ==
  FoldSet(LAMBDA e, acc : IF acc.ok THEN addChildren(acc.g, e[1], e[2]) ELSE acc, r, edges)

(* renameNode: an edge to old is moved to newName before the next is; the   *)
(* parents come first.                                                      *)
MoveUp(r, old, newName, p) ==
  IF r.ok THEN addChildren(removeChildren(r.g, old, p), newName, p) ELSE r

MoveDown(r, old, newName, c) ==
  IF r.ok THEN addChildren(removeChildren(r.g, c, old), c, newName) ELSE r

ChildrenStay(g, old) == {}
ChildrenToMove(g, old) == getAllChildrenOf(g, old)

renameNode(g, old, newName) ==
  LET start == [g |-> addNode(g, newName, g.nodes[old]), ok |-> TRUE]
      up == FoldSet(LAMBDA p, r : MoveUp(r, old, newName, p), start, getAllParentOf(g, old))
      down == FoldSet(LAMBDA c, r : MoveDown(r, old, newName, c), up, ChildrenToMove(g, old))
  IN  IF old \notin Nodes(g) \/ newName \in Nodes(g) THEN [g |-> g, ok |-> FALSE]
      ELSE IF down.ok THEN [g |-> remove(down.g, old), ok |-> TRUE] ELSE down

----------------------------------------------------------------------------
(* TopologicalSort appends the leaves, in map order, and removes them,      *)
(* until there are none: the layers are what any order it returns has in    *)
(* common.                                                                  *)
Peel(g) == FoldSet(LAMBDA n, h : remove(h, n), g, leaves(g))

TopologicalLayers(g) ==
  LET size == Cardinality(Nodes(g))
      temp[i \in 0..size] == IF i = 0 THEN g ELSE Peel(temp[i - 1])
  IN  [i \in {k \in 1..size : leaves(temp[k - 1]) # {}} |-> leaves(temp[i - 1])]

InLayers(layers) == UNION {layers[i] : i \in DOMAIN layers}

(* A sequence TopologicalSort may return.                                   *)
TopologicalSort(g) ==
  Loop(LAMBDA s, l : FoldSet(LAMBDA n, t : Append(t, n), s, l), <<>>, TopologicalLayers(g))

ReverseTopologicalSort(g) == Reversed(TopologicalSort(g))

(* SubGraphFrom: what does not depend on node is removed, parents first.    *)
SubGraphFrom(g, node) ==
  Loop(LAMBDA h, n : IF isNodeDependingOn(h, node, n) THEN h ELSE remove(h, n),
       g, ReverseTopologicalSort(g))

(* MergeAdd: leaves first, a node that holds something is replaced.         *)
NoLinks(toAdd, n) == {}
ChildLinks(toAdd, n) == {<<c, n>> : c \in getAllChildrenOf(toAdd, n)}

MergeNode(r, toAdd, n) ==
  LET h == IF n \in Nodes(r.g) /\ r.g.nodes[n] # Nil THEN remove(r.g, n) ELSE r.g
  IN  LinkAll([g |-> addNode(h, n, toAdd.nodes[n]), ok |-> TRUE], ChildLinks(toAdd, n))

MergeAdd(g, toAdd) ==
  Loop(LAMBDA r, n : IF r.ok THEN MergeNode(r, toAdd, n) ELSE r,
       [g |-> g, ok |-> TRUE], TopologicalSort(toAdd))

MergeKeep(g, toRemove) == g
MergeRemove(g, toRemove) == FoldSet(LAMBDA n, h : remove(h, n), g, Nodes(toRemove))

ReplaceNodesParents(g, node, other) ==
  LET m == FoldSet(LAMBDA k, n : removeTransitiveClosure(n, node, k), g.matrix, g.parents[node])
      cut == [g EXCEPT !.matrix = m, !.parents = [k \in Names |-> @[k] \ {node}]]
  IN  IF node \notin Nodes(g) THEN [g |-> g, ok |-> FALSE]
      ELSE LinkAll([g |-> cut, ok |-> TRUE], ChildLinks(other, node))

(* FilterFromConfig of the resource manager: the resources that left the    *)
(* configuration go, with what depends on them, into a graph of their own.  *)
FilterOne(f, g, n) ==
  IF n \in Nodes(g) \ Nodes(f) THEN MergeAdd(f, SubGraphFrom(g, n)).g ELSE f

Filtered(g, gone) == Loop(LAMBDA f, n : FilterOne(f, g, n), NewGraph, gone)

----------------------------------------------------------------------------
(* children and parents are two views of one set of edges between nodes.    *)
Mirrored(g) ==
  \A c, p \in Names : /\ p \in g.parents[c] <=> c \in g.children[p]
                      /\ p \in g.parents[c] => {c, p} \subseteq Nodes(g)

(* A well-formed graph.                                                     *)
GraphTypeOK ==
  /\ Nodes(graph) \subseteq Names
  /\ \A n \in Nodes(graph) : graph.nodes[n] \in Values \cup {Nil}
  /\ graph.children \in [Names -> SUBSET Names]
  /\ graph.parents \in [Names -> SUBSET Names]
  /\ graph.matrix \in [Names -> [Names -> Int]]
  /\ Mirrored(graph)

GraphInit == graph = NewGraph

AddNode(n, v) == graph' = addNode(graph, n, v)

(* The child is a node already: wrapResource and updateRemoteResourceNames  *)
(* add it first.  (For the one call that does not see ResourceManager.)     *)
AddChildren(c, p) ==
  /\ c \in Nodes(graph)
  /\ graph' = addChildren(graph, c, p).g

(* wrapResource unlinks only what GetAllParentsOf returned.                 *)
RemoveChildren(c, p) ==
  /\ p \in getAllParentOf(graph, c)
  /\ graph' = removeChildren(graph, c, p)

Remove(n) ==
  /\ n \in Nodes(graph)
  /\ graph' = remove(graph, n)

RenameNode(old, newName) ==
  /\ old \in Nodes(graph)
  /\ graph' = renameNode(graph, old, newName).g

FilterFromConfig(gone) ==
  /\ {gone[i] : i \in DOMAIN gone} \subseteq Nodes(graph)
  /\ graph' = MergeRemove(graph, Filtered(graph, gone))

(* What one configuration removes: one or two resources.                    *)
Removals(S) == {<<a>> : a \in S} \cup {<<a, b>> : a \in S, b \in S}

GraphNext ==
  \/ \E n \in Names, v \in Values \cup {Nil} : AddNode(n, v)
  \/ \E c, p \in Names : AddChildren(c, p)
  \/ \E c, p \in Names : RemoveChildren(c, p)
  \/ \E n \in Names : Remove(n)
  \/ \E old, newName \in Names : RenameNode(old, newName)
  \/ \E gone \in Removals(Names) : FilterFromConfig(gone)

GraphSpec == GraphInit /\ [][GraphNext]_graph

----------------------------------------------------------------------------
(* Reference definitions, from the edges alone.                             *)

SumOf(f, P) == MapThenSumSet(LAMBDA p : f[p], P)
Column(m, v) == [p \in Names |-> m[p][v]]

(* The number of paths of i edges from u up to v.                           *)
PathsOfLength(g) ==
  LET f[i \in 0..Cardinality(Names)] ==
        IF i = 0 THEN [u \in Names |-> [v \in Names |-> IF u = v /\ u \in Nodes(g) THEN 1 ELSE 0]]
        ELSE [u \in Names |-> [v \in Names |-> SumOf(Column(f[i - 1], v), g.parents[u])]]
  IN  f

(* The nodes from which some path leads up to node.                         *)
Dependents(g, node) ==
  LET f == PathsOfLength(g) IN
  {u \in Nodes(g) : \E i \in DOMAIN f : f[i][u][node] # 0}

(* resource_graph.go:305-342, 214-228: whatever the sequence of additions,  *)
(* removals and renamings, no resource depends on itself, directly or not,  *)
(* and the incrementally updated matrix is the number of paths between any  *)
(* two nodes, with leftover columns 0.                                      *)
ClosureCountsPaths ==
  LET f == PathsOfLength(graph) IN
  \A u, v \in Names :
    /\ f[Cardinality(Names)][u][v] = 0
    /\ graph.matrix[u][v] = SumOf([i \in DOMAIN f |-> f[i][u][v]], DOMAIN f)

(* resource_graph.go:433-447: the sort that decides the order resources are *)
(* built and closed in has every node once, and puts a resource in an       *)
(* earlier layer than all it depends on.                                    *)
SortedByDependency ==
  LET layers == TopologicalLayers(graph) IN
  /\ InLayers(layers) = Nodes(graph)
  /\ \A i, j \in DOMAIN layers :
       \A c \in layers[i], p \in layers[j] :
         /\ c = p => i = j
         /\ p \in graph.parents[c] => i < j

(* resource_graph.go:478-493 "returns a Sub-Graph containing all linked     *)
(* dependencies starting with node Name": the sub-graph of a node is the    *)
(* node with all that depends on it, directly or not, and the edges among   *)
(* them.                                                                    *)
SubGraphIsDependents ==
  \A n \in Nodes(graph) :
    LET sub == SubGraphFrom(graph, n) IN
    /\ Nodes(sub) = Dependents(graph, n)
    /\ \A c, p \in Nodes(sub) : p \in sub.parents[c] <=> p \in graph.parents[c]

(* resource_graph.go:230 "keeping it's dependencies": a node renamed to a   *)
(* free name leaves the graph as it was but for the name, matrix included.  *)
RenameKeepsDependencies ==
  \A old \in Nodes(graph), newName \in Names \ Nodes(graph) :
    LET r == renameNode(graph, old, newName)
        as(n) == IF n = newName THEN old ELSE IF n = old THEN newName ELSE n
    IN  /\ r.ok
        /\ \A u, v \in Names :
             /\ v \in r.g.parents[u] <=> as(v) \in graph.parents[as(u)]
             /\ r.g.matrix[u][v] = graph.matrix[as(u)][as(v)]

(* resource_manager.go:825-904: what a configuration removes takes along    *)
(* exactly what depends on it, so nothing is left that depends on a removed *)
(* resource.                                                                *)
FilterTakesDependents ==
  \A gone \in Removals(Nodes(graph)) :
    Nodes(Filtered(graph, gone)) = UNION {Dependents(graph, gone[i]) : i \in DOMAIN gone}

(* The four together: through any history the matrix, and what is computed  *)
(* from it, agree with the edges.                                           *)
GraphConsistent ==
  /\ ClosureCountsPaths /\ SubGraphIsDependents
  /\ RenameKeepsDependencies /\ FilterTakesDependents

(* resource_manager.go:340-357 with 844-902: the removed resources are      *)
(* closed in the order of the filtered graph, so a resource is closed       *)
(* before a resource it depends on, if the last sub-graph merged that has   *)
(* the first has the second too.  (MergeAdd forgets the dependencies of a   *)
(* node it replaces, resource_graph.go:371-373.)                            *)
ClosedBeforeItsParents ==
  \A gone \in Removals(Nodes(graph)) :
    LET filtered == Filtered(graph, gone)
        layers == TopologicalLayers(filtered)
        With(n) == {i \in DOMAIN gone : n \in Dependents(graph, gone[i])
                                      /\ \A j \in 1..(i - 1) : gone[i] \notin Dependents(graph, gone[j])}
        Together(c, p) == Max(With(c)) \in With(p)
    IN  \A i, j \in DOMAIN layers :
          \A c \in layers[i], p \in layers[j] :
            p \in graph.parents[c] /\ Together(c, p) => i < j

----------------------------------------------------------------------------
(* What a comment says of the code and the code does not do.                *)

(* resource_graph.go:385 "replaces all parent of a given node with the      *)
(* parents of the other graph".                                             *)
ParentsAreReplaced ==
  \A n, m \in Nodes(graph) :
    LET other == SubGraphFrom(graph, m)
        r == ReplaceNodesParents(graph, n, other)
    IN  n \in Nodes(other) /\ r.ok => getAllParentOf(r.g, n) = getAllParentOf(other, n)
=============================================================================
