--------------------------- MODULE DependencyGraph ---------------------------
(***************************************************************************)
(* The dependency graph of one calibration tree and the walk orders taken  *)
(* from it (dag.py).  Calibrations are numbers, in the order in which they *)
(* were created.  A graph has nodes and edges, and an edge points from a   *)
(* calibration to what it depends on.                                      *)
(***************************************************************************)
EXTENDS Naturals, SequencesExt

None == 0   \* no dependency, no registry, no calibration

(* DagRegistry.graph(), from the registry's list of records: one with no   *)
(* dependency for each calibration, one more for each dependency declared. *)
GraphOf(records) ==
  [node |-> (UNION {{r[1], r[2]} : r \in ToSet(records)}) \ {None},
   edge |-> {r \in ToSet(records) : r[2] # None}]

Successors(G, S) == {e[2] : e \in {d \in G.edge : d[1] \in S}}

(* _reachable_nodes, for several calibrations at once: themselves and      *)
(* their descendants.                                                      *)
Reachable(G, S) ==
  LET within[k \in Nat] == IF k = 0 THEN S
                           ELSE within[k - 1] \cup Successors(G, within[k - 1])
  IN within[Cardinality(G.node)]

(* networkx.topological_sort of the subgraph on the given nodes: all those *)
(* that no remaining edge points to, again and again, in some order.  Of a *)
(* graph with a cycle some are left over, and there is no order.           *)
TopologicalSort(G, nodes) ==
  LET Ready(seen) ==
        {n \in nodes \ seen : \A e \in G.edge : e[1] \in nodes \ seen => e[2] # n}
      sorted[k \in Nat] ==
        IF k = 0 THEN <<>>
        ELSE sorted[k - 1] \o SetToSeq(Ready(ToSet(sorted[k - 1])))
      all == sorted[Cardinality(nodes)]
  IN IF Len(all) = Cardinality(nodes) THEN all ELSE <<>>

(* A mutant: by the distance from a top node ("the BFS-distance sort this  *)
(* replaces", dag.py 245).                                                 *)
TopoOrderByDistance(G, nodes) ==
  LET tops == {n \in nodes : \A e \in G.edge : e[1] \in nodes => e[2] # n}
      sorted[k \in Nat] ==
        IF k = 0 THEN SetToSeq(tops)
        ELSE sorted[k - 1] \o
             SetToSeq((Successors(G, ToSet(sorted[k - 1])) \cap nodes) \ ToSet(sorted[k - 1]))
  IN Reverse(sorted[Cardinality(nodes)])

(* _topo_order, furthest first. *)
TopoOrder(G, nodes) == Reverse(TopologicalSort(G, nodes))

(* get_union_dependencies; get_dependencies when there is one target.      *)
UnionDependencies(G, targets) == TopoOrder(G, Reachable(G, targets))
==============================================================================
