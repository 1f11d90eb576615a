------------------------------ MODULE Hierarchy ------------------------------
(***************************************************************************)
(* Hierarchies of forecasts: how a version is materialized                 *)
(* (scripts/materialize_hierarchy.py), which graphs the pipeline accepts   *)
(* and how it reconciles them (vertex/evaluation/reconciliation.py), and   *)
(* what the API shows of a version (vertex/api/repository.py).  A graph    *)
(* has nodes, edges <<parent, child>> and the position of each node's      *)
(* level.  Forecasts are integers that the shares divide; the method       *)
(* "mint", which solves a least squares problem, is left out.              *)
(***************************************************************************)
EXTENDS Integers, FiniteSets, FiniteSetsExt, SequencesExt

Graph(nodes, edges, level) == [nodes |-> nodes, edges |-> edges, level |-> level]

Children(g, n) == {e[2] : e \in {x \in g.edges : x[1] = n}}
HasParent(g, n) == \E e \in g.edges : e[2] = n
Parent(g, n) == CHOOSE p \in g.nodes : <<p, n>> \in g.edges
Roots(g) == {n \in g.nodes : ~HasParent(g, n)}
Leaves(g) == {n \in g.nodes : Children(g, n) = {}}

-----------------------------------------------------------------------------
(* Materialization.  A level is a sequence of keys, and an entity a        *)
(* function from keys to values: the sequence of the parts of the text     *)
(* between its '|', <<>> where the entity does not have the key.           *)

KeysOf(levels) == UNION {ToSet(keys) : keys \in ToSet(levels)}

\* ARRAY_TO_STRING leaves out what is NULL and puts '|' between the others.
Joined(keys, entity) == FlattenSeq([k \in DOMAIN keys |-> entity[keys[k]]])

\* The name of the level, here its position, and the values: not their keys.
NodeId(position, keys, entity) == <<position, Joined(keys, entity)>>

\* Nodes are made of the entities that have every key of the level; edges are
\* made of every entity.
Materialize(levels, entities) ==
  LET whole(i, e) == \A k \in ToSet(levels[i]) : e[k] # <<>>
      id(i, e) == NodeId(i, levels[i], e)
      nodes == UNION {{id(i, e) : e \in {x \in entities : whole(i, x)}} :
                        i \in DOMAIN levels}
  IN Graph(nodes,
           {<<id(i, e), id(i + 1, e)>> : i \in DOMAIN levels \ {Cardinality(DOMAIN levels)},
                                         e \in entities},
           [n \in nodes |-> n[1]])

\* validate_hierarchy_config: keys of a level retain those of its parents.
LevelsRetainKeys(levels) ==
  \A i, j \in DOMAIN levels : i < j => ToSet(levels[i]) \subseteq ToSet(levels[j])

-----------------------------------------------------------------------------
(* build_hierarchy_graph.                                                  *)

\* The nodes within n edges of the sources.
Reached(edges, sources) ==
  LET step[n \in 0 .. Cardinality(edges)] ==
        IF n = 0 THEN sources
        ELSE LET before == step[n - 1]
             IN before \union {e[2] : e \in {x \in edges : x[1] \in before}}
  IN step[Cardinality(edges)]

\* Faulty variant: nodes that no root reaches are not noticed.
AcceptsUnreached(g) ==
  /\ \A e \in g.edges : e[1] \in g.nodes /\ e[2] \in g.nodes /\ e[1] # e[2]
  /\ \A d, e \in g.edges : d[2] = e[2] => d = e
  /\ Roots(g) # {}

Accepts(g) ==
  /\ \A e \in g.edges : e[1] \in g.nodes /\ e[2] \in g.nodes /\ e[1] # e[2]
  /\ \A d, e \in g.edges : d[2] = e[2] => d = e
  /\ Roots(g) # {}
  /\ Reached(g.edges, Roots(g)) = g.nodes

-----------------------------------------------------------------------------
(* The gates of hierarchy_snapshot that are computed from the graph.       *)

HasCycle(g) ==
  \E e \in g.edges : e[1] \in Reached(g.edges, {e[2]})

OneParentEach(g) ==
  \A n \in g.nodes :
    g.level[n] > Min({g.level[m] : m \in g.nodes})
      => Cardinality({e \in g.edges : e[2] = n}) = 1

GatesPass(g) == OneParentEach(g) /\ ~HasCycle(g)

-----------------------------------------------------------------------------
(* Predictions of leaves: every node gets the sum of those below it.       *)

\* Each row is matched to the leaf that has its key; leaves of one key hide
\* each other.
ExpandAccepts(g, keyOf, rows) ==
  /\ Accepts(g)
  /\ \A k \in rows : \E n \in Leaves(g) : keyOf[n] = k
  /\ Cardinality({keyOf[n] : n \in Leaves(g)}) = Cardinality(Leaves(g))
  /\ \A n \in Leaves(g) : keyOf[n] \in rows

Total(values, nodes) == MapThenSumSet(LAMBDA n : values[n], nodes)

Expand(g, prediction) ==
  [n \in g.nodes |->
     Total(prediction, {m \in Leaves(g) : m \in Reached(g.edges, {n})})]

-----------------------------------------------------------------------------
(* Reconciliation of one value per node.                                   *)

\* Faulty variant: negative weights are taken as they are.
SignedWeight(w) == w

ClippedWeight(w) == IF w < 0 THEN 0 ELSE w

\* What the children of a node count for: equally when no weight counts.
Raw(g, weight, p) ==
  LET clipped == [n \in Children(g, p) |-> ClippedWeight(weight[n])]
  IN IF Total(clipped, Children(g, p)) = 0 THEN [n \in Children(g, p) |-> 1]
     ELSE clipped

\* The share of a child in the total of its parent.
Share(g, weight, total, n) ==
  LET raw == Raw(g, weight, Parent(g, n))
  IN (total * raw[n]) \div Total(raw, DOMAIN raw)

AggregateUp(g, values) ==
  LET sum[n \in g.nodes] ==
        IF n \in Leaves(g) THEN values[n] ELSE Total(sum, Children(g, n))
  IN sum

Below(g, anchors) == Reached(g.edges, UNION {Children(g, a) : a \in anchors})

\* Everything below an anchor gets its share of it, another anchor too.
AllocateDown(g, weight, values, anchors) ==
  LET value[n \in g.nodes] ==
        IF n \in Below(g, anchors)
        THEN Share(g, weight, value[Parent(g, n)], n)
        ELSE values[n]
  IN value

Anchors(g, method, middle) ==
  CASE method = "bottom_up" -> Leaves(g)
    [] method = "top_down" -> Roots(g)
    [] method = "middle_out" -> {n \in g.nodes : g.level[n] = middle}

\* Faulty variant: nothing above the middle level is computed anew.
ReconcileDownOnly(g, weight, values, method, middle) ==
  AllocateDown(g, weight, values, Anchors(g, method, middle))

Reconcile(g, weight, values, method, middle) ==
  LET anchors == Anchors(g, method, middle)
  IN CASE method = "bottom_up" -> AggregateUp(g, values)
       [] method = "top_down" -> AllocateDown(g, weight, values, anchors)
       [] method = "middle_out" ->
            AggregateUp(g, AllocateDown(g, weight, values, anchors))

\* No division of an allocation leaves a remainder, so that integers do as the
\* code's numbers do.
SharesDivide(g, weight, values, anchors) ==
  LET value == AllocateDown(g, weight, values, anchors)
      raw(p) == Raw(g, weight, p)
  IN \A n \in Below(g, anchors) :
       LET p == Parent(g, n)
       IN value[n] * Total(raw(p), Children(g, p)) = value[p] * raw(p)[n]

Coherent(g, values) ==
  \A n \in g.nodes \ Leaves(g) : values[n] = Total(values, Children(g, n))

\* What the pipeline does with the three quantiles: it raises when they cross
\* or when one of them is not coherent.
Publishable(g, p10, p50, p90) ==
  /\ \A n \in g.nodes : p10[n] <= p50[n] /\ p50[n] <= p90[n]
  /\ Coherent(g, p10) /\ Coherent(g, p50) /\ Coherent(g, p90)
=============================================================================
