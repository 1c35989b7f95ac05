-------------------------- MODULE WorkflowDefinition --------------------------
(***************************************************************************)
(* Workflow definitions: the nodes and edges the builder saves, and what    *)
(* makes a definition sound.                                                *)
(*                                                                          *)
(* A node's config is kept as far as the engine's behaviour depends on it:  *)
(* expressions are represented by the columns they mention and produce.     *)
(***************************************************************************)
EXTENDS Integers, Sequences, FiniteSets

CONSTANTS
    NodeIds,  \* texts that can be a node's id: the empty one is refused
    Columns,  \* texts that can be a column's name
    MaxNodes, \* 200 in the code
    MaxEdges  \* 500 in the code

ASSUME SizeAssumption == MaxNodes \in Nat /\ MaxEdges \in Nat

NodeTypes == {"source", "transform", "filter", "join", "aggregate", "output"}
Forms == {"ok", "incomplete", "malformed"}

\* form: "malformed" when the config does not unmarshal, "incomplete" when the
\* executor refuses it all the same (no expression, one that does not compile,
\* no aggregation, no key, no connection).  words: the identifiers in it that
\* look like columns.  needs: the columns it requires
\* of its input (group-by keys; the left key of a join).  needsRight: a join's
\* right key.  reads: the columns an aggregation takes unchecked.  gives: the
\* columns of the rows it makes.  sql: a source that honours projection hints.
\* outer: a left join.
NodeConfig == [type : NodeTypes \cup {"unknown"}, form : Forms, sql : BOOLEAN,
               outer : BOOLEAN, words : SUBSET Columns, needs : SUBSET Columns,
               needsRight : SUBSET Columns, reads : SUBSET Columns, gives : SUBSET Columns]

\* An edge's empty targetHandle is written "default", as the engine reads it.
Edge == [source : NodeIds, target : NodeIds, handle : STRING]

Definition == [nodes : Seq(NodeIds), config : [NodeIds -> NodeConfig], edges : Seq(Edge)]

Ids(d) == {d.nodes[k] : k \in 1..Len(d.nodes)}

\* Edges are named by their positions.
EdgesOf(d) == 1..Len(d.edges)
In(d, n) == {e \in EdgesOf(d) : d.edges[e].target = n}
Out(d, n) == {e \in EdgesOf(d) : d.edges[e].source = n}
Preds(d, n) == {d.edges[e].source : e \in In(d, n)}

\* Definition.Validate, up to its call of TopologicalOrder.
Validated(d) ==
    /\ Len(d.nodes) <= MaxNodes
    /\ Len(d.edges) <= MaxEdges
    /\ Cardinality(Ids(d)) = Len(d.nodes)
    /\ \A n \in Ids(d) : d.config[n].type \in NodeTypes
    /\ \A e \in EdgesOf(d) : d.edges[e].source \in Ids(d) /\ d.edges[e].target \in Ids(d)

\* A set of nodes each of which depends on one of the set: what a cycle
\* leaves behind, and nothing else does.
Circular(d, S) == \A n \in S : Preds(d, n) \cap S # {}
Cyclic(d) == \E S \in (SUBSET Ids(d)) \ {{}} : Circular(d, S)

Sound(d) == Validated(d) /\ ~Cyclic(d)

=============================================================================
