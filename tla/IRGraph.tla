------------------------------- MODULE IRGraph -------------------------------
(***************************************************************************)
(* The Hydro IR graph of hydro_lang/src/ir.rs as constants.                *)
(*                                                                         *)
(* A HydroNode owned through a Box is a node id of Nodes; its fixed        *)
(* structure (variant and boxed children) never changes during a pass.     *)
(* A TeeNode holds an Rc<RefCell<HydroNode>>: a Cell here, whose content   *)
(* (a node id or Placeholder) and whose identity (the pointer used as the  *)
(* key of SeenTees and of built_tees) are what the passes manipulate.      *)
(* Leaves are the HydroLeaf inputs, in the order the flow lists them.      *)
(***************************************************************************)
EXTENDS Naturals, Sequences, FiniteSets

CONSTANTS
  Nodes,        \* ids of the boxed HydroNode values of the graph
  Kind,         \* [Nodes -> NodeKinds]: the HydroNode variant
  Children,     \* [Nodes -> Seq(Nodes)]: boxed children, in transform_children order
  Cells,        \* the Rc cells a pass may allocate (initial ones included)
  TeeCell0,     \* [TeeNodes -> Cells]: the cell each Tee points to when the pass starts
  CellContent0, \* [Cells -> Nodes \cup {Placeholder}]: initial cell contents
  Leaves,       \* Seq(Nodes): the input of each HydroLeaf, in flow order
  LeafKind,     \* [1..Len(Leaves) -> {"ForEach","DestSink","CycleSink"}]
  Placeholder   \* HydroNode::Placeholder

\* The variants of HydroNode (ir.rs 326-477), Placeholder excepted.
SourceKinds == {"Source", "CycleSource"}
UnaryKinds  == {"Persist", "Unpersist", "Delta", "Map", "FlatMap", "Filter",
                "FilterMap", "DeferTick", "Enumerate", "Inspect", "Unique",
                "Sort", "Fold", "FoldKeyed", "Reduce", "ReduceKeyed", "Network"}
BinaryKinds == {"Chain", "CrossProduct", "CrossSingleton", "Join",
                "Difference", "AntiJoin"}
NodeKinds   == SourceKinds \cup UnaryKinds \cup BinaryKinds \cup {"Tee"}

\* Number of boxed children of a variant (a Tee's child is behind its cell).
Arity(k) == IF k \in UnaryKinds THEN 1 ELSE IF k \in BinaryKinds THEN 2 ELSE 0

TeeNodes == {n \in Nodes : Kind[n] = "Tee"}
NetNodes == {n \in Nodes : Kind[n] = "Network"}
InitCells == {TeeCell0[t] : t \in TeeNodes}

ASSUME /\ Kind \in [Nodes -> NodeKinds]
       /\ \A n \in Nodes : Children[n] \in Seq(Nodes) /\ Len(Children[n]) = Arity(Kind[n])
       /\ TeeCell0 \in [TeeNodes -> Cells]
       /\ CellContent0 \in [Cells -> Nodes \cup {Placeholder}]
       /\ Leaves \in Seq(Nodes)
       /\ Placeholder \notin Nodes

\* The nodes a traversal from node n reaches, following boxes and the
\* initial contents of the cells of Tee nodes.
RECURSIVE ReachFrom(_)
ReachFrom(n) ==
  {n} \cup UNION {ReachFrom(Children[n][i]) : i \in 1..Len(Children[n])}
      \cup (IF Kind[n] = "Tee" /\ CellContent0[TeeCell0[n]] \in Nodes
              THEN ReachFrom(CellContent0[TeeCell0[n]]) ELSE {})

Reachable == UNION {ReachFrom(Leaves[i]) : i \in 1..Len(Leaves)}
=============================================================================
