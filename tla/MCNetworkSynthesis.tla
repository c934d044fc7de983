------------------------- MODULE MCNetworkSynthesis -------------------------
(***************************************************************************)
(* A flow with the shapes of hydro_test's ved_retwis examples and of       *)
(* ExternalProcess::source_external_bincode, as one graph of six leaves:   *)
(*  - ved_retwis_2: a cluster source (1) cloned into Tees 2 and 3 of cell  *)
(*    1, filtered (4, 5) and sent to two coordinators (Networks 6, 7);     *)
(*  - ved_retwis: a client's source (8) sent to a coordinator (Network 9), *)
(*    whose output is cloned: Tees 10 and 11 of cell 2 share the Network;  *)
(*  - an external bincode source: Source 12 at the external, Network 13   *)
(*    with from_key Some(0), wrapped in Persist 14;                        *)
(*  - a Chain (15) of a third clone (Tee 16 of cell 1) with a CycleSource  *)
(*    (17), completing a cycle (a CycleSink leaf).                         *)
(***************************************************************************)
EXTENDS NetworkSynthesis

LOCAL Loc == INSTANCE Location

P2 == Loc!Process(2)
P3 == Loc!Process(3)
P4 == Loc!Process(4)
C1 == Loc!Cluster(1)
E5 == Loc!ExternalProcess(5)

MCNodes == 1..17

MCKind ==
  <<"Source", "Tee", "Tee", "Filter", "Filter", "Network", "Network",
    "Source", "Network", "Tee", "Tee",
    "Source", "Network", "Persist",
    "Chain", "Tee", "CycleSource">>

MCChildren ==
  <<<<>>, <<>>, <<>>, <<2>>, <<3>>, <<4>>, <<5>>,
    <<>>, <<8>>, <<>>, <<>>,
    <<>>, <<12>>, <<13>>,
    <<16, 17>>, <<>>, <<>>>>

MCCells == 1..6
MCNumInitCells == 2
MCTeeCell0 == [t \in {2, 3, 16} |-> 1] @@ [t \in {10, 11} |-> 2]
MCCellContent0 == [c \in MCCells |-> CASE c = 1 -> 1 [] c = 2 -> 9 [] OTHER -> Placeholder]

MCLeaves == <<6, 7, 10, 11, 14, 15>>
MCLeafKind == <<"ForEach", "ForEach", "ForEach", "ForEach", "ForEach", "CycleSink">>

MCProcesses == {2, 3, 4}
MCClusters  == {1}
MCExternals == {5}

Edge(f, t, fk, tk) == [from |-> f, to |-> t, fromKey |-> fk, toKey |-> tk]

\* The edges the flow builds: send_bincode cluster->process, process->process
\* and the external source's edge with its port key.
RetwisEdges ==
  (6 :> Edge(C1, P2, {}, {})) @@ (7 :> Edge(C1, P3, {}, {}))
  @@ (9 :> Edge(P4, P2, {}, {})) @@ (13 :> Edge(E5, P2, {0}, {}))

MCEndpointChoices == {RetwisEdges}
MCLeafOrders == SetToSeqs(1..6)

\* For the shapes run: Network 9 between any two of these locations, one of
\* them a Tick, one never instantiated, with and without keys.
ShapeLocations == {P2, P4, C1, E5, Loc!Process(7), Loc!Tick(0, P4)}
ShapeEdges ==
  {[RetwisEdges EXCEPT ![9] = Edge(f, t, k, k)] :
      f \in ShapeLocations, t \in ShapeLocations, k \in {{}, {1}}}
ShapeLeafOrders == {<<1, 2, 3, 4, 5, 6>>, <<6, 5, 4, 3, 2, 1>>}

\* One run for both: the retwis edges in every leaf order, and every shape
\* of Network 9 in two orders.
MCEndpointsAll == {RetwisEdges} \cup ShapeEdges
MCInit == Init /\ (endpoints = RetwisEdges \/ order \in ShapeLeafOrders)
MCSpec == MCInit /\ [][Next]_vars /\ WF_vars(Next)
=============================================================================
