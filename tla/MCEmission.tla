----------------------------- MODULE MCEmission -----------------------------
(***************************************************************************)
(* The graph of MCNetworkSynthesis after compile_network (every Network    *)
(* Finalized), extended with the stateful lowering cases:                  *)
(*  - a Join (18) of Persist(Tee 21 of cell 2) with Tee 20 of cell 3, whose *)
(*    content is the external edge's Persist (14); Tee 22 of cell 3 is the  *)
(*    fifth leaf;                                                          *)
(*  - a Fold (23) over Persist (24) of the Join, the seventh leaf;          *)
(*  - the cycle (CycleSource 17, CycleSink leaf 6) at a Tick of cluster 1,  *)
(*    as TickCycle builds it.                                              *)
(***************************************************************************)
EXTENDS Emission, SequencesExt

LOCAL Loc == INSTANCE Location

P2 == Loc!Process(2)
P3 == Loc!Process(3)
P4 == Loc!Process(4)
C1 == Loc!Cluster(1)
E5 == Loc!ExternalProcess(5)
T1 == Loc!Tick(0, C1)

MCNodes == 1..24

MCKind ==
  <<"Source", "Tee", "Tee", "Filter", "Filter", "Network", "Network",
    "Source", "Network", "Tee", "Tee",
    "Source", "Network", "Persist",
    "Chain", "Tee", "CycleSource",
    "Join", "Persist", "Tee", "Tee", "Tee", "Fold", "Persist">>

MCChildren ==
  <<<<>>, <<>>, <<>>, <<2>>, <<3>>, <<4>>, <<5>>,
    <<>>, <<8>>, <<>>, <<>>,
    <<>>, <<12>>, <<13>>,
    <<16, 17>>, <<>>, <<>>,
    <<19, 20>>, <<21>>, <<>>, <<>>, <<>>, <<24>>, <<18>>>>

MCCells == 1..3
MCTeeCell0 == [t \in {2, 3, 16} |-> 1] @@ [t \in {10, 11, 21} |-> 2] @@ [t \in {20, 22} |-> 3]
MCCellContent0 == <<1, 9, 14>>

MCLeaves == <<6, 7, 10, 11, 22, 15, 23>>
MCLeafKind == <<"ForEach", "ForEach", "ForEach", "ForEach", "DestSink", "CycleSink", "ForEach">>

MCNodeLoc == (1 :> C1) @@ (8 :> P4) @@ (12 :> E5) @@ (17 :> T1)
MCExternalSources == {12}
MCCycleIdent == 17 :> 1
MCNetTo == (6 :> P2) @@ (7 :> P3) @@ (9 :> P2) @@ (13 :> P2)
MCFinalized == {6, 7, 9, 13}
MCLeafCycle == 6 :> 1
MCLeafLoc == 6 :> T1
MCLocKeys == 1..5
MCLeafOrders == SetToSeqs(1..7)

\* Node 18 as a Difference: its pos operand is the Persist 19.
DiffKind == [MCKind EXCEPT ![18] = "Difference"]
DiffLeafOrders == {<<1, 2, 3, 4, 5, 6, 7>>}
=============================================================================
