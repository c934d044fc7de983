CONSTANTS
  Nodes <- MCNodes
  Kind <- MCKind
  Children <- MCChildren
  Cells <- MCCells
  NumInitCells <- MCNumInitCells
  TeeCell0 <- MCTeeCell0
  CellContent0 <- MCCellContent0
  Leaves <- MCLeaves
  LeafKind <- MCLeafKind
  Processes <- MCProcesses
  Clusters <- MCClusters
  Externals <- MCExternals
  EndpointChoices <- MCEndpointsAll
  LeafOrders <- MCLeafOrders
  Placeholder = Placeholder

SPECIFICATION MCSpec
INVARIANT TypeOK
INVARIANT AbortsOnlyOnBadEdge
INVARIANT EveryEdgeWiredOnce
INVARIANT SharingPreserved
PROPERTY NoSilentTransport
