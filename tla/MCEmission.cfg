CONSTANTS
  Nodes <- MCNodes
  Kind <- MCKind
  Children <- MCChildren
  Cells <- MCCells
  TeeCell0 <- MCTeeCell0
  CellContent0 <- MCCellContent0
  Leaves <- MCLeaves
  LeafKind <- MCLeafKind
  NodeLoc <- MCNodeLoc
  ExternalSources <- MCExternalSources
  CycleIdent <- MCCycleIdent
  NetTo <- MCNetTo
  Finalized <- MCFinalized
  LeafCycle <- MCLeafCycle
  LeafLoc <- MCLeafLoc
  LocKeys <- MCLocKeys
  LeafOrders <- MCLeafOrders
  Placeholder = Placeholder

SPECIFICATION Spec
INVARIANT TypeOK
INVARIANT NoPanic
INVARIANT TeeLoweredOnce
INVARIANT ProgramsSelfContained
