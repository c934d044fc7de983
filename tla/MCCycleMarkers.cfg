CONSTANTS
  Markers <- MCMarkers
  MarkerKind <- MCMarkerKind
  Locs <- MCLocs

SPECIFICATION Spec
INVARIANT CyclesClosed
