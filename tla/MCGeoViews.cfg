SPECIFICATION Spec
CONSTANTS
  Tables <- McTables
  Requests <- McRequests
  Chunk = 3
  MaxOctets = 7
  LayerZoom = {1, 2}
INVARIANTS
  TileWhole
  OwnGeometryFirst
\* The response is complete.
CHECK_DEADLOCK FALSE
