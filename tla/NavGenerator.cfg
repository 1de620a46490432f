SPECIFICATION Spec
CONSTANTS
  Width = 21
  Depth = 11
  Triangles <- MCTriangles
  Clip <- MCClip
  Maps <- MCMaps
  BoxTop = 34
  WalkableHeight = 4
  WalkableClimb = 1
  SpanMaxHeight = 18
  WalkableRadius = 1
  MinRegionArea = 3
  MergeRegionArea = 8
  MaxErrorSquared <- MCMaxErrorSquared
  MaxEdgeLen = 6
  MaxVertsPerPoly = 6
INVARIANTS ColumnsAreUnion GroundIsKept RegionsAreSound PolygonsFillOutlines MeshConnectsGround
CHECK_DEADLOCK FALSE
