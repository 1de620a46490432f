\* The server's queries of the navigation mesh, on three meshes of the generator.
SPECIFICATION Spec
CONSTANTS
  CellSize = 4
  CellHeight = 2
  WalkableClimb = 10
  MaxVertsPerPoly = 6
  MaxQuant = 65535
  PathLimit = 5
  MaxPath = 5
  RayLimit = 8
  NodeLimits = {7}
  Tolerance = 20
  Heights = {4, 120}
  MapCellSize = 200
  Meshes <- MeshesDef
  Points <- PointsDef
  Polygons <- PolygonsDef
  Space <- SpaceDef
  VDist <- Dist
  MidPoint <- EdgeMidPoint
  Reach <- ReachDef
  ShotReach <- ShotReachDef
  MapReach <- MapReachDef
INVARIANTS CorridorIsRight StraightPathIsTaut NearestIsNearest RayStaysOnMesh LostOnlyByHeight
PROPERTY SearchImplementsBestFirst
