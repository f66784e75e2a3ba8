SPECIFICATION Spec
CONSTANTS
 ViewW = 504
 ViewH = 248
 NoPane = NoPane
 Pane = {p1, p2, p3}
 Types = {"term"}
 MaxSpaces = 2
SYMMETRY TileSymmetry
CHECK_DEADLOCK FALSE
INVARIANTS TypeOK SpaceListSound TilingDisjoint KeysReachEveryTile FocusedIsVisible
PROPERTIES IndexStaysInList OrdinaryStepsKeepTiles FontFollowsTile FocusExitRestores
