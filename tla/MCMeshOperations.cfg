CONSTANTS
  n1 = n1
  n2 = n2
  n3 = n3
  Item = {r, h, n1, n2, n3}
  Root = r
  NoItem = NoItem
  Hulls = h
  NewHulls <- LaterHulls
  InitialTrees <- Scenes
  HasMesh <- Meshes
  Selections <- FewSelections
  Click = {c1, c2}
  MaxRemovals = 1
SPECIFICATION FairSpec
INVARIANTS TypeOK WaitingIsSafe SceneFollowsHistory
PROPERTIES ReaderUndisturbed EachAskedRuns
CHECK_DEADLOCK FALSE
