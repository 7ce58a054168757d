CONSTANTS
  n1 = n1
  n2 = n2
  n3 = n3
  Item = {r, n1, n2, n3}
  Root = r
  NoItem = NoItem
  InitialTrees <- SmallScenes
  CommandsPerFrame = 1
  MaxOperations = 2
  MaxSelected = 3
SPECIFICATION HistorySpec
INVARIANTS TypeOK NoFault TreeIsSound SelectionInScene
PROPERTY UndoIsExact
CONSTRAINTS FewSelected Bounded
