CONSTANTS
  n1 = n1
  n2 = n2
  n3 = n3
  Item = {r, n1, n2, n3}
  Root = r
  NoItem = NoItem
  InitialTrees <- TwoItems
  CommandsPerFrame = 2
  MaxOperations = 2
  MaxSelected = 2
SPECIFICATION KeyAndDropSpec
INVARIANT ParentsAsExpected
CONSTRAINT FewSelected
CHECK_DEADLOCK FALSE
