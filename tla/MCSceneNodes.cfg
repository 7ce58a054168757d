CONSTANTS
  n1 = n1
  n2 = n2
  n3 = n3
  Item = {r, n1, n2, n3}
  Root = r
  NoItem = NoItem
  Turns = 2
  Bodies <- Body
  Carriers <- MeshNodes
  Place <- Turn
  Here = 0
  Compose <- Add
  Invert <- Negate
SPECIFICATION FairNodesSpec
INVARIANT HostsFollowTree
PROPERTIES StructureKeepsPlaces UpdateIsExact Settles
CONSTRAINT MeshOrBody
