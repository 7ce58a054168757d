CONSTANTS
  Item = {a, b, c, d}
  NoItem = NoItem
SPECIFICATION Spec
INVARIANTS TypeOK LinksAgree Acyclic DepthIsDistance RemovalsAreLoops
PROPERTY SiblingOrderKept
