CONSTANTS
  Graph <- Graphs
  NoGraph = NoGraph
  Word = 8
  Digits = 2
  Edit <- Offsets
  Typed <- Positions
  MaxStep = 2
SPECIFICATION FairSpec
INVARIANT ArrangedByDepth
PROPERTIES LengthIsPositive TimelineCovers FramesGoOn
