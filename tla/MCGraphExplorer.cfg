CONSTANTS
  File = {f1, f2}
  Tree = {t1, t2, t3, t4, t5, t6}
  Dfg <- Graphs
  None = None
SPECIFICATION FairSpec
INVARIANTS LookupsSucceed HullsAgreeOrQueued
PROPERTIES ScanKeepsTheNodes HullsFollow
