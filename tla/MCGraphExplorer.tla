--------------------------- MODULE MCGraphExplorer ---------------------------
(* Two files, and two graphs to read from them, which share the id 2: one is   *)
(* not in the order of its ids, the other has a node without a hull.          *)
EXTENDS GraphExplorer, TLC

Chain == [depth |-> (1 :> 1 @@ 2 :> 0), solid |-> {1, 2}]
Fork == [depth |-> (2 :> 0 @@ 3 :> 0), solid |-> {3}]
Graphs == {Chain, Fork}
=============================================================================
