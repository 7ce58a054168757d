----------------------------- MODULE MCWavefronts -----------------------------
(* A graph whose nodes are listed in the order of their depth, and one where  *)
(* they are not, with a node that starts late.                                *)
EXTENDS Wavefronts, TLC

Chain == [listed |-> <<1, 2>>, depth |-> <<0, 1>>,
          first |-> <<0, 0>>, last |-> <<1, 1>>, reached |-> <<0, 1>>]
Reversed == [listed |-> <<1, 2>>, depth |-> <<1, 0>>,
             first |-> <<0, 1>>, last |-> <<0, 1>>, reached |-> <<0, 1>>]
Graphs == {Chain, Reversed}

Offsets == {-2, 1}
Positions == {-8, 8}
=============================================================================
