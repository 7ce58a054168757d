----------------------------- MODULE MCNodeGraph -----------------------------
(***************************************************************************)
(* Three nodes with an input and an output pin each, for TLC, and the loop *)
(* of unregister_node() over the storage of the vector it changes.         *)
(***************************************************************************)
EXTENDS NodeGraph, TLC

CONSTANTS n1, n2, n3, n1i, n1o, n2i, n2o, n3i, n3o

OwnerOfPin == n1i :> n1 @@ n1o :> n1 @@ n2i :> n2 @@ n2o :> n2 @@ n3i :> n3 @@ n3o :> n3
SameKey == [p \in Pin |-> 0]

(* The loop over k links, 1 .. k: slots is the storage, size the end of the *)
(* vector. Erasing moves what follows one place down and leaves the last    *)
(* slot as it is.                                                           *)
LoopStep(v, i) ==
  LET at == {j \in 1 .. v.size : v.slots[j] = v.slots[i]}
  IN  IF at = {} THEN v
      ELSE [slots |-> [j \in DOMAIN v.slots |->
                         IF (CHOOSE a \in at : TRUE) <= j /\ j < v.size THEN v.slots[j + 1]
                         ELSE v.slots[j]],
            size |-> v.size - 1]

LoopOver(k) ==
  FoldLeft(LoopStep, [slots |-> [j \in 1 .. k |-> j], size |-> k], [j \in 1 .. k |-> j])

(* The number of links that unregister_node() overlooks is what its loop     *)
(* leaves in the vector.                                                    *)
ASSUME LoopOverlooks == \A k \in 0 .. 6 : LoopOver(k).size = Overlooked(k)
=============================================================================
