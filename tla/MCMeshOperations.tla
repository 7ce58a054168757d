-------------------------- MODULE MCMeshOperations ---------------------------
(***************************************************************************)
(* For TLC: two hulls below each other, and one that the next graph makes. *)
(***************************************************************************)
EXTENDS MeshOperations, TLC

CONSTANTS n1, n2, n3

Grow(t, x, p) == SetParent(t, x, p, AtEnd)

(* The user has dragged one hull below the other. *)
Chain == Grow(Grow(Grow(Bare, Hulls, Root), n1, Hulls), n2, n1)
Scenes == {Chain}

Meshes == {n1, n2, n3}
LaterHulls == {n3}

FewSelections == {{n1, n2}}

(* What Reattached says of two calls of set_parent(). *)
ASSUME LeavesAndReturns ==
  \A t \in Scenes : \A x \in {Hulls, n1, n2} :
    Reattached(t, x) = SetParent(SetParent(t, x, NoItem, AtEnd), x, t.parent[x], AtEnd)
=============================================================================
