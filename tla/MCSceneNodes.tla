---------------------------- MODULE MCSceneNodes -----------------------------
(***************************************************************************)
(* A scene of two or three nodes for TLC. The transforms are turns: 0 or a *)
(* part of a full circle.                                                  *)
(***************************************************************************)
EXTENDS SceneNodes

CONSTANTS n1, n2, n3, Turns

Turn == 0 .. Turns - 1
Add(a, b) == (a + b) % Turns
Negate(a) == (Turns - a) % Turns

Body == {n1}
MeshNodes == {n1, n2}

(* Bound: while the body is active, the mesh is on no node. *)
MeshOrBody == awake = {} \/ mesh.node = NoItem
=============================================================================
