--------------------------- MODULE MCSceneHistory ----------------------------
(***************************************************************************)
(* The scenes of MCSceneEditing with the history variables of SceneHistory. *)
(***************************************************************************)
EXTENDS MCSceneEditing, SceneHistory

SmallScenes == TwoItems \cup ThreeItems

(* Bounds: on two items, two operations and one new item; on three items,    *)
(* one operation, of up to three selected items, and none that is new.       *)
InitialTree == IF past = << >> THEN doc.tree ELSE past[1]

Bounded ==
  IF InitialTree \in ThreeItems
  THEN Len(queued) + Len(executed) + Len(undone) <= 1
  ELSE Cardinality(doc.selection) <= 2
=============================================================================
