--------------------------- MODULE MCSceneEditing ----------------------------
(***************************************************************************)
(* Small scenes for TLC. *)
(***************************************************************************)
EXTENDS SceneEditing

CONSTANTS n1, n2, n3, MaxSelected

Grow(t, x, p) == SetParent(t, x, p, AtEnd)

Flat(S) == FoldLeft(LAMBDA t, x : Grow(t, x, Root), Bare, S)

(* Two items, beside or below each other, and one that is new. *)
TwoItems == {Flat(<< n1, n2 >>), Grow(Flat(<< n1 >>), n2, n1)}

(* Three items side by side, one below another, and in a chain. *)
ThreeItems == {Flat(<< n1, n2, n3 >>), Grow(Flat(<< n1, n2 >>), n3, n1),
               Grow(Grow(Flat(<< n1 >>), n2, n1), n3, n2)}

(* Bound: how many items are selected at once. *)
FewSelected == Cardinality(doc.selection) <= MaxSelected

-----------------------------------------------------------------------------
(* A frame in which a key and the end of a drag both queue an operation:     *)
(* explorer.cpp runs the commands of the keys, then draws the windows, then *)
(* calls update().                                                          *)
KeyAndDrop ==
  \/ commands = 0 /\ (Selecting \/ DeleteSelection)
  \/ commands = 1 /\ TreeWindow
  \/ Update

KeyAndDropSpec == Init /\ [][KeyAndDrop]_vars

-----------------------------------------------------------------------------
(* A property that the code states and does not keep *)

(* execute() verifies that the child still has the parent it had when the   *)
(* operation was queued. Another operation queued in the same frame may     *)
(* have moved it.                                                           *)
ParentsAsExpected == doc.fault # "verify"
=============================================================================
