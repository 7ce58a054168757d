------------------------------ MODULE Hierarchy ------------------------------
(***************************************************************************)
(* The item tree as a state machine: any sequence of the public operations *)
(* of erhe::Hierarchy, on any items.                                       *)
(*                                                                         *)
(* set_parent() does not look for cycles: its callers must not hang an     *)
(* item below itself.  The actions of this module are the operations as a  *)
(* caller that honours this contract issues them; module SceneEditing has  *)
(* the callers themselves.                                                 *)
(***************************************************************************)
EXTENDS ItemTree

VARIABLE tree

Init == tree = Bare

Attach(x, p, position) ==
  /\ MayAdopt(tree, p, x)
  /\ tree' = SetParent(tree, x, p, position)

RemoveItem(x) == tree' = RemoveFromTree(tree, x)

RecursiveRemove(x) == tree' = RecursiveRemoveFromTree(tree, x)

RemoveAllChildrenRecursively(x) == tree' = RemoveChildrenFromTree(tree, x)

Next ==
  \E x \in Item :
    \/ \E p \in ItemOrNone, position \in 0 .. AtEnd : Attach(x, p, position)
    \/ RemoveItem(x)
    \/ RecursiveRemove(x)
    \/ RemoveAllChildrenRecursively(x)

Spec == Init /\ [][Next]_tree

-----------------------------------------------------------------------------
(* Properties. hierarchy_sanity_check() logs an error for each of these.    *)

(* The three redundant records have the types the class declares.           *)
TypeOK == tree \in Tree

(* The parent pointers and the child vectors say the same, after every      *)
(* operation, and no child vector holds an item twice: handle_add_child      *)
(* never adds a child that handle_remove_child has not taken out before.    *)
LinksAgree == LinksAgreeIn(tree) /\ NoDuplicateChildrenIn(tree)

(* No item is its own ancestor, whatever is moved and removed.              *)
Acyclic == AcyclicIn(tree)

(* The stored depth is the distance to the root. set_depth_recursive stops  *)
(* at the first item whose depth is already right, so a wrong depth below   *)
(* it would survive for ever.                                               *)
DepthIsDistance == DepthIsDistanceIn(tree)

(* Moving or removing one item never swaps two others: children that have   *)
(* the same parent before and after a step keep their relative order.       *)
Precedes(s, x, y) == \E i, j \in 1 .. Len(s) : i < j /\ s[i] = x /\ s[j] = y
SiblingOrderKept ==
  [][\A x, y, p \in Item :
       Precedes(tree.children[p], x, y) => ~Precedes(tree'.children[p], y, x)]_tree

(* The stated results of the three removals are what the loops of set_parent *)
(* calls compute, in every reachable tree: Hierarchy::remove reverses the    *)
(* children it hands over, and the depth of everything below is adjusted.    *)
RemovalsAreLoops ==
  \A x \in Item :
    /\ RemoveFromTree(tree, x) = RemoveLoop(tree, x)
    /\ RecursiveRemoveFromTree(tree, x) = RecursiveRemoveLoop[<<tree, x>>]
    /\ RemoveChildrenFromTree(tree, x) = RemoveChildrenLoop(tree, x)
=============================================================================
