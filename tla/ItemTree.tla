------------------------------ MODULE ItemTree -------------------------------
(***************************************************************************)
(* The ordered item tree of erhe::Hierarchy (erhe/item/hierarchy.cpp) as a *)
(* value, and what each of its operations makes of it.                     *)
(*                                                                         *)
(* Every item stores its parent (a weak pointer), the vector of its        *)
(* children and its depth.  The three are redundant, and each public       *)
(* operation has to keep them in step.  The tree is a record so that the   *)
(* operations of module EditorOperations can compose several set_parent    *)
(* calls into one execute() or undo().                                     *)
(***************************************************************************)
EXTENDS Naturals, Sequences, FiniteSets, SequencesExt

CONSTANTS
  Item,       \* the items (scene nodes, content library entries, ...)
  NoItem      \* the null pointer

ASSUME NoItemAssumption == NoItem \notin Item
ASSUME ItemsAssumption == IsFiniteSet(Item)

ItemOrNone == Item \cup {NoItem}

Tree == [parent : [Item -> ItemOrNone],
         children : [Item -> Seq(Item)],
         depth : [Item -> Nat]]

(* Any position that is not smaller than the number of children: set_parent *)
(* without a position passes the largest size_t.                            *)
AtEnd == Cardinality(Item)

Bare == [parent |-> [x \in Item |-> NoItem],
         children |-> [x \in Item |-> << >>],
         depth |-> [x \in Item |-> 0]]

-----------------------------------------------------------------------------
(* Queries *)

(* Mutant: the index of an item without a parent is that of a failed search. *)
IndexWithoutParentCheck(t, x) ==
  (IF t.parent[x] = NoItem THEN 0
   ELSE SelectInSeq(t.children[t.parent[x]], LAMBDA c : c = x)) - 1

(* get_index_in_parent(): zero based, 0 for an item without a parent. *)
IndexInParent(t, x) ==
  IF t.parent[x] = NoItem \/ ~Contains(t.children[t.parent[x]], x)
  THEN 0
  ELSE SelectInSeq(t.children[t.parent[x]], LAMBDA c : c = x) - 1

UpwardClosed(t, S) == \A y \in S : t.parent[y] # NoItem => t.parent[y] \in S

(* Mutant: only the parent is looked at. *)
IsParent(t, a, x) == t.parent[x] = a

(* x->is_ancestor(a): following the parents of x meets a. Stated without   *)
(* recursion: a is in every set that holds the parent of x and is closed   *)
(* under taking parents.                                                   *)
IsAncestor(t, a, x) ==
  /\ t.parent[x] # NoItem
  /\ \A S \in SUBSET Item : UpwardClosed(t, S) /\ t.parent[x] \in S => a \in S

Subtree(t, x) == {y \in Item : y = x \/ IsAncestor(t, x, y)}

-----------------------------------------------------------------------------
(* Operations, as functions of the tree *)

(* Mutant: the depth of the items below x stays as it was. *)
SetDepthOfItemOnly(t, x, d) == [t EXCEPT !.depth[x] = d]

(* set_depth_recursive(d) on x: wave[k] are the items k levels below x that *)
(* the recursion reaches and finds with another depth than d + k; it stops  *)
(* where the stored depth is already right.                                 *)
DepthWave(t, x, d) ==
  LET wave[k \in Nat] ==
        {y \in IF k = 0 THEN {x}
               ELSE UNION {ToSet(t.children[z]) : z \in wave[k - 1]} :
           t.depth[y] # d + k}
  IN  wave

SetDepthRecursive(t, x, d) ==
  LET wave == DepthWave(t, x, d)
      Level(y) == {k \in 0 .. Cardinality(Item) : y \in wave[k]}
  IN  [t EXCEPT !.depth = [y \in Item |->
         IF Level(y) = {} THEN t.depth[y] ELSE d + CHOOSE k \in Level(y) : TRUE]]

(* Mutant: the old parent keeps x among its children. *)
KeepChild(children, p, x) == children

(* Mutant: the hole is filled with the last child. *)
RemoveChildBySwap(children, p, x) ==
  IF p = NoItem \/ ~Contains(children[p], x) THEN children
  ELSE [children EXCEPT ![p] =
          [i \in 1 .. Len(@) - 1 |-> IF @[i] = x THEN Last(@) ELSE @[i]]]

(* handle_remove_child(x) on the old parent. The code erases every entry    *)
(* equal to x; there is at most one (NoDuplicateChildren).                  *)
RemoveChild(children, p, x) ==
  IF p = NoItem THEN children
  ELSE [children EXCEPT ![p] = RemoveFirst(@, x)]

(* handle_add_child(x, position) on the new parent. *)
AddChild(children, p, x, position) ==
  IF p = NoItem THEN children
  ELSE [children EXCEPT
          ![p] = InsertAt(@, 1 + IF position < Len(@) THEN position ELSE Len(@), x)]

Relinked(t, x, p, position) ==
  [parent |-> [t.parent EXCEPT ![x] = p],
   children |-> AddChild(RemoveChild(t.children, t.parent[x], x), p, x, position),
   depth |-> t.depth]

(* set_parent(p, position) on x: nothing moves when p is already the parent. *)
SetParent(t, x, p, position) ==
  IF t.parent[x] = p THEN t
  ELSE SetDepthRecursive(Relinked(t, x, p, position), x,
                         IF p = NoItem THEN 0 ELSE t.depth[p] + 1)

(* Mutant: the children are handed over first to last, and every depth of   *)
(* the subtree goes down, that of a root too.                               *)
RemoveInOrder(t, x) ==
  LET p == t.parent[x]
      handed == IF p = NoItem THEN t.children
                ELSE [t.children EXCEPT ![p] = @ \o t.children[x]]
  IN  [parent |-> [y \in Item |-> IF y = x THEN NoItem
                                 ELSE IF t.parent[y] = x THEN p ELSE t.parent[y]],
       children |-> [RemoveChild(handed, p, x) EXCEPT ![x] = << >>],
       depth |-> [y \in Item |-> IF y \in Subtree(t, x) THEN t.depth[y] - 1 ELSE t.depth[y]]]

(* remove(): the children go to the parent of x, the last one first, and x  *)
(* becomes an orphan. The result of the loop of set_parent calls, which is   *)
(* RemoveLoop below.                                                        *)
RemoveFromTree(t, x) ==
  LET p == t.parent[x]
      below == Subtree(t, x) \ {x}
      handed == IF p = NoItem THEN t.children
                ELSE [t.children EXCEPT ![p] = @ \o Reverse(t.children[x])]
  IN  [parent |-> [y \in Item |-> IF y = x THEN NoItem
                                 ELSE IF t.parent[y] = x THEN p ELSE t.parent[y]],
       children |-> [RemoveChild(handed, p, x) EXCEPT ![x] = << >>],
       depth |-> [y \in Item |-> IF y = x THEN 0
                                ELSE IF y \in below /\ t.depth[y] > 0
                                     THEN t.depth[y] - 1 ELSE t.depth[y]]]

(* The items of S lose their parent, those of E their children: each item   *)
(* of S has left by its own set_parent({}).                                 *)
Dismantled(t, S, E) ==
  [parent |-> [y \in Item |-> IF y \in S THEN NoItem ELSE t.parent[y]],
   children |-> [y \in Item |-> IF y \in E THEN << >> ELSE t.children[y]],
   depth |-> [y \in Item |-> IF y \in S THEN 0 ELSE t.depth[y]]]

(* recursive_remove(): every item of the subtree of x becomes an orphan. *)
RecursiveRemoveFromTree(t, x) ==
  LET S == Subtree(t, x)
      left == Dismantled(t, S, S)
  IN  [parent |-> left.parent,
       children |-> RemoveChild(left.children, t.parent[x], x),
       depth |-> left.depth]

(* remove_all_children_recursively(): x itself stays where it is. *)
RemoveChildrenFromTree(t, x) ==
  Dismantled(t, Subtree(t, x) \ {x}, Subtree(t, x))

-----------------------------------------------------------------------------
(* The callers' contract: an item is never hung on itself (set_parent       *)
(* verifies that) nor on one of its descendants (nothing verifies that).    *)
MayAdopt(t, p, x) == p # NoItem => p # x /\ ~IsAncestor(t, x, p)

-----------------------------------------------------------------------------
(* What hierarchy_sanity_check() looks for *)

(* An item is in the children of p exactly when p is its parent: the two    *)
(* error branches of hierarchy_sanity_check ("does not have item as child", *)
(* "child parent ==").                                                      *)
LinksAgreeIn(t) ==
  \A p, x \in Item : x \in ToSet(t.children[p]) <=> t.parent[x] = p

(* No child vector holds an item twice, however items are moved: the debug  *)
(* build of handle_add_child looks for such a duplicate.                    *)
NoDuplicateChildrenIn(t) ==
  \A p \in Item : \A i, j \in 1 .. Len(t.children[p]) :
     t.children[p][i] = t.children[p][j] => i = j

(* No item has itself as an ancestor (sanity_check_root_path): every        *)
(* nonempty set of items has one whose parent is outside the set.           *)
AcyclicIn(t) ==
  \A S \in SUBSET Item : S # {} => \E x \in S : t.parent[x] \notin S

DepthIsDistanceIn(t) ==
  \A x \in Item : t.depth[x] = IF t.parent[x] = NoItem THEN 0
                                ELSE t.depth[t.parent[x]] + 1

-----------------------------------------------------------------------------
(* The removals as the code runs them *)

SoundTree ==
  {t \in Tree : /\ LinksAgreeIn(t) /\ NoDuplicateChildrenIn(t)
                /\ AcyclicIn(t) /\ DepthIsDistanceIn(t)}

(* remove(): while there are children, the last one moves to the parent of   *)
(* x; then x leaves it.                                                      *)
RemoveLoop(t, x) ==
  LET after[k \in 0 .. Len(t.children[x])] ==
        IF k = 0 THEN t
        ELSE SetParent(after[k - 1], Last(after[k - 1].children[x]), t.parent[x], AtEnd)
  IN  SetParent(after[Len(t.children[x])], x, NoItem, AtEnd)

(* While there are children, the last one is removed recursively. *)
Emptied(removed, t, x) ==
  LET after[k \in 0 .. Len(t.children[x])] ==
        IF k = 0 THEN t ELSE removed[<<after[k - 1], Last(after[k - 1].children[x])>>]
  IN  after[Len(t.children[x])]

(* recursive_remove(). In a tree with a cycle it would not return. *)
RecursiveRemoveLoop[call \in SoundTree \X Item] ==
  SetParent(Emptied(RecursiveRemoveLoop, call[1], call[2]), call[2], NoItem, AtEnd)

RemoveChildrenLoop(t, x) == Emptied(RecursiveRemoveLoop, t, x)
=============================================================================
