-------------------------- MODULE SceneNodesProofs ---------------------------
(***************************************************************************)
(* The operations of Hierarchy keep links and depths of the tree in step   *)
(* and make no cycle; the nodes of a scene are registered exactly while    *)
(* they hang below its root; rearranging the tree moves nothing in the     *)
(* world: for every finite set of nodes and every group of transforms.     *)
(***************************************************************************)
EXTENDS SceneNodes, ItemTreeProofs

-----------------------------------------------------------------------------
(* The inductive invariant: type, links, absence of cycles, and depths. The  *)
(* removals need all of it, since a cycle would make an item its own         *)
(* grandchild, and the depths follow from the links: set_depth_recursive     *)
(* stops where a depth is right, which is the end only if all were right.   *)
HierarchyInv == Consistent(tree) /\ AcyclicIn(tree) /\ DepthIsDistanceIn(tree)

LEMMA InitInv == Init => HierarchyInv
<1> SUFFICES ASSUME Init PROVE HierarchyInv
  OBVIOUS
<1>1. tree = Bare
  BY DEF Init
<1>2. Injective(<< >>) /\ ToSet(<< >>) = {} /\ << >> \in Seq(Item)
  BY DEF Injective, ToSet
<1>3. Consistent(tree)
  BY <1>1, <1>2, NoItemAssumption, ConsistentIntro DEF Bare, ItemOrNone
<1>4. AcyclicIn(tree)
  BY <1>1, NoItemAssumption DEF AcyclicIn, Bare
<1>5. DepthIsDistanceIn(tree)
  BY <1>1 DEF DepthIsDistanceIn, Bare
<1> QED BY <1>3, <1>4, <1>5 DEF HierarchyInv

LEMMA NextInv == HierarchyInv /\ [Next]_tree => HierarchyInv'
<1> SUFFICES ASSUME HierarchyInv, [Next]_tree PROVE HierarchyInv'
  OBVIOUS
<1>0. /\ Consistent(tree) /\ AcyclicIn(tree) /\ DepthIsDistanceIn(tree)
      /\ tree.parent \in [Item -> ItemOrNone]
  BY DEF HierarchyInv, Consistent, Tree
<1>1. ASSUME NEW x \in Item, NEW p \in ItemOrNone, NEW position \in 0 .. AtEnd,
             Attach(x, p, position)
      PROVE  HierarchyInv'
  <2>1. position \in Nat
    OBVIOUS
  <2>2. tree' = SetParent(tree, x, p, position) /\ MayAdopt(tree, p, x)
    BY <1>1 DEF Attach
  <2>3. Consistent(tree') /\ tree'.parent = [tree.parent EXCEPT ![x] = p]
    BY <1>0, <2>1, <2>2, SetParentConsistent
  <2>4. AcyclicIn(tree')
    BY <1>0, <2>2, <2>3, AdoptionAcyclic
  <2>5. DepthIsDistanceIn(tree')
    BY <1>0, <2>1, <2>2, SetParentFits
  <2> QED BY <2>3, <2>4, <2>5 DEF HierarchyInv, Consistent, AcyclicIn, LinksAgreeIn,
                           NoDuplicateChildrenIn, DepthIsDistanceIn
<1>2. ASSUME NEW x \in Item,
             RemoveItem(x) \/ RecursiveRemove(x) \/ RemoveAllChildrenRecursively(x)
      PROVE  HierarchyInv'
  <2>1. Sane(tree)
    BY <1>0 DEF Sane
  <2>2. Consistent(tree') /\ AcyclicIn(tree') /\ DepthIsDistanceIn(tree')
    BY <1>2, <2>1, RemovalsSane
      DEF Sane, RemoveItem, RecursiveRemove, RemoveAllChildrenRecursively
  <2> QED BY <2>2 DEF HierarchyInv, Consistent, AcyclicIn, LinksAgreeIn,
                     NoDuplicateChildrenIn, DepthIsDistanceIn
<1>3. CASE UNCHANGED tree
  BY <1>3, <1>0 DEF HierarchyInv, Consistent, AcyclicIn, LinksAgreeIn,
                   NoDuplicateChildrenIn, DepthIsDistanceIn
<1> QED BY <1>1, <1>2, <1>3 DEF Next

LEMMA SpecInv == Spec => []HierarchyInv
BY InitInv, NextInv, PTL DEF Spec

(* The three redundant records always have the types the class declares.    *)
THEOREM TypeCorrect == Spec => []TypeOK
<1>1. HierarchyInv => TypeOK
  BY DEF HierarchyInv, Consistent, TypeOK
<1> QED BY <1>1, SpecInv, PTL

(* Parent pointers and child vectors agree after every sequence of moves and *)
(* removals: hierarchy_sanity_check never logs a link error.                *)
THEOREM LinksAlwaysAgree == Spec => []LinksAgree
<1>1. HierarchyInv => LinksAgree
  BY DEF HierarchyInv, Consistent, LinksAgree
<1> QED BY <1>1, SpecInv, PTL

(* Callers that check is_ancestor before they move an item never make an    *)
(* item its own ancestor.                                                   *)
THEOREM AlwaysAcyclic == Spec => []Acyclic
<1>1. HierarchyInv => Acyclic
  BY DEF HierarchyInv, Acyclic
<1> QED BY <1>1, SpecInv, PTL

(* Nothing that moves or removes items leaves a wrong depth behind: where    *)
(* set_depth_recursive stops early, everything below is right as well.      *)
THEOREM DepthIsAlwaysDistance == Spec => []DepthIsDistance
<1>1. HierarchyInv => DepthIsDistance
  BY DEF HierarchyInv, DepthIsDistance
<1> QED BY <1>1, SpecInv, PTL

(* The stated results of remove, recursive_remove and                        *)
(* remove_all_children_recursively are what their loops of set_parent calls   *)
(* compute, in every reachable tree: nothing that one call does is undone or  *)
(* done differently because of the calls before it.                          *)
THEOREM RemovalsAlwaysAreLoops == Spec => []RemovalsAreLoops
<1>1. HierarchyInv => RemovalsAreLoops
  <2> SUFFICES ASSUME HierarchyInv PROVE RemovalsAreLoops
    OBVIOUS
  <2>1. Sane(tree) /\ tree \in SoundTree
    BY SaneTrees DEF HierarchyInv, Sane
  <2> QED BY <2>1, RemoveIsLoop, RecursiveRemoveIsLoop DEF RemovalsAreLoops
<1> QED BY <1>1, SpecInv, PTL

-----------------------------------------------------------------------------
(* The order of siblings *)

LEMMA NeverBothWays ==
  ASSUME NEW s \in Seq(Item), Injective(s), NEW a, NEW b, Precedes(s, a, b), Precedes(s, b, a)
  PROVE  FALSE
<1>1. PICK i \in 1 .. Len(s), j \in 1 .. Len(s) : i < j /\ s[i] = a /\ s[j] = b
  BY DEF Precedes
<1>2. PICK k \in 1 .. Len(s), l \in 1 .. Len(s) : k < l /\ s[k] = b /\ s[l] = a
  BY DEF Precedes
<1>3. i = l /\ j = k
  BY <1>1, <1>2 DEF Injective
<1> QED BY <1>1, <1>2, <1>3, LenProperties

LEMMA PrecedesIn ==
  ASSUME NEW s \in Seq(Item), NEW a, NEW b, Precedes(s, a, b)
  PROVE  a \in ToSet(s) /\ b \in ToSet(s)
BY ToSetDef DEF Precedes

(* Erasing an item swaps no others. *)
LEMMA RemoveFirstKeepsOrder ==
  ASSUME NEW s \in Seq(Item), NEW e, NEW a, NEW b, Precedes(RemoveFirst(s, e), a, b)
  PROVE  Precedes(s, a, b)
<1>1. CASE ~ \E i \in 1 .. Len(s) : s[i] = e
  BY <1>1 DEF RemoveFirst
<1>2. CASE \E i \in 1 .. Len(s) : s[i] = e
  <2> DEFINE I == {i \in 1 .. Len(s) : s[i] = e}
             k == SelectInSeq(s, LAMBDA v : v = e)
  <2>1. PICK m \in I : \A n \in I : m <= n
    <3>1. I \in SUBSET Nat /\ I # {}
      BY <1>2
    <3> QED BY <3>1, NatSmallest
  <2>2. k \in 1 .. Len(s)
    <3>1. k = Min(I)
      BY <1>2 DEF SelectInSeq
    <3>2. Min(I) \in I
      BY <2>1 DEF Min
    <3> QED BY <3>1, <3>2
  <2>3. RemoveFirst(s, e) = RemoveAt(s, k)
    BY <1>2 DEF RemoveFirst
  <2> DEFINE r == RemoveAt(s, k)
  <2> HIDE DEF k
  <2>4. /\ r \in Seq(Item) /\ Len(r) = Len(s) - 1
        /\ \A i \in 1 .. Len(s) - 1 : r[i] = IF i < k THEN s[i] ELSE s[i + 1]
    BY <2>2, RemoveAtFacts
  <2> HIDE DEF r
  <2>5. Len(s) \in Nat
    BY LenProperties
  <2>6. PICK i \in 1 .. Len(s) - 1, j \in 1 .. Len(s) - 1 : i < j /\ r[i] = a /\ r[j] = b
    BY <2>3, <2>4 DEF Precedes, r
  <2> DEFINE old(n) == IF n < k THEN n ELSE n + 1
  <2>7. /\ old(i) \in 1 .. Len(s) /\ old(j) \in 1 .. Len(s) /\ old(i) < old(j)
        /\ s[old(i)] = a /\ s[old(j)] = b
    BY <2>2, <2>4, <2>5, <2>6
  <2> HIDE DEF old
  <2> QED BY <2>7 DEF Precedes
<1> QED BY <1>1, <1>2

(* Nor does inserting one. *)
LEMMA InsertAtKeepsOrder ==
  ASSUME NEW s \in Seq(Item), NEW e \in Item, NEW k \in 1 .. Len(s) + 1, NEW a, NEW b,
         a # e, b # e, Precedes(InsertAt(s, k, e), a, b)
  PROVE  Precedes(s, a, b)
<1> DEFINE r == InsertAt(s, k, e)
<1>1. /\ r \in Seq(Item) /\ Len(r) = Len(s) + 1
      /\ \A i \in 1 .. Len(s) + 1 : r[i] = IF i < k THEN s[i] ELSE IF i = k THEN e ELSE s[i - 1]
  BY InsertAtFacts
<1> HIDE DEF r
<1>2. Len(s) \in Nat
  BY LenProperties
<1>3. PICK i \in 1 .. Len(s) + 1, j \in 1 .. Len(s) + 1 : i < j /\ r[i] = a /\ r[j] = b
  BY <1>1 DEF Precedes, r
<1>4. i # k /\ j # k
  BY <1>1, <1>3
<1> DEFINE old(n) == IF n < k THEN n ELSE n - 1
<1>5. /\ old(i) \in 1 .. Len(s) /\ old(j) \in 1 .. Len(s) /\ old(i) < old(j)
      /\ s[old(i)] = a /\ s[old(j)] = b
  BY <1>1, <1>2, <1>3, <1>4
<1> HIDE DEF old
<1> QED BY <1>5 DEF Precedes

(* Among the items of the first of two disjoint lists, their concatenation   *)
(* has the same order.                                                      *)
LEMMA ConcatKeepsOrder ==
  ASSUME NEW s \in Seq(Item), NEW u \in Seq(Item), Injective(s \o u),
         NEW a \in ToSet(s), NEW b \in ToSet(s), Precedes(s \o u, a, b)
  PROVE  Precedes(s, a, b)
<1> DEFINE r == s \o u
<1>1. /\ r \in Seq(Item) /\ Len(r) = Len(s) + Len(u)
      /\ \A i \in 1 .. Len(s) + Len(u) :
           r[i] = IF i <= Len(s) THEN s[i] ELSE u[i - Len(s)]
  BY ConcatProperties
<1> HIDE DEF r
<1>2. Len(s) \in Nat /\ Len(u) \in Nat
  BY LenProperties
<1>3. PICK i \in 1 .. Len(r), j \in 1 .. Len(r) : i < j /\ r[i] = a /\ r[j] = b
  BY DEF Precedes, r
<1>4. PICK k \in 1 .. Len(s) : s[k] = a
  BY ToSetDef
<1>5. PICK l \in 1 .. Len(s) : s[l] = b
  BY ToSetDef
<1>6. k \in 1 .. Len(r) /\ l \in 1 .. Len(r) /\ r[k] = a /\ r[l] = b
  BY <1>1, <1>2, <1>4, <1>5
<1>7. i = k /\ j = l
  BY <1>3, <1>6 DEF Injective, r
<1> QED BY <1>3, <1>4, <1>5, <1>7 DEF Precedes

LEMMA RemoveChildKeepsOrder ==
  ASSUME NEW c \in [Item -> Seq(Item)], NEW p \in ItemOrNone, NEW x \in Item,
         NEW q \in Item, NEW a, NEW b, Precedes(RemoveChild(c, p, x)[q], a, b)
  PROVE  Precedes(c[q], a, b)
<1>1. CASE p = q
  <2>1. RemoveChild(c, p, x)[q] = RemoveFirst(c[q], x)
    BY <1>1, NoItemAssumption DEF RemoveChild
  <2> QED BY <2>1, RemoveFirstKeepsOrder
<1>2. CASE p # q
  <2>1. RemoveChild(c, p, x)[q] = c[q]
    BY <1>2 DEF RemoveChild
  <2> QED BY <2>1
<1> QED BY <1>1, <1>2

OrderKept(t, u) ==
  \A x, y, p \in Item : Precedes(t.children[p], x, y) => ~Precedes(u.children[p], y, x)

LEMMA SetParentKeepsOrder ==
  ASSUME NEW t, Consistent(t), NEW z \in Item, NEW p \in ItemOrNone, NEW position \in Nat
  PROVE  OrderKept(t, SetParent(t, z, p, position))
<1> DEFINE old == t.parent[z]
           mid == RemoveChild(t.children, old, z)
           new == AddChild(mid, p, z, position)
<1>1. /\ t.parent \in [Item -> ItemOrNone] /\ t.children \in [Item -> Seq(Item)]
      /\ t.depth \in [Item -> Nat]
      /\ \A q \in Item : /\ Injective(t.children[q])
                        /\ ToSet(t.children[q]) = {x \in Item : t.parent[x] = q}
  BY ConsistentElim
<1> SUFFICES ASSUME NEW x \in Item, NEW y \in Item, NEW q \in Item,
                    Precedes(t.children[q], x, y),
                    Precedes(SetParent(t, z, p, position).children[q], y, x)
             PROVE  FALSE
  BY DEF OrderKept
<1>2. t.children[q] \in Seq(Item) /\ Injective(t.children[q])
  BY <1>1
<1>3. CASE old = p
  BY <1>2, <1>3, NeverBothWays DEF SetParent
<1>4. CASE old # p
  <2> DEFINE u == Relinked(t, z, p, position)
             d == IF p = NoItem THEN 0 ELSE t.depth[p] + 1
  <2>1. SetParent(t, z, p, position) = SetDepthRecursive(u, z, d)
    BY <1>4 DEF SetParent
  <2>2. u \in Tree
    BY <1>4, RelinkedConsistent DEF Consistent
  <2>3. d \in Nat
    BY <1>1 DEF ItemOrNone
  <2>4. u.children = new
    BY DEF Relinked
  <2> HIDE DEF u, d
  <2>5. SetParent(t, z, p, position).children = new
    BY <2>1, <2>2, <2>3, <2>4, SetDepthRecursiveLinks
  <2>6. old \in ItemOrNone
    BY <1>1
  <2>7. mid \in [Item -> Seq(Item)]
    <3>1. \A r \in Item : Injective(t.children[r])
      BY <1>1
    <3> HIDE DEF old
    <3>2. Erased(mid, t.children, old, z)
      BY <1>1, <2>6, <3>1, RemoveChildFacts
    <3> HIDE DEF mid
    <3> QED BY <3>2 DEF Erased
  <2>8. Precedes(mid[q], y, x) => Precedes(t.children[q], y, x)
    <3> HIDE DEF old
    <3> QED BY <1>1, <2>6, RemoveChildKeepsOrder
  <2>9. ~Precedes(mid[q], y, x)
    BY <2>8, <1>2, NeverBothWays
  <2> HIDE DEF mid
  <2>10. CASE p # q
    <3>1. new[q] = mid[q]
      BY <2>10 DEF AddChild
    <3> QED BY <2>5, <2>9, <3>1
  <2>11. CASE p = q
    <3> DEFINE k == 1 + IF position < Len(mid[q]) THEN position ELSE Len(mid[q])
    <3>1. new[q] = InsertAt(mid[q], k, z)
      BY <2>7, <2>11, NoItemAssumption DEF AddChild
    <3>2. mid[q] \in Seq(Item) /\ k \in 1 .. Len(mid[q]) + 1
      BY <2>7, LenProperties
    <3> HIDE DEF k
    <3>3. z # x /\ z # y
      <4>1. x \in ToSet(t.children[q]) /\ y \in ToSet(t.children[q])
        BY <1>2, PrecedesIn
      <4> QED BY <4>1, <1>1, <1>4, <2>11
    <3>4. Precedes(InsertAt(mid[q], k, z), y, x)
      BY <2>5, <3>1
    <3> HIDE DEF new
    <3> QED BY <2>9, <3>2, <3>3, <3>4, InsertAtKeepsOrder
  <2> QED BY <2>10, <2>11
<1> QED BY <1>3, <1>4

LEMMA RemoveKeepsOrder ==
  ASSUME NEW t, Consistent(t), AcyclicIn(t), NEW z \in Item
  PROVE  OrderKept(t, RemoveFromTree(t, z))
<1> DEFINE p == t.parent[z]
           tail == Reverse(t.children[z])
           handed == IF p = NoItem THEN t.children
                     ELSE [t.children EXCEPT ![p] = t.children[p] \o tail]
           kept == RemoveChild(handed, p, z)
<1>1. /\ t.parent \in [Item -> ItemOrNone] /\ t.children \in [Item -> Seq(Item)]
      /\ \A q \in Item : /\ Injective(t.children[q])
                        /\ ToSet(t.children[q]) = {x \in Item : t.parent[x] = q}
  BY ConsistentElim
<1>2. z # p
  <2>1. \E y \in {z} : t.parent[y] \notin {z}
    BY DEF AcyclicIn
  <2> QED BY <2>1
<1>3. p \in ItemOrNone
  BY <1>1
<1>4. RemoveFromTree(t, z).children = [kept EXCEPT ![z] = << >>]
  BY DEF RemoveFromTree
<1> SUFFICES ASSUME NEW x \in Item, NEW y \in Item, NEW q \in Item,
                    Precedes(t.children[q], x, y),
                    Precedes(RemoveFromTree(t, z).children[q], y, x)
             PROVE  FALSE
  BY DEF OrderKept
<1>5. t.children[q] \in Seq(Item) /\ Injective(t.children[q])
  BY <1>1
<1>6. p # NoItem => /\ p \in Item
                    /\ t.children[p] \in Seq(Item) /\ tail \in Seq(Item)
                    /\ t.children[p] \o tail \in Seq(Item) /\ Injective(t.children[p] \o tail)
  <2> SUFFICES ASSUME p # NoItem
               PROVE  /\ p \in Item
                      /\ t.children[p] \in Seq(Item) /\ tail \in Seq(Item)
                      /\ t.children[p] \o tail \in Seq(Item)
                      /\ Injective(t.children[p] \o tail)
    OBVIOUS
  <2>1. p \in Item
    BY <1>3 DEF ItemOrNone
  <2>2. /\ t.children[p] \in Seq(Item) /\ t.children[z] \in Seq(Item)
        /\ Injective(t.children[p]) /\ Injective(t.children[z])
        /\ ToSet(t.children[p]) \cap ToSet(t.children[z]) = {}
    BY <1>1, <1>2, <2>1
  <2>3. << >> \in Seq(Item) /\ Injective(<< >>) /\ ToSet(<< >>) = {}
    BY DEF Injective, ToSet
  <2>4. << >> \o tail \in Seq(Item)
    BY <2>2, <2>3, ConcatReverseInjective
  <2>5. tail \in Seq(Item)
    <3>1. \A i \in 1 .. Len(t.children[z]) : t.children[z][i] \in Item
      BY <2>2, ElementOfSeq
    <3>2. Len(t.children[z]) \in Nat
      BY <2>2, LenProperties
    <3>3. \A i \in 1 .. Len(t.children[z]) :
            (Len(t.children[z]) - i) + 1 \in 1 .. Len(t.children[z])
      BY <3>2
    <3>4. tail \in [1 .. Len(t.children[z]) -> Item]
      BY <3>1, <3>3 DEF Reverse
    <3> QED BY <3>2, <3>4, SeqDef
  <2>6. t.children[p] \o tail \in Seq(Item) /\ Injective(t.children[p] \o tail)
    BY <2>2, ConcatReverseInjective
  <2> QED BY <2>1, <2>2, <2>5, <2>6
<1> HIDE DEF tail
<1>7. handed \in [Item -> Seq(Item)]
  BY <1>1, <1>6
<1>8. kept[q] = RemoveFromTree(t, z).children[q] /\ Precedes(kept[q], y, x)
  <2>1. \A r \in Item : Injective(handed[r])
    BY <1>1, <1>6
  <2> HIDE DEF p, handed
  <2>2. Erased(kept, handed, p, z)
    BY <1>3, <1>7, <2>1, RemoveChildFacts
  <2> HIDE DEF kept
  <2>3. kept \in [Item -> Seq(Item)]
    BY <2>2 DEF Erased
  <2>4. q # z
    <3>1. CASE q = z
      <4>1. RemoveFromTree(t, z).children[q] = << >>
        BY <1>4, <2>3, <3>1
      <4> QED BY <4>1 DEF Precedes
    <3> QED BY <3>1
  <2> QED BY <1>4, <2>3, <2>4
<1>9. Precedes(handed[q], y, x)
  <2> HIDE DEF p, handed
  <2> QED BY <1>3, <1>7, <1>8, RemoveChildKeepsOrder
<1>10. Precedes(t.children[q], y, x)
  <2>1. CASE p = q
    <3>1. handed[q] = t.children[p] \o tail
      BY <1>1, <2>1, NoItemAssumption
    <3>2. x \in ToSet(t.children[q]) /\ y \in ToSet(t.children[q])
      BY <1>5, PrecedesIn
    <3> HIDE DEF handed
    <3> QED BY <1>6, <1>9, <2>1, <3>1, <3>2, NoItemAssumption, ConcatKeepsOrder
  <2>2. CASE p # q
    <3>1. handed[q] = t.children[q]
      BY <1>1, <2>2
    <3> QED BY <1>9, <3>1
  <2> QED BY <2>1, <2>2
<1> QED BY <1>5, <1>10, NeverBothWays

LEMMA DropKeepsOrder ==
  ASSUME NEW t, Consistent(t), NEW S, NEW p \in ItemOrNone, NEW z \in Item,
         NEW u, u.children = RemoveChild([y \in Item |-> IF y \in S THEN << >>
                                                        ELSE t.children[y]], p, z)
  PROVE  OrderKept(t, u)
<1> DEFINE left == [y \in Item |-> IF y \in S THEN << >> ELSE t.children[y]]
<1>1. /\ t.children \in [Item -> Seq(Item)]
      /\ \A q \in Item : Injective(t.children[q])
  BY ConsistentElim
<1>2. left \in [Item -> Seq(Item)]
  BY <1>1
<1> SUFFICES ASSUME NEW x \in Item, NEW y \in Item, NEW q \in Item,
                    Precedes(t.children[q], x, y), Precedes(u.children[q], y, x)
             PROVE  FALSE
  BY DEF OrderKept
<1>3. Precedes(left[q], y, x)
  <2> HIDE DEF left
  <2>1. u.children = RemoveChild(left, p, z)
    BY DEF left
  <2> QED BY <1>2, <2>1, RemoveChildKeepsOrder
<1>4. left[q] = t.children[q]
  <2>1. CASE q \in S
    <3>1. left[q] = << >>
      BY <2>1
    <3> QED BY <1>3, <3>1 DEF Precedes
  <2> QED BY <2>1
<1> QED BY <1>1, <1>3, <1>4, NeverBothWays

(* No move or removal swaps two items that stay below the same parent,       *)
(* although remove() hands its children over in reverse.                    *)
THEOREM SiblingsKeepTheirOrder == Spec => SiblingOrderKept
<1>1. HierarchyInv /\ [Next]_tree => [OrderKept(tree, tree')]_tree
  <2> SUFFICES ASSUME HierarchyInv, Next PROVE OrderKept(tree, tree')
    OBVIOUS
  <2>0. Consistent(tree) /\ AcyclicIn(tree) /\ tree.parent \in [Item -> ItemOrNone]
    BY DEF HierarchyInv, Consistent, Tree
  <2>1. ASSUME NEW x \in Item, NEW p \in ItemOrNone, NEW position \in 0 .. AtEnd,
               Attach(x, p, position)
        PROVE  OrderKept(tree, tree')
    BY <2>0, <2>1, SetParentKeepsOrder DEF Attach
  <2>2. ASSUME NEW x \in Item, RemoveItem(x) PROVE OrderKept(tree, tree')
    BY <2>0, <2>2, RemoveKeepsOrder DEF RemoveItem
  <2>3. ASSUME NEW x \in Item, RecursiveRemove(x) PROVE OrderKept(tree, tree')
    <3>1. tree'.children = RemoveChild([y \in Item |-> IF y \in Subtree(tree, x) THEN << >>
                                          ELSE tree.children[y]], tree.parent[x], x)
      BY <2>3 DEF RecursiveRemove, RecursiveRemoveFromTree, Dismantled
    <3> QED BY <2>0, <3>1, DropKeepsOrder
  <2>4. ASSUME NEW x \in Item, RemoveAllChildrenRecursively(x) PROVE OrderKept(tree, tree')
    <3>1. tree'.children = RemoveChild([y \in Item |-> IF y \in Subtree(tree, x) THEN << >>
                                          ELSE tree.children[y]], NoItem, x)
      BY <2>4 DEF RemoveAllChildrenRecursively, RemoveChildrenFromTree, Dismantled, RemoveChild
    <3>2. NoItem \in ItemOrNone
      BY DEF ItemOrNone
    <3> QED BY <2>0, <3>1, <3>2, DropKeepsOrder
  <2> QED BY <2>1, <2>2, <2>3, <2>4 DEF Next
<1>2. Spec => [][OrderKept(tree, tree')]_tree
  BY <1>1, SpecInv, PTL DEF Spec
<1> QED BY <1>2 DEF SiblingOrderKept, OrderKept

-----------------------------------------------------------------------------
(* The nodes of a scene *)

NodeTypes ==
  /\ hosted \in SUBSET Item
  /\ local \in [Item -> Place] /\ world \in [Item -> Place]
  /\ mesh \in Mesh

(* Membership follows the tree only while the tree is consistent: a subtree *)
(* that was not closed under taking children would leave some behind.       *)
NodesInv == HierarchyInv /\ NodeTypes /\ HostsFollowTree

-----------------------------------------------------------------------------
(* A scene only moves its nodes by the operations of the hierarchy.         *)
LEMMA NodesStepIsStep == [NodesNext]_sceneVars => [Next]_tree
<1> SUFFICES ASSUME [NodesNext]_sceneVars PROVE [Next]_tree
  OBVIOUS
<1>0. AtEnd \in 0 .. AtEnd
  BY ItemsAssumption, FS_CardinalityType DEF AtEnd
<1>1. CASE UpdateTransforms
  BY <1>1 DEF UpdateTransforms
<1>2. ASSUME NEW x \in Item, NEW p \in ItemOrNone, SetNodeParent(x, p) PROVE Next
  BY <1>0, <1>2 DEF SetNodeParent, Next
<1>3. ASSUME NEW x \in Item, RemoveNode(x) PROVE Next
  BY <1>3 DEF RemoveNode, Next
<1>4. ASSUME NEW x \in Item, RecursiveRemoveNode(x) PROVE Next
  BY <1>4 DEF RecursiveRemoveNode, Next
<1>5. ASSUME NEW x \in Item, RemoveNodesBelow(x) PROVE Next
  BY <1>5 DEF RemoveNodesBelow, Next
<1>6. ASSUME NEW x \in Item, SetActive(x) PROVE UNCHANGED tree
  BY <1>6 DEF SetActive
<1>7. ASSUME NEW x \in Item, NEW place \in Place, SetTransform(x, place)
      PROVE  UNCHANGED tree
  BY <1>7 DEF SetTransform
<1>8. ASSUME NEW n \in Carriers \cup {NoItem}, AttachMesh(n) PROVE UNCHANGED tree
  BY <1>8 DEF AttachMesh
<1>9. CASE UNCHANGED sceneVars
  BY <1>9 DEF sceneVars
<1> QED BY <1>1, <1>2, <1>3, <1>4, <1>5, <1>6, <1>7, <1>8, <1>9 DEF NodesNext

-----------------------------------------------------------------------------
(* What the tree operations do to the parents *)

(* Each operation but RemoveNode cuts x off, or hangs it below p.           *)
LEMMA ParentsAfter ==
  ASSUME HierarchyInv, NEW x \in Item
  PROVE  /\ \A p \in ItemOrNone : SetNodeParent(x, p) =>
              tree'.parent = [tree.parent EXCEPT ![x] = p]
         /\ RemoveNode(x) =>
              tree'.parent = [y \in Item |-> IF y = x THEN NoItem
                                ELSE IF tree.parent[y] = x THEN tree.parent[x]
                                     ELSE tree.parent[y]]
         /\ RecursiveRemoveNode(x) =>
              tree'.parent = [y \in Item |-> IF y \in Subtree(tree, x) THEN NoItem
                                ELSE tree.parent[y]]
         /\ RemoveNodesBelow(x) =>
              tree'.parent = [y \in Item |-> IF y \in Subtree(tree, x) \ {x} THEN NoItem
                                ELSE tree.parent[y]]
<1>1. ASSUME NEW p \in ItemOrNone, SetNodeParent(x, p)
      PROVE  tree'.parent = [tree.parent EXCEPT ![x] = p]
  <2>1. AtEnd \in Nat
    BY ItemsAssumption, FS_CardinalityType DEF AtEnd
  <2> QED BY <1>1, <2>1, SetParentConsistent DEF SetNodeParent, Attach, HierarchyInv
<1>2. ASSUME RemoveNode(x)
      PROVE  tree'.parent = [y \in Item |-> IF y = x THEN NoItem
                                ELSE IF tree.parent[y] = x THEN tree.parent[x]
                                     ELSE tree.parent[y]]
  BY <1>2 DEF RemoveNode, RemoveItem, RemoveFromTree
<1>3. ASSUME RecursiveRemoveNode(x)
      PROVE  tree'.parent = [y \in Item |-> IF y \in Subtree(tree, x) THEN NoItem
                                ELSE tree.parent[y]]
  BY <1>3 DEF RecursiveRemoveNode, RecursiveRemove, RecursiveRemoveFromTree, Dismantled
<1>4. ASSUME RemoveNodesBelow(x)
      PROVE  tree'.parent = [y \in Item |-> IF y \in Subtree(tree, x) \ {x} THEN NoItem
                                ELSE tree.parent[y]]
  BY <1>4 DEF RemoveNodesBelow, RemoveAllChildrenRecursively, RemoveChildrenFromTree,
              Dismantled
<1> QED BY <1>1, <1>2, <1>3, <1>4

(* The root is in no subtree but its own. *)
LEMMA RootOnTop ==
  ASSUME NodesInv, NEW x \in Item, x # Root
  PROVE  Root \notin Subtree(tree, x)
<1>1. tree.parent \in [Item -> ItemOrNone] /\ tree.parent[Root] = NoItem
  BY DEF NodesInv, HierarchyInv, Consistent, Tree, HostsFollowTree
<1>2. Root \in Subtree(tree, x) => tree.parent[Root] \in Item
  BY <1>1, SubtreeClosed
<1> QED BY <1>1, <1>2, NoItemAssumption

-----------------------------------------------------------------------------
(* What keeping the places does *)

LEMMA PlacesKept ==
  ASSUME NodesInv, tree'.parent \in [Item -> ItemOrNone], NEW S \in SUBSET Item,
         KeepPlaces(S),
         \A y \in Item \ S : tree'.parent[y] \in {tree.parent[y], NoItem}
  PROVE  /\ world' = world
         /\ local' \in [Item -> Place]
         /\ \A y \in Item : InPlace(y) => InPlace(y)'
         /\ mesh'.node = mesh.node
         /\ mesh' \in Mesh
         /\ mesh'.entries = mesh.entries + Count(mesh.node, hosted')
                                         - Count(mesh.node, hosted)
<1>0. /\ world \in [Item -> Place] /\ local \in [Item -> Place] /\ mesh \in Mesh
  BY DEF NodesInv, NodeTypes
<1>1. ASSUME NEW y \in S
      PROVE  /\ local'[y] = LocalFor(tree', world, y) /\ local'[y] \in Place
             /\ world'[y] = WorldFor(tree', world, local', y)
             /\ world'[y] = world[y]
  <2>1. /\ local'[y] = LocalFor(tree', world, y)
        /\ world'[y] = WorldFor(tree', world, local', y)
    BY DEF KeepPlaces
  <2>2. CASE tree'.parent[y] = NoItem
    BY <1>0, <2>1, <2>2 DEF LocalFor, WorldFor
  <2>3. CASE tree'.parent[y] # NoItem
    <3>1. tree'.parent[y] \in Item
      BY <2>3 DEF ItemOrNone
    <3>2. world[tree'.parent[y]] \in Place /\ world[y] \in Place
      BY <1>0, <3>1
    <3> DEFINE a == world[tree'.parent[y]]
               b == world[y]
    <3>3. /\ local'[y] = Compose(Invert(a), b)
          /\ world'[y] = Compose(a, local'[y])
      BY <2>1, <2>3 DEF LocalFor, WorldFor
    <3>4. a \in Place /\ b \in Place
      BY <3>2
    <3>5. Invert(a) \in Place /\ Compose(Invert(a), b) \in Place
      BY <3>4, PlaceAssumption
    <3>6. Compose(a, Compose(Invert(a), b)) = b
      BY <3>4, PlaceAssumption
    <3> QED BY <2>1, <3>3, <3>5, <3>6
  <2> QED BY <2>1, <2>2, <2>3
<1>2. ASSUME NEW y \in Item \ S
      PROVE  local'[y] = local[y] /\ world'[y] = world[y]
  BY DEF KeepPlaces
<1>3. world' = world
  <2>1. world' = [y \in Item |-> world'[y]]
    BY DEF KeepPlaces
  <2>2. \A y \in Item : world'[y] = world[y]
    BY <1>1, <1>2
  <2> QED BY <1>0, <2>1, <2>2
<1>4. local' \in [Item -> Place]
  <2>1. local' = [y \in Item |-> local'[y]]
    BY DEF KeepPlaces
  <2>2. \A y \in Item : local'[y] \in Place
    BY <1>0, <1>1, <1>2
  <2> QED BY <2>1, <2>2
<1>5. ASSUME NEW y \in Item, InPlace(y) PROVE InPlace(y)'
  <2>1. CASE y \in S
    BY <1>1, <1>3, <2>1 DEF InPlace, WorldFor
  <2>2. CASE y \notin S
    BY <1>2, <1>3, <1>5, <2>2 DEF InPlace
  <2> QED BY <2>1, <2>2
<1>6. DEFINE m == Reregistered(mesh, hosted, hosted')
<1>7. /\ m.node = mesh.node /\ m \in Mesh
      /\ m.entries = mesh.entries + Count(mesh.node, hosted') - Count(mesh.node, hosted)
  <2>1. Count(mesh.node, hosted') \in Int /\ Count(mesh.node, hosted) \in Int
    BY DEF Count
  <2> QED BY <1>0, <2>1 DEF Mesh, Reregistered
<1>8. /\ mesh'.node = m.node /\ mesh'.entries = m.entries /\ mesh' \in Mesh
  <2>1. mesh' = Retraced(m, S, world)
    BY <1>3 DEF KeepPlaces
  <2>2. m.node \in S => world[m.node] \in Place
    BY <1>0
  <2> HIDE DEF m
  <2> QED BY <1>7, <2>1, <2>2 DEF Retraced, Mesh
<1> QED BY <1>3, <1>4, <1>5, <1>7, <1>8

-----------------------------------------------------------------------------
(* The invariant *)

LEMMA NodesInitInv == NodesInit => NodesInv
<1> SUFFICES ASSUME NodesInit PROVE NodesInv
  OBVIOUS
<1>1. HierarchyInv
  BY InitInv DEF NodesInit
<1>2. NodeTypes
  BY RootAssumption, NodesAssumption, PlaceAssumption DEF NodesInit, NodeTypes, Mesh
<1>3. HostsFollowTree
  <2>1. \A x \in Item : tree.parent[x] = NoItem
    BY DEF NodesInit, Init, Bare
  <2> QED BY <2>1, RootAssumption, NoItemAssumption
          DEF NodesInit, HostsFollowTree, Count
<1> QED BY <1>1, <1>2, <1>3 DEF NodesInv

(* The mesh goes in and out with its node. *)
LEMMA EntriesFollow ==
  ASSUME NodesInv,
         mesh'.node = mesh.node,
         mesh'.entries = mesh.entries + Count(mesh.node, hosted')
                                      - Count(mesh.node, hosted)
  PROVE  mesh'.entries = Count(mesh'.node, hosted')
<1>1. Count(mesh.node, hosted') \in Int /\ Count(mesh.node, hosted) \in Int
  BY DEF Count
<1>2. mesh.entries = Count(mesh.node, hosted)
  BY DEF NodesInv, HostsFollowTree
<1> QED BY <1>1, <1>2 DEF Count

(* Each tree operation keeps the invariant when it takes whole subtrees in   *)
(* and out: the two facts that differ between them are its assumptions.     *)
LEMMA TreeStepInv ==
  ASSUME NodesInv, HierarchyInv', NEW S \in SUBSET Item, KeepPlaces(S),
         \A y \in Item \ S : tree'.parent[y] \in {tree.parent[y], NoItem},
         hosted' \in SUBSET Item, Root \in hosted', tree'.parent[Root] = NoItem,
         \A y \in Item \ {Root} : y \in hosted' <=> tree'.parent[y] \in hosted'
  PROVE  NodesInv'
<1>1. tree'.parent \in [Item -> ItemOrNone]
  BY DEF HierarchyInv, Consistent, Tree
<1>2. /\ world' = world /\ local' \in [Item -> Place]
      /\ mesh'.node = mesh.node /\ mesh' \in Mesh
      /\ mesh'.entries = mesh.entries + Count(mesh.node, hosted')
                                      - Count(mesh.node, hosted)
  BY <1>1, PlacesKept
<1>3. NodeTypes'
  BY <1>2 DEF NodesInv, NodeTypes
<1>4. mesh'.entries = Count(mesh'.node, hosted')
  BY <1>2, EntriesFollow
<1>5. HostsFollowTree'
  BY <1>4 DEF HostsFollowTree, Count
<1> QED BY <1>3, <1>5 DEF NodesInv

LEMMA SetNodeParentInv ==
  ASSUME NodesInv, HierarchyInv', NEW x \in Item, NEW p \in ItemOrNone, SetNodeParent(x, p)
  PROVE  NodesInv'
<1> DEFINE T == Subtree(tree, x)
           S == IF p = NoItem THEN {} ELSE {x}
<1>1. /\ x # Root /\ KeepPlaces(S) /\ hosted' = HostedAfter(x, p)
      /\ tree'.parent = [tree.parent EXCEPT ![x] = p]
  BY ParentsAfter DEF SetNodeParent, Rehost, NodesInv
<1>2. /\ tree.parent \in [Item -> ItemOrNone] /\ hosted \in SUBSET Item
      /\ Root \in hosted /\ tree.parent[Root] = NoItem
      /\ \A y \in Item \ {Root} : y \in hosted <=> tree.parent[y] \in hosted
  BY DEF NodesInv, NodeTypes, HostsFollowTree, HierarchyInv, Consistent, Tree
<1>3. /\ x \in T /\ T \in SUBSET Item /\ Root \notin T
      /\ \A y \in Item : tree.parent[y] \in T => y \in T
      /\ \A y \in T : y # x => tree.parent[y] \in T
  BY <1>1, <1>2, SubtreeClosed, RootOnTop
<1> HIDE DEF T
<1>4. /\ tree'.parent[Root] = NoItem
      /\ tree'.parent[x] = p /\ \A y \in Item : y # x => tree'.parent[y] = tree.parent[y]
  BY <1>1, <1>2
<1>5. \A y \in Item \ S : tree'.parent[y] \in {tree.parent[y], NoItem}
  BY <1>4
<1>6. /\ hosted' \in SUBSET Item /\ Root \in hosted'
      /\ \A y \in Item \ {Root} : y \in hosted' <=> tree'.parent[y] \in hosted'
  <2>1. CASE tree.parent[x] \in hosted <=> p \in hosted
    <3>1. hosted' = hosted
      BY <1>1, <2>1 DEF HostedAfter
    <3> QED BY <1>1, <1>2, <1>4, <2>1, <3>1
  <2>2. CASE tree.parent[x] \notin hosted /\ p \in hosted
    <3>1. hosted' = hosted \cup T
      BY <1>1, <2>2 DEF HostedAfter, T
    <3> QED BY <1>1, <1>2, <1>3, <1>4, <2>2, <3>1
  <2>3. CASE tree.parent[x] \in hosted /\ p \notin hosted
    <3>1. hosted' = hosted \ T
      BY <1>1, <2>3 DEF HostedAfter, T
    <3> QED BY <1>1, <1>2, <1>3, <1>4, <2>3, <3>1
  <2> QED BY <2>1, <2>2, <2>3
<1> QED BY <1>1, <1>4, <1>5, <1>6, TreeStepInv

LEMMA RemoveNodeInv ==
  ASSUME NodesInv, HierarchyInv', NEW x \in Item, RemoveNode(x)
  PROVE  NodesInv'
<1> DEFINE S == MovedUp(x)
<1>1. /\ x # Root /\ KeepPlaces(S) /\ hosted' = hosted \ {x}
      /\ tree'.parent = [y \in Item |-> IF y = x THEN NoItem
                           ELSE IF tree.parent[y] = x THEN tree.parent[x]
                                ELSE tree.parent[y]]
  BY ParentsAfter DEF RemoveNode, Rehost, NodesInv
<1>2. /\ tree.parent \in [Item -> ItemOrNone] /\ hosted \in SUBSET Item
      /\ Root \in hosted /\ tree.parent[Root] = NoItem
      /\ \A y \in Item \ {Root} : y \in hosted <=> tree.parent[y] \in hosted
      /\ NoItem \notin Item
  BY NoItemAssumption DEF NodesInv, NodeTypes, HostsFollowTree, HierarchyInv, Consistent, Tree
<1>3. ToSet(tree.children[x]) = {y \in Item : tree.parent[y] = x}
  BY ConsistentElim DEF NodesInv, HierarchyInv
<1>4. /\ S \in SUBSET Item
      /\ \A y \in Item \ S : tree'.parent[y] \in {tree.parent[y], NoItem}
  <2>1. CASE tree.parent[x] = NoItem
    BY <1>1, <2>1 DEF MovedUp
  <2>2. CASE tree.parent[x] # NoItem
    BY <1>1, <1>3, <2>2 DEF MovedUp
  <2> QED BY <2>1, <2>2
<1>5. tree.parent[x] # x
  <2>1. {x} \in SUBSET Item /\ {x} # {}
    OBVIOUS
  <2>2. \E y \in {x} : tree.parent[y] \notin {x}
    BY <2>1 DEF NodesInv, HierarchyInv, AcyclicIn
  <2> QED BY <2>2
<1>6. /\ hosted' \in SUBSET Item /\ Root \in hosted' /\ tree'.parent[Root] = NoItem
      /\ \A y \in Item \ {Root} : y \in hosted' <=> tree'.parent[y] \in hosted'
  <2>1. hosted' \in SUBSET Item /\ Root \in hosted' /\ tree'.parent[Root] = NoItem
    BY <1>1, <1>2, RootAssumption
  <2>2. ASSUME NEW y \in Item \ {Root}
        PROVE  y \in hosted' <=> tree'.parent[y] \in hosted'
    <3>1. CASE y = x
      BY <1>1, <1>2, <3>1
    <3>2. CASE y # x /\ tree.parent[y] = x
      BY <1>1, <1>2, <1>5, <3>2
    <3>3. CASE y # x /\ tree.parent[y] # x
      BY <1>1, <1>2, <3>3
    <3> QED BY <3>1, <3>2, <3>3
  <2> QED BY <2>1, <2>2
<1> HIDE DEF S
<1> QED BY <1>1, <1>4, <1>6, TreeStepInv

(* The two recursive removals cut off the nodes of a set C that holds whole  *)
(* subtrees.                                                               *)
LEMMA CutOffInv ==
  ASSUME NodesInv, HierarchyInv', NEW C \in SUBSET Item, Root \notin C, KeepPlaces({}),
         hosted' = hosted \ C,
         \A y \in Item : tree.parent[y] \in C => y \in C,
         tree'.parent = [y \in Item |-> IF y \in C THEN NoItem ELSE tree.parent[y]]
  PROVE  NodesInv'
<1>1. /\ hosted \in SUBSET Item /\ Root \in hosted /\ tree.parent[Root] = NoItem
      /\ \A y \in Item \ {Root} : y \in hosted <=> tree.parent[y] \in hosted
      /\ NoItem \notin Item
  BY NoItemAssumption DEF NodesInv, NodeTypes, HostsFollowTree
<1>2. /\ hosted' \in SUBSET Item /\ Root \in hosted' /\ tree'.parent[Root] = NoItem
      /\ \A y \in Item \ {Root} : y \in hosted' <=> tree'.parent[y] \in hosted'
  BY <1>1, RootAssumption
<1>3. \A y \in Item \ {} : tree'.parent[y] \in {tree.parent[y], NoItem}
  OBVIOUS
<1>4. {} \in SUBSET Item
  OBVIOUS
<1> QED BY <1>2, <1>3, <1>4, TreeStepInv

LEMMA RecursiveRemoveNodeInv ==
  ASSUME NodesInv, HierarchyInv', NEW x \in Item, RecursiveRemoveNode(x)
  PROVE  NodesInv'
<1> DEFINE C == Subtree(tree, x)
<1>1. /\ x # Root /\ KeepPlaces({}) /\ hosted' = hosted \ C
      /\ tree'.parent = [y \in Item |-> IF y \in C THEN NoItem ELSE tree.parent[y]]
  BY ParentsAfter DEF RecursiveRemoveNode, Rehost, NodesInv
<1>2. tree.parent \in [Item -> ItemOrNone]
  BY DEF NodesInv, HierarchyInv, Consistent, Tree
<1>3. /\ C \in SUBSET Item /\ Root \notin C
      /\ \A y \in Item : tree.parent[y] \in C => y \in C
  BY <1>1, <1>2, SubtreeClosed, RootOnTop
<1> HIDE DEF C
<1> QED BY <1>1, <1>3, CutOffInv

LEMMA RemoveNodesBelowInv ==
  ASSUME NodesInv, HierarchyInv', NEW x \in Item, RemoveNodesBelow(x)
  PROVE  NodesInv'
<1> DEFINE T == Subtree(tree, x)
           C == T \ {x}
<1>1. /\ KeepPlaces({}) /\ hosted' = hosted \ C
      /\ tree'.parent = [y \in Item |-> IF y \in C THEN NoItem ELSE tree.parent[y]]
  BY ParentsAfter DEF RemoveNodesBelow, Rehost, NodesInv
<1>2. tree.parent \in [Item -> ItemOrNone]
  BY DEF NodesInv, HierarchyInv, Consistent, Tree
<1>3. /\ T \in SUBSET Item /\ x \in T
      /\ \A y \in Item : tree.parent[y] \in T => y \in T
      /\ \A y \in T : y # x => tree.parent[y] \in T
  BY <1>2, SubtreeClosed
<1>4. Root \notin C
  BY RootOnTop
<1> HIDE DEF T
<1>5. tree.parent[x] \notin T
  <2>1. \E y \in T : tree.parent[y] \notin T
    BY <1>3 DEF NodesInv, HierarchyInv, AcyclicIn
  <2> QED BY <1>3, <2>1
<1>6. \A y \in Item : tree.parent[y] \in C => y \in C
  BY <1>3, <1>5
<1> QED BY <1>1, <1>3, <1>4, <1>6, CutOffInv

LEMMA AttachMeshInv ==
  ASSUME NodesInv, HierarchyInv', NEW n \in Carriers \cup {NoItem}, AttachMesh(n)
  PROVE  NodesInv'
<1> DEFINE moved == [node |-> n, traced |-> mesh.traced,
                    entries |-> mesh.entries + Count(n, hosted) - Count(mesh.node, hosted)]
<1>1. /\ UNCHANGED << tree, hosted, local, world >>
      /\ mesh' = moved \/ mesh' = Retraced(moved, Item, world)
  BY DEF AttachMesh
<1>2. /\ mesh \in Mesh /\ world \in [Item -> Place]
      /\ mesh.entries = Count(mesh.node, hosted)
  BY DEF NodesInv, NodeTypes, HostsFollowTree
<1>3. Count(n, hosted) \in Int /\ Count(mesh.node, hosted) \in Int
  BY DEF Count
<1>4. moved \in Mesh /\ moved.node = n /\ moved.entries = Count(n, hosted)
  BY <1>2, <1>3 DEF Mesh
<1> HIDE DEF moved
<1>5. mesh' \in Mesh /\ mesh'.node = n /\ mesh'.entries = Count(n, hosted)
  BY <1>1, <1>2, <1>4 DEF Retraced, Mesh
<1>6. NodeTypes'
  BY <1>1, <1>5 DEF NodesInv, NodeTypes
<1>7. HostsFollowTree'
  BY <1>1, <1>5 DEF NodesInv, HostsFollowTree, Count
<1> QED BY <1>6, <1>7 DEF NodesInv

(* The steps that only write transforms. *)
LEMMA TransformsOnlyInv ==
  ASSUME NodesInv, HierarchyInv', UNCHANGED << tree, hosted >>,
         local' \in [Item -> Place], world' \in [Item -> Place],
         NEW S \in SUBSET Item, mesh' = Retraced(mesh, S, world')
  PROVE  NodesInv'
<1>1. /\ mesh \in Mesh /\ mesh.entries = Count(mesh.node, hosted)
  BY DEF NodesInv, NodeTypes, HostsFollowTree
<1>2. /\ mesh' \in Mesh /\ mesh'.node = mesh.node /\ mesh'.entries = mesh.entries
  BY <1>1 DEF Retraced, Mesh
<1>3. NodeTypes'
  BY <1>2 DEF NodesInv, NodeTypes
<1>4. HostsFollowTree'
  BY <1>1, <1>2 DEF NodesInv, HostsFollowTree, Count
<1> QED BY <1>3, <1>4 DEF NodesInv

LEMMA NodesNextInv == NodesInv /\ [NodesNext]_sceneVars => NodesInv'
<1> SUFFICES ASSUME NodesInv, [NodesNext]_sceneVars PROVE NodesInv'
  OBVIOUS
<1>0. HierarchyInv'
  BY NodesStepIsStep, NextInv DEF NodesInv
<1>1. ASSUME UpdateTransforms PROVE NodesInv'
  <2>1. /\ UNCHANGED << tree, hosted, local >> /\ world' \in [Item -> Place]
        /\ mesh' = Retraced(mesh, Refreshed, world')
    BY <1>1 DEF UpdateTransforms
  <2>2. Refreshed \in SUBSET Item
    BY DEF Refreshed
  <2>3. local' \in [Item -> Place]
    BY <2>1 DEF NodesInv, NodeTypes
  <2> QED BY <1>0, <2>1, <2>2, <2>3, TransformsOnlyInv
<1>2. ASSUME NEW x \in Item, NEW p \in ItemOrNone, SetNodeParent(x, p) PROVE NodesInv'
  BY <1>0, <1>2, SetNodeParentInv
<1>3. ASSUME NEW x \in Item, RemoveNode(x) PROVE NodesInv'
  BY <1>0, <1>3, RemoveNodeInv
<1>4. ASSUME NEW x \in Item, RecursiveRemoveNode(x) PROVE NodesInv'
  BY <1>0, <1>4, RecursiveRemoveNodeInv
<1>5. ASSUME NEW x \in Item, RemoveNodesBelow(x) PROVE NodesInv'
  BY <1>0, <1>5, RemoveNodesBelowInv
<1>6. ASSUME NEW x \in Item, SetActive(x) PROVE NodesInv'
  <2>1. UNCHANGED << tree, hosted, local, world, mesh >>
    BY <1>6 DEF SetActive
  <2> QED BY <1>0, <2>1 DEF NodesInv, NodeTypes, HostsFollowTree, Count
<1>7. ASSUME NEW x \in Item, NEW place \in Place, SetTransform(x, place) PROVE NodesInv'
  <2>1. /\ UNCHANGED << tree, hosted >> /\ local' = [local EXCEPT ![x] = place]
        /\ world' = [world EXCEPT ![x] = WorldFor(tree, world, local', x)]
        /\ mesh' = Retraced(mesh, {x}, world')
    BY <1>7 DEF SetTransform
  <2>2. /\ world \in [Item -> Place] /\ local' \in [Item -> Place]
        /\ tree.parent[x] \in ItemOrNone
    BY <2>1 DEF NodesInv, NodeTypes, HierarchyInv, Consistent, Tree
  <2>3. WorldFor(tree, world, local', x) \in Place
    <3>1. CASE tree.parent[x] = NoItem
      BY <2>2, <3>1 DEF WorldFor
    <3>2. CASE tree.parent[x] # NoItem
      <4>1. world[tree.parent[x]] \in Place /\ local'[x] \in Place
        BY <2>2, <3>2 DEF ItemOrNone
      <4>2. Compose(world[tree.parent[x]], local'[x]) \in Place
        BY <4>1, PlaceAssumption
      <4> QED BY <3>2, <4>2 DEF WorldFor
    <3> QED BY <3>1, <3>2
  <2>4. world' \in [Item -> Place]
    BY <2>1, <2>2, <2>3
  <2>5. {x} \in SUBSET Item
    OBVIOUS
  <2> QED BY <1>0, <2>1, <2>2, <2>4, <2>5, TransformsOnlyInv
<1>8. ASSUME NEW n \in Carriers \cup {NoItem}, AttachMesh(n) PROVE NodesInv'
  BY <1>0, <1>8, AttachMeshInv
<1>9. CASE UNCHANGED sceneVars
  <2>1. UNCHANGED << tree, hosted, local, world, mesh >>
    BY <1>9 DEF sceneVars
  <2> QED BY <1>0, <2>1 DEF NodesInv, NodeTypes, HostsFollowTree, Count
<1> QED BY <1>1, <1>2, <1>3, <1>4, <1>5, <1>6, <1>7, <1>8, <1>9 DEF NodesNext

LEMMA NodesSpecInv == NodesSpec => []NodesInv
BY NodesInitInv, NodesNextInv, PTL DEF NodesSpec

-----------------------------------------------------------------------------
(* The scene implements the item hierarchy: every theorem about Spec, the    *)
(* agreement of its links and its freedom from cycles, holds of a scene.    *)
THEOREM SceneIsHierarchy == NodesSpec => Spec
<1>1. NodesInit => Init
  BY DEF NodesInit
<1> QED BY <1>1, NodesStepIsStep, PTL DEF NodesSpec, Spec

(* A node is registered in the scene exactly while it hangs below the root,  *)
(* and a mesh while it is attached to such a node: no ERHE_VERIFY about     *)
(* hosts fails.                                                             *)
THEOREM HostsAlwaysFollowTree == NodesSpec => []HostsFollowTree
<1>1. NodesInv => HostsFollowTree
  BY DEF NodesInv
<1> QED BY <1>1, NodesSpecInv, PTL

-----------------------------------------------------------------------------
(* Rearranging the tree *)

Kept == tree' # tree => /\ world' = world
                        /\ \A x \in Item : InPlace(x) => InPlace(x)'

LEMMA StepKeepsPlaces == NodesInv /\ [NodesNext]_sceneVars => [Kept]_sceneVars
<1> SUFFICES ASSUME NodesInv, NodesNext, tree' # tree PROVE Kept
  BY DEF Kept
<1>0. /\ tree'.parent \in [Item -> ItemOrNone]
      /\ HierarchyInv /\ {} \in SUBSET Item
  <2>1. HierarchyInv'
    BY NodesStepIsStep, NextInv DEF NodesInv
  <2> QED BY <2>1 DEF HierarchyInv, Consistent, Tree, NodesInv
<1>1. ASSUME NEW x \in Item, NEW p \in ItemOrNone, SetNodeParent(x, p) PROVE Kept
  <2>1. tree'.parent = [tree.parent EXCEPT ![x] = p]
    BY <1>0, <1>1, ParentsAfter
  <2> DEFINE S == IF p = NoItem THEN {} ELSE {x}
  <2>2. /\ S \in SUBSET Item /\ KeepPlaces(S)
        /\ \A y \in Item \ S : tree'.parent[y] \in {tree.parent[y], NoItem}
    BY <1>1, <1>0, <2>1 DEF SetNodeParent, HierarchyInv, Consistent, Tree
  <2> HIDE DEF S
  <2> QED BY <1>0, <2>2, PlacesKept DEF Kept
<1>2. ASSUME NEW x \in Item, RemoveNode(x) PROVE Kept
  <2> DEFINE S == MovedUp(x)
  <2>1. tree'.parent = [y \in Item |-> IF y = x THEN NoItem
                         ELSE IF tree.parent[y] = x THEN tree.parent[x]
                              ELSE tree.parent[y]]
    BY <1>0, <1>2, ParentsAfter
  <2>2. ToSet(tree.children[x]) = {y \in Item : tree.parent[y] = x}
    BY <1>0, ConsistentElim DEF HierarchyInv
  <2>3. /\ S \in SUBSET Item
        /\ \A y \in Item \ S : tree'.parent[y] \in {tree.parent[y], NoItem}
    <3>1. CASE tree.parent[x] = NoItem
      BY <2>1, <3>1 DEF MovedUp
    <3>2. CASE tree.parent[x] # NoItem
      BY <2>1, <2>2, <3>2 DEF MovedUp
    <3> QED BY <3>1, <3>2
  <2>4. KeepPlaces(S)
    BY <1>2 DEF RemoveNode
  <2> HIDE DEF S
  <2> QED BY <1>0, <2>3, <2>4, PlacesKept DEF Kept
<1>3. ASSUME NEW x \in Item, RecursiveRemoveNode(x) PROVE Kept
  <2>1. KeepPlaces({})
    BY <1>3 DEF RecursiveRemoveNode
  <2>2. tree'.parent = [y \in Item |-> IF y \in Subtree(tree, x) THEN NoItem
                         ELSE tree.parent[y]]
    BY <1>0, <1>3, ParentsAfter
  <2>3. \A y \in Item \ {} : tree'.parent[y] \in {tree.parent[y], NoItem}
    BY <2>2
  <2> QED BY <1>0, <2>1, <2>3, PlacesKept DEF Kept
<1>4. ASSUME NEW x \in Item, RemoveNodesBelow(x) PROVE Kept
  <2>1. KeepPlaces({})
    BY <1>4 DEF RemoveNodesBelow
  <2>2. tree'.parent = [y \in Item |-> IF y \in Subtree(tree, x) \ {x} THEN NoItem
                         ELSE tree.parent[y]]
    BY <1>0, <1>4, ParentsAfter
  <2>3. \A y \in Item \ {} : tree'.parent[y] \in {tree.parent[y], NoItem}
    BY <2>2
  <2> QED BY <1>0, <2>1, <2>3, PlacesKept DEF Kept
<1>5. ~UpdateTransforms
  BY DEF UpdateTransforms
<1>6. /\ \A x \in Item : ~SetActive(x) /\ \A place \in Place : ~SetTransform(x, place)
      /\ \A n \in Carriers \cup {NoItem} : ~AttachMesh(n)
  BY DEF SetActive, SetTransform, AttachMesh
<1> QED BY <1>1, <1>2, <1>3, <1>4, <1>5, <1>6 DEF NodesNext

(* Moving, removing and handing over nodes never moves anything in the world *)
(* and breaks no agreement between a node and its parent.                   *)
THEOREM StructureAlwaysKeepsPlaces == NodesSpec => StructureKeepsPlaces
<1>1. [Kept]_sceneVars
        => [tree' # tree => /\ world' = world
                            /\ \A x \in Item : InPlace(x) => InPlace(x)']_sceneVars
  BY DEF Kept
<1> QED BY <1>1, NodesSpecInv, StepKeepsPlaces, PTL DEF NodesSpec, StructureKeepsPlaces

-----------------------------------------------------------------------------
(* The update after a node was added *)

(* In a vector sorted by depth a node that is deeper than another one comes  *)
(* after it.                                                                *)
LEMMA ShallowerFirst ==
  ASSUME NodesInv, order = << >>, NEW s \in SortedVectors,
         NEW x \in hosted \ {Root}, NEW y \in hosted \ {Root},
         tree.depth[y] < tree.depth[x]
  PROVE  Precedes(s, y, x)
<1>1. IsFiniteSet(hosted \ {Root}) /\ hosted \ {Root} \in SUBSET Item
  BY ItemsAssumption, FS_Subset DEF NodesInv, NodeTypes
<1>2. /\ s \in SetToSeqs(hosted \ {Root})
      /\ \A i \in 1 .. Len(s) - 1 : tree.depth[s[i]] <= tree.depth[s[i + 1]]
  BY DEF SortedVectors
<1>3. s \in Seq(hosted \ {Root}) /\ ToSet(s) = hosted \ {Root} /\ Len(s) \in Nat
  BY <1>1, <1>2, SetToSeqsFacts, LenProperties
<1>4. tree.depth \in [Item -> Nat]
  BY DEF NodesInv, HierarchyInv, Consistent, Tree
<1> DEFINE n == Len(s)
           f == [i \in 1 .. n |-> tree.depth[s[i]]]
<1>5. \A i \in 1 .. n : s[i] \in Item /\ f[i] = tree.depth[s[i]] /\ f[i] \in Int
  BY <1>1, <1>3, <1>4, ElementOfSeq
<1>6. \A i \in 1 .. n - 1 : f[i] <= f[i + 1]
  <2> TAKE i \in 1 .. n - 1
  <2>1. i \in 1 .. n /\ i + 1 \in 1 .. n
    BY <1>3
  <2> QED BY <2>1, <1>2, <1>5
<1>7. n \in Nat
  BY <1>3
<1> HIDE DEF f, n
<1>8. \A i, j \in 1 .. n : i <= j => f[i] <= f[j]
  BY <1>5, <1>6, <1>7, SortedMonotone
<1>9. PICK i \in 1 .. n : s[i] = y
  BY <1>3, ToSetDef DEF n
<1>10. PICK j \in 1 .. n : s[j] = x
  BY <1>3, ToSetDef DEF n
<1>11. i < j
  <2>1. f[i] < f[j]
    BY <1>5, <1>9, <1>10
  <2> QED BY <2>1, <1>5, <1>7, <1>8
<1> QED BY <1>9, <1>10, <1>11 DEF Precedes, n

LEMMA FirstUpdateExact ==
  NodesInv /\ UpdateTransforms /\ order = << >> => SceneInPlace'
<1> SUFFICES ASSUME NodesInv, UpdateTransforms, order = << >>
             PROVE  SceneInPlace'
  OBVIOUS
<1>1. /\ UNCHANGED << tree, hosted, local, awake >>
      /\ order' \in SortedVectors /\ Updated
      /\ mesh' = Retraced(mesh, Refreshed, world')
  BY DEF UpdateTransforms
<1>2. /\ hosted \in SUBSET Item /\ mesh \in Mesh
      /\ tree.parent \in [Item -> ItemOrNone] /\ tree.depth \in [Item -> Nat]
      /\ Root \in hosted /\ tree.parent[Root] = NoItem
      /\ \A x \in Item \ {Root} : x \in hosted <=> tree.parent[x] \in hosted
      /\ DepthIsDistanceIn(tree)
  BY DEF NodesInv, NodeTypes, HierarchyInv, Consistent, Tree, HostsFollowTree
<1>3. ToSet(order') = hosted \ {Root}
  <2>1. IsFiniteSet(hosted \ {Root})
    BY <1>2, ItemsAssumption, FS_Subset
  <2>2. order' \in SetToSeqs(hosted \ {Root})
    BY <1>1 DEF SortedVectors
  <2> QED BY <2>1, <2>2, SetToSeqsFacts
<1> DEFINE seen == hosted \ (awake \cup {Root})
<1>4. ASSUME NEW x \in seen
      PROVE  x \in Refreshed /\ InPlace(x)'
  <2> DEFINE q == tree.parent[x]
  <2>1. x \in Item /\ q \in hosted /\ q \in Item /\ q # NoItem
    BY <1>2, NoItemAssumption
  <2>2. x \in Refreshed
    BY <2>1, <1>3 DEF Refreshed
  <2>3. world'[x] = WorldFor(tree, IF Precedes(order', q, x) THEN world' ELSE world, local, x)
    BY <2>1, <2>2, <1>1 DEF Updated
  <2>4. Precedes(order', q, x) \/ world'[q] = world[q]
    <3>1. CASE q = Root
      <4>1. q \notin Refreshed
        BY <3>1, <1>2 DEF Refreshed
      <4> QED BY <4>1, <2>1, <1>1 DEF Updated
    <3>2. CASE q # Root
      <4>1. tree.depth[x] = tree.depth[q] + 1 /\ tree.depth[q] \in Nat
        BY <2>1, <1>2 DEF DepthIsDistanceIn
      <4>2. tree.depth[q] < tree.depth[x]
        BY <4>1
      <4> QED BY <3>2, <2>1, <4>2, <1>1, ShallowerFirst
    <3> QED BY <3>1, <3>2
  <2>5. world'[x] = Compose(world'[q], local[x])
    BY <2>1, <2>3, <2>4 DEF WorldFor
  <2> QED BY <2>2, <2>5, <1>1 DEF InPlace
<1>5. mesh'.node \in seen => mesh'.traced = world'[mesh'.node]
  <2>1. mesh'.node = mesh.node
    BY <1>1, <1>2 DEF Retraced, Mesh
  <2>2. CASE mesh.node \in seen
    <3>1. mesh.node \in Refreshed
      BY <2>2, <1>4
    <3>2. mesh' = [mesh EXCEPT !.traced = world'[mesh.node]]
      BY <3>1, <1>1 DEF Retraced
    <3> QED BY <3>2, <2>1, <1>2 DEF Mesh
  <2> QED BY <2>1, <2>2
<1>6. seen' = seen
  BY <1>1
<1> QED BY <1>4, <1>5, <1>6 DEF SceneInPlace

(* The depths that sort_transform_nodes() sorts by are right, so that every *)
(* parent comes before its children: the first update after nodes were      *)
(* registered leaves no transform that the next one would change.           *)
THEOREM FirstUpdateIsExact == NodesSpec => UpdateIsExact
<1>1. NodesInv /\ [NodesNext]_sceneVars
        => [UpdateTransforms /\ order = << >> => SceneInPlace']_sceneVars
  BY FirstUpdateExact
<1> QED BY <1>1, NodesSpecInv, PTL DEF NodesSpec, UpdateIsExact
=============================================================================
